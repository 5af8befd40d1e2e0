----------------------------- MODULE ControlLoop -----------------------------
(***************************************************************************)
(* The control thread of RmpflowControllerNode against the callbacks of    *)
(* the node's single-threaded executor: /RMP_flag, /goal and /goal_pose.   *)
(*                                                                         *)
(* A pose is the vector of the joint angles.  How low its lowest link is   *)
(* depends on all of them, in no simple way: the poses that pass the min-Z *)
(* check are any set of poses.  The solver and the robot are free (any     *)
(* pose may be predicted, any pose measured); what is modelled is the      *)
(* order in which the loop reads the shared flags, holds, guards, records  *)
(* and applies, and the writes the callbacks make in between.              *)
(***************************************************************************)
EXTENDS Integers

CONSTANTS
    Joints,
    MaxAngle,      \* joint angles are 0..MaxAngle
    Safe,          \* the poses above workspace_floor_z_, with every link
    MaxStep,       \* the guard's largest joint step in one cycle
    SyncStartup    \* initialize_goal_from_first_state_

Pose == [Joints -> 0..MaxAngle]

ASSUME ParameterAssumption ==
    /\ MaxAngle \in Nat /\ MaxStep \in Nat
    /\ Safe \subseteq Pose
    /\ SyncStartup \in BOOLEAN

VARIABLES
    ctl,              \* where control_loop() stands
    ros,              \* the callback the executor is in, and where
    gate_enabled,     \* rmp_flag_gate_enabled_, a parameter read at the start
    ready,            \* backend_->ready()
    active,           \* rmp_active_
    external,         \* external_goal_received_
    synced,           \* startup_goal_synced_
    goal,             \* goal_target_box_
    draft,            \* next_goal of the callback under way
    virtual_init,     \* virtual_velocity_state_initialized_
    last_safe_init,   \* last_safe_command_state_initialized_
    last_safe,        \* last_safe_command_state_
    triggered,        \* last_min_z_safety_triggered_
    measured,         \* measured_state of this cycle
    measured_low,     \* measured_state_violates_min_z
    hold,             \* min_z_safety_triggered of this cycle
    command,          \* command_state of this cycle, predicted_state at first
    after_off         \* history: commands applied since deactivation

node   == <<gate_enabled, ready>>
flags  == <<active, external, synced>>
goals  == <<goal, draft>>
memory == <<virtual_init, last_safe_init, last_safe, triggered>>
cycle  == <<measured, measured_low, hold, command>>
history == <<after_off>>
vars == <<ctl, ros, gate_enabled, ready, active, external, synced, goal, draft,
          virtual_init, last_safe_init, last_safe, triggered, measured,
          measured_low, hold, command, after_off>>

\* Where position and orientation of a goal come from.
Source == {"default", "startup", "external"}
Goal   == [position : Source, orientation : Source]

ControlPC == {"top", "measured", "gated", "goal_gated", "sync", "sync_set",
              "sync_flag", "check_measured", "init_safe", "solve",
              "check_predicted", "choose", "record", "apply"}
RosPC == {"idle", "off_virtual", "off_safe", "off_min_z", "goal_set",
          "goal_external", "goal_synced"}

TypeOK ==
    /\ ctl \in ControlPC /\ ros \in RosPC
    /\ gate_enabled \in BOOLEAN
    /\ ready \in BOOLEAN /\ active \in BOOLEAN
    /\ external \in BOOLEAN /\ synced \in BOOLEAN
    /\ goal \in Goal /\ draft \in Goal
    /\ virtual_init \in BOOLEAN /\ last_safe_init \in BOOLEAN
    /\ last_safe \in Pose /\ triggered \in BOOLEAN
    /\ measured \in Pose /\ measured_low \in BOOLEAN
    /\ hold \in BOOLEAN /\ command \in Pose
    /\ after_off \in Nat

DefaultGoal == [position |-> "default", orientation |-> "default"]
StartupGoal == [position |-> "startup", orientation |-> "startup"]
ZeroPose    == [j \in Joints |-> 0]

Init ==
    /\ ctl = "top" /\ ros = "idle"
    /\ gate_enabled \in BOOLEAN
    /\ ready = FALSE /\ active = ~gate_enabled
    /\ external = FALSE /\ synced = FALSE
    /\ goal = DefaultGoal /\ draft = DefaultGoal
    /\ virtual_init = FALSE /\ last_safe_init = FALSE
    /\ last_safe = ZeroPose /\ triggered = FALSE
    /\ measured = ZeroPose /\ measured_low = FALSE
    /\ hold = FALSE /\ command = ZeroPose
    /\ after_off = 0

-----------------------------------------------------------------------------
(* Operators of the loop.                                                   *)

\* violates_min_z_safety(), with safety_stop_on_min_z set.
violates_min_z_safety(pose) == (gate_enabled => active) /\ pose \notin Safe

\* std::clamp of the step of one joint.
ClampStep(delta) ==
    IF delta > MaxStep THEN MaxStep
    ELSE IF delta < -MaxStep THEN -MaxStep
    ELSE delta

\* Every joint by itself: the pose that comes out is none that was checked.
apply_command_guard(from, to) ==
    [j \in Joints |-> from[j] + ClampStep(to[j] - from[j])]

-----------------------------------------------------------------------------
(* One cycle of control_loop().                                             *)

\* What a cycle that does not solve forgets.
Forget ==
    /\ virtual_init' = FALSE /\ last_safe_init' = FALSE
    /\ UNCHANGED <<last_safe, triggered, after_off>>

NotReady ==
    /\ ctl = "top" /\ ~ready
    /\ Forget
    /\ UNCHANGED <<ctl, ros, node, flags, goals, cycle>>

\* The variables of a cycle are its own: they start from the measured state.
Measure ==
    /\ ctl = "top" /\ ready
    /\ ctl' = "measured"
    /\ measured' \in Pose
    /\ command' = measured'
    /\ measured_low' = FALSE /\ hold' = FALSE
    /\ UNCHANGED <<ros, node, flags, goals, memory, history>>

\* Mutant: /RMP_flag is never looked at.
ActiveGate_ignores_flag ==
    /\ ctl = "measured"
    /\ ctl' = "gated"
    /\ UNCHANGED <<ros, node, flags, goals, memory, cycle, history>>

\* A standby cycle ends here; the two gates are read one after the other.
ActiveGate ==
    /\ ctl = "measured"
    /\ \/ /\ gate_enabled /\ ~active
          /\ ctl' = "top" /\ Forget
       \/ /\ gate_enabled => active
          /\ ctl' = "gated" /\ UNCHANGED <<memory, history>>
    /\ UNCHANGED <<ros, node, flags, goals, cycle>>

GoalGate ==
    /\ ctl = "gated"
    /\ \/ /\ gate_enabled /\ ~external
          /\ ctl' = "top" /\ Forget
       \/ /\ gate_enabled => external
          /\ ctl' = "sync" /\ UNCHANGED <<memory, history>>
    /\ UNCHANGED <<ros, node, flags, goals, cycle>>

\* Mutant: the startup goal is taken from every cycle's pose.
SyncCheck_every_cycle ==
    /\ ctl = "sync"
    /\ ctl' = IF SyncStartup THEN "sync_set" ELSE "check_measured"
    /\ UNCHANGED <<ros, node, flags, goals, memory, cycle, history>>

SyncCheck ==
    /\ ctl = "sync"
    /\ ctl' = IF SyncStartup /\ ~synced /\ ~external
                THEN "sync_set" ELSE "check_measured"
    /\ UNCHANGED <<ros, node, flags, goals, memory, cycle, history>>

SyncSetGoal ==
    /\ ctl = "sync_set"
    /\ ctl' = "sync_flag"
    /\ goal' = StartupGoal
    /\ UNCHANGED <<ros, node, flags, draft, memory, cycle, history>>

SyncSetFlag ==
    /\ ctl = "sync_flag"
    /\ ctl' = "check_measured"
    /\ synced' = TRUE
    /\ UNCHANGED <<ros, node, active, external, goals, memory, cycle,
                   history>>

CheckMeasured ==
    /\ ctl = "check_measured"
    /\ ctl' = "init_safe"
    /\ measured_low' = violates_min_z_safety(measured)
    /\ UNCHANGED <<ros, node, flags, goals, memory, measured, hold, command,
                   history>>

\* Mutant: the first measured pose is taken for safe.
InitLastSafe_unchecked ==
    /\ ctl = "init_safe"
    /\ ctl' = "solve"
    /\ IF ~last_safe_init
         THEN last_safe' = measured /\ last_safe_init' = TRUE
         ELSE UNCHANGED <<last_safe, last_safe_init>>
    /\ UNCHANGED <<ros, node, flags, goals, virtual_init, triggered, cycle,
                   history>>

InitLastSafe ==
    /\ ctl = "init_safe"
    /\ ctl' = "solve"
    /\ IF ~last_safe_init /\ ~measured_low
         THEN last_safe' = measured /\ last_safe_init' = TRUE
         ELSE UNCHANGED <<last_safe, last_safe_init>>
    /\ UNCHANGED <<ros, node, flags, goals, virtual_init, triggered, cycle,
                   history>>

\* The min-Z flag is lowered before every solve; the solver's answer, or zero
\* acceleration when it throws, is integrated to any pose.
Solve ==
    /\ ctl = "solve"
    /\ ctl' = "check_predicted"
    /\ triggered' = FALSE
    /\ command' \in Pose
    /\ UNCHANGED <<ros, node, flags, goals, virtual_init, last_safe_init,
                   last_safe, measured, measured_low, hold, history>>

CheckPredicted ==
    /\ ctl = "check_predicted"
    /\ ctl' = "choose"
    /\ hold' = (measured_low \/ violates_min_z_safety(command))
    /\ UNCHANGED <<ros, node, flags, goals, memory, measured, measured_low,
                   command, history>>

\* What a held cycle commands.
HeldPose == IF last_safe_init THEN last_safe ELSE measured

\* The hold, and then the guard, which may move the command once more; what
\* comes out is not checked again.
ChooseCommand ==
    /\ ctl = "choose"
    /\ ctl' = "record"
    /\ command' = apply_command_guard(measured,
                                      IF hold THEN HeldPose ELSE command)
    /\ triggered' = (hold \/ triggered)
    /\ UNCHANGED <<ros, node, flags, goals, virtual_init, last_safe_init,
                   last_safe, measured, measured_low, hold, history>>

\* Mutant: a held command is recorded like any other.
Record_always ==
    /\ ctl = "record"
    /\ ctl' = "apply"
    /\ last_safe' = command /\ last_safe_init' = TRUE
    /\ UNCHANGED <<ros, node, flags, goals, virtual_init, triggered, cycle,
                   history>>

Record ==
    /\ ctl = "record"
    /\ ctl' = "apply"
    /\ IF hold
         THEN UNCHANGED <<last_safe, last_safe_init>>
         ELSE last_safe' = command /\ last_safe_init' = TRUE
    /\ UNCHANGED <<ros, node, flags, goals, virtual_init, triggered, cycle,
                   history>>

\* publish_target_q(), apply_command() and publish_direct_command().
Apply ==
    /\ ctl = "apply"
    /\ ctl' = "top"
    /\ virtual_init' = TRUE
    /\ after_off' = IF active \/ ~ready THEN after_off ELSE after_off + 1
    /\ UNCHANGED <<ros, node, flags, goals, last_safe_init, last_safe,
                   triggered, cycle>>

-----------------------------------------------------------------------------
(* The executor: one callback at a time, its writes one after the other.    *)
(* Without the gate nobody subscribes to /RMP_flag.                         *)

FlagOn ==
    /\ ros = "idle" /\ gate_enabled
    /\ active' = TRUE /\ after_off' = 0
    /\ UNCHANGED <<ctl, ros, node, external, synced, goals, memory, cycle>>

FlagOff ==
    /\ ros = "idle" /\ gate_enabled
    /\ ros' = "off_virtual"
    /\ active' = FALSE
    /\ after_off' = IF active THEN 0 ELSE after_off
    /\ UNCHANGED <<ctl, node, external, synced, goals, memory, cycle>>

FlagOffReset ==
    /\ \/ /\ ros = "off_virtual" /\ ros' = "off_safe"
          /\ virtual_init' = FALSE
          /\ UNCHANGED <<last_safe_init, triggered>>
       \/ /\ ros = "off_safe" /\ ros' = "off_min_z"
          /\ last_safe_init' = FALSE
          /\ UNCHANGED <<virtual_init, triggered>>
       \/ /\ ros = "off_min_z" /\ ros' = "idle"
          /\ triggered' = FALSE
          /\ UNCHANGED <<virtual_init, last_safe_init>>
    /\ UNCHANGED <<ctl, node, flags, goals, last_safe, cycle, history>>

\* on_goal() keeps the orientation it finds in the box.
OnGoal ==
    /\ ros = "idle"
    /\ ros' = "goal_set"
    /\ draft' = [goal EXCEPT !.position = "external"]
    /\ UNCHANGED <<ctl, node, flags, goal, memory, cycle, history>>

OnGoalPose ==
    /\ ros = "idle"
    /\ ros' = "goal_set"
    /\ draft' = [position |-> "external", orientation |-> "external"]
    /\ UNCHANGED <<ctl, node, flags, goal, memory, cycle, history>>

\* Both callbacks end alike: the box, external_goal_received_, and
\* startup_goal_synced_.
GoalSet ==
    /\ ros = "goal_set"
    /\ ros' = "goal_external"
    /\ goal' = draft
    /\ UNCHANGED <<ctl, node, flags, draft, memory, cycle, history>>

GoalFlags ==
    /\ \/ /\ ros = "goal_external" /\ ros' = "goal_synced"
          /\ external' = TRUE /\ UNCHANGED synced
       \/ /\ ros = "goal_synced" /\ ros' = "idle"
          /\ synced' = TRUE /\ UNCHANGED external
    /\ UNCHANGED <<ctl, node, active, goals, memory, cycle, history>>

\* The backend comes up, and may be lost.
BackendReady ==
    /\ ready' = ~ready
    /\ UNCHANGED <<ctl, ros, gate_enabled, flags, goals, memory, cycle,
                   history>>

ControlThread ==
    \/ NotReady \/ Measure \/ ActiveGate \/ GoalGate
    \/ SyncCheck \/ SyncSetGoal \/ SyncSetFlag
    \/ CheckMeasured \/ InitLastSafe \/ Solve \/ CheckPredicted
    \/ ChooseCommand \/ Record \/ Apply
Executor ==
    \/ FlagOn \/ FlagOff \/ FlagOffReset
    \/ OnGoal \/ OnGoalPose \/ GoalSet \/ GoalFlags

Next == ControlThread \/ Executor \/ BackendReady

Spec == Init /\ [][Next]_vars

-----------------------------------------------------------------------------
(* Safety.                                                                  *)

\* A deactivation takes effect within one cycle: at most the command of the
\* cycle that had already passed the gate reaches the backend after it.
OneCommandAfterDeactivation == ~active => after_off <= 1

\* With the gate in place no command is computed before an external goal has
\* been received.
GoalBeforeCommand ==
    gate_enabled /\ ctl \in {"sync", "check_measured", "init_safe", "solve",
                            "check_predicted", "choose", "record", "apply"}
        => external /\ goal.position = "external"

\* A min-Z hold keeps the robot where it is or takes it to a pose that is above
\* the floor: "Holding the last safe command to avoid driving below workspace."
HoldAvoidsFloor == ctl = "choose" /\ hold => HeldPose \in Safe \cup {measured}

\* No joint of one pose is more than a guarded step from the other.
Near(pose, other) ==
    \A j \in Joints : pose[j] - other[j] \in (-MaxStep)..MaxStep

\* However many cycles hold, the pose they fall back to does not creep away: it
\* stays within one guarded step of a pose that passed the min-Z check.  With
\* the gate a deactivation may have turned that check off.
LastSafeNearSafe ==
    ~gate_enabled /\ last_safe_init => \E pose \in Safe : Near(last_safe, pose)

\* An external goal is lost only to a synchronisation already under way when it
\* arrived: one that is in the box at the start of a cycle stays.
ExternalGoalStays ==
    [](ctl = "top" /\ external /\ goal.position = "external"
         => [](goal.position = "external"))

=============================================================================
