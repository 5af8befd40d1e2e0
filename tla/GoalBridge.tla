------------------------------ MODULE GoalBridge ------------------------------
(***************************************************************************)
(* How a goal of the operator becomes joint targets: the operator sends    *)
(* /RMP_flag and /RMP_goal, the RMPflow bridge passes the goal on to the   *)
(* controller and the controller's commands on to /target_q.               *)
(*                                                                         *)
(* The flag reaches bridge and controller on two ways of its own.  Every   *)
(* topic keeps its last TopicDepth messages.  The callbacks of the bridge  *)
(* hold its mutex and are one step each; of the controller only the gates  *)
(* of its loop and its goal are here (ControlLoop has the rest).  A        *)
(* controller may be started again, which empties its queues and its       *)
(* memory; the bridge goes on with what it remembers.                      *)
(***************************************************************************)
EXTENDS Naturals, Sequences

CONSTANTS
    Goal, NoGoal,    \* the poses an operator asks for
    ForwardTargetQ,  \* forward_target_q_
    TopicDepth,      \* the history depth of every topic (10 in the code)
    MaxRestarts      \* bound on starts of the controller

ASSUME GoalAssumption ==
    /\ NoGoal \notin Goal
    /\ ForwardTargetQ \in BOOLEAN
    /\ TopicDepth \in Nat \ {0}
    /\ MaxRestarts \in Nat

VARIABLES
    flag_sent,       \* the operator's last flag since the controller started
    goal_sent,       \* the operator's last goal since the controller started
    flag_to_bridge, flag_to_controller, goal_to_bridge,  \* undelivered
    goal_pose,       \* goals of the bridge the controller has not taken
    commands,        \* commands of the controller the bridge has not taken
    active,          \* active_ of the bridge
    latest_goal,     \* latest_goal_, NoGoal until goal_received_
    forwarding,      \* command_forwarding_enabled_
    settled,         \* the clock has passed command_forwarding_allowed_after_
    published_goal,  \* history: the last goal the bridge published
    target_q,        \* the goal behind the last command the bridge republished
    rmp_active,      \* rmp_active_ of the controller
    goal,            \* its goal box, NoGoal until external_goal_received_
    ctl,             \* control_loop(): before or behind its gates
    restarts

operator_vars   == <<flag_sent, goal_sent>>
bridge_vars     == <<active, latest_goal, forwarding, settled, published_goal>>
controller_vars == <<rmp_active, goal, ctl>>
topics == <<flag_to_bridge, flag_to_controller, goal_to_bridge, goal_pose,
            commands>>
vars == <<flag_sent, goal_sent, flag_to_bridge, flag_to_controller,
          goal_to_bridge, goal_pose, commands, active, latest_goal, forwarding,
          settled, published_goal, target_q, rmp_active, goal, ctl, restarts>>

IsQueue(queue, messages) == queue \in Seq(messages) /\ Len(queue) <= TopicDepth

TypeOK ==
    /\ flag_sent \in {"none", "on", "off"}
    /\ goal_sent \in Goal \cup {NoGoal}
    /\ IsQueue(flag_to_bridge, {"on", "off"})
    /\ IsQueue(flag_to_controller, {"on", "off"})
    /\ IsQueue(goal_to_bridge, Goal)
    /\ IsQueue(goal_pose, Goal)
    /\ IsQueue(commands, Goal \cup {NoGoal})
    /\ active \in BOOLEAN
    /\ latest_goal \in Goal \cup {NoGoal}
    /\ forwarding \in BOOLEAN
    /\ settled \in BOOLEAN
    /\ published_goal \in Goal \cup {NoGoal}
    /\ target_q \in Goal \cup {NoGoal}
    /\ rmp_active \in BOOLEAN
    /\ goal \in Goal \cup {NoGoal}
    /\ ctl \in {"top", "passed"}
    /\ restarts \in 0..MaxRestarts

Init ==
    /\ flag_sent = "none" /\ goal_sent = NoGoal
    /\ flag_to_bridge = <<>> /\ flag_to_controller = <<>>
    /\ goal_to_bridge = <<>> /\ goal_pose = <<>> /\ commands = <<>>
    /\ active = FALSE /\ latest_goal = NoGoal
    /\ forwarding = FALSE /\ settled = TRUE
    /\ published_goal = NoGoal /\ target_q = NoGoal
    /\ rmp_active = FALSE /\ goal = NoGoal /\ ctl = "top"
    /\ restarts = 0

\* A topic drops its oldest message to keep a new one.
KeepLast(queue, message) ==
    IF Len(queue) < TopicDepth THEN Append(queue, message)
                               ELSE Append(Tail(queue), message)

-----------------------------------------------------------------------------
(* The operator.                                                            *)

SendFlag(value) ==
    /\ flag_sent' = value
    /\ flag_to_bridge' = KeepLast(flag_to_bridge, value)
    /\ flag_to_controller' = KeepLast(flag_to_controller, value)
    /\ UNCHANGED <<goal_sent, goal_to_bridge, goal_pose, commands, bridge_vars,
                   target_q, controller_vars, restarts>>

SendGoal(g) ==
    /\ goal_sent' = g
    /\ goal_to_bridge' = KeepLast(goal_to_bridge, g)
    /\ UNCHANGED <<flag_sent, flag_to_bridge, flag_to_controller, goal_pose,
                   commands, bridge_vars, target_q, controller_vars, restarts>>

-----------------------------------------------------------------------------
(* The bridge.                                                              *)

publish_external_goal_locked(g) ==
    /\ goal_pose' = KeepLast(goal_pose, g)
    /\ published_goal' = g
    /\ forwarding' = TRUE
    /\ settled' = FALSE

\* Mutant: a deactivation forgets to pause the forwarding.
Deactivate_forgets_forwarding ==
    /\ active' = FALSE
    /\ UNCHANGED <<forwarding, settled, published_goal, goal_pose>>

Deactivate ==
    /\ active' = FALSE
    /\ forwarding' = FALSE
    /\ UNCHANGED <<settled, published_goal, goal_pose>>

\* Mutant: a goal that came before the activation is not passed on.
Activate_silently ==
    /\ active' = TRUE
    /\ forwarding' = FALSE
    /\ UNCHANGED <<settled, published_goal, goal_pose>>

Activate ==
    /\ active' = TRUE
    /\ \/ /\ latest_goal = NoGoal
          /\ forwarding' = FALSE
          /\ UNCHANGED <<settled, published_goal, goal_pose>>
       \/ /\ latest_goal # NoGoal
          /\ publish_external_goal_locked(latest_goal)

\* A flag that changes nothing is ignored.
on_flag ==
    /\ flag_to_bridge # <<>>
    /\ flag_to_bridge' = Tail(flag_to_bridge)
    /\ CASE Head(flag_to_bridge) = "on" /\ ~active -> Activate
         [] Head(flag_to_bridge) = "off" /\ active -> Deactivate
         [] OTHER -> UNCHANGED <<active, forwarding, settled, published_goal,
                                 goal_pose>>
    /\ UNCHANGED <<operator_vars, flag_to_controller, goal_to_bridge, commands,
                   latest_goal, target_q, controller_vars, restarts>>

\* Mutant: a goal the bridge already has is not passed on again.
on_goal_if_new ==
    /\ goal_to_bridge # <<>>
    /\ goal_to_bridge' = Tail(goal_to_bridge)
    /\ latest_goal' = Head(goal_to_bridge)
    /\ IF active /\ latest_goal' # latest_goal
         THEN publish_external_goal_locked(latest_goal')
         ELSE UNCHANGED <<goal_pose, published_goal, forwarding, settled>>
    /\ UNCHANGED <<operator_vars, flag_to_bridge, flag_to_controller, commands,
                   active, target_q, controller_vars, restarts>>

\* Mutant: the goal is kept for the next activation only.
on_goal_when_inactive ==
    /\ goal_to_bridge # <<>>
    /\ goal_to_bridge' = Tail(goal_to_bridge)
    /\ latest_goal' = Head(goal_to_bridge)
    /\ UNCHANGED <<goal_pose, published_goal, forwarding, settled>>
    /\ UNCHANGED <<operator_vars, flag_to_bridge, flag_to_controller, commands,
                   active, target_q, controller_vars, restarts>>

on_goal ==
    /\ goal_to_bridge # <<>>
    /\ goal_to_bridge' = Tail(goal_to_bridge)
    /\ latest_goal' = Head(goal_to_bridge)
    /\ IF active THEN publish_external_goal_locked(latest_goal')
       ELSE UNCHANGED <<goal_pose, published_goal, forwarding, settled>>
    /\ UNCHANGED <<operator_vars, flag_to_bridge, flag_to_controller, commands,
                   active, target_q, controller_vars, restarts>>

\* The subscription exists only when commands are to be forwarded.
on_controller_command ==
    /\ ForwardTargetQ /\ commands # <<>>
    /\ commands' = Tail(commands)
    /\ target_q' = IF forwarding /\ settled THEN Head(commands) ELSE target_q
    /\ UNCHANGED <<operator_vars, flag_to_bridge, flag_to_controller,
                   goal_to_bridge, goal_pose, bridge_vars, controller_vars,
                   restarts>>

\* command_forward_delay_ has passed since the last goal.
DelayPasses ==
    /\ ~settled
    /\ settled' = TRUE
    /\ UNCHANGED <<operator_vars, topics, active, latest_goal, forwarding,
                   published_goal, target_q, controller_vars, restarts>>

-----------------------------------------------------------------------------
(* The controller.                                                          *)

on_rmp_flag ==
    /\ flag_to_controller # <<>>
    /\ flag_to_controller' = Tail(flag_to_controller)
    /\ rmp_active' = (Head(flag_to_controller) = "on")
    /\ UNCHANGED <<operator_vars, flag_to_bridge, goal_to_bridge, goal_pose,
                   commands, bridge_vars, target_q, goal, ctl, restarts>>

on_goal_pose ==
    /\ goal_pose # <<>>
    /\ goal_pose' = Tail(goal_pose)
    /\ goal' = Head(goal_pose)
    /\ UNCHANGED <<operator_vars, flag_to_bridge, flag_to_controller,
                   goal_to_bridge, commands, bridge_vars, target_q, rmp_active,
                   ctl, restarts>>

PassGates ==
    /\ ctl = "top" /\ rmp_active /\ goal # NoGoal
    /\ ctl' = "passed"
    /\ UNCHANGED <<operator_vars, topics, bridge_vars, target_q, rmp_active,
                   goal, restarts>>

\* The rest of the cycle: a command towards the goal in the box.
SolveAndApply ==
    /\ ctl = "passed"
    /\ ctl' = "top"
    /\ commands' = KeepLast(commands, goal)
    /\ UNCHANGED <<operator_vars, flag_to_bridge, flag_to_controller,
                   goal_to_bridge, goal_pose, bridge_vars, target_q,
                   rmp_active, goal, restarts>>

\* A new controller has heard nothing of flags and goals.
RestartController ==
    /\ restarts < MaxRestarts
    /\ restarts' = restarts + 1
    /\ flag_sent' = "none" /\ goal_sent' = NoGoal
    /\ flag_to_controller' = <<>> /\ goal_pose' = <<>>
    /\ rmp_active' = FALSE /\ goal' = NoGoal /\ ctl' = "top"
    /\ UNCHANGED <<flag_to_bridge, goal_to_bridge, commands, bridge_vars,
                   target_q>>

Operator ==
    \/ \E value \in {"on", "off"} : SendFlag(value)
    \/ \E g \in Goal : SendGoal(g)
Bridge == on_flag \/ on_goal \/ on_controller_command
Controller == on_rmp_flag \/ on_goal_pose \/ PassGates \/ SolveAndApply

Next ==
    \/ Operator \/ Bridge \/ DelayPasses \/ Controller \/ RestartController

Spec == Init /\ [][Next]_vars

\* Each subscription is served, the control thread runs, the clock goes on.
FairSpec ==
    /\ Spec
    /\ WF_vars(on_flag) /\ WF_vars(on_goal) /\ WF_vars(on_controller_command)
    /\ WF_vars(DelayPasses)
    /\ WF_vars(on_rmp_flag) /\ WF_vars(on_goal_pose)
    /\ WF_vars(PassGates \/ SolveAndApply)

-----------------------------------------------------------------------------
(* Safety.                                                                  *)

\* The bridge forwards commands only while it is active, and only once the goal
\* it holds is the one it has passed on to the controller.
ForwardingIsJustified ==
    forwarding => active /\ latest_goal # NoGoal /\ published_goal = latest_goal

\* Every joint target goes back to a goal the operator sent: a controller
\* without a goal commands nothing.
TargetsHaveGoals ==
    /\ ctl = "passed" => goal # NoGoal
    /\ \A i \in 1..Len(commands) : commands[i] # NoGoal

-----------------------------------------------------------------------------
(* Liveness.                                                                *)

Settles(g) == <>[](flag_sent = "on" /\ goal_sent = g)

\* Once the operator has settled on a goal and switched the motion on, in
\* either order, before or after a restart of the controller, the controller
\* works on that goal and not on an earlier one.
GoalArrives == \A g \in Goal : Settles(g) => <>[](goal = g)

\* Once the operator has switched the motion off for good, bridge and
\* controller come to rest.
StopsForGood ==
    <>[](flag_sent = "off") => <>[](~forwarding /\ ctl = "top")

\* "republishes /target_q": once the operator has settled on a goal and sends it
\* no more (every goal starts the delay again, the same one too), commands
\* towards it and no others come out on /target_q.
RepublishesTargetQ ==
    \A g \in Goal :
        Settles(g) /\ <>[](goal_to_bridge = <<>>) => <>[](target_q = g)
=============================================================================
