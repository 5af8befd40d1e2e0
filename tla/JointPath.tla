------------------------------ MODULE JointPath ------------------------------
(***************************************************************************)
(* From the joint states of a driver to the goal of the controller.        *)
(*                                                                         *)
(* A driver publishes the joints in an order of its own.  The joint state  *)
(* adapter (joint_state_adapter.cpp) puts them into the model's order for  *)
(* the controller's topic backends and for the interactive goal marker     *)
(* (interactive_goal_marker.cpp); in some launch files both listen to the  *)
(* driver itself.  The marker turns its first joint state, then what the   *)
(* operator does, into a goal that it publishes over and over on a topic   *)
(* it shares with other publishers.                                        *)
(*                                                                         *)
(* A joint value is abstracted to what may be mixed up: the joint it was   *)
(* measured at, the pose of the robot it was read in (0: the configured    *)
(* one), and whether its message named or ordered the joints in a way the  *)
(* receivers know.  A pose of the tool is the joint vector it was computed *)
(* from, or who asked for it.                                              *)
(***************************************************************************)
EXTENDS Naturals, Sequences

CONSTANTS
    N,              \* joints of the robot (RB10Model::joint_names.size())
    Poses,          \* poses of the robot that are told apart
    Layouts,        \* ways to write a message: names, the joint behind each
                    \* position (0: a gripper), and how many velocities
    Depth           \* samples a subscription keeps (KeepLast)

Joints == 1..N
Target == [j \in Joints |-> j]          \* base, shoulder, ... (target names)
Source == [j \in Joints |-> N + j]      \* joint_1, joint_2, ... (source names)

\* A driver names the joints it knows correctly.
Truthful(l) ==
    \A i \in DOMAIN l.names \cap DOMAIN l.carries, j \in Joints :
        l.names[i] \in {Target[j], Source[j]} => l.carries[i] = j

ASSUME SizesAssumption == N \in Nat \ {0} /\ Depth \in Nat \ {0}

ASSUME PosesAssumption == Poses \subseteq Nat \ {0}

ASSUME LayoutsAssumption ==
    /\ Layouts \subseteq [names : Seq(Nat), carries : Seq(0..N), speeds : Nat]
    /\ \A l \in Layouts : l.speeds <= Len(l.carries) /\ Truthful(l)

VARIABLES
    adapted,        \* the adapter sits between the driver and the receivers
    lock,           \* the marker's lock_orientation_to_tcp_
    robot,          \* the pose the robot is in
    state,          \* the backend's state_buffer_
    goal_initialized_, goal_pose_,      \* the marker
    goals,          \* goal_pose messages on their way to the controller
    goal,           \* the controller's goal_target_box_
    busy            \* who may still ask for goals

config == <<adapted, lock>>
marker_vars == <<goal_initialized_, goal_pose_>>
vars == <<config, robot, state, marker_vars, goals, goal, busy>>

Value == [joint : 0..N, pose : Poses \cup {0}, clear : BOOLEAN]
Vector == [Joints -> Value]
Garbage == [joint |-> 0, pose |-> 0, clear |-> FALSE]   \* read behind the end
InitialQ == [j \in Joints |-> [joint |-> j, pose |-> 0, clear |-> TRUE]]

Wish(who) == [by |-> who, q |-> InitialQ]
Tcp(q) == [by |-> "tcp", q |-> q]
Tool == [by : {"initial", "tcp", "operator", "other"}, q : Vector]
NoGoal == [position |-> Wish("initial"), orientation |-> Wish("initial")]

Push(queue, m) ==
    IF Len(queue) < Depth THEN Append(queue, m) ELSE Append(Tail(queue), m)

(***************************************************************************)
(* Messages.                                                               *)
(***************************************************************************)
Names(names) == {names[i] : i \in DOMAIN names}

\* The receivers can tell which value belongs to which joint: all names of one
\* of the maps are there, or the positions are in order.
Understood(l, maps) ==
    \/ /\ Len(l.names) >= N
       /\ \E map \in maps : \A j \in Joints :
             \E i \in DOMAIN l.names \cap DOMAIN l.carries : l.names[i] = map[j]
    \/ \A j \in Joints : j \in DOMAIN l.carries /\ l.carries[j] = j

Message(l, p, maps) ==
    LET clear == Understood(l, maps)
        values == [i \in DOMAIN l.carries |->
                      [joint |-> l.carries[i], pose |-> p, clear |-> clear]]
    IN [names |-> l.names, position |-> values,
        velocity |-> [i \in 1..l.speeds |-> values[i]]]

\* unordered_map::emplace() keeps the first index of a name that occurs twice,
\* and the marker's loop stops at it.
Index(names, name) ==
    CHOOSE i \in DOMAIN names :
        names[i] = name /\ \A k \in DOMAIN names : names[k] = name => i <= k

\* An unchecked operator[].
At(s, i) == IF i \in DOMAIN s THEN s[i] ELSE Garbage

Long(m) == Len(m.position) >= N

AllNamed(m, map) ==
    Len(m.names) >= N /\ \A j \in Joints : map[j] \in Names(m.names)

(***************************************************************************)
(* JointStateAdapterNode                                                   *)
(***************************************************************************)
\* Mutant: the bounds check of the index is gone.
TryReorder_unchecked(m, map) == AllNamed(m, map)

TryReorder(m, map) ==
    AllNamed(m, map) /\ \A j \in Joints : Index(m.names, map[j]) <= Len(m.position)

Reorder(m, map) ==
    LET ordered(values) == [j \in Joints |-> At(values, Index(m.names, map[j]))]
    IN [names |-> Target, position |-> ordered(m.position),
        velocity |-> IF Len(m.velocity) >= Len(m.position)
                     THEN ordered(m.velocity) ELSE <<>>]

FirstOnes(m) ==
    LET first(values) == [j \in Joints |-> At(values, j)]
    IN [names |-> Target, position |-> first(m.position),
        velocity |-> IF Len(m.velocity) >= N THEN first(m.velocity) ELSE <<>>]

BuildOrderedState(m) ==
    IF TryReorder(m, Target) THEN Reorder(m, Target)
    ELSE IF TryReorder(m, Source) THEN Reorder(m, Source)
    ELSE FirstOnes(m)

\* What the receivers get for a message, behind the adapter or without it.
Received == [a \in BOOLEAN |-> [p \in Poses |-> [l \in Layouts |->
    IF a THEN BuildOrderedState(Message(l, p, {Target, Source}))
         ELSE Message(l, p, {Target})]]]

(***************************************************************************)
(* joint_state_to_robot_state(), for the controller's topic backends: a    *)
(* velocity that is not there is zero.                                     *)
(***************************************************************************)
RobotState(m) ==
    LET index(j) == IF TryReorder(m, Target) THEN Index(m.names, Target[j]) ELSE j
    IN [q |-> [j \in Joints |-> At(m.position, index(j))],
        qd |-> [j \in Joints |-> IF index(j) <= Len(m.velocity)
                                 THEN {m.velocity[index(j)]} ELSE {}]]

(***************************************************************************)
(* InteractiveGoalMarkerNode::on_joint_state(): the names are looked up    *)
(* without a look at the number of positions, and a message with names     *)
(* that do not match is ignored.                                           *)
(***************************************************************************)
MarkerReads(m) == Long(m) /\ (Len(m.names) >= N => AllNamed(m, Target))

MarkerVector(m) ==
    [j \in Joints |-> At(m.position, IF Len(m.names) >= N
                                     THEN Index(m.names, Target[j]) ELSE j)]
-----------------------------------------------------------------------------
Init ==
    /\ adapted \in BOOLEAN /\ lock \in BOOLEAN
    /\ robot \in Poses
    /\ state = [q |-> InitialQ, qd |-> [j \in Joints |-> {}]]
    /\ goal_initialized_ = FALSE
    /\ goal_pose_ = NoGoal
    /\ goals = <<>> /\ goal = NoGoal
    /\ busy = {"operator", "other"}

RobotMoves ==
    /\ robot' \in Poses
    /\ UNCHANGED <<config, state, marker_vars, goals, goal, busy>>

\* A driver publishes all the time, and both receivers hear some of it: a
\* message is lost (the adapter subscribes with best effort) or waits in a queue
\* while the robot moves on, which for the receiver is one that was published
\* earlier or later.  on_joint_state() of the adapter drops what is too short.
Arrives(l) == adapted => Len(l.carries) >= N

\* on_state() of the controller's topic backends
ControllerHears(l) ==
    /\ Arrives(l) /\ Long(Received[adapted][robot][l])
    /\ state' = RobotState(Received[adapted][robot][l])
    /\ UNCHANGED <<config, robot, marker_vars, goals, goal, busy>>

PublishGoal(pose) == goals' = Push(goals, pose)

\* Mutant: the position is not guarded by was_initialized.
FirstPose_always(q) == Tcp(q)

\* on_joint_state() of the marker
FirstPose(q) == IF goal_initialized_ THEN goal_pose_.position ELSE Tcp(q)

\* Mutant: the lock applies to the first joint state only.
MarkerPose_locks_once(q) ==
    [position |-> FirstPose(q),
     orientation |-> IF ~goal_initialized_ THEN Tcp(q) ELSE goal_pose_.orientation]

MarkerPose(q) ==
    [position |-> FirstPose(q),
     orientation |-> IF lock \/ ~goal_initialized_ THEN Tcp(q) ELSE goal_pose_.orientation]

MarkerUses(m) == (lock \/ ~goal_initialized_) /\ MarkerReads(m)

Adopt(pose) ==
    /\ pose # goal_pose_
    /\ goal_pose_' = pose
    /\ goal_initialized_' = TRUE
    /\ PublishGoal(pose)

MarkerHears(l) ==
    /\ Arrives(l) /\ MarkerUses(Received[adapted][robot][l])
    /\ \E q \in {MarkerVector(Received[adapted][robot][l])} : Adopt(MarkerPose(q))
    /\ UNCHANGED <<config, robot, state, goal, busy>>

\* The operator asks with a point, with a pose, or drags the marker in RViz.
Ask(orientation) ==
    /\ "operator" \in busy
    /\ goal_pose_' = [position |-> Wish("operator"), orientation |-> orientation]
    /\ goal_initialized_' = TRUE
    /\ PublishGoal(goal_pose_')
    /\ UNCHANGED <<config, robot, state, goal, busy>>

\* on_goal_point_command()
PointCommand == Ask(goal_pose_.orientation)

\* on_goal_pose_command()
PoseCommand == Ask(IF lock THEN goal_pose_.orientation ELSE Wish("operator"))

\* feedback(): RViz sends back the orientation it shows, which with the lock is
\* one the marker had, here the first or the present one.
Feedback ==
    \E shown \in IF lock THEN {goal_pose_.orientation, NoGoal.orientation}
                 ELSE {Wish("operator")} : Ask(shown)

\* Mutants: the timer does not wait for a goal; it repeats the locked goal only.
MarkerTimer_at_once ==
    /\ PublishGoal(goal_pose_)
    /\ UNCHANGED <<config, robot, state, marker_vars, goal, busy>>

MarkerTimer_for_the_lock ==
    /\ goal_initialized_ /\ lock
    /\ PublishGoal(goal_pose_)
    /\ UNCHANGED <<config, robot, state, marker_vars, goal, busy>>

\* publish_goal(), every 100 ms
MarkerTimer ==
    /\ goal_initialized_
    /\ PublishGoal(goal_pose_)
    /\ UNCHANGED <<config, robot, state, marker_vars, goal, busy>>

\* Another publisher of goal_pose: the bridge, a script.
OtherAsks ==
    /\ "other" \in busy
    /\ PublishGoal([position |-> Wish("other"), orientation |-> Wish("other")])
    /\ UNCHANGED <<config, robot, state, marker_vars, goal, busy>>

Retire ==
    /\ \E who \in busy : busy' = busy \ {who}
    /\ UNCHANGED <<config, robot, state, marker_vars, goals, goal>>

\* on_goal_pose() of the controller
ControllerTakesGoal ==
    /\ goals # <<>>
    /\ goal' = Head(goals)
    /\ goals' = Tail(goals)
    /\ UNCHANGED <<config, robot, state, marker_vars, busy>>

Next ==
    \/ RobotMoves
    \/ \E l \in Layouts : ControllerHears(l) \/ MarkerHears(l)
    \/ PointCommand
    \/ PoseCommand
    \/ Feedback
    \/ MarkerTimer
    \/ OtherAsks
    \/ Retire
    \/ ControllerTakesGoal

Spec == Init /\ [][Next]_vars

\* The executors serve every subscription and timer, and of the messages that
\* are long enough some get through.
Fairness ==
    /\ WF_vars(MarkerTimer)
    /\ WF_vars(ControllerTakesGoal)
    /\ WF_vars(\E l \in Layouts : MarkerHears(l))

FairSpec == Spec /\ Fairness
-----------------------------------------------------------------------------
(***************************************************************************)
(* Properties.                                                             *)
(***************************************************************************)
\* Every joint has a value, all values are from one reading of the robot, and
\* they are in the right places if the message said what those are.
InPlace(q) ==
    /\ \A j \in Joints : q[j] # Garbage /\ (q[j].clear => q[j].joint = j)
    /\ \A i, j \in Joints : q[i].pose = q[j].pose

\* Two nodes in a row look names up, fall back to positions, and copy values by
\* index: whatever the driver sends, the controller computes with a complete
\* sample of one reading, in which no joint has the value or the velocity of
\* another one, and so does the marker for its goal, as far as the adapter
\* stands before it.
JointsKeepTheirPlaces ==
    /\ InPlace(state.q)
    /\ \A j \in Joints : state.qd[j] \subseteq {state.q[j]}
    /\ adapted => \A tool \in {goal_pose_.position, goal_pose_.orientation} : InPlace(tool.q)

\* No goal of the marker is the pose its parameters configure: the position is
\* where the tool was or what the operator asked for, and the configured
\* orientation goes out with a point of the operator only.  Without the lock
\* position and orientation of a start-up goal belong to one joint state.
HasOrigin(pose) ==
    /\ pose.position.by # "initial"
    /\ pose.orientation.by = "initial" => pose.position.by = "operator"
    /\ ~lock /\ pose.position.by = "tcp" => pose.orientation = pose.position

GoalsHaveAnOrigin ==
    /\ goal_initialized_ => HasOrigin(goal_pose_)
    /\ \A i \in DOMAIN goals : HasOrigin(goals[i])
    /\ goal = NoGoal \/ HasOrigin(goal)

\* A joint state that arrives late, or again after a restart of the driver,
\* does not take back the position the operator chose, and a start-up position
\* is chosen once.
OperatorGoalStays ==
    [][goal_initialized_ /\ goal_pose_'.position # goal_pose_.position
          => goal_pose_'.position.by = "operator"]_vars

\* With lock_orientation_to_tcp the controller ends up with the orientation of
\* the tool in the pose the robot rests in, whatever the operator dragged
\* meanwhile.
LockFollowsRobot ==
    \A p \in Poses :
        lock /\ adapted /\ <>[](robot = p /\ busy = {})
            => <>[](\A j \in Joints : goal.orientation.q[j].pose = p)

\* The marker republishes its goal for ever: when the other publishers are
\* silent the controller ends up with the marker's position, also after they
\* asked for another one.
MarkerWins ==
    <>goal_initialized_ /\ <>[]("other" \notin busy)
        => <>[](goal.position = goal_pose_.position)
=============================================================================
