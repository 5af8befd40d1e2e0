--------------------------- MODULE GoalBridge_proofs ---------------------------
(***************************************************************************)
(* Proofs about GoalBridge, for every set of goals, every depth of the     *)
(* topics and any number of restarts of the controller.                    *)
(***************************************************************************)
EXTENDS GoalBridge, TLAPS

USE GoalAssumption

-----------------------------------------------------------------------------
(* Queues.                                                                  *)

\* Keeping a message keeps a queue a queue of its depth.
LEMMA KeepLastKeepsQueue ==
    ASSUME NEW M, NEW queue, IsQueue(queue, M), NEW message \in M
    PROVE  IsQueue(KeepLast(queue, message), M)
<1>1. CASE Len(queue) < TopicDepth
  BY <1>1 DEF IsQueue, KeepLast
<1>2. CASE ~(Len(queue) < TopicDepth)
  <2>1. queue # <<>> /\ queue \in Seq(M) /\ Len(queue) = TopicDepth
    BY <1>2 DEF IsQueue
  <2>2. Tail(queue) \in Seq(M) /\ Len(Tail(queue)) = Len(queue) - 1
    BY <2>1
  <2>3. KeepLast(queue, message) = Append(Tail(queue), message)
    BY <1>2 DEF KeepLast
  <2>4. QED
    BY <2>1, <2>2, <2>3 DEF IsQueue
<1>3. QED
  BY <1>1, <1>2

\* Taking a message leaves a queue.
LEMMA TailKeepsQueue ==
    ASSUME NEW M, NEW queue, IsQueue(queue, M), queue # <<>>
    PROVE  IsQueue(Tail(queue), M) /\ Head(queue) \in M
BY DEF IsQueue

\* An empty topic is a queue of messages.
LEMMA EmptyIsQueue ==
    ASSUME NEW M
    PROVE  IsQueue(<<>>, M)
<1>1. <<>> \in Seq(M) /\ Len(<<>>) = 0
  OBVIOUS
<1>2. QED
  BY <1>1 DEF IsQueue

-----------------------------------------------------------------------------
(* The inductive invariant: the three facts support each other.             *)

IInv == TypeOK /\ ForwardingIsJustified /\ TargetsHaveGoals

\* Every step keeps the types.
LEMMA TypePreserved ==
    ASSUME TypeOK, [Next]_vars
    PROVE  TypeOK'
<1> USE DEF TypeOK, vars, operator_vars, bridge_vars, controller_vars, topics
<1>1. CASE \E value \in {"on", "off"} : SendFlag(value)
  <2> SUFFICES ASSUME NEW value \in {"on", "off"}, SendFlag(value)
               PROVE  TypeOK'
    BY <1>1
  <2>1. /\ IsQueue(KeepLast(flag_to_bridge, value), {"on", "off"})
        /\ IsQueue(KeepLast(flag_to_controller, value), {"on", "off"})
    BY KeepLastKeepsQueue
  <2>2. QED
    BY <2>1 DEF SendFlag
<1>2. CASE \E g \in Goal : SendGoal(g)
  <2> SUFFICES ASSUME NEW g \in Goal, SendGoal(g)
               PROVE  TypeOK'
    BY <1>2
  <2>1. IsQueue(KeepLast(goal_to_bridge, g), Goal)
    BY KeepLastKeepsQueue
  <2>2. QED
    BY <2>1 DEF SendGoal
<1>3. CASE on_flag
  <2>1. IsQueue(flag_to_bridge', {"on", "off"})
    BY <1>3, TailKeepsQueue DEF on_flag
  <2>2. latest_goal # NoGoal => IsQueue(KeepLast(goal_pose, latest_goal), Goal)
    BY KeepLastKeepsQueue
  <2>3. active' \in BOOLEAN /\ forwarding' \in BOOLEAN /\ settled' \in BOOLEAN
    BY <1>3 DEF on_flag, Activate, Deactivate, publish_external_goal_locked
  <2>4. QED
    BY <1>3, <2>1, <2>2, <2>3
    DEF on_flag, Activate, Deactivate, publish_external_goal_locked
<1>4. CASE on_goal
  <2>1. IsQueue(goal_to_bridge', Goal) /\ Head(goal_to_bridge) \in Goal
    BY <1>4, TailKeepsQueue DEF on_goal
  <2>2. IsQueue(KeepLast(goal_pose, Head(goal_to_bridge)), Goal)
    BY <2>1, KeepLastKeepsQueue
  <2>3. QED
    BY <1>4, <2>1, <2>2 DEF on_goal, publish_external_goal_locked
<1>5. CASE on_controller_command
  <2>1. /\ IsQueue(commands', Goal \cup {NoGoal})
        /\ Head(commands) \in Goal \cup {NoGoal}
    BY <1>5, TailKeepsQueue DEF on_controller_command
  <2>2. QED
    BY <1>5, <2>1 DEF on_controller_command
<1>6. CASE DelayPasses
  BY <1>6 DEF DelayPasses
<1>7. CASE on_rmp_flag
  <2>1. IsQueue(flag_to_controller', {"on", "off"})
    BY <1>7, TailKeepsQueue DEF on_rmp_flag
  <2>2. rmp_active' \in BOOLEAN
    BY <1>7, Zenon DEF on_rmp_flag
  <2>3. QED
    BY <1>7, <2>1, <2>2 DEF on_rmp_flag
<1>8. CASE on_goal_pose
  <2>1. IsQueue(goal_pose', Goal) /\ Head(goal_pose) \in Goal
    BY <1>8, TailKeepsQueue DEF on_goal_pose
  <2>2. QED
    BY <1>8, <2>1 DEF on_goal_pose
<1>9. CASE PassGates
  BY <1>9 DEF PassGates
<1>10. CASE SolveAndApply
  <2>1. IsQueue(KeepLast(commands, goal), Goal \cup {NoGoal})
    <3>1. IsQueue(commands, Goal \cup {NoGoal}) /\ goal \in Goal \cup {NoGoal}
      OBVIOUS
    <3>2. QED
      BY <3>1, KeepLastKeepsQueue
  <2>2. QED
    BY <1>10, <2>1 DEF SolveAndApply
<1>11. CASE RestartController
  <2>1. IsQueue(<<>>, {"on", "off"}) /\ IsQueue(<<>>, Goal)
    BY EmptyIsQueue
  <2>2. restarts' \in 0..MaxRestarts
    BY <1>11 DEF RestartController
  <2>3. QED
    BY <1>11, <2>1, <2>2 DEF RestartController
<1>12. CASE UNCHANGED vars
  BY <1>12
<1>13. QED
  BY <1>1, <1>2, <1>3, <1>4, <1>5, <1>6, <1>7, <1>8, <1>9, <1>10, <1>11,
     <1>12
  DEF Next, Operator, Bridge, Controller

\* Every step keeps the forwarding justified.
LEMMA ForwardingPreserved ==
    ASSUME TypeOK, ForwardingIsJustified, [Next]_vars
    PROVE  ForwardingIsJustified'
<1> USE DEF ForwardingIsJustified,
           vars, operator_vars, bridge_vars, controller_vars, topics
<1>1. CASE \E value \in {"on", "off"} : SendFlag(value)
  BY <1>1 DEF SendFlag
<1>2. CASE \E g \in Goal : SendGoal(g)
  BY <1>2 DEF SendGoal
<1>3. CASE on_flag
  <2>1. CASE Head(flag_to_bridge) = "on" /\ ~active
    <3>1. Activate /\ UNCHANGED latest_goal
      BY <1>3, <2>1 DEF on_flag
    <3>2. QED
      BY <3>1 DEF Activate, publish_external_goal_locked
  <2>2. CASE Head(flag_to_bridge) = "off" /\ active
    <3>1. Deactivate
      BY <1>3, <2>2 DEF on_flag
    <3>2. QED
      BY <3>1 DEF Deactivate
  <2>3. CASE /\ ~(Head(flag_to_bridge) = "on" /\ ~active)
             /\ ~(Head(flag_to_bridge) = "off" /\ active)
    <3>1. UNCHANGED <<active, forwarding, published_goal, latest_goal>>
      BY <1>3, <2>3 DEF on_flag
    <3>2. QED
      BY <3>1
  <2>4. QED
    BY <2>1, <2>2, <2>3
<1>4. CASE on_goal
  <2>1. /\ latest_goal' = Head(goal_to_bridge) /\ Head(goal_to_bridge) \in Goal
        /\ UNCHANGED active
    BY <1>4, TailKeepsQueue DEF on_goal, TypeOK
  <2>2. CASE active
    <3>1. publish_external_goal_locked(latest_goal')
      BY <1>4, <2>2 DEF on_goal
    <3>2. QED
      BY <2>1, <2>2, <3>1 DEF publish_external_goal_locked
  <2>3. CASE ~active
    <3>1. ~forwarding /\ UNCHANGED forwarding
      BY <1>4, <2>3, Zenon DEF on_goal
    <3>2. QED
      BY <3>1
  <2>4. QED
    BY <2>2, <2>3
<1>5. CASE on_controller_command
  BY <1>5 DEF on_controller_command
<1>6. CASE DelayPasses
  BY <1>6 DEF DelayPasses
<1>7. CASE on_rmp_flag
  BY <1>7 DEF on_rmp_flag
<1>8. CASE on_goal_pose
  BY <1>8 DEF on_goal_pose
<1>9. CASE PassGates
  BY <1>9 DEF PassGates
<1>10. CASE SolveAndApply
  BY <1>10 DEF SolveAndApply
<1>11. CASE RestartController
  BY <1>11 DEF RestartController
<1>12. CASE UNCHANGED vars
  BY <1>12
<1>13. QED
  BY <1>1, <1>2, <1>3, <1>4, <1>5, <1>6, <1>7, <1>8, <1>9, <1>10, <1>11,
     <1>12
  DEF Next, Operator, Bridge, Controller

\* Every step keeps a goal behind every command.
LEMMA TargetsPreserved ==
    ASSUME TypeOK, TargetsHaveGoals, [Next]_vars
    PROVE  TargetsHaveGoals'
<1> USE DEF TargetsHaveGoals, vars, operator_vars, bridge_vars, controller_vars, topics
<1>1. CASE \E value \in {"on", "off"} : SendFlag(value)
  BY <1>1 DEF SendFlag
<1>2. CASE \E g \in Goal : SendGoal(g)
  BY <1>2 DEF SendGoal
<1>3. CASE on_flag
  BY <1>3 DEF on_flag, Activate, Deactivate, publish_external_goal_locked
<1>4. CASE on_goal
  BY <1>4 DEF on_goal, publish_external_goal_locked
<1>5. CASE on_controller_command
  <2>1. commands \in Seq(Goal \cup {NoGoal}) /\ commands # <<>>
        /\ commands' = Tail(commands)
    BY <1>5 DEF on_controller_command, TypeOK, IsQueue
  <2>2. \A i \in 1..Len(commands') : commands'[i] # NoGoal
    BY <2>1
  <2>3. QED
    BY <1>5, <2>2 DEF on_controller_command
<1>6. CASE DelayPasses
  BY <1>6 DEF DelayPasses
<1>7. CASE on_rmp_flag
  BY <1>7 DEF on_rmp_flag
<1>8. CASE on_goal_pose
  <2>1. goal' \in Goal
    BY <1>8, TailKeepsQueue DEF on_goal_pose, TypeOK
  <2>2. QED
    BY <1>8, <2>1 DEF on_goal_pose
<1>9. CASE PassGates
  BY <1>9 DEF PassGates
<1>10. CASE SolveAndApply
  <2>1. /\ commands \in Seq(Goal \cup {NoGoal}) /\ goal \in Goal
        /\ Len(commands) <= TopicDepth
        /\ commands' = KeepLast(commands, goal)
    BY <1>10 DEF SolveAndApply, TypeOK, IsQueue
  <2>2. CASE Len(commands) < TopicDepth
    BY <1>10, <2>1, <2>2 DEF SolveAndApply, KeepLast
  <2>3. CASE ~(Len(commands) < TopicDepth)
    <3>1. commands # <<>> /\ commands' = Append(Tail(commands), goal)
      BY <2>1, <2>3 DEF KeepLast
    <3>2. \A i \in 1..Len(Tail(commands)) : Tail(commands)[i] # NoGoal
      BY <2>1, <3>1
    <3>3. \A i \in 1..Len(commands') : commands'[i] # NoGoal
      BY <2>1, <3>1, <3>2
    <3>4. QED
      BY <1>10, <3>3 DEF SolveAndApply
  <2>4. QED
    BY <2>2, <2>3
<1>11. CASE RestartController
  BY <1>11 DEF RestartController
<1>12. CASE UNCHANGED vars
  BY <1>12
<1>13. QED
  BY <1>1, <1>2, <1>3, <1>4, <1>5, <1>6, <1>7, <1>8, <1>9, <1>10, <1>11,
     <1>12
  DEF Next, Operator, Bridge, Controller

\* The invariant holds when all nodes have started.
LEMMA InitIInv == Init => IInv
<1> SUFFICES ASSUME Init PROVE IInv
  OBVIOUS
<1> USE DEF Init
<1>1. TypeOK
  <2>1. /\ IsQueue(<<>>, {"on", "off"}) /\ IsQueue(<<>>, Goal)
        /\ IsQueue(<<>>, Goal \cup {NoGoal})
    BY EmptyIsQueue
  <2>2. 0 \in 0..MaxRestarts
    OBVIOUS
  <2>3. QED
    BY <2>1, <2>2 DEF TypeOK
<1>2. ForwardingIsJustified /\ TargetsHaveGoals
  BY DEF ForwardingIsJustified, TargetsHaveGoals
<1>3. QED
  BY <1>1, <1>2 DEF IInv

\* The invariant holds in every behaviour.
THEOREM Invariance ==
    Spec => []IInv
<1>1. IInv /\ [Next]_vars => IInv'
  BY TypePreserved, ForwardingPreserved, TargetsPreserved DEF IInv
<1>2. QED
  BY InitIInv, <1>1, PTL DEF Spec

\* The types and the depth of every queue are kept.
THEOREM TypeCorrect ==
    Spec => []TypeOK
<1>1. IInv => TypeOK
  BY DEF IInv
<1>2. QED
  BY Invariance, <1>1, PTL

\* Commands are forwarded only by an active bridge whose goal the controller
\* has been sent.
THEOREM ForwardingFollowsTheGoal ==
    Spec => []ForwardingIsJustified
<1>1. IInv => ForwardingIsJustified
  BY DEF IInv
<1>2. QED
  BY Invariance, <1>1, PTL

\* No command without a goal of the operator.
THEOREM CommandsFollowAGoal ==
    Spec => []TargetsHaveGoals
<1>1. IInv => TargetsHaveGoals
  BY DEF IInv
<1>2. QED
  BY Invariance, <1>1, PTL

-----------------------------------------------------------------------------
(* What GoalArrives and StopsForGood rest on: on every way the newest order *)
(* wins, and the ways run empty when the operator is silent.                *)

\* The last message a topic holds; without one, what its reader has made of the
\* messages before.
Newest(queue, taken) == IF queue = <<>> THEN taken ELSE queue[Len(queue)]

Flag(on) == IF on THEN "on" ELSE "off"

\* The controller ends up with the operator's last flag, and so does the bridge,
\* which remembers flags from before a restart of the controller.
FlagsAgree ==
    /\ (Newest(flag_to_controller, Flag(rmp_active)) = "on")
         <=> (flag_sent = "on")
    /\ flag_sent # "none" => Newest(flag_to_bridge, Flag(active)) = flag_sent

\* The bridge ends up with the operator's last goal.  An active bridge that has
\* taken all goals of this controller's life has passed the last one on.
GoalsAgree ==
    /\ goal_sent # NoGoal => Newest(goal_to_bridge, latest_goal) = goal_sent
    /\ goal_sent # NoGoal /\ goal_to_bridge = <<>> /\ active =>
         Newest(goal_pose, goal) = latest_goal
    /\ forwarding <=> active /\ latest_goal # NoGoal

\* Once the four topics are empty, bridge and controller do what the operator
\* said last, in whatever order flags and goals came, and whether or not the
\* controller was restarted in between.
LastOrdersHold ==
    /\ flag_to_bridge = <<>> /\ flag_to_controller = <<>>
    /\ goal_to_bridge = <<>> /\ goal_pose = <<>>
    => /\ flag_sent = "on" /\ goal_sent # NoGoal =>
            /\ active /\ rmp_active /\ forwarding
            /\ goal = goal_sent /\ published_goal = goal_sent
       /\ flag_sent = "off" => ~active /\ ~rmp_active /\ ~forwarding

\* What is still to be delivered; a message for the bridge may become one for
\* the controller.
Undelivered ==
    2 * (Len(flag_to_bridge) + Len(goal_to_bridge))
      + Len(flag_to_controller) + Len(goal_pose)

\* Every delivery brings the topics closer to empty, and only the operator adds
\* to them.
DeliveriesRunOut ==
    /\ on_flag \/ on_goal \/ on_rmp_flag \/ on_goal_pose =>
         Undelivered' < Undelivered
    /\ ~Operator => Undelivered' <= Undelivered
TopicsDrain == [][DeliveriesRunOut]_vars

\* The newest message of a topic is the one just kept.
LEMMA NewestIsKept ==
    ASSUME NEW M, NEW queue, IsQueue(queue, M), NEW message \in M, NEW taken
    PROVE  Newest(KeepLast(queue, message), taken) = message
<1>1. CASE Len(queue) < TopicDepth
  BY <1>1 DEF IsQueue, KeepLast, Newest
<1>2. CASE ~(Len(queue) < TopicDepth)
  <2>1. queue # <<>> /\ queue \in Seq(M)
    BY <1>2 DEF IsQueue
  <2>2. Tail(queue) \in Seq(M)
    BY <2>1
  <2>3. KeepLast(queue, message) = Append(Tail(queue), message)
    BY <1>2 DEF KeepLast
  <2>4. QED
    BY <2>2, <2>3 DEF Newest
<1>3. QED
  BY <1>1, <1>2

\* Taking a message changes nothing about what the topic ends up saying.
LEMMA NewestIsTaken ==
    ASSUME NEW M, NEW queue, IsQueue(queue, M), queue # <<>>, NEW taken
    PROVE  /\ Newest(queue, taken) = Newest(Tail(queue), Head(queue))
           /\ Tail(queue) # <<>> => Newest(queue, taken) = Newest(Tail(queue), taken)
           /\ Tail(queue) = <<>> => Newest(queue, taken) = Head(queue)
<1>1. /\ queue \in Seq(M) /\ Len(queue) \in Nat \ {0}
      /\ Head(queue) = queue[1]
      /\ Tail(queue) \in Seq(M) /\ Len(Tail(queue)) = Len(queue) - 1
      /\ \A i \in 1..Len(Tail(queue)) : Tail(queue)[i] = queue[i + 1]
  BY DEF IsQueue
<1>2. CASE Len(queue) = 1
  <2>1. Len(Tail(queue)) = 0
    BY <1>1, <1>2
  <2>2. Tail(queue) = <<>>
    <3>1. ASSUME NEW rest \in Seq(M), Len(rest) = 0
          PROVE  rest = <<>>
      BY <3>1
    <3>2. QED
      BY <1>1, <2>1, <3>1
  <2>3. QED
    BY <1>1, <1>2, <2>2 DEF Newest
<1>3. CASE Len(queue) # 1
  <2>1. Tail(queue) # <<>> /\ Len(Tail(queue)) \in 1..Len(Tail(queue))
    BY <1>1, <1>3
  <2>2. Tail(queue)[Len(Tail(queue))] = queue[Len(queue)]
    BY <1>1, <2>1
  <2>3. QED
    BY <2>1, <2>2 DEF Newest
<1>4. QED
  BY <1>2, <1>3

\* Keeping a message leaves the topic with one, and adds one at most.
LEMMA KeptIsThere ==
    ASSUME NEW M, NEW queue, IsQueue(queue, M), NEW message \in M
    PROVE  /\ KeepLast(queue, message) # <<>>
           /\ Len(KeepLast(queue, message)) <= Len(queue) + 1
<1>1. CASE Len(queue) < TopicDepth
  BY <1>1 DEF IsQueue, KeepLast
<1>2. CASE ~(Len(queue) < TopicDepth)
  <2>1. queue # <<>> /\ queue \in Seq(M)
    BY <1>2 DEF IsQueue
  <2>2. Tail(queue) \in Seq(M) /\ Len(Tail(queue)) = Len(queue) - 1
    BY <2>1
  <2>3. KeepLast(queue, message) = Append(Tail(queue), message)
    BY <1>2 DEF KeepLast
  <2>4. QED
    BY <2>1, <2>2, <2>3
<1>3. QED
  BY <1>1, <1>2

\* A flag reaches bridge and controller: the newest one decides.
LEMMA FlagsAgreePreserved ==
    ASSUME TypeOK, FlagsAgree, [Next]_vars
    PROVE  FlagsAgree'
<1> USE DEF FlagsAgree, vars, operator_vars, bridge_vars, controller_vars, topics
<1>1. CASE \E value \in {"on", "off"} : SendFlag(value)
  <2> SUFFICES ASSUME NEW value \in {"on", "off"}, SendFlag(value)
               PROVE  FlagsAgree'
    BY <1>1
  <2>1. /\ Newest(flag_to_bridge', Flag(active')) = value
        /\ Newest(flag_to_controller', Flag(rmp_active')) = value
    BY NewestIsKept DEF SendFlag, TypeOK
  <2>2. flag_sent' = value
    BY DEF SendFlag
  <2>3. QED
    BY <2>1, <2>2
<1>2. CASE \E g \in Goal : SendGoal(g)
  BY <1>2 DEF SendGoal
<1>3. CASE on_flag
  <2>1. /\ IsQueue(flag_to_bridge, {"on", "off"}) /\ flag_to_bridge # <<>>
        /\ flag_to_bridge' = Tail(flag_to_bridge)
        /\ UNCHANGED <<flag_to_controller, flag_sent, rmp_active>>
    BY <1>3 DEF on_flag, TypeOK
  <2>2. Newest(flag_to_bridge, Flag(active))
          = Newest(Tail(flag_to_bridge), Head(flag_to_bridge))
    BY <2>1, NewestIsTaken
  <2>3. Flag(active') = Head(flag_to_bridge)
    <3>1. Head(flag_to_bridge) \in {"on", "off"} /\ active \in BOOLEAN
      BY <2>1, TailKeepsQueue DEF TypeOK
    <3>2. CASE Head(flag_to_bridge) = "on" /\ ~active
      BY <1>3, <3>2 DEF on_flag, Activate, Flag
    <3>3. CASE Head(flag_to_bridge) = "off" /\ active
      <4>1. Deactivate
        BY <1>3, <3>3 DEF on_flag
      <4>2. QED
        BY <3>3, <4>1 DEF Deactivate, Flag
    <3>4. CASE /\ ~(Head(flag_to_bridge) = "on" /\ ~active)
               /\ ~(Head(flag_to_bridge) = "off" /\ active)
      <4>1. UNCHANGED active
        BY <1>3, <3>4 DEF on_flag
      <4>2. QED
        BY <3>1, <3>4, <4>1 DEF Flag
    <3>5. QED
      BY <3>2, <3>3, <3>4
  <2>4. QED
    BY <2>1, <2>2, <2>3
<1>4. CASE on_goal
  BY <1>4 DEF on_goal, publish_external_goal_locked
<1>5. CASE on_controller_command
  BY <1>5 DEF on_controller_command
<1>6. CASE DelayPasses
  BY <1>6 DEF DelayPasses
<1>7. CASE on_rmp_flag
  <2>1. /\ IsQueue(flag_to_controller, {"on", "off"})
        /\ flag_to_controller # <<>>
        /\ flag_to_controller' = Tail(flag_to_controller)
        /\ UNCHANGED <<flag_to_bridge, flag_sent, active>>
    BY <1>7 DEF on_rmp_flag, TypeOK
  <2>2. Newest(flag_to_controller, Flag(rmp_active))
          = Newest(Tail(flag_to_controller), Head(flag_to_controller))
    BY <2>1, NewestIsTaken
  <2>3. Flag(rmp_active') = Head(flag_to_controller)
    <3>1. Head(flag_to_controller) \in {"on", "off"}
      BY <2>1, TailKeepsQueue
    <3>2. rmp_active' <=> Head(flag_to_controller) = "on"
      BY <1>7, Zenon DEF on_rmp_flag
    <3>3. QED
      BY <3>1, <3>2 DEF Flag
  <2>4. QED
    BY <2>1, <2>2, <2>3
<1>8. CASE on_goal_pose
  BY <1>8 DEF on_goal_pose
<1>9. CASE PassGates
  BY <1>9 DEF PassGates
<1>10. CASE SolveAndApply
  BY <1>10 DEF SolveAndApply
<1>11. CASE RestartController
  BY <1>11 DEF RestartController, Newest, Flag
<1>12. CASE UNCHANGED vars
  BY <1>12
<1>13. QED
  BY <1>1, <1>2, <1>3, <1>4, <1>5, <1>6, <1>7, <1>8, <1>9, <1>10, <1>11,
     <1>12
  DEF Next, Operator, Bridge, Controller

\* A goal is passed on when it arrives at an active bridge, or with the
\* activation.
LEMMA GoalsAgreePreserved ==
    ASSUME TypeOK, GoalsAgree, [Next]_vars
    PROVE  GoalsAgree'
<1> USE DEF GoalsAgree, vars, operator_vars, bridge_vars, controller_vars, topics
<1>1. CASE \E value \in {"on", "off"} : SendFlag(value)
  BY <1>1 DEF SendFlag
<1>2. CASE \E g \in Goal : SendGoal(g)
  <2> SUFFICES ASSUME NEW g \in Goal, SendGoal(g)
               PROVE  GoalsAgree'
    BY <1>2
  <2>1. IsQueue(goal_to_bridge, Goal) /\ goal_to_bridge' = KeepLast(goal_to_bridge, g)
    BY DEF SendGoal, TypeOK
  <2>2. /\ Newest(goal_to_bridge', latest_goal') = g
        /\ goal_to_bridge' # <<>>
    BY <2>1, NewestIsKept, KeptIsThere
  <2>3. QED
    BY <2>2 DEF SendGoal
<1>3. CASE on_flag
  <2>1. UNCHANGED <<goal_sent, goal_to_bridge, latest_goal, goal>>
    BY <1>3 DEF on_flag
  <2>2. CASE Head(flag_to_bridge) = "on" /\ ~active
    <3>1. Activate
      BY <1>3, <2>2 DEF on_flag
    <3>2. CASE latest_goal = NoGoal
      <4>1. goal_sent # NoGoal => goal_to_bridge # <<>>
        BY <3>2 DEF Newest
      <4>2. QED
        BY <2>1, <3>1, <3>2, <4>1 DEF Activate, publish_external_goal_locked
    <3>3. CASE latest_goal # NoGoal
      <4>1. publish_external_goal_locked(latest_goal) /\ active'
        BY <3>1, <3>3 DEF Activate
      <4>2. latest_goal \in Goal /\ IsQueue(goal_pose, Goal)
        BY <3>3 DEF TypeOK
      <4>3. Newest(goal_pose', goal') = latest_goal
        BY <4>1, <4>2, NewestIsKept DEF publish_external_goal_locked
      <4>4. QED
        BY <2>1, <3>3, <4>1, <4>3 DEF publish_external_goal_locked
    <3>4. QED
      BY <3>2, <3>3
  <2>3. CASE Head(flag_to_bridge) = "off" /\ active
    <3>1. Deactivate
      BY <1>3, <2>3 DEF on_flag
    <3>2. QED
      BY <2>1, <3>1 DEF Deactivate
  <2>4. CASE /\ ~(Head(flag_to_bridge) = "on" /\ ~active)
             /\ ~(Head(flag_to_bridge) = "off" /\ active)
    <3>1. UNCHANGED <<active, forwarding, goal_pose>>
      BY <1>3, <2>4 DEF on_flag
    <3>2. QED
      BY <2>1, <3>1
  <2>5. QED
    BY <2>2, <2>3, <2>4
<1>4. CASE on_goal
  <2>1. /\ IsQueue(goal_to_bridge, Goal) /\ goal_to_bridge # <<>>
        /\ goal_to_bridge' = Tail(goal_to_bridge)
        /\ latest_goal' = Head(goal_to_bridge)
        /\ UNCHANGED <<goal_sent, active, goal>>
    BY <1>4 DEF on_goal, TypeOK
  <2>2. latest_goal' \in Goal
    BY <2>1, TailKeepsQueue
  <2>3. Newest(goal_to_bridge', latest_goal') = Newest(goal_to_bridge, latest_goal)
    BY <2>1, NewestIsTaken
  <2>4. CASE active
    <3>1. publish_external_goal_locked(latest_goal')
      BY <1>4, <2>4 DEF on_goal
    <3>2. Newest(goal_pose', goal') = latest_goal'
      BY <2>2, <3>1, NewestIsKept DEF publish_external_goal_locked, TypeOK
    <3>3. QED
      BY <2>1, <2>2, <2>3, <2>4, <3>1, <3>2 DEF publish_external_goal_locked
  <2>5. CASE ~active
    <3>1. UNCHANGED <<goal_pose, forwarding>>
      BY <1>4, <2>5 DEF on_goal
    <3>2. QED
      BY <2>1, <2>3, <2>5, <3>1
  <2>6. QED
    BY <2>4, <2>5
<1>5. CASE on_controller_command
  BY <1>5 DEF on_controller_command
<1>6. CASE DelayPasses
  BY <1>6 DEF DelayPasses
<1>7. CASE on_rmp_flag
  BY <1>7 DEF on_rmp_flag
<1>8. CASE on_goal_pose
  <2>1. /\ IsQueue(goal_pose, Goal) /\ goal_pose # <<>>
        /\ goal_pose' = Tail(goal_pose) /\ goal' = Head(goal_pose)
        /\ UNCHANGED <<goal_sent, goal_to_bridge, latest_goal, active,
                       forwarding>>
    BY <1>8 DEF on_goal_pose, TypeOK
  <2>2. Newest(goal_pose', goal') = Newest(goal_pose, goal)
    BY <2>1, NewestIsTaken
  <2>3. QED
    BY <2>1, <2>2
<1>9. CASE PassGates
  BY <1>9 DEF PassGates
<1>10. CASE SolveAndApply
  BY <1>10 DEF SolveAndApply
<1>11. CASE RestartController
  BY <1>11 DEF RestartController
<1>12. CASE UNCHANGED vars
  BY <1>12
<1>13. QED
  BY <1>1, <1>2, <1>3, <1>4, <1>5, <1>6, <1>7, <1>8, <1>9, <1>10, <1>11,
     <1>12
  DEF Next, Operator, Bridge, Controller

\* When nothing is on its way any more, bridge and controller follow the
\* operator's last flag and work on the operator's last goal, after any number
\* of restarts of the controller and whatever the topics dropped.
THEOREM LastOrdersAreFollowed ==
    Spec => []LastOrdersHold
<1>1. Init => FlagsAgree /\ GoalsAgree
  BY DEF Init, FlagsAgree, GoalsAgree, Newest, Flag
<1>2. IInv /\ FlagsAgree /\ [Next]_vars => FlagsAgree'
  BY FlagsAgreePreserved DEF IInv
<1>3. IInv /\ GoalsAgree /\ [Next]_vars => GoalsAgree'
  BY GoalsAgreePreserved DEF IInv
<1>4. IInv /\ FlagsAgree /\ GoalsAgree => LastOrdersHold
  BY DEF IInv, TypeOK, ForwardingIsJustified, FlagsAgree, GoalsAgree,
         LastOrdersHold, Newest, Flag
<1>5. QED
  BY Invariance, <1>1, <1>2, <1>3, <1>4, PTL DEF Spec

\* The topics drain while the operator is silent: a variant for the fairness of
\* the subscriptions.
THEOREM DeliveriesRunOutTheorem ==
    Spec => TopicsDrain
<1>1. IInv /\ [Next]_vars => [DeliveriesRunOut]_vars
  <2> SUFFICES ASSUME TypeOK, [Next]_vars, vars' # vars
               PROVE  DeliveriesRunOut
    BY DEF IInv
  <2> USE DEF vars, operator_vars, bridge_vars, controller_vars, topics
  <2>1. /\ Len(flag_to_bridge) \in Nat /\ Len(goal_to_bridge) \in Nat
        /\ Len(flag_to_controller) \in Nat /\ Len(goal_pose) \in Nat
    BY DEF TypeOK, IsQueue
  <2>2. ASSUME NEW M, NEW queue, IsQueue(queue, M), queue # <<>>
        PROVE  Len(Tail(queue)) = Len(queue) - 1
    BY <2>2 DEF IsQueue
  <2>3. ASSUME NEW g \in Goal
        PROVE  /\ Len(KeepLast(goal_pose, g)) \in Nat
               /\ Len(KeepLast(goal_pose, g)) <= Len(goal_pose) + 1
    BY KeptIsThere, KeepLastKeepsQueue DEF TypeOK, IsQueue
  <2>4. ASSUME on_flag
        PROVE  Undelivered' < Undelivered
    <3>1. /\ Len(flag_to_bridge') = Len(flag_to_bridge) - 1
          /\ UNCHANGED <<goal_to_bridge, flag_to_controller>>
      BY <2>2, <2>4 DEF on_flag, TypeOK
    <3>2. \/ goal_pose' = goal_pose
          \/ latest_goal \in Goal /\ goal_pose' = KeepLast(goal_pose, latest_goal)
      BY <2>4 DEF on_flag, Activate, Deactivate, publish_external_goal_locked,
                  TypeOK
    <3>3. Len(goal_pose') \in Nat /\ Len(goal_pose') <= Len(goal_pose) + 1
      BY <2>1, <2>3, <3>2
    <3>4. QED
      BY <2>1, <3>1, <3>3 DEF Undelivered
  <2>5. ASSUME on_goal
        PROVE  Undelivered' < Undelivered
    <3>1. /\ Len(goal_to_bridge') = Len(goal_to_bridge) - 1
          /\ UNCHANGED <<flag_to_bridge, flag_to_controller>>
      BY <2>2, <2>5 DEF on_goal, TypeOK
    <3>2. Head(goal_to_bridge) \in Goal
      BY <2>5, TailKeepsQueue DEF on_goal, TypeOK
    <3>3. \/ goal_pose' = goal_pose
          \/ goal_pose' = KeepLast(goal_pose, Head(goal_to_bridge))
      BY <2>5 DEF on_goal, publish_external_goal_locked
    <3>4. Len(goal_pose') \in Nat /\ Len(goal_pose') <= Len(goal_pose) + 1
      BY <2>1, <2>3, <3>2, <3>3
    <3>5. QED
      BY <2>1, <3>1, <3>4 DEF Undelivered
  <2>6. ASSUME on_rmp_flag
        PROVE  Undelivered' < Undelivered
    <3>1. /\ Len(flag_to_controller') = Len(flag_to_controller) - 1
          /\ UNCHANGED <<flag_to_bridge, goal_to_bridge, goal_pose>>
      BY <2>2, <2>6 DEF on_rmp_flag, TypeOK
    <3>2. QED
      BY <2>1, <3>1 DEF Undelivered
  <2>7. ASSUME on_goal_pose
        PROVE  Undelivered' < Undelivered
    <3>1. /\ Len(goal_pose') = Len(goal_pose) - 1
          /\ UNCHANGED <<flag_to_bridge, goal_to_bridge, flag_to_controller>>
      BY <2>2, <2>7 DEF on_goal_pose, TypeOK
    <3>2. QED
      BY <2>1, <3>1 DEF Undelivered
  <2>8. ~Operator => Undelivered' <= Undelivered
    <3>1. ASSUME \/ on_controller_command \/ DelayPasses \/ PassGates
                 \/ SolveAndApply
          PROVE  Undelivered' <= Undelivered
      <4>1. UNCHANGED <<flag_to_bridge, goal_to_bridge, flag_to_controller,
                        goal_pose>>
        BY <3>1 DEF on_controller_command, DelayPasses, PassGates, SolveAndApply
      <4>2. QED
        BY <2>1, <4>1 DEF Undelivered
    <3>2. ASSUME RestartController
          PROVE  Undelivered' <= Undelivered
      <4>1. /\ UNCHANGED <<flag_to_bridge, goal_to_bridge>>
            /\ Len(flag_to_controller') = 0 /\ Len(goal_pose') = 0
        BY <3>2 DEF RestartController
      <4>2. QED
        BY <2>1, <4>1 DEF Undelivered
    <3>3. CASE on_flag \/ on_goal \/ on_rmp_flag \/ on_goal_pose
      <4>1. Undelivered \in Nat /\ Undelivered' \in Nat
        <5>1. TypeOK'
          BY TypePreserved
        <5>2. QED
          BY <2>1, <5>1 DEF Undelivered, TypeOK, IsQueue
      <4>2. QED
        BY <2>4, <2>5, <2>6, <2>7, <3>3, <4>1
    <3>4. QED
      BY <3>1, <3>2, <3>3 DEF Next, Bridge, Controller
  <2>9. QED
    BY <2>4, <2>5, <2>6, <2>7, <2>8 DEF DeliveriesRunOut
<1>2. QED
  BY Invariance, <1>1, PTL DEF Spec, TopicsDrain

-----------------------------------------------------------------------------
(* What RepublishesTargetQ rests on: commands towards an earlier goal run   *)
(* out.                                                                     *)

\* The operator has switched the motion on, has sent this goal last, and bridge
\* and controller have taken all flags and goals.
AllTaken(g) ==
    /\ flag_sent = "on" /\ goal_sent = g
    /\ flag_to_bridge = <<>> /\ flag_to_controller = <<>>
    /\ goal_to_bridge = <<>> /\ goal_pose = <<>>

\* Every command on its way but the k oldest is towards this goal.
TowardsAfter(g, k) == \A i \in 1..Len(commands) : i > k => commands[i] = g

\* A command that comes later is towards it, a command that is taken leaves one
\* fewer that is not, and once all are, what is republished is and stays so.
TowardsStep(g) ==
    \A k \in 0..TopicDepth :
        TowardsAfter(g, k) =>
            /\ TowardsAfter(g, k)'
            /\ on_controller_command /\ k > 0 => TowardsAfter(g, k - 1)'
            /\ k = 0 /\ ((settled /\ on_controller_command) \/ target_q = g)
                  => target_q' = g

\* So it is while the operator is silent, and the delay that has passed has
\* passed for good.
TargetsFollow ==
    \A g \in Goal : AllTaken(g) /\ AllTaken(g)' =>
        TowardsStep(g) /\ (settled => settled')

\* At the start of such a time no more commands are towards others than the
\* topic holds.
TowardsStarts == \A g \in Goal : TowardsAfter(g, TopicDepth)

\* Keeping a message on the topic does not throw it back.
LEMMA KeepLastTowards ==
    ASSUME NEW M, NEW queue, IsQueue(queue, M), NEW g \in M, NEW k \in Nat,
           \A i \in 1..Len(queue) : i > k => queue[i] = g
    PROVE  \A i \in 1..Len(KeepLast(queue, g)) : i > k => KeepLast(queue, g)[i] = g
<1>1. CASE Len(queue) < TopicDepth
  BY <1>1 DEF IsQueue, KeepLast
<1>2. CASE ~(Len(queue) < TopicDepth)
  <2> DEFINE rest == Tail(queue)
  <2>1. queue \in Seq(M) /\ queue # <<>> /\ Len(queue) \in Nat \ {0}
    BY <1>2 DEF IsQueue
  <2>2. /\ rest \in Seq(M) /\ Len(rest) = Len(queue) - 1
        /\ \A i \in 1..Len(rest) : rest[i] = queue[i + 1]
    BY <2>1
  <2>3. /\ Len(Append(rest, g)) = Len(rest) + 1
        /\ \A i \in 1..Len(rest) : Append(rest, g)[i] = rest[i]
        /\ Append(rest, g)[Len(rest) + 1] = g
    BY <2>2
  <2>4. KeepLast(queue, g) = Append(rest, g)
    BY <1>2 DEF KeepLast
  <2> HIDE DEF rest
  <2>5. \A i \in 1..Len(rest) : i > k => rest[i] = g
    BY <2>1, <2>2
  <2>6. QED
    BY <2>1, <2>2, <2>3, <2>4, <2>5
<1>3. QED
  BY <1>1, <1>2

\* No step throws back how far the commands towards the goal have got.
LEMMA TowardsPreserved ==
    ASSUME TypeOK, LastOrdersHold, [Next]_vars
    PROVE  TargetsFollow
<1> SUFFICES ASSUME NEW g \in Goal, AllTaken(g), AllTaken(g)'
             PROVE  TowardsStep(g) /\ (settled => settled')
  BY DEF TargetsFollow
<1> USE DEF vars, operator_vars, bridge_vars, controller_vars, topics
<1>1. /\ IsQueue(commands, Goal \cup {NoGoal}) /\ TopicDepth \in Nat
      /\ commands \in Seq(Goal \cup {NoGoal})
  BY DEF TypeOK, IsQueue
<1>2. goal = g /\ forwarding = TRUE
  BY DEF LastOrdersHold, AllTaken, TypeOK
<1>3. CASE on_controller_command
  <2>1. /\ commands # <<>> /\ commands' = Tail(commands)
        /\ target_q' = IF settled THEN Head(commands) ELSE target_q
        /\ settled' = settled
    BY <1>2, <1>3 DEF on_controller_command
  <2>2. /\ Len(commands) \in Nat \ {0} /\ Len(commands') = Len(commands) - 1
        /\ \A i \in 1..Len(commands') : commands'[i] = commands[i + 1]
        /\ Head(commands) = commands[1] /\ 1 \in 1..Len(commands)
    BY <1>1, <2>1
  <2>3. ASSUME NEW k \in 0..TopicDepth, TowardsAfter(g, k)
        PROVE  /\ TowardsAfter(g, k)'
               /\ k > 0 => TowardsAfter(g, k - 1)'
               /\ k = 0 /\ (settled \/ target_q = g) => target_q' = g
    <3>1. TowardsAfter(g, k)'
      BY <2>2, <2>3 DEF TowardsAfter
    <3>2. k > 0 => TowardsAfter(g, k - 1)'
      BY <2>2, <2>3 DEF TowardsAfter
    <3>3. k = 0 => Head(commands) = g
      BY <2>2, <2>3 DEF TowardsAfter
    <3>4. QED
      BY <2>1, <3>1, <3>2, <3>3
  <2>4. QED
    BY <2>1, <2>3 DEF TowardsStep
<1>4. CASE SolveAndApply
  <2>1. commands' = KeepLast(commands, g) /\ UNCHANGED <<target_q, settled>>
    BY <1>2, <1>4 DEF SolveAndApply
  <2>2. ~on_controller_command
    BY <1>4 DEF SolveAndApply, on_controller_command
  <2>3. ASSUME NEW k \in 0..TopicDepth, TowardsAfter(g, k)
        PROVE  TowardsAfter(g, k)'
    <3>1. \A i \in 1..Len(commands) : i > k => commands[i] = g
      BY <2>3 DEF TowardsAfter
    <3>2. k \in Nat /\ g \in Goal \cup {NoGoal}
      OBVIOUS
    <3>3. \A i \in 1..Len(KeepLast(commands, g)) :
             i > k => KeepLast(commands, g)[i] = g
      BY <1>1, <3>1, <3>2, KeepLastTowards
    <3>4. QED
      BY <2>1, <3>3 DEF TowardsAfter
  <2>4. QED
    BY <2>1, <2>2, <2>3 DEF TowardsStep
<1>5. CASE DelayPasses \/ PassGates \/ UNCHANGED vars
  <2>1. UNCHANGED <<commands, target_q>> /\ (settled => settled')
    BY <1>5 DEF DelayPasses, PassGates
  <2>2. ~on_controller_command
    <3>1. on_controller_command => commands' = Tail(commands) /\ commands # <<>>
      BY DEF on_controller_command
    <3>2. commands # <<>> => Len(Tail(commands)) # Len(commands)
      BY <1>1
    <3>3. QED
      BY <2>1, <3>1, <3>2
  <2>3. QED
    BY <2>1, <2>2 DEF TowardsStep, TowardsAfter
<1>6. CASE on_flag \/ on_goal \/ on_rmp_flag \/ on_goal_pose
  BY <1>6 DEF on_flag, on_goal, on_rmp_flag, on_goal_pose, AllTaken
<1>7. CASE RestartController
  BY <1>7 DEF RestartController, AllTaken
<1>8. CASE Operator
  <2>1. ASSUME NEW value \in {"on", "off"}, SendFlag(value)
        PROVE  FALSE
    <3>1. flag_to_bridge' = KeepLast(flag_to_bridge, value)
          /\ IsQueue(flag_to_bridge, {"on", "off"})
      BY <2>1 DEF SendFlag, TypeOK
    <3>2. KeepLast(flag_to_bridge, value) # <<>>
      BY <3>1, KeptIsThere
    <3>3. QED
      BY <3>1, <3>2 DEF AllTaken
  <2>2. ASSUME NEW h \in Goal, SendGoal(h)
        PROVE  FALSE
    <3>1. goal_to_bridge' = KeepLast(goal_to_bridge, h)
          /\ IsQueue(goal_to_bridge, Goal)
      BY <2>2 DEF SendGoal, TypeOK
    <3>2. KeepLast(goal_to_bridge, h) # <<>>
      BY <3>1, KeptIsThere
    <3>3. QED
      BY <3>1, <3>2 DEF AllTaken
  <2>3. QED
    BY <1>8, <2>1, <2>2 DEF Operator
<1>9. QED
  BY <1>3, <1>4, <1>5, <1>6, <1>7, <1>8 DEF Next, Bridge, Controller

\* The safety core of RepublishesTargetQ: once all flags and goals are taken the
\* commands towards another goal are at most TopicDepth, the controller adds
\* none, every command the bridge takes leaves one fewer, and when none is left
\* and the delay has passed the goal comes out on /target_q and no other one.
THEOREM TargetsFollowTheGoal ==
    Spec => []TowardsStarts /\ [][TargetsFollow]_vars
<1>1. IInv => TowardsStarts
  <2> SUFFICES ASSUME TypeOK
               PROVE  TowardsStarts
    BY DEF IInv
  <2>1. Len(commands) \in Nat /\ Len(commands) <= TopicDepth
    BY DEF TypeOK, IsQueue
  <2>2. QED
    BY <2>1 DEF TowardsStarts, TowardsAfter
<1>2. IInv /\ LastOrdersHold /\ [Next]_vars => [TargetsFollow]_vars
  BY TowardsPreserved DEF IInv
<1>3. QED
  BY Invariance, LastOrdersAreFollowed, <1>1, <1>2, PTL DEF Spec

=============================================================================
