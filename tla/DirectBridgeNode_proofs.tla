------------------------ MODULE DirectBridgeNode_proofs ------------------------
(***************************************************************************)
(* Proofs about DirectBridgeNode, for every configuration and every depth  *)
(* of its topics.                                                          *)
(***************************************************************************)
EXTENDS DirectBridgeNode, TLAPS

USE BridgeAssumption

-----------------------------------------------------------------------------
(* The inductive invariant, conjunct by conjunct.                           *)

\* The halt is written after the last callback.
HaltComesLast ==
    wire = "halt" => node \in {"disconnect", "join_data", "gone"}

\* What has leaked plus what the callback under way may still send.
LeakCredit == blocked => leaked + Credit <= 1

\* Readiness is announced after the state can be read.
StateBeforeReady == received \/ sub = "received" => sample = "measured"

\* The commands of the time before the spin stand at the head of the topic;
\* with what is still being computed and what was taken they are bounded.
BacklogAt(k) ==
    /\ \A i \in 1..Len(commands) : commands[i] = "live" <=> i > k
    /\ early + k + (IF ctl = "before_spin" THEN 1 ELSE 0) <= TopicDepth + 1
    /\ ctl = "before_spin" => k = Len(commands)
    /\ node \in Constructing => k = Len(commands) /\ early = 0 /\ ctl # "live"

Backlog == \E k \in 0..Len(commands) : BacklogAt(k)

IInv == TypeOK /\ HaltComesLast /\ LeakCredit /\ StateBeforeReady /\ Backlog

-----------------------------------------------------------------------------
\* Every step keeps the types.
LEMMA TypePreserved ==
    ASSUME TypeOK, [Next]_vars
    PROVE  TypeOK'
<1> USE DEF TypeOK, Command, State, Constructing, Spinning, Leaving,
           Aborting, vars, node_vars, link_vars, gate_vars,
           ctl_vars, topic_vars, history
<1>1. CASE Connect
  <2>1. connected' \in BOOLEAN /\ running' \in BOOLEAN
    BY <1>1, Zenon DEF Connect
  <2>2. QED
    BY <1>1, <2>1 DEF Connect
<1>2. CASE InitializeRobot
  <2>1. connected' \in BOOLEAN
    BY <1>2, Zenon DEF InitializeRobot, SendText
  <2>2. QED
    BY <1>2, <2>1 DEF InitializeRobot, SendText
<1>3. CASE StartupMoveJ
  <2>1. connected' \in BOOLEAN
    BY <1>3, Zenon DEF StartupMoveJ, SendText
  <2>2. QED
    BY <1>3, <2>1 DEF StartupMoveJ, SendText
<1>4. CASE ArmHomeGate
  <2>1. waiting' \in BOOLEAN
    BY <1>4, Zenon DEF ArmHomeGate
  <2>2. QED
    BY <1>4, <2>1 DEF ArmHomeGate
<1>5. CASE AssignDeadline
  BY <1>5 DEF AssignDeadline
<1>6. CASE TakeCommand
  BY <1>6 DEF TakeCommand
<1>7. CASE SendServoJ
  BY <1>7 DEF SendServoJ
<1>8. CASE FailServoJ
  <2>1. connected' \in BOOLEAN
    BY <1>8, Zenon DEF FailServoJ
  <2>2. QED
    BY <1>8, <2>1 DEF FailServoJ
<1>9. CASE SpinReturns
  BY <1>9 DEF SpinReturns
<1>10. CASE ShutdownSequence
  <2>1. connected' \in BOOLEAN
    BY <1>10, Zenon DEF ShutdownSequence, SendText
  <2>2. QED
    BY <1>10, <2>1 DEF ShutdownSequence, SendText
<1>11. CASE Disconnect
  <2>1. running' \in BOOLEAN
    BY <1>11, Zenon DEF Disconnect
  <2>2. QED
    BY <1>11, <2>1 DEF Disconnect
<1>12. CASE JoinData
  <2>1. connected' \in BOOLEAN
    BY <1>12, Zenon DEF JoinData
  <2>2. QED
    BY <1>12, <2>1 DEF JoinData
<1>13. CASE ExchangeBlocked
  <2>1. blocked' \in BOOLEAN
    BY <1>13, Zenon DEF ExchangeBlocked
  <2>2. QED
    BY <1>13, <2>1 DEF ExchangeBlocked
<1>14. CASE \E home \in BOOLEAN : HomeGate(home)
  BY <1>14 DEF HomeGate
<1>15. CASE OpenHomeGate
  <2>1. waiting' \in BOOLEAN
    BY <1>15, Zenon DEF OpenHomeGate
  <2>2. QED
    BY <1>15, <2>1 DEF OpenHomeGate
<1>16. CASE PublishJointState
  BY <1>16 DEF PublishJointState
<1>17. CASE DataExit
  BY <1>17 DEF DataExit
<1>18. CASE DeliverJointState \/ LockBuffer \/ publish_visualization
  BY <1>18 DEF DeliverJointState, LockBuffer,
     publish_visualization
<1>19. CASE WriteSample
  BY <1>19 DEF WriteSample
<1>20. CASE SetReceived
  <2>1. received' \in BOOLEAN
    BY <1>20, Zenon DEF SetReceived
  <2>2. QED
    BY <1>20, <2>1 DEF SetReceived
<1>21. CASE BeginCycle
  BY <1>21 DEF BeginCycle, read_state, BufferLocked
<1>22. CASE SkipCommand
  BY <1>22 DEF SkipCommand
<1>23. CASE apply_command
  <2>1. ctl \in Command
    BY <1>23 DEF apply_command
  <2>2. commands' \in Seq(Command) /\ Len(commands') <= TopicDepth
    <3>1. CASE Len(commands) < TopicDepth
      BY <1>23, <2>1, <3>1 DEF apply_command, KeepLast
    <3>2. CASE ~(Len(commands) < TopicDepth)
      BY <1>23, <2>1, <3>2 DEF apply_command, KeepLast
    <3>3. QED
      BY <3>1, <3>2
  <2>3. seen' \in State
    BY <1>23 DEF apply_command, read_state, BufferLocked
  <2>4. QED
    BY <1>23, <2>2, <2>3 DEF apply_command
<1>24. CASE Sigint
  <2>1. rclcpp_ok' \in BOOLEAN
    BY <1>24, Zenon DEF Sigint
  <2>2. QED
    BY <1>24, <2>1 DEF Sigint
<1>25. CASE LoseConnection
  <2>1. connected' \in BOOLEAN
    BY <1>25, Zenon DEF LoseConnection
  <2>2. QED
    BY <1>25, <2>1 DEF LoseConnection
<1>26. CASE DeadlinePasses
  <2>1. expired' \in BOOLEAN
    BY <1>26, Zenon DEF DeadlinePasses
  <2>2. QED
    BY <1>26, <2>1 DEF DeadlinePasses
<1>27. CASE UNCHANGED vars
  BY <1>27
<1>28. QED
  BY <1>1, <1>2, <1>3, <1>4, <1>5, <1>6, <1>7, <1>8, <1>9, <1>10, <1>11,
     <1>12, <1>13, <1>14, <1>15, <1>16, <1>17, <1>18, <1>19, <1>20, <1>21,
     <1>22, <1>23, <1>24, <1>25, <1>26, <1>27
  DEF Next, Constructor, Executor, Destructor, HandleRobotState, OnState,
      ControlThread, Environment, Terminated

\* Every step keeps the halt last.
LEMMA HaltPreserved ==
    ASSUME HaltComesLast, [Next]_vars
    PROVE  HaltComesLast'
<1> USE DEF HaltComesLast, vars, node_vars, link_vars, gate_vars,
           ctl_vars, topic_vars, history
<1>1. CASE Connect
  BY <1>1 DEF Connect
<1>2. CASE InitializeRobot
  BY <1>2 DEF InitializeRobot, SendText
<1>3. CASE StartupMoveJ
  BY <1>3 DEF StartupMoveJ, SendText
<1>4. CASE ArmHomeGate
  BY <1>4 DEF ArmHomeGate
<1>5. CASE AssignDeadline
  BY <1>5 DEF AssignDeadline
<1>6. CASE TakeCommand
  BY <1>6 DEF TakeCommand
<1>7. CASE SendServoJ
  BY <1>7 DEF SendServoJ
<1>8. CASE FailServoJ
  BY <1>8 DEF FailServoJ
<1>9. CASE SpinReturns
  BY <1>9 DEF SpinReturns
<1>10. CASE ShutdownSequence
  BY <1>10 DEF ShutdownSequence, SendText
<1>11. CASE Disconnect
  BY <1>11 DEF Disconnect
<1>12. CASE JoinData
  BY <1>12 DEF JoinData
<1>13. CASE ExchangeBlocked
  BY <1>13 DEF ExchangeBlocked
<1>14. CASE \E home \in BOOLEAN : HomeGate(home)
  BY <1>14 DEF HomeGate
<1>15. CASE OpenHomeGate
  BY <1>15 DEF OpenHomeGate
<1>16. CASE PublishJointState
  BY <1>16 DEF PublishJointState
<1>17. CASE DataExit
  BY <1>17 DEF DataExit
<1>18. CASE DeliverJointState \/ LockBuffer \/ publish_visualization
  BY <1>18 DEF DeliverJointState, LockBuffer,
     publish_visualization
<1>19. CASE WriteSample
  BY <1>19 DEF WriteSample
<1>20. CASE SetReceived
  BY <1>20 DEF SetReceived
<1>21. CASE BeginCycle
  BY <1>21 DEF BeginCycle, ready
<1>22. CASE SkipCommand
  BY <1>22 DEF SkipCommand
<1>23. CASE apply_command
  BY <1>23 DEF apply_command, ready, KeepLast
<1>24. CASE Sigint
  BY <1>24 DEF Sigint
<1>25. CASE LoseConnection
  BY <1>25 DEF LoseConnection
<1>26. CASE DeadlinePasses
  BY <1>26 DEF DeadlinePasses
<1>27. CASE UNCHANGED vars
  BY <1>27
<1>28. QED
  BY <1>1, <1>2, <1>3, <1>4, <1>5, <1>6, <1>7, <1>8, <1>9, <1>10, <1>11,
     <1>12, <1>13, <1>14, <1>15, <1>16, <1>17, <1>18, <1>19, <1>20, <1>21,
     <1>22, <1>23, <1>24, <1>25, <1>26, <1>27
  DEF Next, Constructor, Executor, Destructor, HandleRobotState, OnState,
      ControlThread, Environment, Terminated

\* Every step keeps the credit of a stop.
LEMMA LeakPreserved ==
    ASSUME TypeOK, LeakCredit, [Next]_vars
    PROVE  LeakCredit'
<1> USE DEF TypeOK, LeakCredit, Credit, vars, node_vars, link_vars, gate_vars,
           ctl_vars, topic_vars, history
<1>1. CASE Connect
  BY <1>1 DEF Connect
<1>2. CASE InitializeRobot
  BY <1>2 DEF InitializeRobot, SendText
<1>3. CASE StartupMoveJ
  BY <1>3 DEF StartupMoveJ, SendText
<1>4. CASE ArmHomeGate
  BY <1>4 DEF ArmHomeGate
<1>5. CASE AssignDeadline
  BY <1>5 DEF AssignDeadline
<1>6. CASE TakeCommand
  BY <1>6 DEF TakeCommand
<1>7. CASE SendServoJ
  BY <1>7 DEF SendServoJ
<1>8. CASE FailServoJ
  BY <1>8 DEF FailServoJ
<1>9. CASE SpinReturns
  BY <1>9 DEF SpinReturns
<1>10. CASE ShutdownSequence
  BY <1>10 DEF ShutdownSequence, SendText
<1>11. CASE Disconnect
  BY <1>11 DEF Disconnect
<1>12. CASE JoinData
  BY <1>12 DEF JoinData
<1>13. CASE ExchangeBlocked
  BY <1>13 DEF ExchangeBlocked
<1>14. CASE \E home \in BOOLEAN : HomeGate(home)
  BY <1>14 DEF HomeGate
<1>15. CASE OpenHomeGate
  BY <1>15 DEF OpenHomeGate
<1>16. CASE PublishJointState
  BY <1>16 DEF PublishJointState
<1>17. CASE DataExit
  BY <1>17 DEF DataExit
<1>18. CASE DeliverJointState \/ LockBuffer \/ publish_visualization
  BY <1>18 DEF DeliverJointState, LockBuffer,
     publish_visualization
<1>19. CASE WriteSample
  BY <1>19 DEF WriteSample
<1>20. CASE SetReceived
  BY <1>20 DEF SetReceived
<1>21. CASE BeginCycle
  BY <1>21 DEF BeginCycle, ready
<1>22. CASE SkipCommand
  BY <1>22 DEF SkipCommand
<1>23. CASE apply_command
  BY <1>23 DEF apply_command, ready, KeepLast
<1>24. CASE Sigint
  BY <1>24 DEF Sigint
<1>25. CASE LoseConnection
  BY <1>25 DEF LoseConnection
<1>26. CASE DeadlinePasses
  BY <1>26 DEF DeadlinePasses
<1>27. CASE UNCHANGED vars
  BY <1>27
<1>28. QED
  BY <1>1, <1>2, <1>3, <1>4, <1>5, <1>6, <1>7, <1>8, <1>9, <1>10, <1>11,
     <1>12, <1>13, <1>14, <1>15, <1>16, <1>17, <1>18, <1>19, <1>20, <1>21,
     <1>22, <1>23, <1>24, <1>25, <1>26, <1>27
  DEF Next, Constructor, Executor, Destructor, HandleRobotState, OnState,
      ControlThread, Environment, Terminated

\* Every step keeps readiness behind the first state.
LEMMA StatePreserved ==
    ASSUME TypeOK, StateBeforeReady, [Next]_vars
    PROVE  StateBeforeReady'
<1> USE DEF TypeOK, Command, StateBeforeReady, vars, node_vars, link_vars,
           gate_vars, ctl_vars, topic_vars, history
<1>1. CASE Connect
  BY <1>1 DEF Connect
<1>2. CASE InitializeRobot
  BY <1>2 DEF InitializeRobot, SendText
<1>3. CASE StartupMoveJ
  BY <1>3 DEF StartupMoveJ, SendText
<1>4. CASE ArmHomeGate
  BY <1>4 DEF ArmHomeGate
<1>5. CASE AssignDeadline
  BY <1>5 DEF AssignDeadline
<1>6. CASE TakeCommand
  BY <1>6 DEF TakeCommand
<1>7. CASE SendServoJ
  BY <1>7 DEF SendServoJ
<1>8. CASE FailServoJ
  BY <1>8 DEF FailServoJ
<1>9. CASE SpinReturns
  BY <1>9 DEF SpinReturns
<1>10. CASE ShutdownSequence
  BY <1>10 DEF ShutdownSequence, SendText
<1>11. CASE Disconnect
  BY <1>11 DEF Disconnect
<1>12. CASE JoinData
  BY <1>12 DEF JoinData
<1>13. CASE ExchangeBlocked
  BY <1>13 DEF ExchangeBlocked
<1>14. CASE \E home \in BOOLEAN : HomeGate(home)
  BY <1>14 DEF HomeGate
<1>15. CASE OpenHomeGate
  BY <1>15 DEF OpenHomeGate
<1>16. CASE PublishJointState
  BY <1>16 DEF PublishJointState
<1>17. CASE DataExit
  BY <1>17 DEF DataExit
<1>18. CASE DeliverJointState \/ LockBuffer \/ publish_visualization
  BY <1>18 DEF DeliverJointState, LockBuffer,
     publish_visualization
<1>19. CASE WriteSample
  BY <1>19 DEF WriteSample
<1>20. CASE SetReceived
  BY <1>20 DEF SetReceived
<1>21. CASE BeginCycle
  BY <1>21 DEF BeginCycle, read_state, BufferLocked
<1>22. CASE SkipCommand
  BY <1>22 DEF SkipCommand
<1>23. CASE apply_command
  BY <1>23 DEF apply_command, read_state, BufferLocked
<1>24. CASE Sigint
  BY <1>24 DEF Sigint
<1>25. CASE LoseConnection
  BY <1>25 DEF LoseConnection
<1>26. CASE DeadlinePasses
  BY <1>26 DEF DeadlinePasses
<1>27. CASE UNCHANGED vars
  BY <1>27
<1>28. QED
  BY <1>1, <1>2, <1>3, <1>4, <1>5, <1>6, <1>7, <1>8, <1>9, <1>10, <1>11,
     <1>12, <1>13, <1>14, <1>15, <1>16, <1>17, <1>18, <1>19, <1>20, <1>21,
     <1>22, <1>23, <1>24, <1>25, <1>26, <1>27
  DEF Next, Constructor, Executor, Destructor, HandleRobotState, OnState,
      ControlThread, Environment, Terminated

\* Every step keeps the bound on the backlog.
LEMMA BacklogPreserved ==
    ASSUME TypeOK, Backlog, [Next]_vars
    PROVE  Backlog'
<1> USE DEF TypeOK, Command, Constructing, Backlog, BacklogAt, vars,
           node_vars, link_vars, gate_vars, ctl_vars, topic_vars, history
<1>1. CASE Connect
  BY <1>1 DEF Connect
<1>2. CASE InitializeRobot
  BY <1>2 DEF InitializeRobot, SendText
<1>3. CASE StartupMoveJ
  BY <1>3 DEF StartupMoveJ, SendText
<1>4. CASE ArmHomeGate
  BY <1>4 DEF ArmHomeGate
<1>5. CASE AssignDeadline
  BY <1>5 DEF AssignDeadline
<1>6. CASE TakeCommand
  <2>1. PICK k \in 0..Len(commands) : BacklogAt(k)
    OBVIOUS
  <2>2. /\ commands \in Seq(Command) /\ commands # <<>>
        /\ commands' = Tail(commands)
        /\ UNCHANGED ctl
        /\ node \notin Constructing /\ node' \notin Constructing
        /\ early' = IF node' = "callback" /\ Head(commands) = "before_spin"
                      THEN early + 1 ELSE early
    BY <1>6 DEF TakeCommand, Constructing
  <2>3. CASE k = 0
    <3>1. Head(commands) = "live" /\ early' = early
      BY <2>1, <2>2, <2>3
    <3>2. BacklogAt(0)'
      BY <2>1, <2>2, <2>3, <3>1
    <3>3. 0 \in 0..Len(commands')
      BY <2>2
    <3>4. QED
      BY <3>2, <3>3
  <2>4. CASE k # 0
    <3>1. early' <= early + 1 /\ k - 1 \in 0..Len(commands')
      BY <2>1, <2>2, <2>4
    <3>2. BacklogAt(k - 1)'
      BY <2>1, <2>2, <2>4, <3>1
    <3>3. QED
      BY <3>1, <3>2
  <2>5. QED
    BY <2>3, <2>4
<1>7. CASE SendServoJ
  BY <1>7 DEF SendServoJ
<1>8. CASE FailServoJ
  BY <1>8 DEF FailServoJ
<1>9. CASE SpinReturns
  BY <1>9 DEF SpinReturns
<1>10. CASE ShutdownSequence
  BY <1>10 DEF ShutdownSequence, SendText
<1>11. CASE Disconnect
  BY <1>11 DEF Disconnect
<1>12. CASE JoinData
  BY <1>12 DEF JoinData
<1>13. CASE ExchangeBlocked
  BY <1>13 DEF ExchangeBlocked
<1>14. CASE \E home \in BOOLEAN : HomeGate(home)
  BY <1>14 DEF HomeGate
<1>15. CASE OpenHomeGate
  BY <1>15 DEF OpenHomeGate
<1>16. CASE PublishJointState
  BY <1>16 DEF PublishJointState
<1>17. CASE DataExit
  BY <1>17 DEF DataExit
<1>18. CASE DeliverJointState \/ LockBuffer \/ publish_visualization
  BY <1>18 DEF DeliverJointState, LockBuffer,
     publish_visualization
<1>19. CASE WriteSample
  BY <1>19 DEF WriteSample
<1>20. CASE SetReceived
  BY <1>20 DEF SetReceived
<1>21. CASE BeginCycle
  BY <1>21 DEF BeginCycle, ready
<1>22. CASE SkipCommand
  BY <1>22 DEF SkipCommand
<1>23. CASE apply_command
  <2>1. PICK k \in 0..Len(commands) : BacklogAt(k)
    OBVIOUS
  <2>2. /\ commands \in Seq(Command) /\ ctl \in Command
        /\ ctl' = "top"
        /\ UNCHANGED <<node, early>>
    BY <1>23 DEF apply_command
  <2>3. ctl = "before_spin" \/ ctl = "live"
    BY <2>2
  <2>4. CASE Len(commands) < TopicDepth
    <3>1. commands' = Append(commands, ctl)
      BY <1>23, <2>4 DEF apply_command, KeepLast
    <3>2. CASE ctl = "before_spin"
      <4>1. BacklogAt(k + 1)' /\ k + 1 \in 0..Len(commands')
        BY <2>1, <2>2, <3>1, <3>2
      <4>2. QED
        BY <4>1
    <3>3. CASE ctl = "live"
      <4>1. BacklogAt(k)' /\ k \in 0..Len(commands')
        BY <2>1, <2>2, <3>1, <3>3
      <4>2. QED
        BY <4>1
    <3>4. QED
      BY <2>3, <3>2, <3>3
  <2>5. CASE ~(Len(commands) < TopicDepth)
    <3>1. /\ Len(commands) = TopicDepth /\ commands # <<>>
          /\ commands' = Append(Tail(commands), ctl)
      BY <1>23, <2>2, <2>5 DEF apply_command, KeepLast
    <3>2. /\ Len(commands') = Len(commands)
          /\ \A i \in 1..Len(commands) :
               commands'[i] = IF i = Len(commands) THEN ctl ELSE commands[i + 1]
      BY <2>2, <3>1
    <3>3. CASE ctl = "before_spin"
      <4>1. BacklogAt(k)' /\ k \in 0..Len(commands')
        BY <2>1, <2>2, <3>1, <3>2, <3>3
      <4>2. QED
        BY <4>1
    <3>4. CASE ctl = "live" /\ k = 0
      <4>1. BacklogAt(0)' /\ 0 \in 0..Len(commands')
        BY <2>1, <2>2, <3>1, <3>2, <3>4
      <4>2. QED
        BY <4>1
    <3>5. CASE ctl = "live" /\ k # 0
      <4>1. BacklogAt(k - 1)' /\ k - 1 \in 0..Len(commands')
        BY <2>1, <2>2, <3>1, <3>2, <3>5
      <4>2. QED
        BY <4>1
    <3>6. QED
      BY <2>3, <3>3, <3>4, <3>5
  <2>6. QED
    BY <2>4, <2>5
<1>24. CASE Sigint
  BY <1>24 DEF Sigint
<1>25. CASE LoseConnection
  BY <1>25 DEF LoseConnection
<1>26. CASE DeadlinePasses
  BY <1>26 DEF DeadlinePasses
<1>27. CASE UNCHANGED vars
  BY <1>27
<1>28. QED
  BY <1>1, <1>2, <1>3, <1>4, <1>5, <1>6, <1>7, <1>8, <1>9, <1>10, <1>11,
     <1>12, <1>13, <1>14, <1>15, <1>16, <1>17, <1>18, <1>19, <1>20, <1>21,
     <1>22, <1>23, <1>24, <1>25, <1>26, <1>27
  DEF Next, Constructor, Executor, Destructor, HandleRobotState, OnState,
      ControlThread, Environment, Terminated

\* The invariant holds before the constructor.
LEMMA InitIInv == Init => IInv
<1> SUFFICES ASSUME Init PROVE IInv
  OBVIOUS
<1> USE DEF Init
<1>1. TypeOK
  <2>1. commands \in Seq(Command) /\ Len(commands) <= TopicDepth
    BY DEF Command
  <2>2. joint_states \in 0..TopicDepth
    OBVIOUS
  <2>3. QED
    BY <2>1, <2>2 DEF TypeOK, Command, State, Constructing, Spinning, Leaving,
       Aborting
<1>2. HaltComesLast /\ LeakCredit /\ StateBeforeReady
  BY DEF HaltComesLast, LeakCredit, Credit, StateBeforeReady
<1>3. Backlog
  <2>1. BacklogAt(0) /\ 0 \in 0..Len(commands)
    BY DEF BacklogAt
  <2>2. QED
    BY <2>1 DEF Backlog
<1>4. QED
  BY <1>1, <1>2, <1>3 DEF IInv

\* The invariant holds in every behaviour.
THEOREM Invariance ==
    Spec => []IInv
<1>1. IInv /\ [Next]_vars => IInv'
  BY TypePreserved, HaltPreserved, LeakPreserved, StatePreserved,
     BacklogPreserved DEF IInv, StateBeforeReady
<1>2. QED
  BY InitIInv, <1>1, PTL DEF Spec

\* The types are kept in every behaviour.
THEOREM TypeCorrect ==
    Spec => []TypeOK
<1>1. IInv => TypeOK
  BY DEF IInv
<1>2. QED
  BY Invariance, <1>1, PTL

\* A safety stop lets one command through at most, however many wait on the
\* topic.
THEOREM StopLeaksOneCommand ==
    Spec => []LeakBound
<1>1. IInv => LeakBound
  BY DEF IInv, TypeOK, LeakCredit, LeakBound, Credit
<1>2. QED
  BY Invariance, <1>1, PTL

\* A cycle that can take the buffer starts from a state of the robot, and so does
\* one that cannot, once anybody has read a state.
THEOREM CyclesStartFromState ==
    Spec => ReadsFindState
<1>1. ASSUME IInv, BeginCycle
      PROVE  seen' = "measured" \/ (BufferLocked /\ seen = "initial_q")
  BY <1>1
  DEF IInv, TypeOK, State, StateBeforeReady, BeginCycle, read_state,
      BufferLocked, ready
<1>2. QED
  BY Invariance, <1>1, PTL DEF ReadsFindState

\* What the node takes of the commands that gathered while its constructor ran
\* is bounded by the depth of the topic, whatever the depth.
THEOREM BacklogIsBounded ==
    Spec => []BacklogBound
<1>1. IInv => BacklogBound
  <2> SUFFICES ASSUME IInv PROVE BacklogBound
    OBVIOUS
  <2>1. PICK k \in 0..Len(commands) : BacklogAt(k)
    BY DEF IInv, Backlog
  <2>2. early \in Nat /\ k \in Nat
    BY <2>1 DEF IInv, TypeOK
  <2>3. QED
    BY <2>1, <2>2 DEF BacklogAt, BacklogBound
<1>2. QED
  BY Invariance, <1>1, PTL

-----------------------------------------------------------------------------
\* A step of the bridge is a step of the command gate or leaves it as it is: the
\* last step of the constructor releases, TakeCommand admits, a frame sent or
\* failed is spent, leaving the executor closes, the shutdown sequence halts.
LEMMA StepImplementsGate ==
    ASSUME IInv, [Next]_vars
    PROVE  [Gate!Next]_(Gate!gate)
<1> USE DEF Gate!Next, Gate!Release, Gate!Admit, Gate!Spend, Gate!SafetyStop,
           Gate!Close, Gate!Halt, Gate!gate, Credit, Constructing, Spinning, Leaving, Aborting,
           vars, node_vars, link_vars, gate_vars,
           ctl_vars, topic_vars, history
<1>1. CASE Connect
  BY <1>1 DEF IInv, TypeOK, HaltComesLast, Connect
<1>2. CASE InitializeRobot
  BY <1>2 DEF IInv, TypeOK, HaltComesLast, InitializeRobot, SendText
<1>3. CASE StartupMoveJ
  BY <1>3 DEF IInv, TypeOK, HaltComesLast, StartupMoveJ, SendText
<1>4. CASE ArmHomeGate
  BY <1>4 DEF IInv, TypeOK, HaltComesLast, ArmHomeGate
<1>5. CASE AssignDeadline
  BY <1>5 DEF IInv, TypeOK, HaltComesLast, AssignDeadline
<1>6. CASE TakeCommand
  BY <1>6 DEF IInv, TypeOK, HaltComesLast, TakeCommand
<1>7. CASE SendServoJ
  BY <1>7 DEF IInv, TypeOK, HaltComesLast, SendServoJ
<1>8. CASE FailServoJ
  BY <1>8 DEF IInv, TypeOK, HaltComesLast, FailServoJ
<1>9. CASE SpinReturns
  BY <1>9 DEF IInv, TypeOK, HaltComesLast, SpinReturns
<1>10. CASE ShutdownSequence
  BY <1>10 DEF IInv, TypeOK, HaltComesLast, ShutdownSequence, SendText
<1>11. CASE Disconnect
  BY <1>11 DEF IInv, TypeOK, HaltComesLast, Disconnect
<1>12. CASE JoinData
  BY <1>12 DEF IInv, TypeOK, HaltComesLast, JoinData
<1>13. CASE ExchangeBlocked
  <2>1. blocked \in BOOLEAN /\ blocked' \in BOOLEAN
    BY <1>13, Zenon DEF ExchangeBlocked, IInv, TypeOK
  <2>2. UNCHANGED <<node, wire>>
    BY <1>13 DEF ExchangeBlocked
  <2>3. CASE blocked' = blocked
    BY <2>2, <2>3
  <2>4. CASE blocked' # blocked
    <3>1. blocked' = ~blocked
      BY <2>1, <2>4, Zenon
    <3>2. Gate!SafetyStop
      BY <2>2, <3>1
    <3>3. QED
      BY <3>2
  <2>5. QED
    BY <2>3, <2>4
<1>14. CASE \E home \in BOOLEAN : HomeGate(home)
  BY <1>14 DEF IInv, TypeOK, HaltComesLast, HomeGate
<1>15. CASE OpenHomeGate
  BY <1>15 DEF IInv, TypeOK, HaltComesLast, OpenHomeGate
<1>16. CASE PublishJointState
  BY <1>16 DEF IInv, TypeOK, HaltComesLast, PublishJointState
<1>17. CASE DataExit
  BY <1>17 DEF IInv, TypeOK, HaltComesLast, DataExit
<1>18. CASE DeliverJointState \/ LockBuffer \/ publish_visualization
  BY <1>18 DEF IInv, TypeOK, HaltComesLast, DeliverJointState, LockBuffer,
     publish_visualization
<1>19. CASE WriteSample
  BY <1>19 DEF IInv, TypeOK, HaltComesLast, WriteSample
<1>20. CASE SetReceived
  BY <1>20 DEF IInv, TypeOK, HaltComesLast, SetReceived
<1>21. CASE BeginCycle
  BY <1>21 DEF IInv, TypeOK, HaltComesLast, BeginCycle, ready
<1>22. CASE SkipCommand
  BY <1>22 DEF IInv, TypeOK, HaltComesLast, SkipCommand
<1>23. CASE apply_command
  BY <1>23 DEF IInv, TypeOK, HaltComesLast, apply_command, ready, KeepLast
<1>24. CASE Sigint
  BY <1>24 DEF IInv, TypeOK, HaltComesLast, Sigint
<1>25. CASE LoseConnection
  BY <1>25 DEF IInv, TypeOK, HaltComesLast, LoseConnection
<1>26. CASE DeadlinePasses
  BY <1>26 DEF IInv, TypeOK, HaltComesLast, DeadlinePasses
<1>27. CASE UNCHANGED vars
  BY <1>27
<1>28. QED
  BY <1>1, <1>2, <1>3, <1>4, <1>5, <1>6, <1>7, <1>8, <1>9, <1>10, <1>11,
     <1>12, <1>13, <1>14, <1>15, <1>16, <1>17, <1>18, <1>19, <1>20, <1>21,
     <1>22, <1>23, <1>24, <1>25, <1>26, <1>27
  DEF Next, Constructor, Executor, Destructor, HandleRobotState, OnState,
      ControlThread, Environment, Terminated

\* The bridge implements the command gate with room for a single command.
THEOREM BridgeImplementsGate ==
    Spec => ImplementsGate
<1>1. Init => Gate!Init
  BY DEF Init, Gate!Init, Credit, Constructing
<1>2. QED
  BY <1>1, Invariance, StepImplementsGate, PTL DEF Spec, Gate!Spec, ImplementsGate

-----------------------------------------------------------------------------
(* What ShutdownCompletes rests on: after the signal the bridge has a       *)
(* bounded number of steps left, and its one join waits for a thread that   *)
(* can take its own.                                                        *)

\* The data thread exists from connect() on, and disconnect() lowers running_
\* before it joins.
DataLifecycle ==
    /\ data = "off" => node \in {"connect", "failed"}
    /\ node = "connect" => data = "off"
    /\ node \in {"join_data", "abort_join"} => ~running

\* Where the bridge joins, the data thread is done or has a step to take.
JoinedDataMoves ==
    node \in {"join_data", "abort_join"} =>
        \/ data \in {"gate", "open", "publish", "done"}
        \/ data = "idle" /\ ~running

\* The longest way from a place of the main thread to its end, and from one of
\* the data thread.
NodeSteps ==
    [connect |-> 13, init |-> 11, move_j |-> 10, arm |-> 9, deadline |-> 8,
     callback |-> 7, spin |-> 6, shutdown |-> 5, disconnect |-> 4, abort |-> 3,
     join_data |-> 2, abort_join |-> 2, gone |-> 0, failed |-> 0]
DataSteps ==
    [gate |-> 4, open |-> 3, publish |-> 2, idle |-> 1,
     off |-> 0, done |-> 0]
StepsLeft == NodeSteps[node] + DataSteps[data]

BridgeMoves == Constructor \/ Executor \/ Destructor \/ HandleRobotState

\* After the signal every step of the bridge brings it closer to its end, and
\* nothing the controller or the network does takes it back.
StepsRunOut ==
    ~rclcpp_ok =>
        /\ StepsLeft \in Nat
        /\ BridgeMoves => StepsLeft' < StepsLeft
        /\ StepsLeft' <= StepsLeft
ShutdownRunsOut == [][StepsRunOut]_vars

\* Only connect() starts the data thread, and only disconnect() lowers running_.
LEMMA DataLifecyclePreserved ==
    ASSUME TypeOK, DataLifecycle, [Next]_vars
    PROVE  DataLifecycle'
<1> USE DEF TypeOK, DataLifecycle, vars, node_vars, link_vars, gate_vars,
           ctl_vars, topic_vars, history
<1>1. CASE Connect
  BY <1>1 DEF Connect
<1>2. CASE InitializeRobot
  BY <1>2 DEF InitializeRobot, SendText
<1>3. CASE StartupMoveJ
  BY <1>3 DEF StartupMoveJ, SendText
<1>4. CASE ArmHomeGate
  BY <1>4 DEF ArmHomeGate
<1>5. CASE AssignDeadline
  BY <1>5 DEF AssignDeadline
<1>6. CASE TakeCommand
  BY <1>6 DEF TakeCommand
<1>7. CASE SendServoJ
  BY <1>7 DEF SendServoJ
<1>8. CASE FailServoJ
  BY <1>8 DEF FailServoJ
<1>9. CASE SpinReturns
  BY <1>9 DEF SpinReturns
<1>10. CASE ShutdownSequence
  BY <1>10 DEF ShutdownSequence, SendText
<1>11. CASE Disconnect
  BY <1>11 DEF Disconnect
<1>12. CASE JoinData
  BY <1>12 DEF JoinData
<1>13. CASE ExchangeBlocked
  BY <1>13 DEF ExchangeBlocked
<1>14. CASE \E home \in BOOLEAN : HomeGate(home)
  BY <1>14 DEF HomeGate
<1>15. CASE OpenHomeGate
  BY <1>15 DEF OpenHomeGate
<1>16. CASE PublishJointState
  BY <1>16 DEF PublishJointState
<1>17. CASE DataExit
  BY <1>17 DEF DataExit
<1>18. CASE DeliverJointState \/ LockBuffer \/ publish_visualization
  BY <1>18 DEF DeliverJointState, LockBuffer,
     publish_visualization
<1>19. CASE WriteSample
  BY <1>19 DEF WriteSample
<1>20. CASE SetReceived
  BY <1>20 DEF SetReceived
<1>21. CASE BeginCycle
  BY <1>21 DEF BeginCycle, ready
<1>22. CASE SkipCommand
  BY <1>22 DEF SkipCommand
<1>23. CASE apply_command
  BY <1>23 DEF apply_command, ready, KeepLast
<1>24. CASE Sigint
  BY <1>24 DEF Sigint
<1>25. CASE LoseConnection
  BY <1>25 DEF LoseConnection
<1>26. CASE DeadlinePasses
  BY <1>26 DEF DeadlinePasses
<1>27. CASE UNCHANGED vars
  BY <1>27
<1>28. QED
  BY <1>1, <1>2, <1>3, <1>4, <1>5, <1>6, <1>7, <1>8, <1>9, <1>10, <1>11,
     <1>12, <1>13, <1>14, <1>15, <1>16, <1>17, <1>18, <1>19, <1>20, <1>21,
     <1>22, <1>23, <1>24, <1>25, <1>26, <1>27
  DEF Next, Constructor, Executor, Destructor, HandleRobotState, OnState,
      ControlThread, Environment, Terminated

\* The join of the destructor waits for a data thread that has ended or can go
\* on: nobody keeps it in its loop.
THEOREM JoinedDataThreadMoves ==
    Spec => []JoinedDataMoves
<1>1. Init => DataLifecycle
  BY DEF Init, DataLifecycle
<1>2. IInv /\ DataLifecycle /\ [Next]_vars => DataLifecycle'
  BY DataLifecyclePreserved DEF IInv
<1>3. IInv /\ DataLifecycle => JoinedDataMoves
  BY DEF IInv, TypeOK, DataLifecycle, JoinedDataMoves
<1>4. QED
  BY Invariance, <1>1, <1>2, <1>3, PTL DEF Spec

\* After the signal the steps of the bridge run out: with the fairness of its
\* two threads this is why it ends.
THEOREM ShutdownRunsOutTheorem ==
    Spec => ShutdownRunsOut
<1>1. Init => DataLifecycle
  BY DEF Init, DataLifecycle
<1>2. IInv /\ DataLifecycle /\ [Next]_vars => DataLifecycle'
  BY DataLifecyclePreserved DEF IInv
<1>3. IInv /\ DataLifecycle /\ [Next]_vars => [StepsRunOut]_vars
  <2> SUFFICES ASSUME TypeOK, DataLifecycle, [Next]_vars, ~rclcpp_ok
               PROVE  /\ StepsLeft \in Nat
                      /\ BridgeMoves => StepsLeft' < StepsLeft
                      /\ StepsLeft' <= StepsLeft
    BY DEF IInv, StepsRunOut
  <2> USE DEF node_vars, link_vars, gate_vars, ctl_vars, topic_vars, history
  <2>1. /\ StepsLeft = NodeSteps[node] + DataSteps[data]
        /\ StepsLeft' = NodeSteps[node'] + DataSteps[data']
    BY DEF StepsLeft
  <2>2. TypeOK'
    BY TypePreserved
  <2>3. NodeSteps[node] \in Nat /\ NodeSteps[node'] \in Nat
    <3>1. \A place \in Constructing \cup Spinning \cup Leaving \cup Aborting :
            NodeSteps[place] \in Nat
      BY DEF NodeSteps, Constructing, Spinning, Leaving, Aborting
    <3>2. QED
      BY <2>2, <3>1 DEF TypeOK
  <2>4. DataSteps[data] \in Nat /\ DataSteps[data'] \in Nat
    BY <2>2 DEF TypeOK, DataSteps
  <2>5. ASSUME Connect
        PROVE  StepsLeft' < StepsLeft
    BY <2>5 DEF Connect, DataLifecycle, StepsLeft, NodeSteps, DataSteps
  <2>6. ASSUME \/ InitializeRobot \/ StartupMoveJ \/ ArmHomeGate
               \/ AssignDeadline \/ Executor \/ Destructor
        PROVE  StepsLeft' < StepsLeft
    <3>1. DataSteps[data'] = DataSteps[data]
      BY <2>6 DEF DataSteps, InitializeRobot, StartupMoveJ, ArmHomeGate,
         AssignDeadline, Executor, TakeCommand, SendServoJ, FailServoJ,
         SpinReturns, Destructor, ShutdownSequence, Disconnect, JoinData
    <3>2. NodeSteps[node'] < NodeSteps[node]
      <4>1. CASE InitializeRobot
        BY <4>1 DEF NodeSteps, InitializeRobot, SendText
      <4>2. CASE StartupMoveJ \/ ArmHomeGate \/ AssignDeadline
        BY <4>2 DEF NodeSteps, StartupMoveJ, ArmHomeGate, AssignDeadline,
           SendText
      <4>3. CASE Executor
        <5>1. ~TakeCommand
          BY DEF TakeCommand
        <5>2. \/ node = "callback" /\ node' = "spin"
              \/ node = "spin" /\ node' \in {"shutdown", "disconnect"}
          BY <4>3, <5>1 DEF Executor, SendServoJ, FailServoJ, SpinReturns
        <5>3. QED
          BY <5>2 DEF NodeSteps
      <4>4. CASE Destructor
        BY <4>4 DEF NodeSteps, Destructor, ShutdownSequence, SendText,
           Disconnect, JoinData
      <4>5. QED
        BY <2>6, <4>1, <4>2, <4>3, <4>4
    <3>3. QED
      BY <2>1, <2>3, <2>4, <3>1, <3>2
  <2>7. ASSUME HandleRobotState
        PROVE  StepsLeft' < StepsLeft
    <3>1. NodeSteps[node'] = NodeSteps[node]
      BY <2>7 DEF NodeSteps, HandleRobotState, ExchangeBlocked, HomeGate,
         OpenHomeGate, PublishJointState, DataExit
    <3>2. DataSteps[data'] < DataSteps[data]
      BY <2>7 DEF DataSteps, HandleRobotState, ExchangeBlocked, HomeGate,
         OpenHomeGate, PublishJointState, DataExit
    <3>3. QED
      BY <2>1, <2>3, <2>4, <3>1, <3>2
  <2>8. BridgeMoves => StepsLeft' < StepsLeft
    BY <2>5, <2>6, <2>7 DEF BridgeMoves, Constructor
  <2>9. ASSUME OnState \/ publish_visualization \/ ControlThread \/ Environment
        PROVE  StepsLeft' = StepsLeft
    BY <2>9 DEF StepsLeft, NodeSteps, DataSteps, OnState, DeliverJointState,
       LockBuffer, publish_visualization, WriteSample, SetReceived, ControlThread,
       BeginCycle, SkipCommand, apply_command, Environment, Sigint, LoseConnection, DeadlinePasses
  <2>10. StepsLeft' <= StepsLeft
    <3>1. CASE UNCHANGED vars
      BY <2>1, <2>3, <2>4, <3>1 DEF vars
    <3>2. QED
      BY <2>1, <2>3, <2>4, <2>8, <2>9, <3>1 DEF Next, Terminated, BridgeMoves
  <2>11. QED
    BY <2>1, <2>3, <2>4, <2>8, <2>10
<1>4. QED
  BY Invariance, <1>1, <1>2, <1>3, PTL DEF Spec, ShutdownRunsOut

=============================================================================
