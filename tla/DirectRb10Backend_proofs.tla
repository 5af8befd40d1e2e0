----------------------- MODULE DirectRb10Backend_proofs -----------------------
(***************************************************************************)
(* Proofs about DirectRb10Backend, for every configuration and every       *)
(* interleaving.                                                           *)
(***************************************************************************)
EXTENDS DirectRb10Backend, TLAPS

USE ConfigAssumption

-----------------------------------------------------------------------------
(* The inductive invariant, conjunct by conjunct.                           *)

\* Where the owner stands decides which threads exist and what they may hold.
Lifecycle ==
    /\ ctl = "off" <=> main \in Constructing \cup Aborting
    /\ servo = "off" <=> main \in (Constructing \ {"control"}) \cup Aborting
    /\ ctl = "done" => main \in Destroying
    /\ main \in Destroying \ {"join_control"} => ctl = "done"
    /\ servo_running <=>
         main \notin Destroying \ {"join_control", "stop_servo"}
    /\ ~servo_running => ~pending
    /\ servo = "done" => ~servo_running
    /\ main \in {"shutdown", "disconnect", "join_data", "gone"} => servo = "done"
    /\ wire = "halt" => main \in {"disconnect", "join_data", "gone"}

\* Nothing of a servo command exists before the release.
HeldEmpty ==
    /\ ctl \in {"computed", "checked", "queued"} => received /\ ~waiting
    /\ pending \/ servo = "send" \/ wire = "move_servo_j" =>
         received /\ ~waiting /\ main \notin Constructing \cup Aborting

\* What has leaked plus what still can never exceeds what was admitted before
\* the stop was seen.
LeakCredit ==
    /\ blocked => leaked + Admitted <= 3
    /\ blocked /\ data # "clear" => leaked_cleared + Admitted <= 2
    /\ data = "clear" => blocked /\ leaked_cleared = 0

\* Between the release and the rewrite only the callback in flight stands.
FreshAfterRewrite ==
    /\ data = "open" => waiting
    /\ ~UseFilter => /\ filter = "none" /\ data # "rewrite"
                     /\ buffer \in {"initial_q", "zero"}
    /\ StartupMove /\ ~waiting /\ data # "rewrite"
       /\ main \in {"servo", "control", "up"} \cup Destroying
           => filter # "startup" /\ buffer # "startup"
    /\ main = "deadline" /\ ~waiting /\ data # "rewrite"
           => filter # "startup" /\ buffer # "startup"

IInv == TypeOK /\ Lifecycle /\ HeldEmpty /\ LeakCredit /\ FreshAfterRewrite

\* Every step keeps the types.  A flag that is assigned a truth value gets a
\* step of its own.
LEMMA TypePreserved ==
    ASSUME TypeOK, [Next]_vars
    PROVE  TypeOK'
<1> USE DEF TypeOK, Packet, Sample, Constructing, Destroying, Aborting, vars,
           owner_vars, link_vars, state_vars, gate_vars, slot_vars, history
<1>1. CASE Connect
  <2>1. connected' \in BOOLEAN /\ running' \in BOOLEAN
    BY <1>1, Zenon DEF Connect
  <2>2. QED
    BY <1>1, <2>1 DEF Connect
<1>2. CASE InitializeRobot
  <2>1. connected' \in BOOLEAN
    BY <1>2, Zenon DEF InitializeRobot, SendText
  <2>2. QED
    BY <1>2, <2>1 DEF InitializeRobot, SendText
<1>3. CASE CreateFilter
  BY <1>3 DEF CreateFilter
<1>4. CASE StartupMoveJ
  <2>1. connected' \in BOOLEAN
    BY <1>4, Zenon DEF StartupMoveJ, SendText
  <2>2. QED
    BY <1>4, <2>1 DEF StartupMoveJ, SendText
<1>5. CASE ArmHomeGate
  BY <1>5 DEF ArmHomeGate
<1>6. CASE AssignDeadline
  BY <1>6 DEF AssignDeadline
<1>7. CASE StartServoThread
  BY <1>7 DEF StartServoThread
<1>8. CASE StartControlThread
  BY <1>8 DEF StartControlThread
<1>9. CASE StopNode
  BY <1>9 DEF StopNode
<1>10. CASE JoinControl
  BY <1>10 DEF JoinControl
<1>11. CASE StopServoThread
  <2>1. pending' \in BOOLEAN /\ servo_running' \in BOOLEAN
    BY <1>11, Zenon DEF StopServoThread
  <2>2. QED
    BY <1>11, <2>1 DEF StopServoThread
<1>12. CASE NotifyServoStop
  BY <1>12 DEF NotifyServoStop, WakeServo
<1>13. CASE JoinServo
  BY <1>13 DEF JoinServo
<1>14. CASE ShutdownSequence
  <2>1. connected' \in BOOLEAN
    BY <1>14, Zenon DEF ShutdownSequence, SendText
  <2>2. QED
    BY <1>14, <2>1 DEF ShutdownSequence, SendText
<1>15. CASE Disconnect
  <2>1. running' \in BOOLEAN
    BY <1>15, Zenon DEF Disconnect
  <2>2. QED
    BY <1>15, <2>1 DEF Disconnect
<1>16. CASE JoinData
  <2>1. connected' \in BOOLEAN
    BY <1>16, Zenon DEF JoinData
  <2>2. QED
    BY <1>16, <2>1 DEF JoinData
<1>17. CASE BeginCycle
  BY <1>17 DEF BeginCycle, ready
<1>18. CASE SkipCommand
  BY <1>18 DEF SkipCommand
<1>19. CASE PassGuards
  BY <1>19 DEF PassGuards, ready
<1>20. CASE queue_servo_command
  BY <1>20 DEF queue_servo_command
<1>21. CASE NotifyServo
  BY <1>21 DEF NotifyServo, WakeServo
<1>22. CASE ControlExit
  BY <1>22 DEF ControlExit
<1>23. CASE ServoWait
  BY <1>23 DEF ServoWait
<1>24. CASE ServoTake
  <2>1. pending' \in BOOLEAN
    BY <1>24, Zenon DEF ServoTake
  <2>2. QED
    BY <1>24, <2>1 DEF ServoTake
<1>25. CASE ServoExit
  BY <1>25 DEF ServoExit
<1>26. CASE ServoSend
  BY <1>26 DEF ServoSend
<1>27. CASE ServoDrop
  <2>1. connected' \in BOOLEAN
    BY <1>27, Zenon DEF ServoDrop
  <2>2. QED
    BY <1>27, <2>1 DEF ServoDrop
<1>28. CASE Receive
  BY <1>28 DEF Receive
<1>29. CASE WriteState
  BY <1>29 DEF WriteState
<1>30. CASE SetReceived
  BY <1>30 DEF SetReceived
<1>31. CASE ExchangeBlocked
  BY <1>31 DEF ExchangeBlocked
<1>32. CASE clear_pending_servo_command
  <2>1. pending' \in BOOLEAN
    BY <1>32, Zenon DEF clear_pending_servo_command
  <2>2. QED
    BY <1>32, <2>1 DEF clear_pending_servo_command
<1>33. CASE HomeGate
  BY <1>33 DEF HomeGate
<1>34. CASE OpenHomeGate
  <2>1. waiting' \in BOOLEAN
    BY <1>34, Zenon DEF OpenHomeGate
  <2>2. QED
    BY <1>34, <2>1 DEF OpenHomeGate
<1>35. CASE RewriteState
  BY <1>35 DEF RewriteState
<1>36. CASE DataExit
  BY <1>36 DEF DataExit
<1>37. CASE LoseConnection
  <2>1. connected' \in BOOLEAN
    BY <1>37, Zenon DEF LoseConnection
  <2>2. QED
    BY <1>37, <2>1 DEF LoseConnection
<1>38. CASE DeadlinePasses
  BY <1>38 DEF DeadlinePasses
<1>39. CASE UNCHANGED vars
  BY <1>39
<1>40. QED
  BY <1>1, <1>2, <1>3, <1>4, <1>5, <1>6, <1>7, <1>8, <1>9, <1>10, <1>11,
     <1>12, <1>13, <1>14, <1>15, <1>16, <1>17, <1>18, <1>19, <1>20, <1>21,
     <1>22, <1>23, <1>24, <1>25, <1>26, <1>27, <1>28, <1>29, <1>30, <1>31,
     <1>32, <1>33, <1>34, <1>35, <1>36, <1>37, <1>38, <1>39
  DEF Next, Constructor, Destructor, ControlThread, ServoThread, OnState,
      Environment, Terminated

\* Joins and starts keep the threads in step with their owner.
LEMMA LifecyclePreserved ==
    ASSUME TypeOK, TypeOK', Lifecycle,
           [Next]_vars
    PROVE  Lifecycle'
<1> USE DEF TypeOK, Lifecycle, Constructing, Destroying, Aborting, vars,
           owner_vars, link_vars, state_vars, gate_vars, slot_vars, history
<1>1. CASE Constructor
  <2>1. CASE Connect
    BY <2>1 DEF Connect
  <2>2. CASE InitializeRobot
    BY <2>2 DEF InitializeRobot, SendText
  <2>3. CASE CreateFilter
    BY <2>3 DEF CreateFilter
  <2>4. CASE StartupMoveJ
    BY <2>4 DEF StartupMoveJ, SendText
  <2>5. CASE ArmHomeGate
    BY <2>5 DEF ArmHomeGate
  <2>6. CASE AssignDeadline
    BY <2>6 DEF AssignDeadline
  <2>7. CASE StartServoThread
    BY <2>7 DEF StartServoThread
  <2>8. CASE StartControlThread
    BY <2>8 DEF StartControlThread
  <2>9. QED
    BY <1>1, <2>1, <2>2, <2>3, <2>4, <2>5, <2>6, <2>7, <2>8 DEF Constructor
<1>2. CASE StopNode
  BY <1>2 DEF StopNode
<1>3. CASE Destructor
  <2>1. CASE JoinControl
    BY <2>1 DEF JoinControl
  <2>2. CASE StopServoThread
    BY <2>2 DEF StopServoThread
  <2>3. CASE NotifyServoStop
    BY <2>3 DEF NotifyServoStop, WakeServo
  <2>4. CASE JoinServo
    BY <2>4 DEF JoinServo
  <2>5. CASE ShutdownSequence
    BY <2>5 DEF ShutdownSequence, SendText
  <2>6. CASE Disconnect
    BY <2>6 DEF Disconnect
  <2>7. CASE JoinData
    BY <2>7 DEF JoinData
  <2>8. QED
    BY <1>3, <2>1, <2>2, <2>3, <2>4, <2>5, <2>6, <2>7 DEF Destructor
<1>4. CASE ControlThread
  <2>1. CASE BeginCycle
    BY <2>1 DEF BeginCycle, ready
  <2>2. CASE SkipCommand
    BY <2>2 DEF SkipCommand
  <2>3. CASE PassGuards
    BY <2>3 DEF PassGuards, ready
  <2>4. CASE queue_servo_command
    BY <2>4 DEF queue_servo_command
  <2>5. CASE NotifyServo
    BY <2>5 DEF NotifyServo, WakeServo
  <2>6. CASE ControlExit
    BY <2>6 DEF ControlExit
  <2>7. QED
    BY <1>4, <2>1, <2>2, <2>3, <2>4, <2>5, <2>6 DEF ControlThread
<1>5. CASE ServoThread
  <2>1. CASE ServoWait
    BY <2>1 DEF ServoWait
  <2>2. CASE ServoTake
    BY <2>2 DEF ServoTake
  <2>3. CASE ServoExit
    BY <2>3 DEF ServoExit
  <2>4. CASE ServoSend
    BY <2>4 DEF ServoSend
  <2>5. CASE ServoDrop
    BY <2>5 DEF ServoDrop
  <2>6. QED
    BY <1>5, <2>1, <2>2, <2>3, <2>4, <2>5 DEF ServoThread
<1>6. CASE Receive
  BY <1>6 DEF Receive
<1>7. CASE OnState
  <2>1. CASE WriteState
    BY <2>1 DEF WriteState
  <2>2. CASE SetReceived
    BY <2>2 DEF SetReceived
  <2>3. CASE ExchangeBlocked
    BY <2>3 DEF ExchangeBlocked
  <2>4. CASE clear_pending_servo_command
    BY <2>4 DEF clear_pending_servo_command
  <2>5. CASE HomeGate
    BY <2>5 DEF HomeGate
  <2>6. CASE OpenHomeGate
    BY <2>6 DEF OpenHomeGate
  <2>7. CASE RewriteState
    BY <2>7 DEF RewriteState
  <2>8. CASE DataExit
    BY <2>8 DEF DataExit
  <2>9. QED
    BY <1>7, <2>1, <2>2, <2>3, <2>4, <2>5, <2>6, <2>7, <2>8 DEF OnState
<1>8. CASE Environment
  <2>1. CASE LoseConnection
    BY <2>1 DEF LoseConnection
  <2>2. CASE DeadlinePasses
    BY <2>2 DEF DeadlinePasses
  <2>3. QED
    BY <1>8, <2>1, <2>2 DEF Environment
<1>9. CASE UNCHANGED vars
  BY <1>9
<1>10. QED
  BY <1>1, <1>2, <1>3, <1>4, <1>5, <1>6, <1>7, <1>8, <1>9 DEF Next, Terminated

\* Only a ready backend lets a command in, and the home gate does not close
\* again once it could have.
LEMMA HeldEmptyPreserved ==
    ASSUME TypeOK, TypeOK', Lifecycle, HeldEmpty,
           [Next]_vars
    PROVE  HeldEmpty'
<1> USE DEF TypeOK, Lifecycle, HeldEmpty, Constructing, Destroying, Aborting,
           vars, owner_vars, link_vars, state_vars, gate_vars, slot_vars,
           history
<1>1. CASE Constructor
  BY <1>1 DEF Constructor, Connect, InitializeRobot, SendText, CreateFilter,
                StartupMoveJ, ArmHomeGate, AssignDeadline, StartServoThread,
                StartControlThread
<1>2. CASE StopNode
  BY <1>2 DEF StopNode
<1>3. CASE Destructor
  BY <1>3 DEF Destructor, JoinControl, StopServoThread, NotifyServoStop,
                WakeServo, JoinServo, ShutdownSequence, SendText, Disconnect,
                JoinData
<1>4. CASE ControlThread
  BY <1>4 DEF ControlThread, BeginCycle, ready, SkipCommand, PassGuards,
                queue_servo_command, NotifyServo, WakeServo, ControlExit
<1>5. CASE ServoThread
  BY <1>5 DEF ServoThread, ServoWait, ServoTake, ServoExit, ServoSend,
                ServoDrop
<1>6. CASE Receive
  BY <1>6 DEF Receive
<1>7. CASE OnState
  BY <1>7 DEF OnState, WriteState, SetReceived, ExchangeBlocked,
                clear_pending_servo_command, HomeGate, OpenHomeGate,
                RewriteState, DataExit
<1>8. CASE Environment
  BY <1>8 DEF Environment, LoseConnection, DeadlinePasses
<1>9. CASE UNCHANGED vars
  BY <1>9
<1>10. QED
  BY <1>1, <1>2, <1>3, <1>4, <1>5, <1>6, <1>7, <1>8, <1>9 DEF Next, Terminated

\* A step that writes a frame uses up the credit of a command that was admitted
\* before the stop; a step that admits one sees no stop.
LEMMA LeakCreditPreserved ==
    ASSUME TypeOK, TypeOK', Lifecycle, LeakCredit,
           [Next]_vars
    PROVE  LeakCredit'
<1> USE DEF TypeOK, LeakCredit, Admitted, B, vars, owner_vars, link_vars,
           state_vars, gate_vars, slot_vars, history
<1>1. CASE Constructor
  <2>1. CASE Connect
    BY <2>1 DEF Connect, Lifecycle, Constructing
  <2>2. CASE InitializeRobot
    BY <2>2 DEF InitializeRobot, SendText
  <2>3. CASE CreateFilter
    BY <2>3 DEF CreateFilter
  <2>4. CASE StartupMoveJ
    BY <2>4 DEF StartupMoveJ, SendText
  <2>5. CASE ArmHomeGate
    BY <2>5 DEF ArmHomeGate
  <2>6. CASE AssignDeadline
    BY <2>6 DEF AssignDeadline
  <2>7. CASE StartServoThread
    BY <2>7 DEF StartServoThread
  <2>8. CASE StartControlThread
    BY <2>8 DEF StartControlThread
  <2>9. QED
    BY <1>1, <2>1, <2>2, <2>3, <2>4, <2>5, <2>6, <2>7, <2>8 DEF Constructor
<1>2. CASE StopNode
  BY <1>2 DEF StopNode
<1>3. CASE Destructor
  <2>1. CASE JoinControl
    BY <2>1 DEF JoinControl
  <2>2. CASE StopServoThread
    BY <2>2 DEF StopServoThread
  <2>3. CASE NotifyServoStop
    BY <2>3 DEF NotifyServoStop, WakeServo
  <2>4. CASE JoinServo
    BY <2>4 DEF JoinServo
  <2>5. CASE ShutdownSequence
    BY <2>5 DEF ShutdownSequence, SendText
  <2>6. CASE Disconnect
    BY <2>6 DEF Disconnect
  <2>7. CASE JoinData
    BY <2>7 DEF JoinData
  <2>8. QED
    BY <1>3, <2>1, <2>2, <2>3, <2>4, <2>5, <2>6, <2>7 DEF Destructor
<1>4. CASE ControlThread
  <2>1. CASE BeginCycle
    BY <2>1 DEF BeginCycle, ready
  <2>2. CASE SkipCommand
    BY <2>2 DEF SkipCommand
  <2>3. CASE PassGuards
    BY <2>3 DEF PassGuards, ready
  <2>4. CASE queue_servo_command
    BY <2>4 DEF queue_servo_command
  <2>5. CASE NotifyServo
    BY <2>5 DEF NotifyServo, WakeServo
  <2>6. CASE ControlExit
    BY <2>6 DEF ControlExit
  <2>7. QED
    BY <1>4, <2>1, <2>2, <2>3, <2>4, <2>5, <2>6 DEF ControlThread
<1>5. CASE ServoThread
  <2>1. CASE ServoWait
    BY <2>1 DEF ServoWait
  <2>2. CASE ServoTake
    BY <2>2 DEF ServoTake
  <2>3. CASE ServoExit
    BY <2>3 DEF ServoExit
  <2>4. CASE ServoSend
    BY <2>4 DEF ServoSend
  <2>5. CASE ServoDrop
    BY <2>5 DEF ServoDrop
  <2>6. QED
    BY <1>5, <2>1, <2>2, <2>3, <2>4, <2>5 DEF ServoThread
<1>6. CASE Receive
  BY <1>6 DEF Receive
<1>7. CASE OnState
  <2>1. CASE WriteState
    BY <2>1 DEF WriteState
  <2>2. CASE SetReceived
    BY <2>2 DEF SetReceived
  <2>3. CASE ExchangeBlocked
    BY <2>3 DEF ExchangeBlocked
  <2>4. CASE clear_pending_servo_command
    BY <2>4 DEF clear_pending_servo_command
  <2>5. CASE HomeGate
    BY <2>5 DEF HomeGate
  <2>6. CASE OpenHomeGate
    BY <2>6 DEF OpenHomeGate
  <2>7. CASE RewriteState
    BY <2>7 DEF RewriteState
  <2>8. CASE DataExit
    BY <2>8 DEF DataExit
  <2>9. QED
    BY <1>7, <2>1, <2>2, <2>3, <2>4, <2>5, <2>6, <2>7, <2>8 DEF OnState
<1>8. CASE Environment
  <2>1. CASE LoseConnection
    BY <2>1 DEF LoseConnection
  <2>2. CASE DeadlinePasses
    BY <2>2 DEF DeadlinePasses
  <2>3. QED
    BY <1>8, <2>1, <2>2 DEF Environment
<1>9. CASE UNCHANGED vars
  BY <1>9
<1>10. QED
  BY <1>1, <1>2, <1>3, <1>4, <1>5, <1>6, <1>7, <1>8, <1>9 DEF Next, Terminated

\* The callback that opens the gate is the one that resets filter and buffer.
LEMMA FreshPreserved ==
    ASSUME TypeOK, TypeOK', FreshAfterRewrite,
           [Next]_vars
    PROVE  FreshAfterRewrite'
<1> USE DEF TypeOK, Sample, FreshAfterRewrite, Constructing, Destroying,
           Aborting, vars, owner_vars, link_vars, state_vars, gate_vars,
           slot_vars, history
<1>1. CASE Constructor
  BY <1>1 DEF Constructor, Connect, InitializeRobot, SendText, CreateFilter,
                StartupMoveJ, ArmHomeGate, AssignDeadline, StartServoThread,
                StartControlThread
<1>2. CASE StopNode
  BY <1>2 DEF StopNode
<1>3. CASE Destructor
  BY <1>3 DEF Destructor, JoinControl, StopServoThread, NotifyServoStop,
                WakeServo, JoinServo, ShutdownSequence, SendText, Disconnect,
                JoinData
<1>4. CASE ControlThread
  BY <1>4 DEF ControlThread, BeginCycle, ready, SkipCommand, PassGuards,
                queue_servo_command, NotifyServo, WakeServo, ControlExit
<1>5. CASE ServoThread
  <2>1. CASE ServoWait
    BY <2>1 DEF ServoWait
  <2>2. CASE ServoTake
    BY <2>2 DEF ServoTake
  <2>3. CASE ServoExit
    BY <2>3 DEF ServoExit
  <2>4. CASE ServoSend
    BY <2>4 DEF ServoSend
  <2>5. CASE ServoDrop
    BY <2>5 DEF ServoDrop
  <2>6. QED
    BY <1>5, <2>1, <2>2, <2>3, <2>4, <2>5 DEF ServoThread
<1>6. CASE Receive
  BY <1>6 DEF Receive
<1>7. CASE OnState
  BY <1>7 DEF OnState, WriteState, SetReceived, ExchangeBlocked,
                clear_pending_servo_command, HomeGate, OpenHomeGate,
                RewriteState, DataExit
<1>8. CASE Environment
  BY <1>8 DEF Environment, LoseConnection, DeadlinePasses
<1>9. CASE UNCHANGED vars
  BY <1>9
<1>10. QED
  BY <1>1, <1>2, <1>3, <1>4, <1>5, <1>6, <1>7, <1>8, <1>9 DEF Next, Terminated

\* The initial state satisfies the invariant.
LEMMA InitIInv ==
    Init => IInv
<1> SUFFICES ASSUME Init
             PROVE  IInv
  OBVIOUS
<1> USE DEF Init
<1>1. TypeOK
  BY DEF TypeOK, Packet, Sample, Constructing, Destroying, Aborting
<1>2. Lifecycle
  BY DEF Lifecycle, Constructing, Destroying, Aborting
<1>3. HeldEmpty /\ LeakCredit
  BY DEF HeldEmpty, LeakCredit
<1>4. FreshAfterRewrite
  BY DEF FreshAfterRewrite, Destroying
<1>5. QED
  BY <1>1, <1>2, <1>3, <1>4 DEF IInv

\* The invariant holds of every reachable state.
THEOREM Invariance ==
    Spec => []IInv
<1>1. IInv /\ [Next]_vars => IInv'
  <2> SUFFICES ASSUME IInv, [Next]_vars
               PROVE  IInv'
    OBVIOUS
  <2>1. TypeOK'
    BY TypePreserved DEF IInv
  <2>2. Lifecycle'
    BY <2>1, LifecyclePreserved DEF IInv
  <2>3. HeldEmpty'
    BY <2>1, HeldEmptyPreserved DEF IInv
  <2>4. LeakCredit'
    BY <2>1, LeakCreditPreserved DEF IInv
  <2>5. FreshAfterRewrite'
    BY <2>1, FreshPreserved DEF IInv
  <2>6. QED
    BY <2>1, <2>2, <2>3, <2>4, <2>5 DEF IInv
<1>2. QED
  BY InitIInv, <1>1, PTL DEF Spec

\* Every variable of the backend keeps its range.
THEOREM TypeCorrect ==
    Spec => []TypeOK
<1>1. IInv => TypeOK
  BY DEF IInv
<1>2. QED
  BY Invariance, <1>1, PTL

\* At most three servo commands reach the robot after a safety stop is seen, and
\* at most two after the slot was cleared for it, whatever the threads do.
THEOREM SafetyStopLeaksAreBounded ==
    Spec => []LeakBound
<1>1. IInv => LeakBound
  <2> SUFFICES ASSUME IInv
               PROVE  LeakBound
    OBVIOUS
  <2>1. Admitted \in Nat
    BY DEF Admitted, B
  <2>2. leaked \in Nat /\ leaked_cleared \in Nat
    BY DEF IInv, TypeOK
  <2>3. QED
    BY <2>1, <2>2 DEF IInv, LeakCredit, LeakBound
<1>2. QED
  BY Invariance, <1>1, PTL

\* No servo command is admitted, queued or written before the home gate is open
\* and a state packet has been published.
THEOREM GateHoldsServoTheorem ==
    Spec => []GateHoldsServo
<1>1. IInv => GateHoldsServo
  <2> SUFFICES ASSUME IInv, Admitted > 0 \/ wire = "move_servo_j"
               PROVE  received /\ ~waiting /\ main \notin Constructing
    BY DEF GateHoldsServo
  <2>1. ctl = "checked" \/ pending \/ servo = "send" \/ wire = "move_servo_j"
    BY DEF Admitted, B
  <2>2. CASE ctl = "checked"
    BY <2>2 DEF IInv, HeldEmpty, Lifecycle
  <2>3. CASE pending \/ servo = "send" \/ wire = "move_servo_j"
    BY <2>3 DEF IInv, HeldEmpty
  <2>4. QED
    BY <2>1, <2>2, <2>3
<1>2. QED
  BY Invariance, <1>1, PTL

\* The velocity of the startup move does not outlive the callback that opened
\* the home gate.
THEOREM ReleasedVelocityIsFresh ==
    Spec => []ReleasedVelocityFresh
<1>1. IInv => ReleasedVelocityFresh
  BY DEF IInv, FreshAfterRewrite, ReleasedVelocityFresh
<1>2. QED
  BY Invariance, <1>1, PTL

\* No servo command follows the stop sequence: both threads that could bring
\* one have been joined when it is written.
THEOREM HaltIsFinalTheorem ==
    Spec => HaltIsFinal
<1>1. IInv /\ [Next]_vars => [wire = "halt" => wire' = "halt"]_wire
  <2> SUFFICES ASSUME IInv, [Next]_vars, wire = "halt", wire' # wire
               PROVE  FALSE
    BY DEF IInv, TypeOK
  <2>1. /\ main \in {"disconnect", "join_data", "gone"}
        /\ servo = "done"
    BY DEF IInv, Lifecycle
  <2>2. \/ InitializeRobot \/ StartupMoveJ \/ ShutdownSequence
        \/ ServoSend
    BY DEF Next, Constructor, Destructor, ControlThread, ServoThread, OnState,
           Environment, Terminated, vars, Connect, CreateFilter, ArmHomeGate, AssignDeadline,
           StartServoThread, StartControlThread, StopNode,
           JoinControl, StopServoThread, NotifyServoStop,
           JoinServo, Disconnect, JoinData, BeginCycle,
           SkipCommand, PassGuards, queue_servo_command,
           NotifyServo, ControlExit, ServoWait, ServoTake,
           ServoExit, ServoDrop, Receive, WriteState, SetReceived,
           ExchangeBlocked, clear_pending_servo_command, HomeGate,
           OpenHomeGate, RewriteState, DataExit, LoseConnection,
           DeadlinePasses
  <2>3. QED
    BY <2>1, <2>2 DEF InitializeRobot, StartupMoveJ, ShutdownSequence, ServoSend
<1>2. QED
  BY Invariance, <1>1, PTL DEF Spec, HaltIsFinal

\* A step of the backend is a step of the command gate or leaves it as it is:
\* opening the home gate under a running control thread releases, PassGuards
\* admits, ExchangeBlocked sees the stop or its end, ControlExit closes, the
\* shutdown sequence halts; a frame written, dropped, overwritten or cleared is
\* spent; every other step is invisible.
LEMMA StepImplementsGate ==
    ASSUME IInv, [Next]_vars
    PROVE  [Gate!Next]_(Gate!gate)
<1> USE DEF Gate!Next, Gate!Release, Gate!Admit, Gate!Spend, Gate!SafetyStop,
           Gate!Close, Gate!Halt, Gate!gate, Admitted, B, vars, owner_vars,
           link_vars, state_vars, gate_vars, slot_vars, history
<1>1. CASE Connect
  BY <1>1 DEF IInv, TypeOK, Lifecycle, HeldEmpty, Connect
<1>2. CASE InitializeRobot
  BY <1>2 DEF IInv, TypeOK, Lifecycle, HeldEmpty, InitializeRobot, SendText
<1>3. CASE CreateFilter
  BY <1>3 DEF IInv, TypeOK, Lifecycle, HeldEmpty, CreateFilter
<1>4. CASE StartupMoveJ
  BY <1>4 DEF IInv, TypeOK, Lifecycle, HeldEmpty, StartupMoveJ, SendText
<1>5. CASE ArmHomeGate
  BY <1>5 DEF IInv, TypeOK, Lifecycle, HeldEmpty, ArmHomeGate
<1>6. CASE AssignDeadline
  BY <1>6 DEF IInv, TypeOK, Lifecycle, HeldEmpty, AssignDeadline
<1>7. CASE StartServoThread
  BY <1>7 DEF IInv, TypeOK, Lifecycle, HeldEmpty, StartServoThread
<1>8. CASE StartControlThread
  <2>1. ctl = "off" /\ ctl' = "top"
    BY <1>8 DEF StartControlThread, IInv, Lifecycle, Constructing
  <2>2. UNCHANGED <<waiting, blocked, wire, pending>>
    BY <1>8 DEF StartControlThread
  <2>3. Admitted' = Admitted
    BY <1>8, <2>1 DEF StartControlThread
  <2>4. CASE waiting
    BY <2>1, <2>2, <2>3, <2>4
  <2>5. CASE ~waiting
    <3>1. Gate!Release
      BY <2>1, <2>2, <2>3, <2>5
    <3>2. QED
      BY <3>1
  <2>6. QED
    BY <2>4, <2>5
<1>9. CASE StopNode
  BY <1>9 DEF IInv, TypeOK, Lifecycle, HeldEmpty, StopNode
<1>10. CASE JoinControl
  BY <1>10 DEF IInv, TypeOK, Lifecycle, HeldEmpty, JoinControl
<1>11. CASE StopServoThread
  BY <1>11 DEF IInv, TypeOK, Lifecycle, HeldEmpty, StopServoThread
<1>12. CASE NotifyServoStop
  BY <1>12 DEF IInv, TypeOK, Lifecycle, HeldEmpty, NotifyServoStop, WakeServo
<1>13. CASE JoinServo
  BY <1>13 DEF IInv, TypeOK, Lifecycle, HeldEmpty, JoinServo
<1>14. CASE ShutdownSequence
  BY <1>14 DEF IInv, TypeOK, Lifecycle, HeldEmpty, ShutdownSequence, SendText
<1>15. CASE Disconnect
  BY <1>15 DEF IInv, TypeOK, Lifecycle, HeldEmpty, Disconnect
<1>16. CASE JoinData
  BY <1>16 DEF IInv, TypeOK, Lifecycle, HeldEmpty, JoinData
<1>17. CASE BeginCycle
  BY <1>17 DEF IInv, TypeOK, Lifecycle, HeldEmpty, BeginCycle, ready
<1>18. CASE SkipCommand
  BY <1>18 DEF IInv, TypeOK, Lifecycle, HeldEmpty, SkipCommand
<1>19. CASE PassGuards
  BY <1>19 DEF IInv, TypeOK, Lifecycle, HeldEmpty, PassGuards, ready
<1>20. CASE queue_servo_command
  BY <1>20 DEF IInv, TypeOK, Lifecycle, HeldEmpty, queue_servo_command
<1>21. CASE NotifyServo
  BY <1>21 DEF IInv, TypeOK, Lifecycle, HeldEmpty, NotifyServo, WakeServo
<1>22. CASE ControlExit
  BY <1>22 DEF IInv, TypeOK, Lifecycle, HeldEmpty, ControlExit
<1>23. CASE ServoWait
  BY <1>23 DEF IInv, TypeOK, Lifecycle, HeldEmpty, ServoWait
<1>24. CASE ServoTake
  BY <1>24 DEF IInv, TypeOK, Lifecycle, HeldEmpty, ServoTake
<1>25. CASE ServoExit
  BY <1>25 DEF IInv, TypeOK, Lifecycle, HeldEmpty, ServoExit
<1>26. CASE ServoSend
  BY <1>26 DEF IInv, TypeOK, Lifecycle, HeldEmpty, ServoSend
<1>27. CASE ServoDrop
  BY <1>27 DEF IInv, TypeOK, Lifecycle, HeldEmpty, ServoDrop
<1>28. CASE Receive
  BY <1>28 DEF IInv, TypeOK, Lifecycle, HeldEmpty, Receive
<1>29. CASE WriteState
  BY <1>29 DEF IInv, TypeOK, Lifecycle, HeldEmpty, WriteState
<1>30. CASE SetReceived
  BY <1>30 DEF IInv, TypeOK, Lifecycle, HeldEmpty, SetReceived
<1>31. CASE ExchangeBlocked
  <2>1. /\ pkt.blocked \in BOOLEAN /\ blocked \in BOOLEAN
        /\ blocked' = pkt.blocked
    BY <1>31 DEF ExchangeBlocked, IInv, TypeOK, Packet
  <2>2. Admitted' = Admitted /\ UNCHANGED <<ctl, waiting, wire>>
    BY <1>31 DEF ExchangeBlocked
  <2>3. blocked' = blocked \/ blocked' = ~blocked
    BY <2>1, Zenon
  <2>4. CASE blocked' = blocked
    BY <2>2, <2>4
  <2>5. CASE blocked' = ~blocked
    <3>1. Gate!SafetyStop
      BY <2>2, <2>5
    <3>2. QED
      BY <3>1
  <2>6. QED
    BY <2>3, <2>4, <2>5
<1>32. CASE clear_pending_servo_command
  BY <1>32 DEF IInv, TypeOK, Lifecycle, HeldEmpty, clear_pending_servo_command
<1>33. CASE HomeGate
  BY <1>33 DEF IInv, TypeOK, Lifecycle, HeldEmpty, HomeGate
<1>34. CASE OpenHomeGate
  BY <1>34 DEF IInv, TypeOK, Lifecycle, HeldEmpty, OpenHomeGate
<1>35. CASE RewriteState
  BY <1>35 DEF IInv, TypeOK, Lifecycle, HeldEmpty, RewriteState
<1>36. CASE DataExit
  BY <1>36 DEF IInv, TypeOK, Lifecycle, HeldEmpty, DataExit
<1>37. CASE LoseConnection
  BY <1>37 DEF IInv, TypeOK, Lifecycle, HeldEmpty, LoseConnection
<1>38. CASE DeadlinePasses
  BY <1>38 DEF IInv, TypeOK, Lifecycle, HeldEmpty, DeadlinePasses
<1>39. CASE UNCHANGED vars
  BY <1>39
<1>40. QED
  BY <1>1, <1>2, <1>3, <1>4, <1>5, <1>6, <1>7, <1>8, <1>9, <1>10, <1>11,
     <1>12, <1>13, <1>14, <1>15, <1>16, <1>17, <1>18, <1>19, <1>20, <1>21,
     <1>22, <1>23, <1>24, <1>25, <1>26, <1>27, <1>28, <1>29, <1>30, <1>31,
     <1>32, <1>33, <1>34, <1>35, <1>36, <1>37, <1>38, <1>39
  DEF Next, Constructor, Destructor, ControlThread, ServoThread, OnState,
      Environment, Terminated

\* The backend implements the command gate: whatever its threads do, commands
\* are admitted only while the gate is open and no safety stop is seen, at most
\* three are under way, and the halt is written when none is.
THEOREM BackendImplementsGate ==
    Spec => ImplementsGate
<1>1. Init => Gate!Init
  BY DEF Init, Gate!Init, Admitted, B
<1>2. QED
  BY <1>1, Invariance, StepImplementsGate, PTL DEF Spec, Gate!Spec, ImplementsGate

-----------------------------------------------------------------------------
(* What the liveness of the backend rests on: no wakeup is lost, and every  *)
(* join of the owner waits for a thread that is on its way out.             *)

\* The servo thread sleeps on an empty slot, unless the notification for the
\* command in it is still to come; and it sleeps through no order to stop,
\* unless that notification is still to come.
NoLostWakeup ==
    servo = "asleep" => /\ pending => ctl = "queued"
                        /\ ~servo_running => main = "notify_servo"

\* The thread that the owner joins exists, can take its next step, and has no
\* way to start over: the node has stopped the control loop, the servo thread
\* has been told and its slot is empty, the data loop finds running_ down.
Joinable ==
    /\ main = "join_control" => ctl # "off"
    /\ main = "join_servo" => /\ servo \in {"check", "send", "done"}
                              /\ ~pending /\ ~servo_running
    /\ main \in {"join_data", "abort_join"} => data # "off" /\ ~running

DataLifecycle ==
    /\ data = "off" => main \in {"connect", "failed"}
    /\ main \in {"join_data", "abort_join", "gone"} => ~running

\* How many steps the threads still have to their end, once told to stop.
ControlSteps ==
    [top |-> 1, queued |-> 2, checked |-> 3, computed |-> 4,
     done |-> 0, off |-> 0][ctl]
ServoSteps ==
    [check |-> 1, send |-> 2, done |-> 0, asleep |-> 0, off |-> 0][servo]
DataSteps ==
    [idle |-> 1, rewrite |-> 2, open |-> 3, gate |-> 4, clear |-> 5,
     exchange |-> 6, received |-> 7, write |-> 8, done |-> 0, off |-> 0][data]

\* Of the thread that main joins: what it still has to do, and a step of it.
StepsToJoin ==
    IF main = "join_control" THEN ControlSteps
    ELSE IF main = "join_servo" THEN ServoSteps ELSE DataSteps
JoinedThread ==
    \/ main = "join_control" /\ ControlThread
    \/ main = "join_servo" /\ ServoThread
    \/ main \in {"join_data", "abort_join"} /\ (Receive \/ OnState)

Joining == {"join_control", "join_servo", "join_data", "abort_join"}

\* While the owner joins a thread, every step of that thread brings it closer to
\* its end, and no step of another one takes it back.
StepsRunOut ==
    main \in Joining /\ main' = main =>
        /\ StepsToJoin \in Nat
        /\ StepsToJoin' <= StepsToJoin
        /\ JoinedThread => StepsToJoin' < StepsToJoin
JoinsRunOut == [][StepsRunOut]_vars

\* A thread that goes to sleep has seen the slot empty and no order to stop;
\* whoever changes that notifies next.
LEMMA WakeupPreserved ==
    ASSUME TypeOK, TypeOK', Lifecycle, NoLostWakeup,
           [Next]_vars
    PROVE  NoLostWakeup'
<1> USE DEF TypeOK, Lifecycle, NoLostWakeup, Constructing, Destroying, Aborting,
           vars, owner_vars, link_vars, state_vars, gate_vars, slot_vars,
           history
<1>1. CASE Constructor
  BY <1>1 DEF Constructor, Connect, InitializeRobot, SendText, CreateFilter,
                StartupMoveJ, ArmHomeGate, AssignDeadline, StartServoThread,
                StartControlThread
<1>2. CASE StopNode
  BY <1>2 DEF StopNode
<1>3. CASE Destructor
  BY <1>3 DEF Destructor, JoinControl, StopServoThread, NotifyServoStop,
                WakeServo, JoinServo, ShutdownSequence, SendText, Disconnect,
                JoinData
<1>4. CASE ControlThread
  BY <1>4 DEF ControlThread, BeginCycle, ready, SkipCommand, PassGuards,
                queue_servo_command, NotifyServo, WakeServo, ControlExit
<1>5. CASE ServoThread
  BY <1>5 DEF ServoThread, ServoWait, ServoTake, ServoExit, ServoSend,
                ServoDrop
<1>6. CASE Receive
  BY <1>6 DEF Receive
<1>7. CASE OnState
  BY <1>7 DEF OnState, WriteState, SetReceived, ExchangeBlocked,
                clear_pending_servo_command, HomeGate, OpenHomeGate,
                RewriteState, DataExit
<1>8. CASE Environment
  BY <1>8 DEF Environment, LoseConnection, DeadlinePasses
<1>9. CASE UNCHANGED vars
  BY <1>9
<1>10. QED
  BY <1>1, <1>2, <1>3, <1>4, <1>5, <1>6, <1>7, <1>8, <1>9 DEF Next, Terminated

\* The data thread exists from connect() on, and disconnect() lowers running_
\* before it joins.
LEMMA DataLifecyclePreserved ==
    ASSUME TypeOK, TypeOK', DataLifecycle,
           [Next]_vars
    PROVE  DataLifecycle'
<1> USE DEF TypeOK, DataLifecycle, Constructing, Destroying, Aborting,
           vars, owner_vars, link_vars, state_vars, gate_vars, slot_vars,
           history
<1>1. CASE Constructor
  BY <1>1 DEF Constructor, Connect, InitializeRobot, SendText, CreateFilter,
                StartupMoveJ, ArmHomeGate, AssignDeadline, StartServoThread,
                StartControlThread
<1>2. CASE StopNode
  BY <1>2 DEF StopNode
<1>3. CASE Destructor
  BY <1>3 DEF Destructor, JoinControl, StopServoThread, NotifyServoStop,
                WakeServo, JoinServo, ShutdownSequence, SendText, Disconnect,
                JoinData
<1>4. CASE ControlThread
  BY <1>4 DEF ControlThread, BeginCycle, ready, SkipCommand, PassGuards,
                queue_servo_command, NotifyServo, WakeServo, ControlExit
<1>5. CASE ServoThread
  BY <1>5 DEF ServoThread, ServoWait, ServoTake, ServoExit, ServoSend,
                ServoDrop
<1>6. CASE Receive
  BY <1>6 DEF Receive
<1>7. CASE OnState
  BY <1>7 DEF OnState, WriteState, SetReceived, ExchangeBlocked,
                clear_pending_servo_command, HomeGate, OpenHomeGate,
                RewriteState, DataExit
<1>8. CASE Environment
  BY <1>8 DEF Environment, LoseConnection, DeadlinePasses
<1>9. CASE UNCHANGED vars
  BY <1>9
<1>10. QED
  BY <1>1, <1>2, <1>3, <1>4, <1>5, <1>6, <1>7, <1>8, <1>9 DEF Next, Terminated

\* No wakeup is lost, neither of a queued command nor of the destructor's order
\* to stop: this is what SlotDrains and the join of the servo thread rest on.
THEOREM NoWakeupIsLost ==
    Spec => []NoLostWakeup
<1>1. Init => NoLostWakeup
  BY DEF Init, NoLostWakeup
<1>2. IInv /\ IInv' /\ NoLostWakeup /\ [Next]_vars => NoLostWakeup'
  BY WakeupPreserved DEF IInv
<1>3. QED
  BY Invariance, <1>1, <1>2, PTL DEF Spec

\* Whatever the owner joins is a thread that exists, is not asleep and cannot
\* turn back.
THEOREM JoinedThreadsCanEnd ==
    Spec => []Joinable
<1>1. Init => DataLifecycle
  BY DEF Init, DataLifecycle
<1>2. IInv /\ IInv' /\ DataLifecycle /\ [Next]_vars => DataLifecycle'
  BY DataLifecyclePreserved DEF IInv
<1>3. IInv /\ NoLostWakeup /\ DataLifecycle => Joinable
  BY DEF IInv, TypeOK, Lifecycle, NoLostWakeup, DataLifecycle, Joinable,
         Constructing, Destroying, Aborting
<1>4. QED
  BY Invariance, NoWakeupIsLost, <1>1, <1>2, <1>3, PTL DEF Spec

\* The steps that a joined thread still has run out: with the fairness of the
\* threads this is why the destructor ends.
THEOREM JoinsRunOutTheorem ==
    Spec => JoinsRunOut
<1>1. IInv /\ Joinable /\ [Next]_vars => [StepsRunOut]_vars
  <2> SUFFICES ASSUME IInv, Joinable, [Next]_vars, main \in Joining,
                      main' = main, vars' # vars
               PROVE  /\ StepsToJoin \in Nat
                      /\ StepsToJoin' <= StepsToJoin
                      /\ JoinedThread => StepsToJoin' < StepsToJoin
    BY DEF StepsRunOut
  <2> USE DEF StepsToJoin, ControlSteps, ServoSteps, DataSteps, Joining,
             Joinable, vars, owner_vars, link_vars, state_vars, gate_vars,
             slot_vars, history
  <2>1. /\ ctl \in {"off", "top", "computed", "checked", "queued", "done"}
        /\ servo \in {"off", "check", "asleep", "send", "done"}
        /\ data \in {"off", "idle", "write", "received", "exchange", "clear",
                     "gate", "open", "rewrite", "done"}
    BY DEF IInv, TypeOK
  <2>2. StepsToJoin \in Nat /\ StepsToJoin' \in Nat
    <3>1. TypeOK'
      BY TypePreserved DEF IInv
    <3>2. QED
      BY <2>1, <3>1 DEF TypeOK
  <2>3. main = "join_control" /\ ControlThread => StepsToJoin' < StepsToJoin
    BY DEF ControlThread, BeginCycle, SkipCommand, PassGuards,
       queue_servo_command, NotifyServo, ControlExit
  <2>4. main = "join_servo" /\ ServoThread => StepsToJoin' < StepsToJoin
    <3>1. SUFFICES ASSUME main = "join_servo", ServoThread
                   PROVE  StepsToJoin' < StepsToJoin
      OBVIOUS
    <3>2. \/ servo = "check" /\ servo' = "done"
          \/ servo = "send" /\ servo' = "check"
      BY <3>1 DEF ServoThread, ServoWait, ServoTake, ServoExit, ServoSend,
         ServoDrop
    <3>3. QED
      BY <3>1, <3>2
  <2>5. main \in {"join_data", "abort_join"} /\ (Receive \/ OnState)
          => StepsToJoin' < StepsToJoin
    BY DEF Receive, OnState, WriteState, SetReceived, ExchangeBlocked,
       clear_pending_servo_command, HomeGate, OpenHomeGate, RewriteState,
       DataExit
  <2>6. JoinedThread => StepsToJoin' < StepsToJoin
    BY <2>3, <2>4, <2>5, Zenon DEF JoinedThread
  <2>7. StepsToJoin' <= StepsToJoin
    <3>1. CASE ControlThread
      <4>1. UNCHANGED <<data, main>> /\ (main = "join_servo" => servo' = servo)
        BY <3>1 DEF ControlThread, BeginCycle, SkipCommand, PassGuards,
           queue_servo_command, NotifyServo, WakeServo, ControlExit
      <4>2. main = "join_control" => StepsToJoin' <= StepsToJoin
        BY <2>1, <2>2, <2>3, <3>1, <4>1
      <4>3. QED
        BY <2>1, <2>2, <4>1, <4>2
    <3>2. CASE ServoThread
      <4>1. UNCHANGED <<ctl, data, main>>
        BY <3>2 DEF ServoThread, ServoWait, ServoTake, ServoExit, ServoSend,
           ServoDrop
      <4>2. main = "join_servo" => StepsToJoin' <= StepsToJoin
        BY <2>1, <2>2, <2>4, <3>2, <4>1
      <4>3. QED
        BY <2>1, <2>2, <4>1, <4>2
    <3>3. CASE Receive \/ OnState
      <4>1. UNCHANGED <<ctl, servo, main>>
        BY <3>3 DEF Receive, OnState, WriteState, SetReceived, ExchangeBlocked,
           clear_pending_servo_command, HomeGate, OpenHomeGate, RewriteState,
           DataExit
      <4>2. main \in {"join_data", "abort_join"} => StepsToJoin' <= StepsToJoin
        BY <2>1, <2>2, <2>5, <3>3, <4>1
      <4>3. QED
        BY <2>1, <2>2, <4>1, <4>2
    <3>4. CASE Constructor \/ StopNode \/ Destructor
      BY <3>4 DEF Constructor, Connect, InitializeRobot, SendText,
         CreateFilter, StartupMoveJ, ArmHomeGate, AssignDeadline,
         StartServoThread, StartControlThread, StopNode, Destructor,
         JoinControl, StopServoThread, NotifyServoStop, JoinServo,
         ShutdownSequence, Disconnect, JoinData
    <3>5. CASE Environment
      <4>1. UNCHANGED <<ctl, servo, data, main>>
        BY <3>5 DEF Environment, LoseConnection, DeadlinePasses
      <4>2. QED
        BY <2>1, <2>2, <4>1
    <3>6. QED
      BY <3>1, <3>2, <3>3, <3>4, <3>5 DEF Next, Terminated
  <2>8. QED
    BY <2>2, <2>6, <2>7
<1>2. QED
  BY Invariance, JoinedThreadsCanEnd, <1>1, PTL DEF Spec, JoinsRunOut

=============================================================================
