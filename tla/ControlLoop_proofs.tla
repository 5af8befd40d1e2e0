-------------------------- MODULE ControlLoop_proofs --------------------------
(***************************************************************************)
(* Proofs about ControlLoop, for any joints and angles, every set of poses *)
(* that pass the min-Z check, every guarded step and configuration.        *)
(***************************************************************************)
EXTENDS ControlLoop, TLAPS

USE ParameterAssumption

\* The guard moves every joint towards another pose, by one step at most.
LEMMA GuardedPose ==
    ASSUME NEW from \in Pose, NEW to \in Pose
    PROVE  /\ apply_command_guard(from, to) \in Pose
           /\ Near(apply_command_guard(from, to), from)
<1>1. \A x, y \in 0..MaxAngle :
         /\ x + ClampStep(y - x) \in 0..MaxAngle
         /\ x + ClampStep(y - x) - x \in (-MaxStep)..MaxStep
  BY DEF ClampStep
<1>2. \A j \in Joints : from[j] \in 0..MaxAngle /\ to[j] \in 0..MaxAngle
  BY Zenon DEF Pose
<1>3. apply_command_guard(from, to) \in Pose
  BY <1>1, <1>2, Zenon DEF apply_command_guard, Pose
<1>4. ASSUME NEW j \in Joints
      PROVE  apply_command_guard(from, to)[j] - from[j] \in (-MaxStep)..MaxStep
  <2>1. apply_command_guard(from, to)[j] = from[j] + ClampStep(to[j] - from[j])
    BY Zenon DEF apply_command_guard
  <2>2. from[j] \in 0..MaxAngle /\ to[j] \in 0..MaxAngle
    BY <1>2
  <2>3. QED
    BY <2>1, <2>2 DEF ClampStep
<1>5. QED
  BY <1>3, <1>4 DEF Near

\* A pose is near itself.
LEMMA NearItself ==
    ASSUME NEW pose \in Pose
    PROVE  Near(pose, pose)
<1> SUFFICES ASSUME NEW j \in Joints
             PROVE  pose[j] - pose[j] \in (-MaxStep)..MaxStep
  BY Zenon DEF Near
<1>1. pose[j] \in 0..MaxAngle
  BY Zenon DEF Pose
<1>2. QED
  BY <1>1

-----------------------------------------------------------------------------
(* The inductive invariant, conjunct by conjunct.                           *)

Solving == {"sync", "sync_set", "sync_flag", "check_measured", "init_safe",
            "solve", "check_predicted", "choose", "record", "apply"}

\* One command is still to come while a cycle past the gate is under way.
StandbyCredit ==
    /\ ~gate_enabled => active
    /\ active => after_off = 0
    /\ ~active => after_off = 0 \/ (after_off = 1 /\ ctl \in {"top", "measured"})

\* Behind the gate the external goal comes first and nothing replaces it.
GoalOrder ==
    /\ ros = "goal_set" => draft.position = "external"
    /\ gate_enabled =>
         /\ ctl \notin {"sync_set", "sync_flag"}
         /\ ros \in {"goal_external", "goal_synced"} =>
              goal.position = "external"
         /\ external => goal.position = "external"
         /\ ctl \in Solving => external

\* Without the gate both checks are always made; what is recorded lies within a
\* step of a measured pose that passed.
Remembered ==
    ~gate_enabled =>
      /\ LastSafeNearSafe
      /\ ctl \in {"init_safe", "solve", "check_predicted"} =>
           (measured_low <=> measured \notin Safe)
      /\ ctl \in {"choose", "record"} /\ ~hold => measured \in Safe
      /\ ctl = "record" => Near(command, measured)

IInv == TypeOK /\ StandbyCredit /\ GoalOrder /\ Remembered

-----------------------------------------------------------------------------
\* Every step keeps the types.
LEMMA TypePreserved ==
    ASSUME TypeOK, [Next]_vars
    PROVE  TypeOK'
<1> USE DEF TypeOK, ControlPC, RosPC, Goal, Source, vars, node, flags, goals,
           memory, cycle, history
<1>1. CASE NotReady
  <2>1. /\ virtual_init' \in BOOLEAN
        /\ last_safe_init' \in BOOLEAN
    BY <1>1, Zenon DEF NotReady, Forget
  <2>2. QED
    BY <1>1, <2>1 DEF NotReady, Forget
<1>2. CASE Measure
  <2>1. /\ measured_low' \in BOOLEAN
        /\ hold' \in BOOLEAN
    BY <1>2, Zenon DEF Measure
  <2>2. QED
    BY <1>2, <2>1 DEF Measure
<1>3. CASE ActiveGate
  <2>1. /\ virtual_init' \in BOOLEAN
        /\ last_safe_init' \in BOOLEAN
    BY <1>3, Zenon DEF ActiveGate, Forget
  <2>2. QED
    BY <1>3, <2>1 DEF ActiveGate, Forget
<1>4. CASE GoalGate
  <2>1. /\ virtual_init' \in BOOLEAN
        /\ last_safe_init' \in BOOLEAN
    BY <1>4, Zenon DEF GoalGate, Forget
  <2>2. QED
    BY <1>4, <2>1 DEF GoalGate, Forget
<1>5. CASE SyncCheck
  BY <1>5 DEF SyncCheck
<1>6. CASE SyncSetGoal
  BY <1>6 DEF SyncSetGoal, StartupGoal
<1>7. CASE SyncSetFlag
  <2>1. synced' \in BOOLEAN
    BY <1>7, Zenon DEF SyncSetFlag
  <2>2. QED
    BY <1>7, <2>1 DEF SyncSetFlag
<1>8. CASE CheckMeasured
  <2>1. measured_low' \in BOOLEAN
    BY <1>8, Zenon DEF CheckMeasured, violates_min_z_safety
  <2>2. QED
    BY <1>8, <2>1 DEF CheckMeasured, violates_min_z_safety
<1>9. CASE InitLastSafe
  <2>1. last_safe_init' \in BOOLEAN
    BY <1>9, Zenon DEF InitLastSafe
  <2>2. QED
    BY <1>9, <2>1 DEF InitLastSafe
<1>10. CASE Solve
  <2>1. triggered' \in BOOLEAN
    BY <1>10, Zenon DEF Solve
  <2>2. QED
    BY <1>10, <2>1 DEF Solve
<1>11. CASE CheckPredicted
  <2>1. hold' \in BOOLEAN
    BY <1>11, Zenon DEF CheckPredicted, violates_min_z_safety
  <2>2. QED
    BY <1>11, <2>1 DEF CheckPredicted, violates_min_z_safety
<1>12. CASE ChooseCommand
  <2>1. /\ triggered' \in BOOLEAN
    BY <1>12, Zenon DEF ChooseCommand
  <2>2. command' \in Pose
    BY <1>12, GuardedPose, Zenon DEF ChooseCommand, HeldPose
  <2>3. QED
    BY <1>12, <2>1, <2>2 DEF ChooseCommand
<1>13. CASE Record
  <2>1. last_safe_init' \in BOOLEAN
    BY <1>13, Zenon DEF Record
  <2>2. QED
    BY <1>13, <2>1 DEF Record
<1>14. CASE Apply
  <2>1. virtual_init' \in BOOLEAN
    BY <1>14, Zenon DEF Apply
  <2>2. QED
    BY <1>14, <2>1 DEF Apply
<1>15. CASE FlagOn
  <2>1. active' \in BOOLEAN
    BY <1>15, Zenon DEF FlagOn
  <2>2. QED
    BY <1>15, <2>1 DEF FlagOn
<1>16. CASE FlagOff
  <2>1. active' \in BOOLEAN
    BY <1>16, Zenon DEF FlagOff
  <2>2. QED
    BY <1>16, <2>1 DEF FlagOff
<1>17. CASE FlagOffReset
  <2>1. /\ virtual_init' \in BOOLEAN
        /\ last_safe_init' \in BOOLEAN
        /\ triggered' \in BOOLEAN
    BY <1>17, Zenon DEF FlagOffReset
  <2>2. QED
    BY <1>17, <2>1 DEF FlagOffReset
<1>18. CASE OnGoal
  BY <1>18 DEF OnGoal
<1>19. CASE OnGoalPose
  BY <1>19 DEF OnGoalPose
<1>20. CASE GoalSet
  BY <1>20 DEF GoalSet
<1>21. CASE GoalFlags
  <2>1. /\ external' \in BOOLEAN
        /\ synced' \in BOOLEAN
    BY <1>21, Zenon DEF GoalFlags
  <2>2. QED
    BY <1>21, <2>1 DEF GoalFlags
<1>22. CASE BackendReady
  <2>1. ready' \in BOOLEAN
    BY <1>22, Zenon DEF BackendReady
  <2>2. QED
    BY <1>22, <2>1 DEF BackendReady
<1>23. CASE UNCHANGED vars
  BY <1>23
<1>24. QED
  BY <1>1, <1>2, <1>3, <1>4, <1>5, <1>6, <1>7, <1>8, <1>9, <1>10, <1>11,
     <1>12, <1>13, <1>14, <1>15, <1>16, <1>17, <1>18, <1>19, <1>20, <1>21,
     <1>22, <1>23
  DEF Next, ControlThread, Executor

\* A deactivation leaves at most the command of the cycle it falls into.
LEMMA StandbyPreserved ==
    ASSUME TypeOK, TypeOK', StandbyCredit, [Next]_vars
    PROVE  StandbyCredit'
<1> USE DEF TypeOK, ControlPC, StandbyCredit, vars, node, flags, goals, memory,
           cycle, history
<1>1. CASE NotReady
  BY <1>1 DEF NotReady, Forget
<1>2. CASE Measure
  BY <1>2 DEF Measure
<1>3. CASE ActiveGate
  BY <1>3 DEF ActiveGate, Forget
<1>4. CASE GoalGate
  BY <1>4 DEF GoalGate, Forget
<1>5. CASE SyncCheck
  BY <1>5 DEF SyncCheck
<1>6. CASE SyncSetGoal
  BY <1>6 DEF SyncSetGoal, StartupGoal
<1>7. CASE SyncSetFlag
  BY <1>7 DEF SyncSetFlag
<1>8. CASE CheckMeasured
  BY <1>8 DEF CheckMeasured, violates_min_z_safety
<1>9. CASE InitLastSafe
  BY <1>9 DEF InitLastSafe
<1>10. CASE Solve
  BY <1>10 DEF Solve
<1>11. CASE CheckPredicted
  BY <1>11 DEF CheckPredicted, violates_min_z_safety
<1>12. CASE ChooseCommand
  BY <1>12 DEF ChooseCommand, apply_command_guard
<1>13. CASE Record
  BY <1>13 DEF Record
<1>14. CASE Apply
  BY <1>14 DEF Apply
<1>15. CASE FlagOn
  BY <1>15 DEF FlagOn
<1>16. CASE FlagOff
  BY <1>16 DEF FlagOff
<1>17. CASE FlagOffReset
  BY <1>17 DEF FlagOffReset
<1>18. CASE OnGoal
  BY <1>18 DEF OnGoal
<1>19. CASE OnGoalPose
  BY <1>19 DEF OnGoalPose
<1>20. CASE GoalSet
  BY <1>20 DEF GoalSet
<1>21. CASE GoalFlags
  BY <1>21 DEF GoalFlags
<1>22. CASE BackendReady
  BY <1>22 DEF BackendReady
<1>23. CASE UNCHANGED vars
  BY <1>23
<1>24. QED
  BY <1>1, <1>2, <1>3, <1>4, <1>5, <1>6, <1>7, <1>8, <1>9, <1>10, <1>11,
     <1>12, <1>13, <1>14, <1>15, <1>16, <1>17, <1>18, <1>19, <1>20, <1>21,
     <1>22, <1>23
  DEF Next, ControlThread, Executor

\* The box is written before the flag that announces it.
LEMMA GoalOrderPreserved ==
    ASSUME TypeOK, TypeOK', GoalOrder, [Next]_vars
    PROVE  GoalOrder'
<1> USE DEF TypeOK, ControlPC, RosPC, Goal, Source, GoalOrder, Solving, vars,
           node, flags, goals, memory, cycle, history
<1>1. CASE NotReady
  BY <1>1 DEF NotReady, Forget
<1>2. CASE Measure
  BY <1>2 DEF Measure
<1>3. CASE ActiveGate
  BY <1>3 DEF ActiveGate, Forget
<1>4. CASE GoalGate
  BY <1>4 DEF GoalGate, Forget
<1>5. CASE SyncCheck
  BY <1>5 DEF SyncCheck
<1>6. CASE SyncSetGoal
  BY <1>6 DEF SyncSetGoal, StartupGoal
<1>7. CASE SyncSetFlag
  BY <1>7 DEF SyncSetFlag
<1>8. CASE CheckMeasured
  BY <1>8 DEF CheckMeasured, violates_min_z_safety
<1>9. CASE InitLastSafe
  BY <1>9 DEF InitLastSafe
<1>10. CASE Solve
  BY <1>10 DEF Solve
<1>11. CASE CheckPredicted
  BY <1>11 DEF CheckPredicted, violates_min_z_safety
<1>12. CASE ChooseCommand
  BY <1>12 DEF ChooseCommand, apply_command_guard
<1>13. CASE Record
  BY <1>13 DEF Record
<1>14. CASE Apply
  BY <1>14 DEF Apply
<1>15. CASE FlagOn
  BY <1>15 DEF FlagOn
<1>16. CASE FlagOff
  BY <1>16 DEF FlagOff
<1>17. CASE FlagOffReset
  BY <1>17 DEF FlagOffReset
<1>18. CASE OnGoal
  BY <1>18 DEF OnGoal
<1>19. CASE OnGoalPose
  BY <1>19 DEF OnGoalPose
<1>20. CASE GoalSet
  BY <1>20 DEF GoalSet
<1>21. CASE GoalFlags
  BY <1>21 DEF GoalFlags
<1>22. CASE BackendReady
  BY <1>22 DEF BackendReady
<1>23. CASE UNCHANGED vars
  BY <1>23
<1>24. QED
  BY <1>1, <1>2, <1>3, <1>4, <1>5, <1>6, <1>7, <1>8, <1>9, <1>10, <1>11,
     <1>12, <1>13, <1>14, <1>15, <1>16, <1>17, <1>18, <1>19, <1>20, <1>21,
     <1>22, <1>23
  DEF Next, ControlThread, Executor

\* Whether there is a gate is settled at the start.
LEMMA GateKept ==
    ASSUME [Next]_vars
    PROVE  gate_enabled' = gate_enabled
<1> USE DEF vars, node
<1>1. CASE ControlThread
  BY <1>1 DEF ControlThread, NotReady, Measure, ActiveGate, GoalGate, SyncCheck,
     SyncSetGoal, SyncSetFlag, CheckMeasured, InitLastSafe, Solve,
     CheckPredicted, ChooseCommand, Record, Apply
<1>2. CASE Executor
  BY <1>2 DEF Executor, FlagOn, FlagOff, FlagOffReset, OnGoal, OnGoalPose,
     GoalSet, GoalFlags
<1>3. CASE BackendReady \/ UNCHANGED vars
  BY <1>3 DEF BackendReady
<1>4. QED
  BY <1>1, <1>2, <1>3 DEF Next

\* What does not touch the memory of the hold keeps it.
LEMMA MemoryKept ==
    ASSUME TypeOK, TypeOK', Remembered,
           UNCHANGED <<gate_enabled, last_safe_init, last_safe>>
    PROVE  LastSafeNearSafe'
BY DEF Remembered, LastSafeNearSafe

\* Poses are remembered only if they passed, or are one step from one that did.
LEMMA RememberedPreserved ==
    ASSUME TypeOK, TypeOK', StandbyCredit, Remembered, [Next]_vars
    PROVE  Remembered'
<1> SUFFICES ASSUME ~gate_enabled, gate_enabled' = gate_enabled
             PROVE  Remembered'
  BY GateKept DEF Remembered, LastSafeNearSafe
<1> USE DEF vars, node, flags, goals, memory, cycle, history
<1>1. CASE NotReady
  BY <1>1 DEF NotReady, Forget, TypeOK, Remembered, LastSafeNearSafe
<1>2. CASE Measure
  BY <1>2, MemoryKept DEF Measure, Remembered
<1>3. CASE ActiveGate
  BY <1>3, MemoryKept DEF ActiveGate, Remembered
<1>4. CASE GoalGate
  BY <1>4, MemoryKept DEF GoalGate, Remembered
<1>5. CASE SyncCheck
  BY <1>5, MemoryKept DEF SyncCheck, Remembered
<1>6. CASE SyncSetGoal \/ SyncSetFlag
  BY <1>6, MemoryKept DEF SyncSetGoal, SyncSetFlag, Remembered
<1>7. CASE CheckMeasured
  <2>1. measured_low' <=> measured' \notin Safe
    BY <1>7, Zenon DEF CheckMeasured, violates_min_z_safety
  <2>2. QED
    BY <1>7, <2>1, MemoryKept DEF CheckMeasured, Remembered
<1>8. CASE InitLastSafe
  <2>1. CASE ~last_safe_init /\ ~measured_low
    <3>1. last_safe' = measured /\ measured \in Safe
      BY <1>8, <2>1 DEF InitLastSafe, Remembered
    <3>2. LastSafeNearSafe'
      BY <3>1, NearItself DEF LastSafeNearSafe, TypeOK
    <3>3. QED
      BY <1>8, <3>2 DEF InitLastSafe, Remembered
  <2>2. CASE ~(~last_safe_init /\ ~measured_low)
    BY <1>8, <2>2, MemoryKept DEF InitLastSafe, Remembered
  <2>3. QED
    BY <2>1, <2>2
<1>9. CASE Solve
  BY <1>9, MemoryKept DEF Solve, Remembered
<1>10. CASE CheckPredicted
  <2>1. ~hold' => ~measured_low
    BY <1>10, Zenon DEF CheckPredicted
  <2>2. QED
    BY <1>10, <2>1, MemoryKept DEF CheckPredicted, Remembered
<1>11. CASE ChooseCommand
  <2>1. Near(command', measured')
    BY <1>11, GuardedPose, Zenon DEF ChooseCommand, HeldPose, TypeOK
  <2>2. QED
    BY <1>11, <2>1, MemoryKept DEF ChooseCommand, Remembered
<1>12. CASE Record
  <2>1. CASE hold
    BY <1>12, <2>1, MemoryKept DEF Record, Remembered
  <2>2. CASE ~hold
    <3>1. last_safe' = command /\ Near(command, measured) /\ measured \in Safe
      BY <1>12, <2>2 DEF Record, Remembered
    <3>2. LastSafeNearSafe'
      BY <3>1 DEF LastSafeNearSafe
    <3>3. QED
      BY <1>12, <3>2 DEF Record, Remembered
  <2>3. QED
    BY <2>1, <2>2
<1>13. CASE Apply
  BY <1>13, MemoryKept DEF Apply, Remembered
<1>14. CASE FlagOn \/ FlagOff
  BY <1>14 DEF FlagOn, FlagOff
<1>15. CASE FlagOffReset
  <2>1. last_safe_init' => last_safe_init
    BY <1>15, Zenon DEF FlagOffReset
  <2>2. LastSafeNearSafe'
    BY <1>15, <2>1 DEF FlagOffReset, Remembered, LastSafeNearSafe
  <2>3. QED
    BY <1>15, <2>2 DEF FlagOffReset, Remembered
<1>16. CASE OnGoal \/ OnGoalPose
  BY <1>16, MemoryKept DEF OnGoal, OnGoalPose, Remembered
<1>17. CASE GoalSet \/ GoalFlags
  BY <1>17, MemoryKept DEF GoalSet, GoalFlags, Remembered
<1>18. CASE BackendReady
  BY <1>18, MemoryKept DEF BackendReady, Remembered
<1>19. CASE UNCHANGED vars
  BY <1>19, MemoryKept DEF Remembered
<1>20. QED
  BY <1>1, <1>2, <1>3, <1>4, <1>5, <1>6, <1>7, <1>8, <1>9, <1>10, <1>11,
     <1>12, <1>13, <1>14, <1>15, <1>16, <1>17, <1>18, <1>19
  DEF Next, ControlThread, Executor

\* The initial state satisfies the invariant.
LEMMA InitIInv ==
    Init => IInv
<1> SUFFICES ASSUME Init
             PROVE  IInv
  OBVIOUS
<1> USE DEF Init, DefaultGoal
<1>1. active \in BOOLEAN /\ gate_enabled \in BOOLEAN
  BY Zenon
<1>2. TypeOK
  <2>1. ZeroPose \in Pose
    BY DEF Pose, ZeroPose
  <2>2. QED
    BY <1>1, <2>1 DEF TypeOK, ControlPC, RosPC, Goal, Source
<1>3. StandbyCredit /\ GoalOrder
  BY DEF StandbyCredit, GoalOrder, Solving
<1>4. Remembered
  BY DEF Remembered, LastSafeNearSafe
<1>5. QED
  BY <1>2, <1>3, <1>4 DEF IInv

\* The invariant holds of every reachable state.
THEOREM Invariance ==
    Spec => []IInv
<1>1. IInv /\ [Next]_vars => IInv'
  <2> SUFFICES ASSUME IInv, [Next]_vars
               PROVE  IInv'
    OBVIOUS
  <2>1. TypeOK'
    BY TypePreserved DEF IInv
  <2>2. StandbyCredit'
    BY <2>1, StandbyPreserved DEF IInv
  <2>3. GoalOrder'
    BY <2>1, GoalOrderPreserved DEF IInv
  <2>4. Remembered'
    BY <2>1, RememberedPreserved DEF IInv
  <2>5. QED
    BY <2>1, <2>2, <2>3, <2>4 DEF IInv
<1>2. QED
  BY InitIInv, <1>1, PTL DEF Spec

\* Every variable of the loop keeps its range; a guarded command is a pose.
THEOREM TypeCorrect ==
    Spec => []TypeOK
<1>1. IInv => TypeOK
  BY DEF IInv
<1>2. QED
  BY Invariance, <1>1, PTL

\* After /RMP_flag deactivates the loop, at most one more command is applied.
THEOREM DeactivationTakesEffect ==
    Spec => []OneCommandAfterDeactivation
<1>1. IInv => OneCommandAfterDeactivation
  BY DEF IInv, StandbyCredit, OneCommandAfterDeactivation
<1>2. QED
  BY Invariance, <1>1, PTL

\* Behind the gate no cycle solves for a goal nobody has sent.
THEOREM GoalComesFirst ==
    Spec => []GoalBeforeCommand
<1>1. IInv => GoalBeforeCommand
  BY DEF IInv, GoalOrder, Solving, GoalBeforeCommand
<1>2. QED
  BY Invariance, <1>1, PTL

\* Without the /RMP_flag gate the pose that the min-Z hold falls back to is
\* within one guarded step of a pose that passed the check, whichever pass.
THEOREM UngatedHoldStaysNear ==
    Spec => []LastSafeNearSafe
<1>1. IInv => LastSafeNearSafe
  BY DEF IInv, Remembered, LastSafeNearSafe
<1>2. QED
  BY Invariance, <1>1, PTL

\* An external goal in the box, and no synchronisation about to write it.
Kept == external /\ goal.position = "external" /\ ctl # "sync_set"

\* Such a goal is replaced by external goals only: the flag a goal callback has
\* raised keeps every later cycle away from the synchronisation.
LEMMA KeptStays ==
    ASSUME IInv, Kept, [Next]_vars
    PROVE  Kept'
<1> USE DEF Kept, vars, node, flags, goals
<1>1. CASE NotReady \/ Measure \/ ActiveGate \/ GoalGate
  BY <1>1 DEF NotReady, Measure, ActiveGate, GoalGate
<1>2. CASE SyncCheck
  BY <1>2 DEF SyncCheck
<1>3. CASE SyncSetGoal \/ SyncSetFlag
  BY <1>3 DEF SyncSetGoal, SyncSetFlag
<1>4. CASE CheckMeasured \/ InitLastSafe \/ Solve \/ CheckPredicted
  BY <1>4 DEF CheckMeasured, InitLastSafe, Solve, CheckPredicted
<1>5. CASE ChooseCommand \/ Record \/ Apply
  BY <1>5 DEF ChooseCommand, Record, Apply
<1>6. CASE FlagOn \/ FlagOff \/ FlagOffReset
  BY <1>6 DEF FlagOn, FlagOff, FlagOffReset
<1>7. CASE OnGoal \/ OnGoalPose
  BY <1>7 DEF OnGoal, OnGoalPose
<1>8. CASE GoalSet
  BY <1>8 DEF GoalSet, IInv, GoalOrder
<1>9. CASE GoalFlags
  BY <1>9 DEF GoalFlags
<1>10. CASE BackendReady
  BY <1>10 DEF BackendReady
<1>11. CASE UNCHANGED vars
  BY <1>11
<1>12. QED
  BY <1>1, <1>2, <1>3, <1>4, <1>5, <1>6, <1>7, <1>8, <1>9, <1>10, <1>11
  DEF Next, ControlThread, Executor

\* An external goal that is in the box at the start of a cycle is never replaced
\* by the start-up goal, whatever callbacks come in between, and whether or not
\* the controller has the /RMP_flag gate.
THEOREM ExternalGoalIsKept ==
    Spec => ExternalGoalStays
<1>1. IInv /\ Kept /\ [Next]_vars => Kept'
  BY KeptStays
<1>2. ctl = "top" /\ external /\ goal.position = "external" => Kept
  BY DEF Kept
<1>3. Kept => goal.position = "external"
  BY DEF Kept
<1>4. QED
  BY Invariance, <1>1, <1>2, <1>3, PTL DEF Spec, ExternalGoalStays
=============================================================================
