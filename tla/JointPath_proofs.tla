-------------------------- MODULE JointPath_proofs --------------------------
(***************************************************************************)
(* Theorems about JointPath, for every number of joints and every set of   *)
(* truthful message layouts.                                               *)
(***************************************************************************)
EXTENDS JointPath, TLAPS, WellFoundedInduction, SequenceTheorems

(***************************************************************************)
(* The first index of a name.                                              *)
(***************************************************************************)
Smaller == {pair \in Nat \X Nat : pair[1] < pair[2]}

\* Every set of indices that is not empty has a least one.
LEMMA Least ==
    ASSUME NEW T \in SUBSET Nat, T # {}
    PROVE  \E x \in T : \A y \in T : x <= y
<1>1. IsWellFoundedOn(Smaller, Nat)
  BY NatLessThanWellFounded DEF Smaller, OpToRel
<1>2. \E x \in T : \A y \in T : ~ (<<y, x>> \in Smaller)
  BY <1>1, WFMin
<1>3. \A x, y \in Nat : ~ (<<y, x>> \in Smaller) => x <= y
  BY DEF Smaller
<1> QED BY <1>2, <1>3

\* Index() finds the first occurrence of a name that is there.
LEMMA FirstIndex ==
    ASSUME NEW names \in Seq(Nat), NEW name \in Names(names)
    PROVE  /\ Index(names, name) \in DOMAIN names
           /\ names[Index(names, name)] = name
           /\ \A k \in DOMAIN names : names[k] = name => Index(names, name) <= k
<1> DEFINE T == {k \in DOMAIN names : names[k] = name}
<1>1. T \in SUBSET Nat /\ T # {}
  BY DEF Names
<1>2. PICK i \in T : \A k \in T : i <= k
  BY <1>1, Least
<1>3. \E i1 \in DOMAIN names :
          names[i1] = name /\ \A k \in DOMAIN names : names[k] = name => i1 <= k
  BY <1>2
<1> QED BY <1>3 DEF Index

(***************************************************************************)
(* Messages.                                                               *)
(***************************************************************************)
\* A vector of one reading of pose p whose values are in place.
Sample(q, p) ==
    q \in Vector /\ \A j \in Joints : q[j].pose = p /\ (q[j].clear => q[j].joint = j)

\* A sample of a pose is in place.
LEMMA SampleInPlace ==
    ASSUME NEW p \in Poses, NEW q, Sample(q, p)
    PROVE  InPlace(q)
  BY PosesAssumption DEF Sample, InPlace, Garbage

\* What is in the message of a driver.
LEMMA Raw ==
    ASSUME NEW l \in Layouts, NEW p \in Poses, NEW maps
    PROVE  LET m == Message(l, p, maps) IN
           /\ m.names = l.names /\ l.names \in Seq(Nat)
           /\ m.position \in Seq(Value) /\ Len(m.position) = Len(l.carries)
           /\ DOMAIN m.position = 1..Len(l.carries)
           /\ \A i \in 1..Len(l.carries) :
                 m.position[i] = [joint |-> l.carries[i], pose |-> p,
                                  clear |-> Understood(l, maps)]
           /\ Len(m.velocity) = l.speeds /\ DOMAIN m.velocity = 1..l.speeds
           /\ \A i \in 1..l.speeds : m.velocity[i] = m.position[i]
           /\ l.speeds \in Nat /\ l.speeds <= Len(l.carries)
<1> DEFINE m == Message(l, p, maps)
           values == [i \in DOMAIN l.carries |->
                        [joint |-> l.carries[i], pose |-> p, clear |-> Understood(l, maps)]]
<1>1. /\ l.names \in Seq(Nat) /\ l.carries \in Seq(0..N)
      /\ l.speeds \in Nat /\ l.speeds <= Len(l.carries)
  BY LayoutsAssumption
<1>2. DOMAIN l.carries = 1..Len(l.carries) /\ Len(l.carries) \in Nat
  BY <1>1
<1>3. Understood(l, maps) \in BOOLEAN
  BY DEF Understood
<1>4. \A i \in 1..Len(l.carries) : values[i] \in Value
  <2>1. \A i \in 1..Len(l.carries) : l.carries[i] \in 0..N
    BY <1>1, ElementOfSeq
  <2> QED BY <2>1, <1>2, <1>3 DEF Value
<1>5. values \in [1..Len(l.carries) -> Value]
  BY <1>4, <1>2
<1>6. values \in Seq(Value) /\ Len(values) = Len(l.carries)
  BY <1>5, <1>2
<1>7. /\ m.names = l.names /\ m.position = values
      /\ m.velocity = [i \in 1..l.speeds |-> values[i]]
  BY DEF Message
<1>8. Len(m.velocity) = l.speeds
  <2>1. m.velocity \in [1..l.speeds -> {values[i] : i \in 1..l.speeds}]
    BY <1>7
  <2> QED BY <2>1, <1>1
<1>9. \A i \in 1..Len(l.carries) :
           values[i] = [joint |-> l.carries[i], pose |-> p, clear |-> Understood(l, maps)]
  BY <1>2
<1>10. /\ DOMAIN m.velocity = 1..l.speeds
       /\ \A i \in 1..l.speeds : m.velocity[i] = m.position[i]
  BY <1>7
<1>11. DOMAIN values = 1..Len(l.carries)
  BY <1>2
<1> HIDE DEF m, values
<1> QED BY <1>1, <1>6, <1>7, <1>8, <1>9, <1>10, <1>11 DEF m

\* A value that is found by name is in place.
LEMMA ByName ==
    ASSUME NEW l \in Layouts, NEW p \in Poses, NEW maps, NEW map \in {Target, Source},
           TryReorder(Message(l, p, maps), map), NEW j \in Joints
    PROVE  LET i == Index(l.names, map[j]) IN
           /\ i \in 1..Len(l.carries)
           /\ l.carries[i] = j
<1> DEFINE i == Index(l.names, map[j])
<1>1. map[j] \in Names(l.names) /\ i <= Len(l.carries)
  BY Raw DEF TryReorder, AllNamed
<1>2. i \in DOMAIN l.names /\ l.names[i] = map[j]
  BY <1>1, Raw, FirstIndex
<1>3. i \in 1..Len(l.carries) /\ i \in DOMAIN l.carries
  BY <1>1, <1>2, Raw, LayoutsAssumption
<1>4. map[j] \in {Target[j], Source[j]}
  OBVIOUS
<1> QED BY <1>2, <1>3, <1>4, LayoutsAssumption DEF Truthful

\* A message that is understood, but not by one of the maps that were tried, is
\* in order.
LEMMA ByOrder ==
    ASSUME NEW l \in Layouts, NEW p \in Poses, NEW maps \in SUBSET {Target, Source},
           \A map \in maps : ~ TryReorder(Message(l, p, maps), map),
           Understood(l, maps), NEW j \in Joints
    PROVE  l.carries[j] = j
<1> DEFINE m == Message(l, p, maps)
<1>1. CASE \A k \in Joints : k \in DOMAIN l.carries /\ l.carries[k] = k
  BY <1>1
<1>2. CASE /\ Len(l.names) >= N
           /\ \E map \in maps : \A k \in Joints :
                 \E i \in DOMAIN l.names \cap DOMAIN l.carries : l.names[i] = map[k]
  <2>1. PICK map \in maps : \A k \in Joints :
                 \E i \in DOMAIN l.names \cap DOMAIN l.carries : l.names[i] = map[k]
    BY <1>2
  <2>2. ASSUME NEW k \in Joints
        PROVE  map[k] \in Names(l.names) /\ Index(l.names, map[k]) <= Len(l.carries)
    <3>1. PICK i \in DOMAIN l.names \cap DOMAIN l.carries : l.names[i] = map[k]
      BY <2>1
    <3>2. map[k] \in Names(l.names)
      BY <3>1 DEF Names
    <3>3. Index(l.names, map[k]) <= i /\ Index(l.names, map[k]) \in DOMAIN l.names
      BY <3>1, <3>2, FirstIndex, LayoutsAssumption
    <3>4. i \in Nat /\ i <= Len(l.carries) /\ Index(l.names, map[k]) \in Nat
      BY <3>3, LayoutsAssumption
    <3> QED BY <3>2, <3>3, <3>4, LayoutsAssumption
  <2>3. m.names = l.names /\ Len(m.position) = Len(l.carries)
    BY Raw
  <2>4. TryReorder(m, map)
    BY <1>2, <2>2, <2>3 DEF TryReorder, AllNamed
  <2> QED BY <2>4
<1> QED BY <1>1, <1>2 DEF Understood

\* What is read at the index of a name, or at the joint's own index, is a sample.
LEMMA FoundByName ==
    ASSUME NEW l \in Layouts, NEW p \in Poses, NEW maps, NEW map \in {Target, Source},
           TryReorder(Message(l, p, maps), map)
    PROVE  Sample([j \in Joints |-> At(Message(l, p, maps).position,
                                       Index(l.names, map[j]))], p)
<1> DEFINE m == Message(l, p, maps)
           q == [j \in Joints |-> At(m.position, Index(l.names, map[j]))]
<1>1. ASSUME NEW j \in Joints
      PROVE  q[j] \in Value /\ q[j].pose = p /\ q[j].joint = j
  <2>1. /\ Index(l.names, map[j]) \in 1..Len(l.carries)
        /\ l.carries[Index(l.names, map[j])] = j
    BY ByName
  <2>2. q[j] = m.position[Index(l.names, map[j])]
    BY <2>1, Raw DEF At
  <2>3. q[j] = [joint |-> j, pose |-> p, clear |-> Understood(l, maps)]
    BY <2>1, <2>2, Raw
  <2>4. m.position[Index(l.names, map[j])] \in Value
    BY <2>1, Raw, ElementOfSeq
  <2> QED BY <2>2, <2>3, <2>4
<1> QED BY <1>1 DEF Sample, Vector

\* Read by position, a message that is long enough is a sample of its pose.
LEMMA FoundByOrder ==
    ASSUME NEW l \in Layouts, NEW p \in Poses, NEW maps \in SUBSET {Target, Source},
           \A map \in maps : ~ TryReorder(Message(l, p, maps), map),
           Len(l.carries) >= N
    PROVE  Sample([j \in Joints |-> At(Message(l, p, maps).position, j)], p)
<1> DEFINE m == Message(l, p, maps)
           q == [j \in Joints |-> At(m.position, j)]
<1>1. ASSUME NEW j \in Joints
      PROVE  q[j] \in Value /\ q[j].pose = p /\ (q[j].clear => q[j].joint = j)
  <2>1. j \in 1..Len(l.carries)
    BY SizesAssumption, LayoutsAssumption DEF Joints
  <2>2. q[j] = m.position[j]
    BY <2>1, Raw DEF At
  <2>3. q[j] = [joint |-> l.carries[j], pose |-> p, clear |-> Understood(l, maps)]
    BY <2>1, <2>2, Raw
  <2>4. m.position[j] \in Value
    BY <2>1, Raw, ElementOfSeq
  <2>5. Understood(l, maps) => l.carries[j] = j
    BY ByOrder
  <2> QED BY <2>2, <2>3, <2>4, <2>5
<1> QED BY <1>1 DEF Sample, Vector

\* A vector of joint values is a sequence of that length.
LEMMA VectorIsSequence ==
    ASSUME NEW S, NEW q \in [Joints -> S]
    PROVE  Len(q) = N /\ DOMAIN q = 1..N
  BY SizesAssumption DEF Joints

\* What the adapter publishes: the target's names, a sample of the pose, and the
\* velocities of the same joints or none.
LEMMA AdapterOrders ==
    ASSUME NEW l \in Layouts, NEW p \in Poses, Len(l.carries) >= N
    PROVE  LET m == Received[TRUE][p][l] IN
           /\ m.names = Target
           /\ Sample(m.position, p)
           /\ m.velocity \in {m.position, <<>>}
<1> DEFINE maps == {Target, Source}
           m == Message(l, p, maps)
<1>1. Received[TRUE][p][l] = BuildOrderedState(m)
  BY DEF Received
<1>2. ASSUME NEW map \in {Target, Source}, TryReorder(m, map)
      PROVE  /\ Reorder(m, map).names = Target
             /\ Sample(Reorder(m, map).position, p)
             /\ Reorder(m, map).velocity \in {Reorder(m, map).position, <<>>}
  <2> DEFINE i(j) == Index(l.names, map[j])
  <2>1. m.names = l.names
    BY Raw
  <2>2. Reorder(m, map).position = [j \in Joints |-> At(m.position, i(j))]
    BY <2>1 DEF Reorder
  <2>3. Sample(Reorder(m, map).position, p)
    <3>1. Sample([j \in Joints |-> At(m.position, i(j))], p)
      BY <1>2, FoundByName
    <3> QED BY <2>2, <3>1
  <2>4. CASE Len(m.velocity) >= Len(m.position)
    <3>1. Reorder(m, map).velocity = [j \in Joints |-> At(m.velocity, i(j))]
      BY <2>1, <2>4 DEF Reorder
    <3>2. ASSUME NEW j \in Joints
          PROVE  At(m.velocity, i(j)) = At(m.position, i(j))
      <4>1. i(j) \in 1..Len(l.carries)
        BY <1>2, ByName
      <4>2. l.speeds = Len(l.carries)
        BY <2>4, Raw, LayoutsAssumption
      <4> QED BY <4>1, <4>2, Raw DEF At
    <3> QED BY <2>2, <3>1, <3>2, <2>3 DEF Reorder
  <2>5. CASE ~ (Len(m.velocity) >= Len(m.position))
    BY <2>3, <2>5 DEF Reorder
  <2> QED BY <2>3, <2>4, <2>5 DEF Reorder
<1>3. ASSUME \A map \in maps : ~ TryReorder(m, map)
      PROVE  /\ FirstOnes(m).names = Target
             /\ Sample(FirstOnes(m).position, p)
             /\ FirstOnes(m).velocity \in {FirstOnes(m).position, <<>>}
  <2>1. FirstOnes(m).position = [j \in Joints |-> At(m.position, j)]
    BY DEF FirstOnes
  <2>2. Sample(FirstOnes(m).position, p)
    BY <1>3, <2>1, FoundByOrder
  <2>3. FirstOnes(m).names = Target
    BY DEF FirstOnes
  <2>4. CASE Len(m.velocity) >= N
    <3>1. FirstOnes(m).velocity = [j \in Joints |-> At(m.velocity, j)]
      BY <2>4 DEF FirstOnes
    <3>2. ASSUME NEW j \in Joints
          PROVE  At(m.velocity, j) = At(m.position, j)
      <4>1. j \in 1..l.speeds /\ j \in 1..Len(l.carries)
        BY <2>4, Raw, SizesAssumption, LayoutsAssumption DEF Joints
      <4> QED BY <4>1, Raw DEF At
    <3>3. FirstOnes(m).velocity = FirstOnes(m).position
      BY <2>1, <3>1, <3>2
    <3> QED BY <2>2, <2>3, <3>3
  <2>5. CASE ~ (Len(m.velocity) >= N)
    <3>1. FirstOnes(m).velocity = <<>>
      BY <2>5 DEF FirstOnes
    <3> QED BY <2>2, <2>3, <3>1
  <2> QED BY <2>4, <2>5
<1>4. CASE TryReorder(m, Target)
  BY <1>1, <1>2, <1>4 DEF BuildOrderedState
<1>5. CASE ~ TryReorder(m, Target) /\ TryReorder(m, Source)
  BY <1>1, <1>2, <1>5 DEF BuildOrderedState
<1>6. CASE ~ TryReorder(m, Target) /\ ~ TryReorder(m, Source)
  BY <1>1, <1>3, <1>6 DEF BuildOrderedState
<1> QED BY <1>4, <1>5, <1>6

\* The model's names in the model's order: each is at its own index.
LEMMA OwnIndex ==
    ASSUME NEW j \in Joints
    PROVE  /\ Target[j] \in Names(Target)
           /\ Index(Target, Target[j]) = j
<1>1. Target \in Seq(Nat) /\ DOMAIN Target = Joints /\ \A k \in Joints : Target[k] = k
  <2>1. Target \in [1..N -> Nat]
    BY SizesAssumption DEF Target, Joints
  <2> QED BY <2>1, SizesAssumption DEF Target, Joints
<1>2. Target[j] \in Names(Target)
  BY <1>1 DEF Names
<1>3. Index(Target, Target[j]) \in Joints /\ Target[Index(Target, Target[j])] = Target[j]
  BY <1>1, <1>2, FirstIndex
<1> QED BY <1>1, <1>2, <1>3

\* The controller reads a sample, and no joint has another one's velocity.
LEMMA ControllerReads ==
    ASSUME NEW a \in BOOLEAN, NEW l \in Layouts, NEW p \in Poses,
           a => Len(l.carries) >= N, Long(Received[a][p][l])
    PROVE  LET s == RobotState(Received[a][p][l]) IN
           /\ Sample(s.q, p)
           /\ \A j \in Joints : s.qd[j] \subseteq {s.q[j]}
<1> DEFINE m == Received[a][p][l]
           s == RobotState(m)
<1>1. CASE a = TRUE
  <2>1. /\ m.names = Target /\ Sample(m.position, p)
        /\ m.velocity \in {m.position, <<>>}
    BY <1>1, AdapterOrders
  <2>2. m.position \in Vector /\ Len(m.position) = N /\ DOMAIN m.position = Joints
    BY <2>1, VectorIsSequence DEF Sample, Vector, Joints
  <2>3. Len(m.names) = N
    <3>1. Target \in [Joints -> Joints]
      BY DEF Target
    <3> QED BY <2>1, <3>1, VectorIsSequence
  <2>4. TryReorder(m, Target)
    <3>1. \A j \in Joints : Index(m.names, Target[j]) <= Len(m.position)
      BY <2>1, <2>2, OwnIndex, SizesAssumption DEF Joints
    <3> QED BY <2>1, <2>3, <3>1, OwnIndex, SizesAssumption DEF TryReorder, AllNamed
  <2>5. s.q = m.position
    <3>1. s.q = [j \in Joints |-> At(m.position, Index(m.names, Target[j]))]
      BY <2>4 DEF RobotState
    <3>2. \A j \in Joints : s.q[j] = m.position[j]
      BY <2>1, <2>2, <3>1, OwnIndex DEF At
    <3> QED BY <2>2, <3>1, <3>2 DEF Vector
  <2>6. ASSUME NEW j \in Joints
        PROVE  s.qd[j] \subseteq {s.q[j]}
    <3>1. s.qd[j] = IF j <= Len(m.velocity) THEN {m.velocity[j]} ELSE {}
      BY <2>1, <2>4, OwnIndex DEF RobotState
    <3>2. CASE m.velocity = m.position
      BY <2>5, <3>1, <3>2
    <3>3. CASE m.velocity = <<>>
      BY <3>1, <3>3 DEF Joints
    <3> QED BY <2>1, <3>2, <3>3
  <2> QED BY <2>1, <2>5, <2>6
<1>2. CASE a = FALSE
  <2>1. m = Message(l, p, {Target})
    BY <1>2 DEF Received
  <2>2. m.names = l.names /\ Len(l.carries) >= N
    BY <2>1, Raw DEF Long
  <2> DEFINE i(j) == IF TryReorder(m, Target) THEN Index(l.names, Target[j]) ELSE j
  <2>3. /\ s.q = [j \in Joints |-> At(m.position, i(j))]
        /\ s.qd = [j \in Joints |-> IF i(j) <= Len(m.velocity)
                                    THEN {m.velocity[i(j)]} ELSE {}]
    BY <2>2 DEF RobotState
  <2>4. Sample(s.q, p)
    <3>1. CASE TryReorder(m, Target)
      <4>1. s.q = [j \in Joints |-> At(m.position, Index(l.names, Target[j]))]
        BY <2>3, <3>1
      <4>2. Sample([j \in Joints |-> At(m.position, Index(l.names, Target[j]))], p)
        BY <2>1, <3>1, FoundByName
      <4> QED BY <4>1, <4>2
    <3>2. CASE ~ TryReorder(m, Target)
      <4>1. s.q = [j \in Joints |-> At(m.position, j)]
        BY <2>3, <3>2
      <4>2. Sample([j \in Joints |-> At(m.position, j)], p)
        BY <2>1, <2>2, <3>2, FoundByOrder
      <4> QED BY <4>1, <4>2
    <3> QED BY <3>1, <3>2
  <2>5. ASSUME NEW j \in Joints
        PROVE  s.qd[j] \subseteq {s.q[j]}
    <3>1. i(j) \in 1..Len(l.carries)
      <4>1. CASE TryReorder(m, Target)
        BY <2>1, <4>1, ByName
      <4>2. CASE ~ TryReorder(m, Target)
        BY <2>2, <4>2, SizesAssumption, LayoutsAssumption DEF Joints
      <4> QED BY <4>1, <4>2
    <3>2. i(j) <= Len(m.velocity) => m.velocity[i(j)] = m.position[i(j)]
      BY <2>1, <3>1, Raw
    <3>3. At(m.position, i(j)) = m.position[i(j)]
      BY <2>1, <3>1, Raw DEF At
    <3>4. s.q[j] = At(m.position, i(j))
      BY <2>3
    <3>5. s.qd[j] = IF i(j) <= Len(m.velocity) THEN {m.velocity[i(j)]} ELSE {}
      BY <2>3
    <3>6. CASE i(j) <= Len(m.velocity)
      BY <3>2, <3>3, <3>4, <3>5, <3>6
    <3>7. CASE ~ (i(j) <= Len(m.velocity))
      BY <3>5, <3>7
    <3> QED BY <3>6, <3>7
  <2> QED BY <2>4, <2>5
<1> QED BY <1>1, <1>2

\* Behind the adapter the marker reads a sample.
LEMMA MarkerReadsSamples ==
    ASSUME NEW l \in Layouts, NEW p \in Poses, Len(l.carries) >= N
    PROVE  Sample(MarkerVector(Received[TRUE][p][l]), p)
<1> DEFINE m == Received[TRUE][p][l]
<1>1. m.names = Target /\ Sample(m.position, p)
  BY AdapterOrders
<1>2. m.position \in Vector /\ DOMAIN m.position = Joints
  BY <1>1 DEF Sample, Vector
<1>3. MarkerVector(m) = [j \in Joints |-> m.position[j]]
  BY <1>1, <1>2, OwnIndex DEF MarkerVector, At
<1>4. MarkerVector(m) = m.position
  BY <1>2, <1>3 DEF Vector
<1> QED BY <1>1, <1>4

\* With or without the adapter the marker reads a vector.
LEMMA MarkerReadsVectors ==
    ASSUME NEW a \in BOOLEAN, NEW l \in Layouts, NEW p \in Poses, a => Len(l.carries) >= N
    PROVE  MarkerVector(Received[a][p][l]) \in Vector
<1>1. CASE a = TRUE
  BY <1>1, MarkerReadsSamples DEF Sample
<1>2. CASE a = FALSE
  <2> DEFINE m == Message(l, p, {Target})
  <2>1. Received[a][p][l] = m
    BY <1>2 DEF Received
  <2>2. ASSUME NEW i
        PROVE  At(m.position, i) \in Value
    <3>1. Garbage \in Value
      BY SizesAssumption DEF Garbage, Value
    <3>2. i \in DOMAIN m.position => m.position[i] \in Value
      BY Raw, ElementOfSeq
    <3> QED BY <3>1, <3>2 DEF At
  <2> QED BY <2>1, <2>2 DEF MarkerVector, Vector
<1> QED BY <1>1, <1>2

\* A queue holds what it held and what was pushed.
LEMMA PushKeeps ==
    ASSUME NEW S, NEW s \in Seq(S), NEW m \in S
    PROVE  /\ Push(s, m) \in Seq(S)
           /\ \A i \in DOMAIN Push(s, m) :
                 Push(s, m)[i] = m \/ \E k \in DOMAIN s : Push(s, m)[i] = s[k]
<1>1. CASE Len(s) < Depth
  BY <1>1 DEF Push
<1>2. CASE ~ (Len(s) < Depth)
  <2>1. s # <<>>
    BY <1>2, SizesAssumption
  <2>2. /\ Tail(s) \in Seq(S) /\ Len(Tail(s)) = Len(s) - 1
        /\ \A i \in 1..Len(Tail(s)) : Tail(s)[i] = s[i + 1]
    BY <2>1, HeadTailProperties
  <2>3. Push(s, m) = Append(Tail(s), m)
    BY <1>2 DEF Push
  <2>4. ASSUME NEW i \in DOMAIN Push(s, m)
        PROVE  Push(s, m)[i] = m \/ \E k \in DOMAIN s : Push(s, m)[i] = s[k]
    <3>1. i \in 1..Len(s)
      BY <2>2, <2>3
    <3>2. CASE i = Len(s)
      BY <2>2, <2>3, <3>2
    <3>3. CASE i # Len(s)
      <4>1. i \in 1..Len(Tail(s)) /\ i + 1 \in DOMAIN s
        BY <2>2, <3>1, <3>3
      <4>2. Push(s, m)[i] = Tail(s)[i]
        BY <2>2, <2>3, <4>1
      <4>3. Tail(s)[i] = s[i + 1]
        BY <2>2, <4>1
      <4> QED BY <4>1, <4>2, <4>3
    <3> QED BY <3>2, <3>3
  <2> QED BY <2>2, <2>3, <2>4
<1> QED BY <1>1, <1>2

(***************************************************************************)
(* The marker's goals.                                                     *)
(***************************************************************************)
ToolPose == [position : Tool, orientation : Tool]

Types ==
    /\ adapted \in BOOLEAN /\ lock \in BOOLEAN /\ goal_initialized_ \in BOOLEAN
    /\ robot \in Poses
    /\ goal_pose_ \in ToolPose /\ goal \in ToolPose
    /\ goals \in Seq(ToolPose)

Origins == Types /\ GoalsHaveAnOrigin

\* Wishes and poses of the tool have their types.
LEMMA WishesAndTcps ==
    /\ \A who \in {"initial", "operator", "other"} : Wish(who) \in Tool /\ Wish(who).by = who
    /\ \A q \in Vector : Tcp(q) \in Tool /\ Tcp(q).by = "tcp" /\ Tcp(q).q = q
    /\ NoGoal \in ToolPose
  BY SizesAssumption DEF Wish, Tcp, Tool, Vector, Value, InitialQ, NoGoal, ToolPose, Joints

\* A step that publishes a pose with an origin keeps what is said of the goals.
LEMMA Publishing ==
    ASSUME Origins, NEW pose \in ToolPose, HasOrigin(pose), PublishGoal(pose), lock' = lock
    PROVE  /\ goals' \in Seq(ToolPose)
           /\ \A i \in DOMAIN goals' : HasOrigin(goals'[i])
<1>1. goals' = Push(goals, pose)
  BY DEF PublishGoal
<1>2. /\ goals' \in Seq(ToolPose)
      /\ \A i \in DOMAIN goals' :
            goals'[i] = pose \/ \E k \in DOMAIN goals : goals'[i] = goals[k]
  BY <1>1, PushKeeps DEF Origins, Types
<1>3. \A i \in DOMAIN goals' : HasOrigin(goals'[i])
  BY <1>2 DEF Origins, GoalsHaveAnOrigin
<1> QED BY <1>2, <1>3

\* In the beginning nobody has a goal.
LEMMA OriginsInit == Init => Origins
<1> SUFFICES ASSUME Init PROVE Origins
  OBVIOUS
<1>1. NoGoal \in ToolPose /\ <<>> \in Seq(ToolPose)
  BY WishesAndTcps
<1>2. Types
  BY <1>1 DEF Init, Types
<1>3. goal_initialized_ = FALSE /\ goals = <<>> /\ goal = NoGoal
  BY DEF Init
<1> QED BY <1>2, <1>3 DEF Origins, GoalsHaveAnOrigin

\* Every action keeps types and origins, one step of the proof for each.
LEMMA OriginsStep == Origins /\ [Next]_vars => Origins'
<1> SUFFICES ASSUME Origins, [Next]_vars PROVE Origins'
  OBVIOUS
<1> USE DEF Origins
<1>1. CASE RobotMoves
  BY <1>1 DEF RobotMoves, config, marker_vars, Types, GoalsHaveAnOrigin, HasOrigin
<1>2. ASSUME NEW l \in Layouts, ControllerHears(l) PROVE Origins'
  BY <1>2 DEF ControllerHears, config, marker_vars, Types, GoalsHaveAnOrigin, HasOrigin
<1>3. ASSUME NEW pose \in ToolPose, HasOrigin(pose), PublishGoal(pose),
             goal_initialized_' = TRUE, goal_pose_' = pose,
             UNCHANGED <<config, robot, goal>>
      PROVE  Origins'
  <2>1. lock' = lock /\ adapted' = adapted /\ robot' = robot /\ goal' = goal
    BY <1>3 DEF config
  <2>2. goals' \in Seq(ToolPose) /\ \A i \in DOMAIN goals' : HasOrigin(goals'[i])
    BY <1>3, <2>1, Publishing
  <2>3. Types'
    BY <1>3, <2>1, <2>2 DEF Types
  <2>4. HasOrigin(goal_pose_)' /\ (goal = NoGoal \/ HasOrigin(goal))'
    BY <1>3, <2>1 DEF HasOrigin, GoalsHaveAnOrigin
  <2> QED BY <2>1, <2>2, <2>3, <2>4 DEF GoalsHaveAnOrigin, HasOrigin
<1>4. ASSUME NEW l \in Layouts, MarkerHears(l) PROVE Origins'
  <2>1. PICK q \in {MarkerVector(Received[adapted][robot][l])} : Adopt(MarkerPose(q))
    BY <1>4 DEF MarkerHears
  <2>2. q \in Vector
    BY <1>4, <2>1, MarkerReadsVectors DEF MarkerHears, Arrives, Types
  <2>3. Tcp(q) \in Tool /\ Tcp(q).by = "tcp"
    BY <2>2, WishesAndTcps
  <2>4. lock \/ ~ goal_initialized_
    BY <1>4 DEF MarkerHears, MarkerUses
  <2>5. MarkerPose(q) = [position |-> FirstPose(q), orientation |-> Tcp(q)]
    BY <2>4 DEF MarkerPose
  <2>6. FirstPose(q) \in Tool
    BY <2>3 DEF FirstPose, Types, ToolPose
  <2>7. MarkerPose(q) \in ToolPose
    BY <2>3, <2>5, <2>6 DEF ToolPose
  <2>8. HasOrigin(MarkerPose(q))
    <3>1. CASE goal_initialized_
      BY <2>3, <2>4, <2>5, <3>1 DEF FirstPose, HasOrigin, GoalsHaveAnOrigin
    <3>2. CASE ~ goal_initialized_
      BY <2>3, <2>5, <3>2 DEF FirstPose, HasOrigin
    <3> QED BY <3>1, <3>2
  <2> QED BY <1>3, <1>4, <2>1, <2>7, <2>8 DEF MarkerHears, Adopt
<1>5. ASSUME NEW orientation \in Tool, Ask(orientation) PROVE Origins'
  <2> DEFINE pose == [position |-> Wish("operator"), orientation |-> orientation]
  <2>1. pose \in ToolPose
    BY WishesAndTcps DEF ToolPose
  <2>2. HasOrigin(pose)
    BY WishesAndTcps DEF HasOrigin
  <2> QED BY <1>3, <1>5, <2>1, <2>2 DEF Ask
<1>6. CASE PointCommand
  BY <1>5, <1>6 DEF PointCommand, Types, ToolPose
<1>7. CASE PoseCommand
  BY <1>5, <1>7, WishesAndTcps DEF PoseCommand, Types, ToolPose
<1>8. CASE Feedback
  BY <1>5, <1>8, WishesAndTcps DEF Feedback, Types, ToolPose
<1>9. ASSUME NEW pose \in ToolPose, HasOrigin(pose), PublishGoal(pose),
             UNCHANGED <<config, robot, marker_vars, goal>>
      PROVE  Origins'
  <2>1. /\ lock' = lock /\ adapted' = adapted /\ robot' = robot /\ goal' = goal
        /\ goal_initialized_' = goal_initialized_ /\ goal_pose_' = goal_pose_
    BY <1>9 DEF config, marker_vars
  <2>2. goals' \in Seq(ToolPose) /\ \A i \in DOMAIN goals' : HasOrigin(goals'[i])
    BY <1>9, <2>1, Publishing
  <2>3. Types'
    BY <2>1, <2>2 DEF Types
  <2>4. (goal_initialized_ => HasOrigin(goal_pose_))' /\ (goal = NoGoal \/ HasOrigin(goal))'
    BY <2>1 DEF HasOrigin, GoalsHaveAnOrigin
  <2> QED BY <2>1, <2>2, <2>3, <2>4 DEF GoalsHaveAnOrigin, HasOrigin
<1>10. CASE MarkerTimer
  BY <1>9, <1>10 DEF MarkerTimer, Types, GoalsHaveAnOrigin
<1>11. CASE OtherAsks
  <2> DEFINE pose == [position |-> Wish("other"), orientation |-> Wish("other")]
  <2>1. pose \in ToolPose
    BY WishesAndTcps DEF ToolPose
  <2>2. HasOrigin(pose)
    BY WishesAndTcps DEF HasOrigin
  <2> QED BY <1>9, <1>11, <2>1, <2>2 DEF OtherAsks
<1>12. CASE Retire
  BY <1>12 DEF Retire, config, marker_vars, Types, GoalsHaveAnOrigin, HasOrigin
<1>13. CASE ControllerTakesGoal
  <2>1. /\ lock' = lock /\ adapted' = adapted /\ robot' = robot /\ goal' = Head(goals)
        /\ goal_initialized_' = goal_initialized_ /\ goal_pose_' = goal_pose_
        /\ goals' = Tail(goals) /\ goals # <<>> /\ goals \in Seq(ToolPose)
    BY <1>13 DEF ControllerTakesGoal, config, marker_vars, Types
  <2>2. /\ Head(goals) \in ToolPose /\ Tail(goals) \in Seq(ToolPose)
        /\ \A i \in 1..Len(Tail(goals)) : Tail(goals)[i] = goals[i + 1]
        /\ Len(Tail(goals)) = Len(goals) - 1
    BY <2>1, HeadTailProperties
  <2>3. 1 \in DOMAIN goals /\ Head(goals) = goals[1]
    BY <2>1
  <2>4. \A i \in DOMAIN Tail(goals) : i + 1 \in DOMAIN goals /\ Tail(goals)[i] = goals[i + 1]
    BY <2>1, <2>2
  <2>5. Types'
    BY <2>1, <2>2 DEF Types
  <2>6. /\ HasOrigin(goal')
        /\ \A i \in DOMAIN goals' : HasOrigin(goals'[i])
    BY <2>1, <2>3, <2>4 DEF GoalsHaveAnOrigin
  <2> QED BY <2>1, <2>5, <2>6 DEF GoalsHaveAnOrigin, HasOrigin
<1>14. CASE UNCHANGED vars
  BY <1>14 DEF vars, config, marker_vars, Types, GoalsHaveAnOrigin, HasOrigin
<1> QED BY <1>1, <1>2, <1>4, <1>6, <1>7, <1>8, <1>10, <1>11, <1>12, <1>13, <1>14 DEF Next

\* No goal of the marker is the pose of its parameters, and position and
\* orientation of a start-up goal belong together.
THEOREM GoalsOrigin == Spec => []GoalsHaveAnOrigin
<1>1. Origins => GoalsHaveAnOrigin
  BY DEF Origins
<1> QED BY OriginsInit, OriginsStep, <1>1, PTL DEF Spec

\* What the operator chose is not taken back by a joint state.
THEOREM OperatorsGoal == Spec => OperatorGoalStays
<1>1. [Next]_vars => [goal_initialized_ /\ goal_pose_'.position # goal_pose_.position
                        => goal_pose_'.position.by = "operator"]_vars
  <2> SUFFICES ASSUME [Next]_vars, goal_initialized_,
                      goal_pose_'.position # goal_pose_.position
               PROVE  goal_pose_'.position.by = "operator"
    OBVIOUS
  <2>1. goal_pose_' # goal_pose_
    OBVIOUS
  <2>2. ASSUME NEW orientation, Ask(orientation)
        PROVE  goal_pose_'.position.by = "operator"
    BY <2>2 DEF Ask, Wish
  <2>3. ASSUME NEW l \in Layouts, MarkerHears(l)
        PROVE  FALSE
    <3>1. PICK q : Adopt(MarkerPose(q))
      BY <2>3 DEF MarkerHears
    <3>2. goal_pose_'.position = FirstPose(q)
      BY <3>1 DEF Adopt, MarkerPose
    <3> QED BY <3>2 DEF FirstPose
  <2> QED BY <2>1, <2>2, <2>3 DEF Next, RobotMoves, ControllerHears, PointCommand,
        PoseCommand, Feedback, MarkerTimer, OtherAsks, Retire, ControllerTakesGoal,
        marker_vars, vars
<1> QED BY <1>1, PTL DEF Spec, OperatorGoalStays

(***************************************************************************)
(* The joints.                                                             *)
(***************************************************************************)
LEMMA WishInPlace == \A who : InPlace(Wish(who).q)
  BY SizesAssumption DEF InPlace, Wish, InitialQ, Garbage, Joints

\* Every action keeps the joint values in their places.
LEMMA PlacesStep == Types /\ JointsKeepTheirPlaces /\ [Next]_vars => JointsKeepTheirPlaces'
<1> SUFFICES ASSUME Types, JointsKeepTheirPlaces, [Next]_vars
             PROVE  JointsKeepTheirPlaces'
  OBVIOUS
<1>1. ASSUME UNCHANGED <<adapted, state, goal_pose_>>
      PROVE  JointsKeepTheirPlaces'
  BY <1>1 DEF JointsKeepTheirPlaces, InPlace
<1>2. ASSUME NEW l \in Layouts, ControllerHears(l)
      PROVE  JointsKeepTheirPlaces'
  <2>1. /\ adapted' = adapted /\ goal_pose_' = goal_pose_
        /\ state' = RobotState(Received[adapted][robot][l])
        /\ Long(Received[adapted][robot][l]) /\ (adapted => Len(l.carries) >= N)
    BY <1>2 DEF ControllerHears, Arrives, config, marker_vars
  <2>2. /\ Sample(state'.q, robot)
        /\ \A j \in Joints : state'.qd[j] \subseteq {state'.q[j]}
    BY <2>1, ControllerReads DEF Types
  <2>3. InPlace(state'.q)
    BY <2>2, SampleInPlace DEF Types
  <2> QED BY <2>1, <2>2, <2>3 DEF JointsKeepTheirPlaces, InPlace
<1>3. ASSUME NEW pose, goal_pose_' = pose, UNCHANGED <<adapted, state>>,
             adapted => InPlace(pose.position.q) /\ InPlace(pose.orientation.q)
      PROVE  JointsKeepTheirPlaces'
  BY <1>3 DEF JointsKeepTheirPlaces, InPlace
<1>4. ASSUME NEW l \in Layouts, MarkerHears(l)
      PROVE  JointsKeepTheirPlaces'
  <2> DEFINE q == MarkerVector(Received[adapted][robot][l])
  <2>1. /\ goal_pose_' = MarkerPose(q)
        /\ UNCHANGED <<adapted, state>> /\ (adapted => Len(l.carries) >= N)
    BY <1>4 DEF MarkerHears, Arrives, Adopt, config
  <2>2. adapted => InPlace(q)
    BY <2>1, MarkerReadsSamples, SampleInPlace DEF Types
  <2>3. adapted => InPlace(MarkerPose(q).position.q) /\ InPlace(MarkerPose(q).orientation.q)
    BY <2>2 DEF MarkerPose, FirstPose, Tcp, JointsKeepTheirPlaces
  <2> QED BY <1>3, <2>1, <2>3
<1>5. ASSUME NEW orientation, Ask(orientation), adapted => InPlace(orientation.q)
      PROVE  JointsKeepTheirPlaces'
  BY <1>3, <1>5, WishInPlace DEF Ask, config
<1>6. adapted => InPlace(goal_pose_.orientation.q) /\ InPlace(NoGoal.orientation.q)
                 /\ InPlace(Wish("operator").q)
  BY WishInPlace DEF JointsKeepTheirPlaces, NoGoal
<1>7. PointCommand \/ PoseCommand \/ Feedback => JointsKeepTheirPlaces'
  BY <1>5, <1>6 DEF PointCommand, PoseCommand, Feedback
<1>8. RobotMoves \/ MarkerTimer \/ OtherAsks \/ Retire \/ ControllerTakesGoal \/ UNCHANGED vars
        => JointsKeepTheirPlaces'
  BY <1>1 DEF RobotMoves, MarkerTimer, OtherAsks, Retire, ControllerTakesGoal, vars,
       config, marker_vars
<1> QED BY <1>2, <1>4, <1>7, <1>8 DEF Next

\* Whatever truthful drivers send, with the adapter or without it, no joint of
\* the controller has another one's value or velocity if the message said whose
\* they are, and every sample is complete and of one reading.
THEOREM JointsInPlace == Spec => []JointsKeepTheirPlaces
<1>1. Init => JointsKeepTheirPlaces
  <2> SUFFICES ASSUME Init PROVE JointsKeepTheirPlaces
    OBVIOUS
  <2>1. InPlace(InitialQ)
    BY WishInPlace DEF Wish
  <2> QED BY <2>1, WishInPlace DEF Init, JointsKeepTheirPlaces, NoGoal
<1>2. Origins => Types
  BY DEF Origins
<1> QED BY OriginsInit, OriginsStep, PlacesStep, <1>1, <1>2, PTL DEF Spec

(***************************************************************************)
(* The marker's goals get through to the controller.                       *)
(***************************************************************************)
\* The marker has a goal, it is one of these, and nobody else asks.
Settled(Good) ==
    goal_initialized_ /\ goal_pose_ \in Good /\ "other" \notin busy

\* Every goal on its way but the k oldest is one of these.
AmongAfter(Good, k) == \A i \in 1..Len(goals) : i > k => goals[i] \in Good

\* A goal that comes later is one of them, a goal that is taken leaves one fewer
\* that is not, and once all are the controller takes one over and keeps it so.
SettleStep(Good) ==
    \A k \in 0..Depth :
        AmongAfter(Good, k) =>
            /\ AmongAfter(Good, k)'
            /\ ControllerTakesGoal /\ k > 0 => AmongAfter(Good, k - 1)'
            /\ k = 0 /\ (ControllerTakesGoal \/ goal \in Good) => goal' \in Good

\* That holds for whatever set of poses the marker's goal stays in.
GoalsSettle ==
    \A Good \in SUBSET ToolPose : Settled(Good) /\ Settled(Good)' => SettleStep(Good)

\* At the start of such a time no more goals are others than the topic holds.
SettlingStarts ==
    Len(goals) <= Depth /\ \A Good \in SUBSET ToolPose : AmongAfter(Good, Depth)

\* A subscription keeps no more than its depth.
InDepth == Len(goals) <= Depth

\* The poses with the orientation the tool has in a pose of the robot.
AtRest(p) == {pose \in ToolPose : \A j \in Joints : pose.orientation.q[j].pose = p}

\* With the lock every joint state gives the marker the orientation of the tool
\* in the robot's pose, and while the robot rests and the operator is silent
\* nothing takes it away.
LockTakesHold ==
    lock /\ adapted =>
        /\ \A l \in Layouts : MarkerHears(l) => goal_pose_' \in AtRest(robot)
        /\ "operator" \notin busy /\ goal_pose_ \in AtRest(robot)
              => goal_pose_' \in AtRest(robot)

\* Pushing one of them keeps a queue as good as it was, and as short.
LEMMA PushKeepsAmong ==
    ASSUME NEW queue \in Seq(ToolPose), Len(queue) <= Depth, NEW Good,
           NEW k \in Nat, NEW pose \in ToolPose
    PROVE  /\ Len(Push(queue, pose)) <= Depth
           /\ pose \in Good /\ (\A i \in 1..Len(queue) : i > k => queue[i] \in Good)
              => \A i \in 1..Len(Push(queue, pose)) :
                    i > k => Push(queue, pose)[i] \in Good
<1> USE SizesAssumption
<1>1. CASE Len(queue) < Depth
  BY <1>1 DEF Push
<1>2. CASE ~ (Len(queue) < Depth)
  <2> DEFINE rest == Tail(queue)
  <2>1. queue # <<>>
    BY <1>2
  <2>2. /\ rest \in Seq(ToolPose) /\ Len(rest) = Len(queue) - 1
        /\ \A i \in 1..Len(rest) : rest[i] = queue[i + 1]
    BY <2>1, HeadTailProperties
  <2>3. /\ Len(Append(rest, pose)) = Len(rest) + 1
        /\ \A i \in 1..Len(rest) : Append(rest, pose)[i] = rest[i]
        /\ Append(rest, pose)[Len(rest) + 1] = pose
    BY <2>2
  <2>4. Push(queue, pose) = Append(rest, pose)
    BY <1>2 DEF Push
  <2>5. Len(queue) \in Nat /\ Len(rest) \in Nat
    BY <2>2
  <2> HIDE DEF rest
  <2>6. ASSUME \A i \in 1..Len(queue) : i > k => queue[i] \in Good
        PROVE  \A i \in 1..Len(rest) : i > k => rest[i] \in Good
    BY <2>2, <2>5, <2>6
  <2> QED BY <2>2, <2>3, <2>4, <2>5, <2>6
<1> QED BY <1>1, <1>2

\* A step that publishes one of them keeps the goals as they were.
LEMMA PublishingSettles ==
    ASSUME Types, Len(goals) <= Depth, NEW Good \in SUBSET ToolPose,
           NEW pose \in Good, PublishGoal(pose), goal' = goal
    PROVE  SettleStep(Good)
<1>1. goals \in Seq(ToolPose) /\ pose \in ToolPose
  BY DEF Types
<1>2. goals' = Push(goals, pose)
  BY DEF PublishGoal
<1>3. ASSUME NEW k \in 0..Depth, AmongAfter(Good, k)
      PROVE  AmongAfter(Good, k)'
  <2>1. \A i \in 1..Len(goals) : i > k => goals[i] \in Good
    BY <1>3 DEF AmongAfter
  <2>2. k \in Nat
    BY SizesAssumption
  <2>3. \A i \in 1..Len(Push(goals, pose)) : i > k => Push(goals, pose)[i] \in Good
    BY <1>1, <2>1, <2>2, PushKeepsAmong
  <2> QED BY <1>2, <2>3 DEF AmongAfter
<1>4. ~ ControllerTakesGoal
  <2> SUFFICES ASSUME ControllerTakesGoal PROVE FALSE
    OBVIOUS
  <2>1. goals # <<>> /\ goals' = Tail(goals)
    BY DEF ControllerTakesGoal
  <2>2. Len(goals') < Len(goals)
    BY <1>1, <2>1
  <2>3. Len(Push(goals, pose)) >= Len(goals)
    <3>1. CASE Len(goals) < Depth
      BY <1>1, <3>1 DEF Push
    <3>2. CASE ~ (Len(goals) < Depth)
      BY <1>1, <2>1, <3>2 DEF Push
    <3> QED BY <3>1, <3>2
  <2> QED BY <1>1, <1>2, <2>1, <2>2, <2>3
<1> QED BY <1>3, <1>4 DEF SettleStep

\* No step throws back how far the marker's goals have got.
LEMMA SettlePreserved ==
    ASSUME Types, Len(goals) <= Depth, [Next]_vars
    PROVE  GoalsSettle
<1> SUFFICES ASSUME NEW Good \in SUBSET ToolPose, Settled(Good), Settled(Good)'
             PROVE  SettleStep(Good)
  BY DEF GoalsSettle
<1> USE DEF config, marker_vars
<1>1. CASE ControllerTakesGoal
  <2>1. /\ goals # <<>> /\ goals \in Seq(ToolPose)
        /\ goals' = Tail(goals) /\ goal' = Head(goals)
    BY <1>1 DEF ControllerTakesGoal, Types
  <2>2. /\ Len(goals') = Len(goals) - 1 /\ Len(goals) \in Nat \ {0}
        /\ \A i \in 1..Len(goals') : goals'[i] = goals[i + 1]
        /\ Head(goals) = goals[1] /\ 1 \in 1..Len(goals)
    BY <2>1, HeadTailProperties
  <2>3. ASSUME NEW k \in 0..Depth, AmongAfter(Good, k)
        PROVE  /\ AmongAfter(Good, k)'
               /\ k > 0 => AmongAfter(Good, k - 1)'
               /\ k = 0 => goal' \in Good
    <3>1. AmongAfter(Good, k)'
      BY <2>2, <2>3 DEF AmongAfter
    <3>2. k > 0 => AmongAfter(Good, k - 1)'
      BY <2>2, <2>3 DEF AmongAfter
    <3>3. k = 0 => goals[1] \in Good
      BY <2>2, <2>3 DEF AmongAfter
    <3> QED BY <2>1, <2>2, <3>1, <3>2, <3>3
  <2> QED BY <2>3 DEF SettleStep
<1>2. ASSUME UNCHANGED <<goals, goal>>
      PROVE  SettleStep(Good)
  <2>1. ~ ControllerTakesGoal
    BY <1>2 DEF ControllerTakesGoal, Types
  <2> QED BY <1>2, <2>1 DEF SettleStep, AmongAfter
<1>3. ASSUME NEW orientation, Ask(orientation)
      PROVE  SettleStep(Good)
  BY <1>3, PublishingSettles DEF Ask, Settled
<1>4. ASSUME NEW l \in Layouts, MarkerHears(l)
      PROVE  SettleStep(Good)
  <2>1. PICK q : Adopt(MarkerPose(q))
    BY <1>4 DEF MarkerHears
  <2> QED BY <1>4, <2>1, PublishingSettles DEF Adopt, MarkerHears, Settled
<1>5. CASE MarkerTimer
  BY <1>5, PublishingSettles DEF MarkerTimer, Settled
<1>6. CASE OtherAsks
  BY <1>6 DEF OtherAsks, Settled
<1>7. CASE \/ RobotMoves \/ Retire \/ UNCHANGED vars
           \/ \E l \in Layouts : ControllerHears(l)
  BY <1>2, <1>7 DEF RobotMoves, Retire, ControllerHears, vars
<1> QED BY <1>1, <1>3, <1>4, <1>5, <1>6, <1>7 DEF Next, PointCommand, PoseCommand, Feedback

\* No step makes it keep more.
LEMMA DepthKept == Types /\ InDepth /\ [Next]_vars => InDepth'
<1> SUFFICES ASSUME Types, Len(goals) <= Depth, [Next]_vars
             PROVE  Len(goals') <= Depth
  BY DEF InDepth
<1> USE DEF config, marker_vars
<1>1. ASSUME NEW pose, PublishGoal(pose)
      PROVE  Len(goals') <= Depth
  <2>1. goals \in Seq(ToolPose) /\ goals' = Push(goals, pose)
    BY <1>1 DEF Types, PublishGoal
  <2>2. CASE Len(goals) < Depth
    BY <2>1, <2>2, SizesAssumption DEF Push
  <2>3. CASE ~ (Len(goals) < Depth)
    <3>1. goals # <<>> /\ Push(goals, pose) = Append(Tail(goals), pose)
      BY <2>1, <2>3, SizesAssumption DEF Push
    <3>2. Len(Tail(goals)) = Len(goals) - 1 /\ Tail(goals) \in Seq(ToolPose)
      BY <2>1, <3>1, HeadTailProperties
    <3> QED BY <2>1, <3>1, <3>2, SizesAssumption
  <2> QED BY <2>2, <2>3
<1>2. CASE ControllerTakesGoal
  <2>1. goals # <<>> /\ goals \in Seq(ToolPose) /\ goals' = Tail(goals)
    BY <1>2 DEF ControllerTakesGoal, Types
  <2> QED BY <2>1, SizesAssumption
<1>3. ASSUME NEW orientation, Ask(orientation)
      PROVE  Len(goals') <= Depth
  BY <1>1, <1>3 DEF Ask
<1>4. ASSUME NEW l \in Layouts, MarkerHears(l)
      PROVE  Len(goals') <= Depth
  BY <1>1, <1>4 DEF MarkerHears, Adopt
<1>5. CASE MarkerTimer \/ OtherAsks
  BY <1>1, <1>5 DEF MarkerTimer, OtherAsks
<1>6. CASE \/ RobotMoves \/ Retire \/ UNCHANGED vars
           \/ \E l \in Layouts : ControllerHears(l)
  BY <1>6 DEF RobotMoves, Retire, ControllerHears, vars
<1> QED BY <1>2, <1>3, <1>4, <1>5, <1>6 DEF Next, PointCommand, PoseCommand, Feedback

\* With the lock the marker's orientation is the robot's.
LEMMA LockPreserved == Origins /\ Origins' /\ [Next]_vars => LockTakesHold
<1> SUFFICES ASSUME Types, Types', [Next]_vars, lock, adapted
             PROVE  /\ \A l \in Layouts : MarkerHears(l) => goal_pose_' \in AtRest(robot)
                    /\ "operator" \notin busy /\ goal_pose_ \in AtRest(robot)
                          => goal_pose_' \in AtRest(robot)
  BY DEF LockTakesHold, Origins
<1> USE DEF config, marker_vars
<1>1. ASSUME NEW l \in Layouts, MarkerHears(l)
      PROVE  goal_pose_' \in AtRest(robot)
  <2> DEFINE q == MarkerVector(Received[TRUE][robot][l])
  <2>1. adapted = TRUE /\ robot \in Poses /\ Len(l.carries) >= N
    BY <1>1 DEF MarkerHears, Arrives, Types
  <2>2. Sample(q, robot)
    BY <2>1, MarkerReadsSamples
  <2>3. goal_pose_' = MarkerPose(q)
    BY <1>1, <2>1 DEF MarkerHears, Adopt
  <2>4. goal_pose_'.orientation.q = q
    BY <2>3 DEF MarkerPose, Tcp
  <2> HIDE DEF q
  <2>5. goal_pose_' \in ToolPose
    BY DEF Types
  <2> QED BY <2>2, <2>4, <2>5 DEF AtRest, Sample
<1>2. ASSUME "operator" \notin busy, goal_pose_ \in AtRest(robot)
      PROVE  goal_pose_' \in AtRest(robot)
  <2>1. (\E l \in Layouts : MarkerHears(l)) \/ goal_pose_' = goal_pose_
    BY <1>2 DEF Next, vars, RobotMoves, ControllerHears, PointCommand, PoseCommand,
                Feedback, Ask, MarkerTimer, OtherAsks, Retire, ControllerTakesGoal
  <2> QED BY <1>1, <1>2, <2>1
<1> QED BY <1>1, <1>2

\* The safety core of MarkerWins and LockFollowsRobot: whatever set of poses the
\* marker's goal stays in while no other publisher asks, at most Depth goals on
\* their way are not in it, no step adds one, every goal on_goal_pose() takes
\* leaves one fewer, and when none is left the controller's goal is in the set
\* and stays there.
THEOREM MarkersGoalIsNeverLost == Spec => []SettlingStarts /\ [][GoalsSettle]_vars
<1>1. Init => InDepth
  BY SizesAssumption DEF Init, InDepth
<1>2. Origins => Types
  BY DEF Origins
<1>3. Types /\ InDepth => SettlingStarts
  <2> SUFFICES ASSUME Types, Len(goals) <= Depth PROVE SettlingStarts
    BY DEF InDepth
  <2>1. Len(goals) \in Nat
    BY DEF Types
  <2> QED BY <2>1, SizesAssumption DEF SettlingStarts, AmongAfter
<1>4. Types /\ InDepth /\ [Next]_vars => [GoalsSettle]_vars
  BY SettlePreserved DEF InDepth
<1> QED BY OriginsInit, OriginsStep, DepthKept, <1>1, <1>2, <1>3, <1>4, PTL DEF Spec

\* What LockFollowsRobot adds to it: with the lock every joint state behind the
\* adapter turns the marker's goal to the orientation of the pose the robot is
\* in, for every message a driver may write, and without the operator nothing
\* turns it away.
THEOREM LockHoldsOrientation == Spec => [][LockTakesHold]_vars
<1>1. Origins /\ Origins' /\ [Next]_vars => [LockTakesHold]_vars
  BY LockPreserved
<1> QED BY OriginsInit, OriginsStep, <1>1, PTL DEF Spec

=============================================================================
