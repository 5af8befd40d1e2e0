-------------------------- MODULE ObstacleFeed_proofs --------------------------
(***************************************************************************)
(* Proofs about ObstacleFeed, for every set of sensors, every depth of the *)
(* topic, requests of any length and any number of restarts of the bridge. *)
(***************************************************************************)
EXTENDS ObstacleFeed, TLAPS

USE FeedAssumption

-----------------------------------------------------------------------------
(* Queues.                                                                  *)

\* Keeping a message keeps a queue a queue of its depth, with the message last.
LEMMA KeepLastKeepsQueue ==
    ASSUME NEW queue \in Seq(SUBSET Sensor), Len(queue) <= TopicDepth,
           NEW message \in SUBSET Sensor
    PROVE  /\ KeepLast(queue, message) \in Seq(SUBSET Sensor)
           /\ Len(KeepLast(queue, message)) <= TopicDepth
           /\ KeepLast(queue, message) # <<>>
           /\ KeepLast(queue, message)[Len(KeepLast(queue, message))] = message
<1>1. CASE Len(queue) < TopicDepth
  BY <1>1 DEF KeepLast
<1>2. CASE ~(Len(queue) < TopicDepth)
  <2>1. queue # <<>>
    BY <1>2
  <2>2. Tail(queue) \in Seq(SUBSET Sensor) /\ Len(Tail(queue)) = Len(queue) - 1
    BY <2>1
  <2>3. KeepLast(queue, message) = Append(Tail(queue), message)
    BY <1>2 DEF KeepLast
  <2>4. QED
    BY <2>1, <2>2, <2>3
<1>3. QED
  BY <1>1, <1>2

\* Taking a message leaves a queue whose newest message is the same, unless it
\* was the only one.
LEMMA TailKeepsQueue ==
    ASSUME NEW M, NEW queue \in Seq(M), queue # <<>>
    PROVE  /\ Tail(queue) \in Seq(M) /\ Head(queue) \in M
           /\ Len(Tail(queue)) = Len(queue) - 1
           /\ Tail(queue) = <<>> => Head(queue) = queue[Len(queue)]
           /\ Tail(queue) # <<>> =>
                 Tail(queue)[Len(Tail(queue))] = queue[Len(queue)]
<1>1. /\ Tail(queue) \in Seq(M) /\ Head(queue) \in M
      /\ Len(Tail(queue)) = Len(queue) - 1 /\ Len(queue) \in Nat \ {0}
  OBVIOUS
<1>2. ASSUME Tail(queue) = <<>>
      PROVE  Head(queue) = queue[Len(queue)]
  <2>1. Len(queue) = 1
    BY <1>1, <1>2
  <2>2. QED
    BY <2>1
<1>3. ASSUME Tail(queue) # <<>>
      PROVE  Tail(queue)[Len(Tail(queue))] = queue[Len(queue)]
  <2>1. Len(Tail(queue)) \in 1..Len(Tail(queue))
    BY <1>1, <1>3
  <2>2. \A i \in 1..Len(Tail(queue)) : Tail(queue)[i] = queue[i + 1]
    BY <1>1
  <2>3. QED
    BY <1>1, <2>1, <2>2
<1>4. QED
  BY <1>1, <1>2, <1>3

-----------------------------------------------------------------------------
\* Every step keeps the types.
LEMMA TypePreserved ==
    ASSUME TypeOK, [Next]_vars
    PROVE  TypeOK'
<1> USE DEF TypeOK, Range, vars, settings, bridge_vars, controller_vars,
           history
<1>1. CASE publish_obstacles
  <2>1. Markers \in SUBSET Sensor
    BY DEF Markers, Enabled
  <2>2. topic' \in Seq(SUBSET Sensor) /\ Len(topic') <= TopicDepth
    BY <1>1, <2>1, KeepLastKeepsQueue DEF publish_obstacles, Send
  <2>3. QED
    BY <1>1, <2>2 DEF publish_obstacles
<1>2. CASE clear_obstacles_once
  <2>1. {} \in SUBSET Sensor
    OBVIOUS
  <2>2. topic' \in Seq(SUBSET Sensor) /\ Len(topic') <= TopicDepth
    BY <1>2, <2>1, KeepLastKeepsQueue DEF clear_obstacles_once, Send
  <2>3. QED
    BY <1>2, <2>2, Zenon DEF clear_obstacles_once
<1>3. CASE \E requested_active \in BOOLEAN : on_rmp_flag(requested_active)
  <2>1. rmp_active' \in BOOLEAN /\ cleared' \in BOOLEAN
    BY <1>3, Zenon DEF on_rmp_flag
  <2>2. QED
    BY <1>3, <2>1 DEF on_rmp_flag
<1>4. CASE \E s \in Sensor, range \in Range : OnRange(s, range)
  BY <1>4 DEF OnRange
<1>5. CASE \E n \in 1..MaxRequest : RequestParameters(n)
  BY <1>5 DEF RequestParameters
<1>6. CASE \E low \in BOOLEAN : ApplySetting(low, sensor_enabled)
  <2> SUFFICES ASSUME NEW low \in BOOLEAN, ApplySetting(low, sensor_enabled)
               PROVE  TypeOK'
    BY <1>6
  <2>1. Enabled(low, sensor_enabled) \subseteq Sensor
    BY DEF Enabled
  <2>2. QED
    BY <2>1 DEF ApplySetting, refresh_range_subscriptions
<1>7. CASE \E list \in SUBSET Sensor : ApplySetting(low_enabled, list)
  <2> SUFFICES ASSUME NEW list \in SUBSET Sensor,
                      ApplySetting(low_enabled, list)
               PROVE  TypeOK'
    BY <1>7
  <2>1. Enabled(low_enabled, list) \subseteq Sensor
    BY DEF Enabled
  <2>2. QED
    BY <2>1 DEF ApplySetting, refresh_range_subscriptions
<1>8. CASE SkipParameter
  BY <1>8 DEF SkipParameter
<1>9. CASE RefuseParameter
  BY <1>9 DEF RefuseParameter
<1>10. CASE RestartBridge
  <2>1. /\ rmp_active' \in BOOLEAN /\ cleared' \in BOOLEAN
        /\ matched' \in BOOLEAN /\ told' \in BOOLEAN
    BY <1>10, Zenon DEF RestartBridge
  <2>2. \A low \in BOOLEAN, list \in SUBSET Sensor :
           Enabled(low, list) \subseteq Sensor
    BY DEF Enabled
  <2>3. QED
    BY <1>10, <2>1, <2>2 DEF RestartBridge
<1>11. CASE SetObstacles
  BY <1>11, TailKeepsQueue DEF SetObstacles
<1>12. CASE SetProximity
  BY <1>12 DEF SetProximity
<1>13. CASE \E known \in SUBSET Sensor : ChangeTransforms(known)
  BY <1>13 DEF ChangeTransforms
<1>14. CASE Match
  <2>1. matched' \in BOOLEAN
    BY <1>14 DEF Match
  <2>2. QED
    BY <1>14, <2>1, Zenon DEF Match
<1>15. CASE UNCHANGED vars
  BY <1>15
<1>16. QED
  BY <1>1, <1>2, <1>3, <1>4, <1>5, <1>6, <1>7, <1>8, <1>9, <1>10, <1>11,
     <1>12, <1>13, <1>14, <1>15
  DEF Next, Publish, SetParameters, OnObstacles

\* Every step keeps the subscriptions those of the enabled sensors.
LEMMA InputsPreserved ==
    ASSUME TypeOK, InputsMatchEnabled, [Next]_vars
    PROVE  InputsMatchEnabled'
<1> USE DEF InputsMatchEnabled, vars, settings, bridge_vars, controller_vars,
           history
<1>1. CASE publish_obstacles
  BY <1>1 DEF publish_obstacles
<1>2. CASE clear_obstacles_once
  BY <1>2 DEF clear_obstacles_once
<1>3. CASE \E requested_active \in BOOLEAN : on_rmp_flag(requested_active)
  BY <1>3 DEF on_rmp_flag
<1>4. CASE \E s \in Sensor, range \in Range : OnRange(s, range)
  BY <1>4 DEF OnRange
<1>5. CASE \E n \in 1..MaxRequest : RequestParameters(n)
  BY <1>5 DEF RequestParameters
<1>6. CASE \E low \in BOOLEAN : ApplySetting(low, sensor_enabled)
  BY <1>6 DEF ApplySetting, refresh_range_subscriptions
<1>7. CASE \E list \in SUBSET Sensor : ApplySetting(low_enabled, list)
  BY <1>7 DEF ApplySetting, refresh_range_subscriptions
<1>8. CASE SkipParameter
  BY <1>8 DEF SkipParameter
<1>9. CASE RefuseParameter
  BY <1>9 DEF RefuseParameter
<1>10. CASE RestartBridge
  BY <1>10 DEF RestartBridge
<1>11. CASE SetObstacles
  BY <1>11 DEF SetObstacles
<1>12. CASE SetProximity
  BY <1>12 DEF SetProximity
<1>13. CASE \E known \in SUBSET Sensor : ChangeTransforms(known)
  BY <1>13 DEF ChangeTransforms
<1>14. CASE Match
  BY <1>14 DEF Match
<1>15. CASE UNCHANGED vars
  BY <1>15
<1>16. QED
  BY <1>1, <1>2, <1>3, <1>4, <1>5, <1>6, <1>7, <1>8, <1>9, <1>10, <1>11,
     <1>12, <1>13, <1>14, <1>15
  DEF Next, Publish, SetParameters, OnObstacles

\* Every step keeps the ranges fresh.
LEMMA FreshnessPreserved ==
    ASSUME TypeOK, NothingOldComesBack, [Next]_vars
    PROVE  NothingOldComesBack'
<1> USE DEF NothingOldComesBack, vars, settings, bridge_vars, controller_vars,
           history
<1>1. CASE publish_obstacles
  BY <1>1 DEF publish_obstacles
<1>2. CASE clear_obstacles_once
  BY <1>2 DEF clear_obstacles_once
<1>3. CASE \E requested_active \in BOOLEAN : on_rmp_flag(requested_active)
  BY <1>3 DEF on_rmp_flag
<1>4. CASE \E s \in Sensor, range \in Range : OnRange(s, range)
  <2> SUFFICES ASSUME NEW s \in Sensor, NEW range \in Range, OnRange(s, range)
               PROVE  NothingOldComesBack'
    BY <1>4
  <2>1. \A t \in Sensor : t # s => latest'[t] = latest[t]
    BY DEF OnRange, TypeOK
  <2>2. QED
    BY <2>1 DEF OnRange
<1>5. CASE \E n \in 1..MaxRequest : RequestParameters(n)
  BY <1>5 DEF RequestParameters
<1>6. CASE \E low \in BOOLEAN : ApplySetting(low, sensor_enabled)
  BY <1>6 DEF ApplySetting, refresh_range_subscriptions
<1>7. CASE \E list \in SUBSET Sensor : ApplySetting(low_enabled, list)
  BY <1>7 DEF ApplySetting, refresh_range_subscriptions
<1>8. CASE SkipParameter
  BY <1>8 DEF SkipParameter
<1>9. CASE RefuseParameter
  BY <1>9 DEF RefuseParameter
<1>10. CASE RestartBridge
  BY <1>10 DEF RestartBridge
<1>11. CASE SetObstacles
  BY <1>11 DEF SetObstacles
<1>12. CASE SetProximity
  BY <1>12 DEF SetProximity
<1>13. CASE \E known \in SUBSET Sensor : ChangeTransforms(known)
  BY <1>13 DEF ChangeTransforms
<1>14. CASE Match
  BY <1>14 DEF Match
<1>15. CASE UNCHANGED vars
  BY <1>15
<1>16. QED
  BY <1>1, <1>2, <1>3, <1>4, <1>5, <1>6, <1>7, <1>8, <1>9, <1>10, <1>11,
     <1>12, <1>13, <1>14, <1>15
  DEF Next, Publish, SetParameters, OnObstacles

\* Until it has found the controller nothing of the first bridge gets through.
NothingGotThrough ==
    restarts = 0 /\ ~matched => topic = <<>> /\ obstacles = {} /\ proximity = {}

\* Every step keeps that.
LEMMA UnmatchedPreserved ==
    ASSUME TypeOK, NothingGotThrough, [Next]_vars
    PROVE  NothingGotThrough'
<1> USE DEF NothingGotThrough, vars, settings, bridge_vars, controller_vars,
           history
<1>1. CASE publish_obstacles
  BY <1>1 DEF publish_obstacles, Send
<1>2. CASE clear_obstacles_once
  BY <1>2 DEF clear_obstacles_once, Send
<1>3. CASE \/ \E requested_active \in BOOLEAN : on_rmp_flag(requested_active)
           \/ \E s \in Sensor, range \in Range : OnRange(s, range)
           \/ \E n \in 1..MaxRequest : RequestParameters(n)
           \/ \E low \in BOOLEAN : ApplySetting(low, sensor_enabled)
           \/ \E list \in SUBSET Sensor : ApplySetting(low_enabled, list)
           \/ SkipParameter \/ RefuseParameter
           \/ \E known \in SUBSET Sensor : ChangeTransforms(known)
           \/ UNCHANGED vars
  <2>1. UNCHANGED <<topic, obstacles, proximity, matched, restarts>>
    BY <1>3 DEF on_rmp_flag, OnRange, RequestParameters, ApplySetting,
                SkipParameter, RefuseParameter, ChangeTransforms
  <2>2. QED
    BY <2>1
<1>4. CASE RestartBridge
  <2>1. restarts' # 0
    BY <1>4 DEF RestartBridge, TypeOK
  <2>2. QED
    BY <2>1
<1>5. CASE Match
  BY <1>5 DEF Match
<1>6. CASE SetObstacles
  BY <1>6 DEF SetObstacles
<1>7. CASE SetProximity
  BY <1>7 DEF SetProximity
<1>8. QED
  BY <1>1, <1>2, <1>3, <1>4, <1>5, <1>6, <1>7
  DEF Next, Publish, SetParameters, OnObstacles

\* Every step keeps the newest list of an inactive bridge empty.
LEMMA ClearedPreserved ==
    ASSUME TypeOK, NothingGotThrough, ClearedMeansEmpty, [Next]_vars
    PROVE  ClearedMeansEmpty'
<1> USE DEF ClearedMeansEmpty, vars, settings, bridge_vars, controller_vars,
           history
<1>1. CASE publish_obstacles
  BY <1>1 DEF publish_obstacles, Newest
<1>2. CASE clear_obstacles_once
  <2>1. CASE matched
    <3>1. {} \in SUBSET Sensor
      OBVIOUS
    <3>2. topic' # <<>> /\ topic'[Len(topic')] = {}
      BY <1>2, <2>1, <3>1, KeepLastKeepsQueue
      DEF clear_obstacles_once, Send, TypeOK
    <3>3. QED
      BY <3>2 DEF Newest
  <2>2. CASE ~matched
    <3>1. ~told' /\ UNCHANGED <<topic, obstacles, proximity, restarts>>
      BY <1>2, <2>2 DEF clear_obstacles_once, Send
    <3>2. QED
      BY <2>2, <3>1 DEF Newest, NothingGotThrough
  <2>3. QED
    BY <2>1, <2>2
<1>3. CASE \E requested_active \in BOOLEAN : on_rmp_flag(requested_active)
  <2>1. ~rmp_active' => ~cleared'
    BY <1>3 DEF on_rmp_flag
  <2>2. QED
    BY <2>1
<1>4. CASE \E s \in Sensor, range \in Range : OnRange(s, range)
  BY <1>4 DEF OnRange, Newest
<1>5. CASE \E n \in 1..MaxRequest : RequestParameters(n)
  BY <1>5 DEF RequestParameters, Newest
<1>6. CASE \E low \in BOOLEAN : ApplySetting(low, sensor_enabled)
  BY <1>6 DEF ApplySetting, refresh_range_subscriptions, Newest
<1>7. CASE \E list \in SUBSET Sensor : ApplySetting(low_enabled, list)
  BY <1>7 DEF ApplySetting, refresh_range_subscriptions, Newest
<1>8. CASE SkipParameter
  BY <1>8 DEF SkipParameter, Newest
<1>9. CASE RefuseParameter
  BY <1>9 DEF RefuseParameter, Newest
<1>10. CASE RestartBridge
  <2>1. ~cleared'
    BY <1>10 DEF RestartBridge
  <2>2. QED
    BY <2>1
<1>11. CASE SetObstacles
  <2>1. Newest' = Newest
    BY <1>11, TailKeepsQueue DEF SetObstacles, Newest, TypeOK
  <2>2. sub' # "idle"
    BY <1>11 DEF SetObstacles
  <2>3. QED
    BY <1>11, <2>1, <2>2 DEF SetObstacles
<1>12. CASE SetProximity
  <2>1. Newest' = Newest /\ (topic = <<>> => proximity' = Newest)
    BY <1>12 DEF SetProximity, Newest
  <2>2. QED
    BY <1>12, <2>1 DEF SetProximity
<1>13. CASE \E known \in SUBSET Sensor : ChangeTransforms(known)
  BY <1>13 DEF ChangeTransforms, Newest
<1>14. CASE Match
  BY <1>14 DEF Match, Newest
<1>15. CASE UNCHANGED vars
  BY <1>15 DEF Newest
<1>16. QED
  BY <1>1, <1>2, <1>3, <1>4, <1>5, <1>6, <1>7, <1>8, <1>9, <1>10, <1>11,
     <1>12, <1>13, <1>14, <1>15
  DEF Next, Publish, SetParameters, OnObstacles

IInv ==
    /\ TypeOK /\ InputsMatchEnabled /\ NothingOldComesBack
    /\ NothingGotThrough /\ ClearedMeansEmpty

\* The invariant holds when bridge and controller have started.
LEMMA InitIInv == Init => IInv
<1> SUFFICES ASSUME Init PROVE IInv
  OBVIOUS
<1> USE DEF Init, Construct
<1>1. TypeOK
  <2>1. /\ rmp_active \in BOOLEAN
        /\ low_enabled \in BOOLEAN /\ sensor_enabled \subseteq Sensor
    BY Zenon
  <2>2. range_subs \subseteq Sensor
    BY DEF Enabled
  <2>3. topic \in Seq(SUBSET Sensor) /\ Len(topic) <= TopicDepth
    OBVIOUS
  <2>4. latest \in [Sensor -> Range \cup {"none"}]
    BY DEF Range
  <2>5. cleared \in BOOLEAN /\ request \in 0..MaxRequest
    <3>1. cleared \in BOOLEAN
      BY Zenon
    <3>2. request = 0
      OBVIOUS
    <3>3. QED
      BY <3>1, <3>2
  <2>6. /\ obstacles \subseteq Sensor /\ proximity \subseteq Sensor
        /\ sub \in {"idle", "second"} /\ tf \subseteq Sensor
        /\ heard \subseteq Sensor /\ restarts \in 0..MaxRestarts
    OBVIOUS
  <2>7. matched \in BOOLEAN /\ told \in BOOLEAN
    BY Zenon
  <2>8. QED
    BY <2>1, <2>2, <2>3, <2>4, <2>5, <2>6, <2>7, Zenon DEF TypeOK
<1>2. InputsMatchEnabled
  BY DEF InputsMatchEnabled
<1>3. NothingOldComesBack /\ NothingGotThrough /\ ClearedMeansEmpty
  BY DEF NothingOldComesBack, NothingGotThrough, ClearedMeansEmpty
<1>4. QED
  BY <1>1, <1>2, <1>3 DEF IInv

\* The invariant holds in every behaviour.
THEOREM Invariance ==
    Spec => []IInv
<1>1. IInv /\ [Next]_vars => IInv'
  BY TypePreserved, InputsPreserved, FreshnessPreserved, UnmatchedPreserved,
     ClearedPreserved
  DEF IInv
<1>2. QED
  BY InitIInv, <1>1, PTL DEF Spec

\* The types and the depth of the topic are kept.
THEOREM TypeCorrect ==
    Spec => []TypeOK
<1>1. IInv => TypeOK
  BY DEF IInv
<1>2. QED
  BY Invariance, <1>1, PTL

\* After every parameter of every request the bridge listens to the enabled
\* sensors and to no others.
THEOREM InputsFollowTheSettings ==
    Spec => []InputsMatchEnabled
<1>1. IInv => InputsMatchEnabled
  BY DEF IInv
<1>2. QED
  BY Invariance, <1>1, PTL

\* A range from before a sensor was disabled is never held afterwards.
THEOREM OldRangesAreForgotten ==
    Spec => []NothingOldComesBack
<1>1. IInv => NothingOldComesBack
  BY DEF IInv
<1>2. QED
  BY Invariance, <1>1, PTL

\* An inactive bridge that counts its obstacles as cleared has emptied the list
\* if its DELETEALL found the controller, after any number of restarts, and if
\* it is the first bridge also when the DELETEALL was lost before discovery.
THEOREM ClearingReachesTheList ==
    Spec => []ClearedMeansEmpty
<1>1. IInv => ClearedMeansEmpty
  BY DEF IInv
<1>2. QED
  BY Invariance, <1>1, PTL

-----------------------------------------------------------------------------
(* What an enabled sensor keeps seeing gets through to both boxes.          *)

\* The bridge has an obstacle of this sensor to publish.
Near(s) ==
    /\ rmp_active /\ s \in Enabled(low_enabled, sensor_enabled)
    /\ latest[s] = "near" /\ s \in tf

\* Every list on the topic but the k oldest has the sensor on it.
SeenAfter(s, k) == \A i \in 1..Len(topic) : i > k => s \in topic[i]

\* How far the sensor has got: a list that comes later has it too, a list that
\* is taken leaves one fewer without it, and once all lists have it the boxes
\* take it over, the first one and then the second, and keep it.
SeenStep(s) ==
    \A k \in 0..TopicDepth :
        SeenAfter(s, k) =>
            /\ SeenAfter(s, k)'
            /\ SetObstacles /\ k > 0 => SeenAfter(s, k - 1)'
            /\ k = 0 /\ (SetObstacles \/ s \in obstacles) => s \in obstacles'
            /\ k = 0 /\ s \in obstacles /\ (SetProximity \/ s \in proximity)
                  => s \in proximity'

\* It never falls back while the bridge has the obstacle to publish.
SeenGetsThrough ==
    \A s \in Sensor : Near(s) /\ Near(s)' => SeenStep(s)

\* At the start of such a time all lists may lack the sensor, but no more than
\* the topic holds.
SeenStarts == \A s \in Sensor : SeenAfter(s, TopicDepth)

\* A queue that keeps a message with the sensor has it after the same place.
LEMMA KeepLastKeepsSeen ==
    ASSUME NEW queue \in Seq(SUBSET Sensor), NEW s \in Sensor, NEW k \in Nat,
           \A i \in 1..Len(queue) : i > k => s \in queue[i],
           NEW message \in SUBSET Sensor, s \in message
    PROVE  \A i \in 1..Len(KeepLast(queue, message)) :
              i > k => s \in KeepLast(queue, message)[i]
<1>1. CASE Len(queue) < TopicDepth
  BY <1>1 DEF KeepLast
<1>2. CASE ~(Len(queue) < TopicDepth)
  <2>1. queue # <<>> /\ Len(queue) \in Nat \ {0}
    BY <1>2
  <2>2. Tail(queue) \in Seq(SUBSET Sensor) /\ Len(Tail(queue)) = Len(queue) - 1
    BY <2>1
  <2>3. \A i \in 1..Len(Tail(queue)) : Tail(queue)[i] = queue[i + 1]
    BY <2>1
  <2>4. \A i \in 1..Len(Tail(queue)) : i > k => s \in Tail(queue)[i]
    BY <2>1, <2>2, <2>3
  <2>5. KeepLast(queue, message) = Append(Tail(queue), message)
    BY <1>2 DEF KeepLast
  <2> DEFINE rest == Tail(queue)
  <2>6. /\ Len(Append(rest, message)) = Len(rest) + 1
        /\ \A i \in 1..Len(rest) : Append(rest, message)[i] = rest[i]
        /\ Append(rest, message)[Len(rest) + 1] = message
    BY <2>2
  <2>7. Len(rest) \in Nat
    BY <2>2
  <2> HIDE DEF rest
  <2>8. \A i \in 1..Len(Append(rest, message)) :
           i > k => s \in Append(rest, message)[i]
    BY <2>4, <2>6, <2>7 DEF rest
  <2>9. QED
    BY <2>5, <2>8 DEF rest
<1>3. QED
  BY <1>1, <1>2

\* A step that leaves the topic and the boxes alone leaves the progress alone.
LEMMA SeenUntouched ==
    ASSUME TypeOK, UNCHANGED <<topic, obstacles>>, ~SetObstacles,
           SetProximity \/ UNCHANGED proximity, NEW s \in Sensor
    PROVE  SeenStep(s)
<1>1. CASE SetProximity
  BY <1>1 DEF SeenStep, SeenAfter, SetProximity
<1>2. CASE ~SetProximity
  BY <1>2 DEF SeenStep, SeenAfter
<1>3. QED
  BY <1>1, <1>2

\* No step of bridge or controller throws the progress of a sensor back.
LEMMA SeenPreserved ==
    ASSUME TypeOK, [Next]_vars
    PROVE  SeenGetsThrough
<1> SUFFICES ASSUME NEW s \in Sensor, Near(s), Near(s)'
             PROVE  SeenStep(s)
  BY DEF SeenGetsThrough
<1> USE DEF vars, settings, bridge_vars, controller_vars, history
<1>1. CASE publish_obstacles
  <2>1. topic \in Seq(SUBSET Sensor) /\ TopicDepth \in Nat
    BY DEF TypeOK
  <2>2. Markers \in SUBSET Sensor /\ s \in Markers
    BY DEF Markers, Enabled, Near, TypeOK
  <2>3. /\ topic' = KeepLast(topic, Markers) \/ UNCHANGED topic
        /\ UNCHANGED controller_vars
    BY <1>1 DEF publish_obstacles, Send
  <2>4. ~SetObstacles /\ ~SetProximity
    BY <2>3 DEF SetObstacles, SetProximity, TypeOK
  <2>5. ASSUME NEW k \in 0..TopicDepth, SeenAfter(s, k)
        PROVE  SeenAfter(s, k)'
    <3>1. \A i \in 1..Len(topic) : i > k => s \in topic[i]
      BY <2>5 DEF SeenAfter
    <3>2. \A i \in 1..Len(KeepLast(topic, Markers)) :
             i > k => s \in KeepLast(topic, Markers)[i]
      BY <2>1, <2>2, <3>1, KeepLastKeepsSeen
    <3>3. QED
      BY <2>3, <2>5, <3>2 DEF SeenAfter
  <2>6. QED
    BY <2>3, <2>4, <2>5 DEF SeenStep
<1>2. CASE SetObstacles
  <2>1. topic \in Seq(SUBSET Sensor) /\ topic # <<>> /\ topic' = Tail(topic)
        /\ obstacles' = Head(topic) /\ proximity' = proximity
    BY <1>2 DEF SetObstacles, TypeOK
  <2>2. /\ Len(topic) \in Nat \ {0} /\ Len(topic') = Len(topic) - 1
        /\ Head(topic) = topic[1]
    BY <2>1
  <2>3. \A i \in 1..Len(topic') : topic'[i] = topic[i + 1]
    BY <2>1
  <2>4. ~SetProximity
    BY <1>2 DEF SetObstacles, SetProximity
  <2>5. ASSUME NEW k \in 0..TopicDepth, SeenAfter(s, k)
        PROVE  /\ SeenAfter(s, k)'
               /\ k > 0 => SeenAfter(s, k - 1)'
               /\ k = 0 => s \in obstacles'
    <3>1. SeenAfter(s, k)'
      BY <2>2, <2>3, <2>5 DEF SeenAfter
    <3>2. k > 0 => SeenAfter(s, k - 1)'
      BY <2>2, <2>3, <2>5 DEF SeenAfter
    <3>3. k = 0 => s \in obstacles'
      <4>1. 1 \in 1..Len(topic)
        BY <2>2
      <4>2. k = 0 => s \in topic[1]
        BY <4>1, <2>5 DEF SeenAfter
      <4>3. QED
        BY <2>1, <2>2, <4>2
    <3>4. QED
      BY <3>1, <3>2, <3>3
  <2>6. QED
    BY <2>1, <2>4, <2>5 DEF SeenStep
<1>3. CASE SetProximity
  <2>1. UNCHANGED <<topic, obstacles>> /\ ~SetObstacles
    BY <1>3 DEF SetObstacles, SetProximity
  <2>2. QED
    BY <1>3, <2>1, SeenUntouched
<1>4. CASE clear_obstacles_once
  BY <1>4 DEF clear_obstacles_once, Near
<1>5. CASE \/ \E requested_active \in BOOLEAN : on_rmp_flag(requested_active)
           \/ \E r \in Sensor, range \in Range : OnRange(r, range)
           \/ \E n \in 1..MaxRequest : RequestParameters(n)
           \/ \E low \in BOOLEAN : ApplySetting(low, sensor_enabled)
           \/ \E list \in SUBSET Sensor : ApplySetting(low_enabled, list)
           \/ SkipParameter \/ RefuseParameter \/ RestartBridge
           \/ Match
           \/ \E known \in SUBSET Sensor : ChangeTransforms(known)
           \/ UNCHANGED vars
  <2>1. UNCHANGED <<topic, obstacles, proximity, sub>>
    BY <1>5 DEF on_rmp_flag, OnRange, RequestParameters, ApplySetting,
                SkipParameter, RefuseParameter, RestartBridge, Match, ChangeTransforms
  <2>2. ~SetObstacles
    BY <2>1 DEF SetObstacles
  <2>3. QED
    BY <2>1, <2>2, SeenUntouched
<1>6. QED
  BY <1>1, <1>2, <1>3, <1>4, <1>5
  DEF Next, Publish, SetParameters, OnObstacles

\* The safety core of NearIsSeen: when the bridge begins to have an obstacle of
\* a sensor at most TopicDepth lists lack it, publish_obstacles() adds no
\* further one, every list on_obstacles() takes leaves one fewer, and when none
\* is left both boxes take the obstacle over and keep it.  For every set of
\* sensors and every depth of the topic.
THEOREM NearIsNeverLost == Spec => []SeenStarts /\ [][SeenGetsThrough]_vars
<1>1. TypeOK => SeenStarts
  BY DEF TypeOK, SeenStarts, SeenAfter
<1>2. TypeOK /\ [Next]_vars => [SeenGetsThrough]_vars
  BY SeenPreserved
<1>3. QED
  BY <1>1, <1>2, TypeCorrect, PTL DEF Spec

=============================================================================
