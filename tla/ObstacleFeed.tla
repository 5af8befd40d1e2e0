----------------------------- MODULE ObstacleFeed -----------------------------
(***************************************************************************)
(* How what the proximity sensors see becomes the obstacle list of the     *)
(* solver: the proximity bridge keeps the last range of every enabled      *)
(* sensor and publishes a list of obstacles at a fixed rate, the           *)
(* controller replaces its two boxes with every list it receives.          *)
(*                                                                         *)
(* The bridge is one thread.  A request may set several parameters; they   *)
(* are applied one after the other, up to the first that is refused, and   *)
(* no other callback of the bridge runs in between.  A list is the set of  *)
(* sensors whose marker is an ADD: the controller skips all other markers, *)
(* a DELETEALL too.  A bridge that has not yet discovered the controller's *)
(* subscription publishes to nobody, and nothing is kept for later.        *)
(***************************************************************************)
EXTENDS Naturals, Sequences

CONSTANTS
    Sensor,
    Low,          \* the sensors of the topics proximity_distance1 ... 4
    GateEnabled,  \* rmp_flag_gate_enabled_
    TopicDepth,   \* the history depth of the topic "obstacles" (10 in the code)
    MaxRequest,   \* bound on the parameters of one request
    MaxRestarts   \* bound on starts of the bridge

ASSUME FeedAssumption ==
    /\ Low \subseteq Sensor
    /\ GateEnabled \in BOOLEAN
    /\ TopicDepth \in Nat \ {0}
    /\ MaxRequest \in Nat \ {0}
    /\ MaxRestarts \in Nat

VARIABLES
    rmp_active,      \* rmp_active_ of the bridge
    cleared,         \* obstacles_cleared_for_inactive_
    low_enabled,     \* enable_proximity_distance_1_4_
    sensor_enabled,  \* sensor_enabled_, the sensors whose entry is true
    latest,          \* latest_ranges_
    range_subs,      \* the sensors whose subscription exists
    request,         \* parameters of the current request still to be looked at
    matched,         \* the bridge's publisher has found the controller
    topic,           \* lists published and not yet delivered
    obstacles,       \* obstacles_box_ of the controller
    proximity,       \* proximity_sensor_obstacles_box_ of the controller
    sub,             \* on_obstacles(): idle, or between its two boxes
    tf,              \* the sensors whose transform can be looked up
    heard,           \* history: sensors heard since they were last enabled
    told,            \* history: cleared by a DELETEALL that was received
    restarts

settings        == <<low_enabled, sensor_enabled>>
bridge_vars     == <<rmp_active, cleared, settings, latest, range_subs, request>>
controller_vars == <<obstacles, proximity, sub>>
history         == <<heard, told>>
vars == <<rmp_active, cleared, low_enabled, sensor_enabled, latest, range_subs,
          request, matched, topic, obstacles, proximity, sub, tf, heard, told,
          restarts>>

\* A range that makes an obstacle, or one that is unusable or too far away.
Range == {"near", "clear"}

TypeOK ==
    /\ rmp_active \in BOOLEAN
    /\ cleared \in BOOLEAN
    /\ low_enabled \in BOOLEAN
    /\ sensor_enabled \subseteq Sensor
    /\ latest \in [Sensor -> Range \cup {"none"}]
    /\ range_subs \subseteq Sensor
    /\ request \in 0..MaxRequest
    /\ matched \in BOOLEAN
    /\ topic \in Seq(SUBSET Sensor) /\ Len(topic) <= TopicDepth
    /\ obstacles \subseteq Sensor
    /\ proximity \subseteq Sensor
    /\ sub \in {"idle", "second"}
    /\ tf \subseteq Sensor
    /\ heard \subseteq Sensor
    /\ told \in BOOLEAN
    /\ restarts \in 0..MaxRestarts

\* range_topic_enabled() for every sensor, from the two settings.
Enabled(low, list) == IF low THEN list ELSE list \ Low

\* The constructor reads the settings from its parameters, which may be any.
Construct(low, list) ==
    /\ rmp_active = ~GateEnabled
    /\ cleared = FALSE
    /\ low_enabled = low /\ sensor_enabled = list
    /\ latest = [s \in Sensor |-> "none"]
    /\ range_subs = Enabled(low, list)
    /\ request = 0

Init ==
    /\ \E low \in BOOLEAN, list \in SUBSET Sensor : Construct(low, list)
    /\ matched = FALSE /\ topic = <<>>
    /\ obstacles = {} /\ proximity = {} /\ sub = "idle"
    /\ tf = {} /\ heard = {} /\ told = FALSE /\ restarts = 0

-----------------------------------------------------------------------------
(* Publication, at a fixed rate.                                            *)

\* A topic drops its oldest message to keep a new one.
KeepLast(queue, message) ==
    IF Len(queue) < TopicDepth THEN Append(queue, message)
                               ELSE Append(Tail(queue), message)

\* A list is lost on the way to a controller that is not yet matched.
Send(list) == topic' = IF matched THEN KeepLast(topic, list) ELSE topic

\* Mutant: one transform that is missing ends the loop over the sensors.
Markers_all_or_nothing ==
    IF range_subs \subseteq tf THEN {s \in range_subs : latest[s] = "near"}
                               ELSE {}

\* The sensors that get an ADD marker.
Markers ==
    {s \in Enabled(low_enabled, sensor_enabled) : latest[s] = "near" /\ s \in tf}

publish_obstacles ==
    /\ request = 0 /\ rmp_active
    /\ Send(Markers)
    /\ cleared' = FALSE /\ told' = FALSE
    /\ UNCHANGED <<rmp_active, settings, latest, range_subs, request, matched,
                   controller_vars, tf, heard, restarts>>

\* Mutant: the lists are taken as cleared and nobody is told.
clear_obstacles_silently ==
    /\ request = 0 /\ ~rmp_active /\ ~cleared
    /\ cleared' = TRUE /\ told' = matched
    /\ UNCHANGED <<rmp_active, settings, latest, range_subs, request, matched,
                   topic, controller_vars, tf, heard, restarts>>

\* One DELETEALL, whoever hears it: it is not repeated.
clear_obstacles_once ==
    /\ request = 0 /\ ~rmp_active /\ ~cleared
    /\ Send({})
    /\ cleared' = TRUE /\ told' = matched
    /\ UNCHANGED <<rmp_active, settings, latest, range_subs, request, matched,
                   controller_vars, tf, heard, restarts>>

-----------------------------------------------------------------------------
(* The other callbacks of the bridge.                                       *)

on_rmp_flag(requested_active) ==
    /\ GateEnabled /\ request = 0
    /\ rmp_active' = requested_active
    /\ cleared' = (requested_active /\ cleared)
    /\ told' = (requested_active /\ told)
    /\ UNCHANGED <<settings, latest, range_subs, request, matched, topic,
                   controller_vars, tf, heard, restarts>>

OnRange(s, range) ==
    /\ request = 0 /\ s \in range_subs
    /\ latest' = [latest EXCEPT ![s] = range]
    /\ heard' = heard \cup {s}
    /\ UNCHANGED <<rmp_active, cleared, settings, range_subs, request, matched,
                   topic, controller_vars, tf, told, restarts>>

\* on_set_parameters() is called with at least one parameter.
RequestParameters(n) ==
    /\ request = 0
    /\ request' = n
    /\ UNCHANGED <<rmp_active, cleared, settings, latest, range_subs, matched,
                   topic, controller_vars, tf, history, restarts>>

\* Mutant: a sensor that is disabled keeps its last range.
refresh_keeps_ranges(low, list) ==
    /\ range_subs' = Enabled(low, list)
    /\ latest' = latest

refresh_range_subscriptions(low, list) ==
    /\ range_subs' = Enabled(low, list)
    /\ latest' = [s \in Sensor |->
                    IF s \in Enabled(low, list) THEN latest[s] ELSE "none"]

\* Mutant: the subscriptions are refreshed after the last parameter only.
ApplySetting_refreshes_last(low, list) ==
    /\ request > 0 /\ request' = request - 1
    /\ low_enabled' = low /\ sensor_enabled' = list
    /\ IF request' = 0 THEN refresh_range_subscriptions(low, list)
                       ELSE UNCHANGED <<range_subs, latest>>
    /\ heard' = heard \cap Enabled(low, list)
    /\ UNCHANGED <<rmp_active, cleared, matched, topic, controller_vars, tf,
                   told, restarts>>

ApplySetting(low, list) ==
    /\ request > 0 /\ request' = request - 1
    /\ low_enabled' = low /\ sensor_enabled' = list
    /\ refresh_range_subscriptions(low, list)
    /\ heard' = heard \cap Enabled(low, list)
    /\ UNCHANGED <<rmp_active, cleared, matched, topic, controller_vars, tf,
                   told, restarts>>

\* A parameter of another name changes nothing here.
SkipParameter ==
    /\ request > 0 /\ request' = request - 1
    /\ UNCHANGED <<rmp_active, cleared, settings, latest, range_subs, matched,
                   topic, controller_vars, tf, history, restarts>>

\* A value of the wrong type or size ends the request; what came before stays.
RefuseParameter ==
    /\ request > 0 /\ request' = 0
    /\ UNCHANGED <<rmp_active, cleared, settings, latest, range_subs, matched,
                   topic, controller_vars, tf, history, restarts>>

\* A new bridge takes the place of one that died; its lists are still out, and
\* the controller has to be found anew.
RestartBridge ==
    /\ restarts < MaxRestarts
    /\ restarts' = restarts + 1
    /\ rmp_active' = ~GateEnabled /\ cleared' = FALSE
    /\ \E low \in BOOLEAN, list \in SUBSET Sensor :
          /\ low_enabled' = low /\ sensor_enabled' = list
          /\ range_subs' = Enabled(low, list)
    /\ latest' = [s \in Sensor |-> "none"]
    /\ request' = 0 /\ matched' = FALSE /\ tf' = {}
    /\ heard' = {} /\ told' = FALSE
    /\ UNCHANGED <<topic, controller_vars>>

\* Discovery: the publisher finds the controller's subscription, at any time
\* before or after the first ticks of the timer.
Match ==
    /\ ~matched
    /\ matched' = TRUE
    /\ UNCHANGED <<bridge_vars, topic, controller_vars, tf, history, restarts>>

-----------------------------------------------------------------------------
(* The controller: on_obstacles() sets one box after the other.             *)

\* Mutant: a list without obstacles is taken for no list.
SetObstacles_if_any ==
    /\ sub = "idle" /\ topic # <<>>
    /\ topic' = Tail(topic)
    /\ obstacles' = IF Head(topic) = {} THEN obstacles ELSE Head(topic)
    /\ sub' = "second"
    /\ UNCHANGED <<bridge_vars, matched, proximity, tf, history, restarts>>

SetObstacles ==
    /\ sub = "idle" /\ topic # <<>>
    /\ topic' = Tail(topic)
    /\ obstacles' = Head(topic)
    /\ sub' = "second"
    /\ UNCHANGED <<bridge_vars, matched, proximity, tf, history, restarts>>

\* The same list; nobody else writes the boxes.
SetProximity ==
    /\ sub = "second"
    /\ proximity' = obstacles
    /\ sub' = "idle"
    /\ UNCHANGED <<bridge_vars, matched, topic, obstacles, tf, history,
                   restarts>>

\* The transform tree grows, and forgets.
ChangeTransforms(known) ==
    /\ known # tf
    /\ tf' = known
    /\ UNCHANGED <<bridge_vars, matched, topic, controller_vars, history,
                   restarts>>

SetParameters ==
    \/ \E low \in BOOLEAN : ApplySetting(low, sensor_enabled)
    \/ \E list \in SUBSET Sensor : ApplySetting(low_enabled, list)
    \/ SkipParameter \/ RefuseParameter
Publish == publish_obstacles \/ clear_obstacles_once
OnObstacles == SetObstacles \/ SetProximity

Next ==
    \/ Publish \/ SetParameters \/ OnObstacles
    \/ \E requested_active \in BOOLEAN : on_rmp_flag(requested_active)
    \/ \E s \in Sensor, range \in Range : OnRange(s, range)
    \/ \E n \in 1..MaxRequest : RequestParameters(n)
    \/ \E known \in SUBSET Sensor : ChangeTransforms(known)
    \/ RestartBridge \/ Match

Spec == Init /\ [][Next]_vars

\* The timer fires again and again, a request is worked off, and the
\* controller's executor serves its subscription.  The timer is served even
\* when requests keep coming.  Discovery ends, but nothing says when.
FairSpec ==
    /\ Spec
    /\ SF_vars(Publish) /\ WF_vars(SetParameters) /\ WF_vars(OnObstacles)
    /\ WF_vars(Match)

-----------------------------------------------------------------------------
(* Safety.                                                                  *)

\* The subscriptions are those of the enabled sensors, whatever a request set
\* before one of its parameters was refused.
InputsMatchEnabled == range_subs = Enabled(low_enabled, sensor_enabled)

\* A sensor that was disabled and enabled again contributes nothing it measured
\* before: every range that is held was heard since.
NothingOldComesBack ==
    \A s \in Sensor : latest[s] # "none" => s \in heard \cap range_subs

\* Once an inactive bridge counts the obstacles as cleared it has nothing more
\* to say, so the newest list must be empty, wherever it is on its way.  That
\* is so if its DELETEALL found the controller, and, of the first bridge, also
\* if not: then no list of it got through.  A restarted bridge whose DELETEALL
\* went out before discovery counts as cleared with the old obstacles in place.
Newest == IF topic # <<>> THEN topic[Len(topic)] ELSE obstacles
ClearedMeansEmpty ==
    ~rmp_active /\ cleared /\ (told \/ restarts = 0) =>
        /\ Newest = {}
        /\ topic = <<>> /\ sub = "idle" => proximity = {}

-----------------------------------------------------------------------------
(* Liveness.                                                                *)

\* A motion that is switched off for good leaves no obstacle behind, also not
\* that of a bridge that died, if the bridge that followed found the controller
\* with its DELETEALL still to be sent.  The code does not see to the latter.
InactiveClears ==
    \A n \in 0..MaxRestarts :
        (/\ <>[](~rmp_active /\ restarts = n)
         /\ n = 0 \/ <>(matched /\ ~cleared /\ restarts = n))
            => <>[](obstacles = {} /\ proximity = {})

\* An obstacle that an enabled sensor keeps seeing reaches both boxes and stays
\* there, whatever becomes of the other sensors.
NearIsSeen ==
    \A s \in Sensor :
        <>[](/\ rmp_active /\ s \in Enabled(low_enabled, sensor_enabled)
             /\ latest[s] = "near" /\ s \in tf)
            => <>[](s \in obstacles \cap proximity)
=============================================================================
