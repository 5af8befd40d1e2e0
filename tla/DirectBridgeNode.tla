--------------------------- MODULE DirectBridgeNode ---------------------------
(***************************************************************************)
(* The direct bridge node and the controller that drives it over topics.   *)
(*                                                                         *)
(*   node   the bridge's main thread: constructor, executor, destructor    *)
(*   data   the thread of its socket client that calls                     *)
(*          handle_robot_state() for every packet of the robot             *)
(*   sub    the controller's executor: JointCommandTopicsBackend::on_state *)
(*          and publish_visualization(), which reads the same buffer       *)
(*   ctl    the controller's control thread, as far as it uses the backend *)
(*                                                                         *)
(* Two topics connect them, joint states one way and joint commands the    *)
(* other, each keeping its last TopicDepth messages.  Commands queue while *)
(* the bridge's constructor runs: the subscription is made first, served   *)
(* last.  A velocity estimate never leaves the data thread and is left out.*)
(***************************************************************************)
EXTENDS Naturals, Sequences

CONSTANTS
    StartupMove,     \* startup_move_to_default_pose_
    StopOnShutdown,  \* stop_on_shutdown_
    TopicDepth       \* the history depth of both topics (10 in the code)

ASSUME BridgeAssumption ==
    /\ StartupMove \in BOOLEAN
    /\ StopOnShutdown \in BOOLEAN
    /\ TopicDepth \in Nat \ {0}

VARIABLES
    node,          \* where the bridge's main thread stands
    data,          \* handle_robot_state()
    connected,     \* connected_ of the socket client
    running,       \* running_ of the socket client
    rclcpp_ok,     \* rclcpp::ok() of the bridge's process
    blocked,       \* command_blocked_due_to_safety_
    waiting,       \* startup_waiting_for_home_
    deadline,      \* startup_release_deadline_: default or assigned
    expired,       \* the steady clock has passed the assigned deadline
    joint_states,  \* joint states published and not yet delivered
    commands,      \* joint commands published and not yet delivered
    sub,           \* on_state() or publish_visualization()
    sample,        \* state_buffer_ of the backend, as on_state() wrote it
    seen,          \* state_buffer_, as it was last read
    received,      \* state_received_
    ctl,           \* control_loop(): between cycles, or its command
    wire,          \* the last command written to the robot
    leaked,        \* history: servo frames since the safety stop was seen
    early          \* history: servo frames computed before the node spun

node_vars  == <<node, deadline>>
link_vars  == <<connected, running, rclcpp_ok>>
gate_vars  == <<blocked, waiting, expired>>
ctl_vars   == <<sub, sample, seen, received, ctl>>
topic_vars == <<joint_states, commands>>
history    == <<leaked, early>>
vars == <<node, data, connected, running, rclcpp_ok, blocked, waiting,
          deadline, expired, joint_states, commands, sub, sample, seen,
          received, ctl, wire, leaked, early>>

Constructing == {"connect", "init", "move_j", "arm", "deadline"}
Spinning     == {"spin", "callback"}
Leaving      == {"shutdown", "disconnect", "join_data", "gone"}
Aborting     == {"abort", "abort_join", "failed"}

\* Commands by when they were computed: before the node spun or after.
Command == {"before_spin", "live"}

\* A buffer holds the pose of the configuration, or a state of the robot.
State == {"initial_q", "measured"}

TypeOK ==
    /\ node \in Constructing \cup Spinning \cup Leaving \cup Aborting
    /\ data \in {"off", "idle", "gate", "open", "publish", "done"}
    /\ connected \in BOOLEAN
    /\ running \in BOOLEAN
    /\ rclcpp_ok \in BOOLEAN
    /\ blocked \in BOOLEAN
    /\ waiting \in BOOLEAN
    /\ deadline \in {"default", "assigned"}
    /\ expired \in BOOLEAN
    /\ joint_states \in 0..TopicDepth
    /\ commands \in Seq(Command) /\ Len(commands) <= TopicDepth
    /\ sub \in {"idle", "lock", "write", "received", "peek"}
    /\ sample \in State /\ seen \in State
    /\ received \in BOOLEAN
    /\ ctl \in {"top"} \cup Command
    /\ wire \in {"none", "move_j", "move_servo_j", "halt"}
    /\ leaked \in Nat
    /\ early \in Nat

Init ==
    /\ node = "connect" /\ data = "off"
    /\ connected = FALSE /\ running = FALSE /\ rclcpp_ok = TRUE
    /\ blocked = FALSE /\ waiting = FALSE
    /\ deadline = "default" /\ expired = FALSE
    /\ joint_states = 0 /\ commands = <<>>
    /\ sub = "idle" /\ received = FALSE
    /\ sample = "initial_q" /\ seen = "initial_q"
    /\ ctl = "top"
    /\ wire = "none" /\ leaked = 0 /\ early = 0

-----------------------------------------------------------------------------
(* The bridge's constructor.                                                *)

Connect ==
    /\ node = "connect"
    /\ \/ /\ node' = "init"
          /\ connected' = TRUE /\ running' = TRUE /\ data' = "idle"
       \/ /\ node' = "failed"
          /\ UNCHANGED <<connected, running, data>>
    /\ UNCHANGED <<deadline, rclcpp_ok, gate_vars, ctl_vars, topic_vars,
                   wire, history>>

\* A text command is written, or it fails because the connection is gone or is
\* lost by this very send.
SendText(frame, sent, failed) ==
    \/ connected /\ node' = sent /\ wire' = frame /\ UNCHANGED connected
    \/ node' = failed /\ connected' = FALSE /\ UNCHANGED wire

InitializeRobot ==
    /\ node = "init"
    /\ SendText(wire, IF StartupMove THEN "move_j" ELSE "spin", "abort")
    /\ UNCHANGED <<deadline, running, rclcpp_ok, data, gate_vars,
                   ctl_vars, topic_vars, history>>

StartupMoveJ ==
    /\ node = "move_j"
    /\ SendText("move_j", "arm", "abort")
    /\ UNCHANGED <<deadline, running, rclcpp_ok, data, gate_vars,
                   ctl_vars, topic_vars, history>>

ArmHomeGate ==
    /\ node = "arm"
    /\ node' = "deadline"
    /\ waiting' = TRUE
    /\ UNCHANGED <<deadline, link_vars, data, blocked, expired, ctl_vars,
                   topic_vars, wire, history>>

AssignDeadline ==
    /\ node = "deadline"
    /\ node' = "spin"
    /\ deadline' = "assigned"
    /\ UNCHANGED <<link_vars, data, gate_vars, ctl_vars, topic_vars, wire,
                   history>>

-----------------------------------------------------------------------------
(* The executor: one command at a time, from the take to the send.          *)

\* Mutant: the callback does not look at the safety flag.
TakeCommand_ignores_stop ==
    /\ node = "spin" /\ rclcpp_ok /\ commands # <<>>
    /\ commands' = Tail(commands)
    /\ node' = IF connected THEN "callback" ELSE "spin"
    /\ early' = IF node' = "callback" /\ Head(commands) = "before_spin"
                  THEN early + 1 ELSE early
    /\ UNCHANGED <<deadline, link_vars, data, gate_vars, ctl_vars,
                   joint_states, wire, leaked>>

\* command_callback() up to the checks of connected_, of the safety flag and
\* of the size (a controller always sends all joints).
TakeCommand ==
    /\ node = "spin" /\ rclcpp_ok /\ commands # <<>>
    /\ commands' = Tail(commands)
    /\ node' = IF connected /\ ~blocked THEN "callback" ELSE "spin"
    /\ early' = IF node' = "callback" /\ Head(commands) = "before_spin"
                  THEN early + 1 ELSE early
    /\ UNCHANGED <<deadline, link_vars, data, gate_vars, ctl_vars,
                   joint_states, wire, leaked>>

\* The frame leaves; the safety flag is not looked at again.
SendServoJ ==
    /\ node = "callback" /\ connected
    /\ node' = "spin"
    /\ wire' = "move_servo_j"
    /\ leaked' = IF blocked THEN leaked + 1 ELSE leaked
    /\ UNCHANGED <<deadline, link_vars, data, gate_vars, ctl_vars,
                   topic_vars, early>>

\* The client refuses or loses the frame, and with it perhaps the connection.
FailServoJ ==
    /\ node = "callback"
    /\ node' = "spin"
    /\ connected' \in {connected, FALSE}
    /\ UNCHANGED <<deadline, running, rclcpp_ok, data, gate_vars,
                   ctl_vars, topic_vars, wire, history>>

\* spin() returns between two callbacks; the destructor runs shutdown_bridge().
SpinReturns ==
    /\ node = "spin" /\ ~rclcpp_ok
    /\ node' = IF StopOnShutdown /\ connected THEN "shutdown" ELSE "disconnect"
    /\ UNCHANGED <<deadline, link_vars, data, gate_vars, ctl_vars,
                   topic_vars, wire, history>>

ShutdownSequence ==
    /\ node = "shutdown"
    /\ SendText("halt", "disconnect", "disconnect")
    /\ UNCHANGED <<deadline, running, rclcpp_ok, data, gate_vars,
                   ctl_vars, topic_vars, history>>

\* Mutant: the threads are joined and nobody told them to stop.
Disconnect_keeps_running ==
    /\ \/ node = "disconnect" /\ node' = "join_data"
       \/ node = "abort" /\ node' = "abort_join"
    /\ UNCHANGED <<deadline, link_vars, data, gate_vars, ctl_vars,
                   topic_vars, wire, history>>

Disconnect ==
    /\ \/ node = "disconnect" /\ node' = "join_data"
       \/ node = "abort" /\ node' = "abort_join"
    /\ running' = FALSE
    /\ UNCHANGED <<deadline, connected, rclcpp_ok, data, gate_vars,
                   ctl_vars, topic_vars, wire, history>>

JoinData ==
    /\ data = "done"
    /\ \/ node = "join_data" /\ node' = "gone"
       \/ node = "abort_join" /\ node' = "failed"
    /\ connected' = FALSE
    /\ UNCHANGED <<deadline, running, rclcpp_ok, data, gate_vars,
                   ctl_vars, topic_vars, wire, history>>

-----------------------------------------------------------------------------
(* handle_robot_state(), on the client's data thread.                       *)

\* A packet arrives and its safety flags are stored; after a shutdown of rclcpp
\* the callback returns at once and changes nothing.
ExchangeBlocked ==
    /\ data = "idle" /\ running /\ connected /\ rclcpp_ok
    /\ data' = "gate"
    /\ blocked' \in BOOLEAN
    /\ leaked' = IF blocked' /\ blocked THEN leaked ELSE 0
    /\ UNCHANGED <<node_vars, link_vars, waiting, expired, ctl_vars,
                   topic_vars, wire, early>>

\* Mutant: only the startup pose opens the gate.
HomeGate_without_timeout(home) ==
    /\ data = "gate"
    /\ data' = IF ~waiting THEN "publish"
               ELSE IF home THEN "open" ELSE "idle"
    /\ UNCHANGED <<node_vars, link_vars, gate_vars, ctl_vars, topic_vars,
                   wire, history>>

\* A default-constructed deadline is in the past of every clock reading.
HomeGate(home) ==
    /\ data = "gate"
    /\ data' = IF ~waiting THEN "publish"
               ELSE IF home \/ deadline = "default" \/ expired THEN "open"
               ELSE "idle"
    /\ UNCHANGED <<node_vars, link_vars, gate_vars, ctl_vars, topic_vars,
                   wire, history>>

OpenHomeGate ==
    /\ data = "open"
    /\ data' = "publish"
    /\ waiting' = FALSE
    /\ UNCHANGED <<node_vars, link_vars, blocked, expired, ctl_vars,
                   topic_vars, wire, history>>

PublishJointState ==
    /\ data = "publish"
    /\ data' = "idle"
    /\ joint_states' = IF joint_states < TopicDepth THEN joint_states + 1
                                                    ELSE joint_states
    /\ UNCHANGED <<node_vars, link_vars, gate_vars, ctl_vars, commands,
                   wire, history>>

DataExit ==
    /\ data = "idle" /\ ~(running /\ connected)
    /\ data' = "done"
    /\ UNCHANGED <<node_vars, link_vars, gate_vars, ctl_vars, topic_vars,
                   wire, history>>

-----------------------------------------------------------------------------
(* The controller's side: JointCommandTopicsBackend.                        *)

\* Mutant: readiness is announced before there is anything to read.
DeliverJointState_announces ==
    /\ sub = "idle" /\ joint_states > 0
    /\ sub' = "lock"
    /\ joint_states' = joint_states - 1
    /\ received' = TRUE
    /\ UNCHANGED <<node_vars, link_vars, data, gate_vars, sample, seen, ctl,
                   commands, wire, history>>

DeliverJointState ==
    /\ sub = "idle" /\ joint_states > 0
    /\ sub' = "lock"
    /\ joint_states' = joint_states - 1
    /\ UNCHANGED <<node_vars, link_vars, data, gate_vars, sample, seen,
                   received, ctl, commands, wire, history>>

\* writeFromNonRT() holds the mutex of the buffer while it writes.
LockBuffer ==
    /\ sub = "lock"
    /\ sub' = "write"
    /\ UNCHANGED <<node_vars, link_vars, data, gate_vars, sample, seen,
                   received, ctl, topic_vars, wire, history>>

WriteSample ==
    /\ sub = "write"
    /\ sub' = "received"
    /\ sample' = "measured"
    /\ UNCHANGED <<node_vars, link_vars, data, gate_vars, seen, received, ctl,
                   topic_vars, wire, history>>

SetReceived ==
    /\ sub = "received"
    /\ sub' = "idle"
    /\ received' = TRUE
    /\ UNCHANGED <<node_vars, link_vars, data, gate_vars, sample, seen, ctl,
                   topic_vars, wire, history>>

\* The visualization timer reads the buffer too, and the read holds the mutex.
publish_visualization ==
    /\ \/ sub = "idle" /\ sub' = "peek" /\ UNCHANGED seen
       \/ sub = "peek" /\ sub' = "idle" /\ seen' = sample
    /\ UNCHANGED <<node_vars, link_vars, data, gate_vars, sample, received, ctl,
                   topic_vars, wire, history>>

ready == received

\* readFromRT() only tries the mutex: a read that finds it taken returns what
\* the read before it returned.
BufferLocked == sub \in {"write", "peek"}
read_state == seen' = IF BufferLocked THEN seen ELSE sample

\* A cycle reads the state and computes a command from it.
BeginCycle ==
    /\ ctl = "top" /\ ready
    /\ read_state
    /\ ctl' = IF node \in Constructing THEN "before_spin" ELSE "live"
    /\ UNCHANGED <<node_vars, link_vars, data, gate_vars, sub, sample,
                   received, topic_vars, wire, history>>

\* A cycle that stands by publishes nothing.
SkipCommand ==
    /\ ctl # "top"
    /\ ctl' = "top"
    /\ UNCHANGED <<node_vars, link_vars, data, gate_vars, sub, sample, seen,
                   received, topic_vars, wire, history>>

\* Mutant: the topic keeps one message more than the bridge asks for.
KeepLast_one_more(queue, message) ==
    IF Len(queue) <= TopicDepth THEN Append(queue, message)
                                ELSE Append(Tail(queue), message)

\* The topic keeps the newest messages.
KeepLast(queue, message) ==
    IF Len(queue) < TopicDepth THEN Append(queue, message)
                               ELSE Append(Tail(queue), message)

\* The command is published, and the cycle ends with one more read.
apply_command ==
    /\ ctl # "top" /\ ready
    /\ ctl' = "top"
    /\ commands' = KeepLast(commands, ctl)
    /\ read_state
    /\ UNCHANGED <<node_vars, link_vars, data, gate_vars, sub, sample,
                   received, joint_states, wire, history>>

-----------------------------------------------------------------------------
(* The environment.                                                         *)

Sigint ==
    /\ rclcpp_ok
    /\ rclcpp_ok' = FALSE
    /\ UNCHANGED <<node_vars, connected, running, data, gate_vars,
                   ctl_vars, topic_vars, wire, history>>

LoseConnection ==
    /\ connected
    /\ connected' = FALSE
    /\ UNCHANGED <<node_vars, running, rclcpp_ok, data, gate_vars,
                   ctl_vars, topic_vars, wire, history>>

DeadlinePasses ==
    /\ deadline = "assigned" /\ ~expired
    /\ expired' = TRUE
    /\ UNCHANGED <<node_vars, link_vars, data, blocked, waiting, ctl_vars,
                   topic_vars, wire, history>>

Constructor ==
    \/ Connect \/ InitializeRobot \/ StartupMoveJ \/ ArmHomeGate
    \/ AssignDeadline
Executor == TakeCommand \/ SendServoJ \/ FailServoJ \/ SpinReturns
Destructor == ShutdownSequence \/ Disconnect \/ JoinData
HandleRobotState ==
    \/ ExchangeBlocked \/ (\E home \in BOOLEAN : HomeGate(home))
    \/ OpenHomeGate \/ PublishJointState \/ DataExit
OnState == DeliverJointState \/ LockBuffer \/ WriteSample \/ SetReceived
ControlThread == BeginCycle \/ SkipCommand \/ apply_command
Environment == Sigint \/ LoseConnection \/ DeadlinePasses

\* The bridge has ended; the controller may go on by itself.
Terminated == node \in {"gone", "failed"} /\ UNCHANGED vars

Next ==
    \/ Constructor \/ Executor \/ Destructor \/ HandleRobotState
    \/ OnState \/ publish_visualization \/ ControlThread \/ Environment
    \/ Terminated

Spec == Init /\ [][Next]_vars

\* Both processes keep running, the robot keeps sending packets while it is
\* connected, a send ends, and the clock does not stop.  A loop that is given
\* commands for ever still looks at rclcpp::ok() before each of them, and the
\* controller's executor serves its subscription although its timer keeps
\* firing.
FairSpec ==
    /\ Spec
    /\ WF_vars(Constructor) /\ WF_vars(Executor) /\ WF_vars(Destructor)
    /\ WF_vars(HandleRobotState) /\ WF_vars(OnState \/ publish_visualization)
    /\ SF_vars(DeliverJointState) /\ WF_vars(DeadlinePasses)

-----------------------------------------------------------------------------
(* Safety.                                                                  *)

\* After a safety stop is seen at most one command still reaches the robot: the
\* one whose callback had read the flag just before it went up.  The commands
\* that wait on the topic do not.
LeakBound == blocked => leaked <= 1

\* Readiness is announced after the first state can be read, and what was once
\* read is never forgotten: a cycle starts from the pose of the configuration
\* only if it finds the buffer locked, and nobody has read a state before.
ReadsFindState ==
    [][BeginCycle => \/ seen' = "measured"
                     \/ BufferLocked /\ seen = "initial_q"]_vars

\* States are published before the start-up move is armed, so commands gather
\* on the topic while the constructor blocks; what of them the node then takes
\* is bounded by the depth of the topic and the one cycle under way.
BacklogBound == early <= TopicDepth + 1

-----------------------------------------------------------------------------
(* Liveness.                                                                *)

\* After a signal the bridge ends: no command, join or send holds it.
ShutdownCompletes == ~rclcpp_ok ~> node \in {"gone", "failed"}

\* While the connection lasts the home gate does not hold the controller back
\* for ever: it hears of the robot's state.
ControllerHears == <>[](connected /\ rclcpp_ok) => <>received

-----------------------------------------------------------------------------
(* The bridge implements the command gate with room for one command.        *)

Credit == IF node = "callback" THEN 1 ELSE 0

Gate == INSTANCE CommandGate WITH
    Depth   <- 1,
    phase   <- IF node \in Constructing THEN "held"
               ELSE IF node \in Spinning THEN "open" ELSE "closing",
    stopped <- blocked,
    credit  <- Credit,
    halted  <- wire = "halt"

\* A command enters only while the node spins and no safety stop is seen, one
\* at a time, and the halt comes when none is under way.
ImplementsGate == Gate!Spec
=============================================================================
