# Verification of rb10_rmpflow_rviz

TLA+ models of the RB10 RMPflow stack: a real-time controller that turns goals and obstacles into
joint commands (Riemannian motion policies), the code that puts these commands on the robot's
sockets, and the ROS 2 nodes around it. TLC checks the models on small instances; TLAPS proves the
most important properties for every value of the constants. Paths below are relative to the
repository.

## 1. The system

### 1.1 Parts and how they interact

| part | source | state it keeps | operations | interacts with |
|---|---|---|---|---|
| Socket client | `src/rb10_socket_client.cpp` | two sockets, `connected_`, `running_`, `servo_command_response_pending_`, three threads | connect, text commands, `send_servoj_degrees`, shutdown sequence, disconnect; request, data-read and command-read loops | robot over TCP; calls back `on_state()` from its data thread |
| Direct RB10 backend | `src/rmpflow_controller_node.cpp` 504-907 | state buffer, one-place command slot, safety flag, start-up home gate, servo thread | constructor, destructor, `ready`, `read_state`, `apply_command`, `on_state` | socket client below, control loop above |
| Control loop | `src/rmpflow_controller_node.cpp` 2571-2786 | last safe command, virtual state, min-Z flag | one cycle per period: gates, goal sync, solve, min-Z hold, guard, apply | backend, boxes filled by callbacks |
| Controller callbacks | `src/rmpflow_controller_node.cpp` 1328-1436, 1797-1885 | goal box, obstacle boxes, external RMP buffers, activity flags | `/RMP_flag`, `/goal`, `/goal_pose`, `/obstacles`, external RMPs | executor thread against the control thread |
| Other backends | `src/rmpflow_controller_node.cpp` 349-502 | a state buffer each | simulation, hardware bridge, command topics | control loop |
| Velocity filter | `src/rmpflow_controller_node.cpp` 81-245 | sample window | update, reset | data thread |
| RMP solver | `src/pinocchio_direct_solver.cpp`, `src/casadi_task_graph.cpp`, `src/pinocchio_model.cpp`, `include/.../rmp_eigen_solver.hpp` | task graph, its order and sizes, compiled maps | sort, infer, compile, solve | control loop, learning adapter |
| RMP learning interface | `src/rmp_learning_interface.cpp`, `src/rmp_learning_stack.cpp` | feature specs, a solver, a policy's weights | specs, batches, training | solver |
| Direct bridge node | `src/rb10_direct_bridge_node.cpp` | safety flag, home gate, filter | command callback, state callback, shutdown | socket client; topics |
| Proximity bridge | `src/proximity_obstacle_bridge.cpp` | last range per sensor, enable list | ranges, parameters, flag, 30 Hz publication | `obstacles` topic |
| Obstacle manager | `src/obstacle_manager.cpp` | obstacle map | markers, add/delete, 10 Hz publication | `obstacles` topic |
| RMPflow bridge | `src/rmpflow_bridge.cpp` | activity, goal, forwarding window | flag, goal, command forwarding | controller's goal topic |
| Goal marker | `src/interactive_goal_marker.cpp` | goal pose, initialised flag | feedback, commands, joint states, 10 Hz publication | controller's goal topic |
| Joint state adapter | `src/joint_state_adapter.cpp` | two name maps | reorder joint states | topics, to controller and marker |
| ToF visualizer | `src/tof_ray_visualizer.cpp` | last ranges | markers | RViz |
| API bridge | `scripts/rb10_api_bridge.py`, `scripts/api/cobot.py` | connection, last command | command loop, state loop | robot over the vendor API |
| Experiment scripts | `scripts/experiment_goal_runner.py`, `rmp_data_recorder.py`, `run_tuning_scenario.py`, `move_to_saved_start_pose.py` | run state machines | goals, recording, scenarios | topics |
| Analysis scripts, launch, config | `scripts/analyze_*`, `plot_*`, `launch/`, `config/` | none at run time | - | - |

### 1.2 Threads

The controller process has: the main thread (construction, `rclcpp::spin`, destruction), the
control thread, the backend's servo thread and the socket client's three threads. Shared state is
partly atomic, partly under a mutex, partly in `RealtimeBuffer`/`RealtimeBox`, and partly plain
members (`virtual_velocity_state_initialized_`, `last_safe_command_state_initialized_`,
`startup_release_deadline_`, the filter pointer, the socket descriptors). Every other node is one
thread that runs one callback at a time.

### 1.3 What is hard, and what makes each part correct

- **Backend.** A safety stop arrives while commands are being computed, queued or sent; the home
  gate is released by another thread than the one that armed it; three threads are joined in the
  destructor. Correct means: a bounded number of commands follows a stop, nothing is commanded
  before the gate opens, nothing follows the shutdown sequence, the destructor returns.
- **Control loop.** Flags change in the middle of a cycle, the hold is followed by a guard that may
  move the command, the fallback pose is remembered across cycles. Correct means: a deactivation
  takes effect within one command, no goal is invented or lost, what is remembered as safe is safe
  (the last is not what the code does: see 4).
- **Socket client.** Several threads tear the connection down at the same time; responses carry no
  correlation; sends and receives block. Correct means: servo frames are paced, nothing leaks,
  `disconnect()` returns.
- **Obstacles.** Every message replaces the whole list and nothing expires; a sensor whose transform
  fails drops out; parameters are applied one by one. (The launch files start either the proximity
  bridge or the obstacle manager, so the list has one publisher.) A list that is published before the
  bridge has discovered the controller is lost. Correct means: an enabled sensor that sees something
  near is in the list the solver uses, a disabled or deactivated one is not.
- **Goals.** Three publishers share one topic; the bridge forwards commands after a fixed delay; the
  marker writes its goal from joint states, operator and timer. Correct means: the operator's goal is
  the one that is followed and no configured default goes out as a goal.
- **Task graph.** The graph of the solver is configuration: any parents, task maps and leaves. Three
  copies of one sort and one size inference read it, two families of task maps then return sizes of
  their own. Correct means: every copy places a node after its parents or refuses, and what is
  accepted is solved in every cycle.
- **Joint values.** A vector is copied by names or by position through two nodes in a row. Correct
  means: no joint gets the value of another one.
- **Numerics.** Metrics, forces, kinematics and filters are floating point and out of reach.

`PROJECT.json` lists every hazard at its line, with the properties that cover it.

## 2. The modules

| module | models | proved in |
|---|---|---|
| `DirectRb10Backend` | backend, its servo thread, `on_state()`, and the control thread as far as it uses the backend | `DirectRb10Backend_proofs` |
| `CommandGate` | the abstract promise of a servo backend: admission, bounded credit, final halt | (refined by the above) |
| `ControlLoop`, `ControlLoopMC` | `control_loop()` against `/RMP_flag`, `/goal`, `/goal_pose` | `ControlLoop_proofs` |
| `Rb10SocketClient` | sockets, reader threads, pacing, tear-down | `Rb10SocketClient_proofs` |
| `DirectBridgeNode` | the bridge node, with the controller's topic backend at the other end of its topics | `DirectBridgeNode_proofs` |
| `GoalBridge` | the RMPflow bridge between operator and controller | `GoalBridge_proofs` |
| `ObstacleFeed` | the proximity bridge and the controller's obstacle boxes | `ObstacleFeed_proofs` |
| `RmpGraph`, `RmpGraphMC` | the task graph as controller, solver and learning adapter read it, and `solve()` on it | `RmpGraph_proofs` |
| `JointPath`, `JointPathMC` | joint state adapter, the controller's topic backends, the interactive goal marker | `JointPath_proofs` |

`TypeOK` of the first six component modules is proved for all constants (`TypeCorrect`); what the
proofs of the last two need of types is part of their inductive invariants.

### 2.1 DirectRb10Backend

`main`, `ctl`, `servo` and `data` are the program counters of the four threads that matter; a step
is one critical section, one atomic access or one call into the client. `connected` and `running`
are the client's flags as the backend sees them. `pending` is the slot; `wire` the last command
written; `buffer` says by which filter window the published velocity was made. State packets are
`Packet` records: safety flag up, start-up pose reached, and whether the clock has passed the
assigned deadline. `leaked` and `leaked_cleared` are history counters used by properties only.
`StartupMove`, `UseFilter` and `StopOnShutdown` are the parameters of that name.

Correspondence: each of the constructor's calls is an action (`Connect` ... `StartControlThread`),
the destructors are `StopNode` ... `JoinData` in the order the destructors run (node body, then
the backend), `control_loop()` is cut to `BeginCycle` / `SkipCommand` / `PassGuards` /
`queue_servo_command` / `NotifyServo`, the servo thread to `ServoWait/Take/Exit/Send/Drop`, and
`on_state()` to one action per shared access. `ServoWait` keeps the gap between the predicate and
the notification impossible (the mutex is held) and `WakeServo` is lost if nobody sleeps.

Properties: `LeakBound` (how many frames pass a safety stop),
`GateHoldsServo`, `ReleasedVelocityFresh`, `HaltIsFinal`, `ImplementsGate` (refinement of
`CommandGate`); liveness `ShutdownCompletes`, `SlotDrains`, `HomeGateOpens`.

`buffer` is a plain register here, unlike in `DirectBridgeNode`: `ReleasedVelocityFresh` is about the
sample that is published after the rewrite (line 804). A cycle in the window between the opening of
the gate (line 800) and the rewrite, or one whose `try_lock` fails, may still see the old velocity.

### 2.2 CommandGate

Four variables: the phase of the gate, the safety stop, the number of commands admitted and not yet
spent, and whether the halt was written. Commands are admitted only while the gate is open and no
stop is seen, at most `Depth` are under way, and the halt comes when none is. The refinement
mapping is in `DirectRb10Backend` (`Gate == INSTANCE CommandGate WITH ...`): `credit` counts the
command between the checks and the slot, the one in the slot and the one being sent.

### 2.3 ControlLoop

A pose is a vector of joint angles and `Safe`, the poses that pass the min-Z check, is any set of
them: the height of the lowest link depends on all the joints in no simple way, and the loop does
nothing with it but test it. `apply_command_guard` clamps every joint by itself, so what it makes of
two safe poses need not be safe, and the code does not look again. The solver is any pose (`Solve`),
the robot any measured pose (`Measure`). Each read of a shared flag and each write of a callback is a
step of its own. `BackendReady` makes the backend come and go. `after_off` is history.

`gate_enabled` is chosen at the start and kept, so one run has both settings. Without the gate the
node does not subscribe to `/RMP_flag` (`FlagOn` and `FlagOff` require it), and only without it can
`SyncSetGoal` and `SyncSetFlag` be reached, because with it an external goal is required earlier in
the cycle.

Properties: `OneCommandAfterDeactivation`, `ExternalGoalStays`, and two about the fallback of the
min-Z hold. `HoldAvoidsFloor` is what the message of the hold promises, and the code breaks it in two
ways (section 4). `LastSafeNearSafe` is what it keeps: without the gate the fallback is within one
guarded step of a pose that passed the check, and this does not add up over the cycles, since a
cycle records only if its own measured pose passed. `ExternalGoalStays` is about a goal that is in
the box at the top of a cycle; a goal that arrives between the check and the write of the start-up
synchronisation (lines 2656 and 2665) is overwritten by it.

### 2.4 Rb10SocketClient

Both users of the client make one call at a time (the direct backend starts its servo thread after
the last start-up command and joins it before the first shutdown command; the bridge node is spun by
one thread), so the calls are one more thread, `"caller"`, and `command_mutex_` is never contended.
`closing[t]` is how far thread `t` is in `set_disconnected()`; any number of threads may be in it.
`sock[c]` is the real socket and `fd[c]` whether the member still holds its number. The robot's end
is up, not reading, no longer sending, or gone. Reconnection after `disconnect()` is not modelled
because nothing in the repository does it.

### 2.5 DirectBridgeNode

The second way to drive the robot: a node of its own that takes joint commands from a topic and
publishes joint states. `node` walks through the constructor, the executor's callbacks and the
destructor; `data` is `handle_robot_state()` on the socket client's thread; `sub` and `ctl` are the
controller's executor and control thread. `joint_states` counts undelivered states, `commands` holds
the undelivered commands by when they were computed: before the node spun, or after. Each topic drops its oldest message at `TopicDepth`. A size check that
a controller never fails and the velocity estimate (which stays on one thread) are left out.

There is no slot and no servo thread: a command is taken and sent by the same callback, which is why
one frame, not three, can follow a safety stop (`LeakBound`) and why the node refines `CommandGate`
with `Depth <- 1`. What is peculiar to it is the subscription that exists while the constructor
blocks: `BacklogBound` says how many outdated commands are executed at most.

The controller keeps the state in a `RealtimeBuffer`: `sample` is what was written, `seen` what the
last read returned. A write holds the mutex (`LockBuffer` to `WriteSample`), and so does a read;
`read_state` only tries it and returns the old value when it is taken. The reader that can take it
from the control thread is the visualization timer (`publish_visualization`), which shares the
executor with `on_state()`. `ReadsFindState` is what this leaves of "a cycle starts from a state":
readiness is announced after the state is in the buffer and what was read once is not forgotten, but
the very first read may find the mutex taken, by the write of the next state or by the timer, and
then the cycle starts from the configured pose. Both really happen in the model.

### 2.6 GoalBridge

`flag_to_bridge`, `flag_to_controller` and `goal_to_bridge` are the operator's messages on their
three ways, `goal_pose` and `commands` the topics between bridge and controller. A command is the
goal it was solved for. `settled` says that the clock has passed `command_forwarding_allowed_after_`;
how long the delay is does not matter to the properties. Callbacks of the bridge hold its mutex and
are one step. Of the controller only the two gates and the goal are kept (`ControlLoop` has the
interleavings inside them). `RestartController` starts the controller's process again: its queues
and its memory are empty and the bridge knows nothing of it; `flag_sent` and `goal_sent` then restart
too, so the liveness properties ask of the operator to send both again.

### 2.7 ObstacleFeed

The bridge is one thread: a callback is a step, except `on_set_parameters()`, which is one step per
parameter with `request` counting those still to come; while it is not 0 no other callback of the
bridge runs, the controller does. `latest` and `range_subs` are the members of that name, the two
settings are `low_enabled` and `sensor_enabled`. A range is `near` (it makes an obstacle) or `clear`
(unusable or beyond the trigger distance). A list is the set of sensors with an ADD marker, because
the controller skips every other marker; the placeholder it stores for an empty list stands far away
and is the empty set here. `on_obstacles()` writes its two boxes in two steps. `RestartBridge`
replaces a dead bridge by a new one with any settings.

The topic is volatile: until the publisher has discovered the controller (`Match`, at any time after
a start) what it sends is lost (`Send`). The lists of an active bridge are repeated at every tick, so
nothing is lost for long; the one DELETEALL of `clear_obstacles_once()` is not repeated, and it goes
out at the first tick. A restarted bridge that is inactive and discovers the controller after that
tick leaves the obstacles of its predecessor in place for good. The code does nothing about it and no
document says that it does, so `ClearedMeansEmpty` and `InactiveClears` leave this case out and name
it: `told` is the history of a DELETEALL that was received, `heard` that of sensors heard since they
were enabled.

### 2.8 RmpGraph

`graph` is the list of `RmpNodeConfig`s as the parameters give it: names, parents, enabled or not,
task map, leaf, second leaf, key and the few numbers a size depends on. A name is its rank in the
alphabet (the sort looks at nothing else), a vector is its size. `todo` lists who still reads the
graph: controller and solver in the controller's process, solver and adapter in a learning process.
Each reader declares the parameters, sorts (`BeginOrder`, `PopReady`, `EndOrder`: one step per turn
of the loop), infers a size per node (`InferNext`) and uses them: `configure_external_rmp_inputs()`,
`build_external_feature_specs()`, and `compile`, which builds the CasADi maps. The readers differ in
small things and the model keeps these: only the controller's parameters refuse a name that is there
twice, only solver and adapter check it among the enabled nodes, the adapter has a number of control
points of its own. `MetricArrives` and `AccelerationArrives` are the two topics of an external RMP.
`solve()` evaluates one node per step, natively or by a compiled map, and then its leaves. Every throw
of the code is a `Refuse` or a `Fail`; a compiled map that gets a vector of another size than it was
compiled for is a `Fail`, too, because its result means nothing. `boosted` is history.

`OrderSound` and `RefusesCyclesOnly` say that the sort is right for every graph. `RegularGraphsSolve`
says what the constructors leave unchecked: `Regular` collects it (every map was compiled for the
size that is inferred, leaves get the sizes they want, the distances are taken from as many points as
the solver counts, and nothing hangs on them, neither a node nor a leaf that wants a size, because
their number changes with the obstacles), and nothing else makes a cycle fail. `LoopsEnd`: all loops end.

`Elementwise` states the rule of CasADi on the sizes of an elementwise operation (a scalar fits every
vector); CasADi itself is a library.

### 2.9 JointPath

A joint value carries what may be mixed up: the joint it was measured at, the pose of the robot it
was read in and whether its message could be understood. A layout is a way to write a message: names,
the joint behind each position, and how many velocities; drivers name the joints they know correctly
(`Truthful`) but may leave names out, order them as they like, add a gripper, or send too few
positions or velocities. `BuildOrderedState` is the adapter with its two maps and the fallback to
positions, `RobotState` is `joint_state_to_robot_state()`, `MarkerVector` the lookup of the marker.
`adapted` is FALSE where the launch files connect receivers to the driver itself. The marker's actions
are its callbacks; one executor runs them one at a time. Its parameter `initialize_from_joint_state` is TRUE, which is
the default and the configuration; `lock` is `lock_orientation_to_tcp`. `MarkerHears` and
`ControllerHears` take a message in the robot's present pose: one that waited in a queue is, for the
receiver, one of a robot that had not moved yet. `OtherAsks` stands for the other publishers of
`goal_pose`, and `Retire` lets one of them, or the operator, fall silent for ever.

`JointsKeepTheirPlaces` asks the marker only for what it reads behind the adapter. Before the driver
itself it looks names up without a look at the number of positions and may read behind the end
(hazard at `interactive_goal_marker.cpp:209`).

## 3. The runs

| run | question | bounds | distinct states |
|---|---|---|---|
| `backend` | safety of the backend, its refinement of the gate, progress of shutdown, slot and home gate | all three parameters on | 73 375 |
| `backend_early_release` | is the gate released only at home or timeout (no) | same | counterexample |
| `control` | flag gate, min-Z hold, start-up goal, with and without the gate | two joints, angles 0..2, five of the nine poses safe, guard step 1 | 737 516 |
| `control_unsafe_fallback` | does a hold fall back to a safe pose although the check can be switched off (no) | same, guard step 2 | counterexample |
| `control_unsafe_guard` | does a hold fall back to a safe pose although the guard moves the command (no) | same, guard step 1 | counterexample |
| `socket` | pacing, tear-down, does `disconnect()` return, does the client keep sending | none: the model is finite | 272 156 |
| `bridge` | leaks, backlog and gate of the bridge node; does it end, does the controller hear of the robot | topics of depth 1 | 371 948 |
| `goal` | forwarding and goals under all orders of messages; does the last goal win, does everything stop | two goals, depth 1, one restart of the controller | 61 257 |
| `obstacles` | settings, deactivation, transforms, restarts: what is on the list in the end | two sensors, one of them low; depth 1, requests of two parameters, one restart | 318 528 |
| `graph` | sort, sizes and evaluation: which graphs are refused, which are solved in every cycle, do the loops end | graphs of up to three nodes (below); 0 or 2 obstacles, 3 control points, 2 for learning | 74 851 |
| `graph_boost` | is the configured boost of the axis leaves applied (no) | the shipped graph around the tool position | counterexample |
| `joints` | joint values, start-up goal, operator, orientation lock, shared goal topic | two joints, two poses, six layouts, depth 1 | 64 736 |

Bounds. The backend has no unbounded data besides the history counters, which the code's own
structure bounds, and all its optional features are switched on, which includes every path; the
proofs cover the other configurations. In the control loop two joints are the least for which the
guard can leave the safe poses between two of them; `SafePoses` (in `ControlLoopMC`) allows either
joint to be lifted and not both, and has an unsafe pose more than one step from every safe one. With a
step of 2 the guard never limits anything, so that the run about the switched-off check shows that
alone. The socket client is finite; two is the exact bound of `PacingBound`.
The topics have depth 1 in the runs: the
hard case is the message that is lost because a newer one came, and a topic of one message loses the
most; order inside a deeper topic is that of a queue. The bridge node and the goal path (without restarts) were also
checked at depth 2, and the safety properties are proved for every depth. Two goals are the least with an old and a new one, two sensors the least with
one that is switched by either setting and one that depends on the list alone, and two parameters the
least for a request that is refused half-way. The graphs of `RmpGraphMC` are: every
way to connect three nodes with one parent each or one of four pairs of parents (itself, unknown names,
the same parent twice, and cycles among them; one node may be disabled), names that occur twice, every
task map on one or two parents of four sizes with three kinds of leaves, matrices and slices that fit
or do not, a node behind the distances, and the shipped graph around the tool position in all four
modes. What a node does depends on itself and its parents only, so three nodes show every pair of a
map and its argument; the sort is proved for all graphs. The learning interface gets another number of
control points than the solver, which the code allows. Two joints are the least that can be exchanged,
two poses the least that tell an old reading from a new one, and each of the six layouts takes another
way through the lookups.

Fairness. `FairSpec` of the backend: weak fairness of each thread (the operating system runs them),
of packet arrival while connected (the client requests packets at a fixed rate), of the clock, and,
in `ServoThread`, that a send ends. The last one is an assumption about the robot:
`send_all()` spins on a full socket and the destructor joins the servo thread before it disconnects,
so a robot that stays connected and stops reading makes the destructor wait. `FairSpec` of the
socket client: weak fairness of each thread, nothing of the robot. `SessionStaysAlive`
assumes in its formula (`Streaming`) that the program keeps calling (strong fairness, because text commands may come in between), that a blocked
send goes through when the peer reads again, and that a robot that is up goes on reading.

`FairSpec` of the bridge node: weak
fairness of the constructor, the executor, the destructor, the data thread, the controller's executor
and the clock, and strong fairness of the delivery of a joint state, because the visualization timer
runs in the same executor and must not starve the subscription for ever; the executor is one thread that looks at `rclcpp::ok()` before each callback. `FairSpec` of the goal bridge:
each subscription is served (one executor per node serves all of them in turn), the control thread
runs, the clock goes on; nothing is asked of the operator. `FairSpec` of the
obstacle feed: the timer of the bridge is served again and again although parameter requests may keep
coming (strong fairness: the executor serves timers first), a request is worked off, and the
controller serves its subscription; discovery ends at some time, which may be after the first
tick; nothing is asked of sensors, transforms or operator. `FairSpec` of
the graph: constructors and `solve()` are loops of one thread that nothing stops; nobody has to call
`solve()`. `FairSpec` of the joint path: the marker's timer and the controller's executor run, and of
the joint states that are long enough some get through (a driver publishes all the time and the
subscription is best effort); that the operator, the other publishers or the robot come to rest is
assumed in the formulas where it is needed, never of all behaviours.

Deadlock is checked in every run but the two of the graph, whose readers stop for good when they
refuse it; a finished program stutters in `Terminated`.

Each passing run's properties are backed by mutants (`PROJECT.json`): a changed definition, written
beside the original and named after the mistake, that makes TLC report the property.

## 4. Disagreements found

1. **The home gate may open at once** (`backend_early_release`). The flag is raised before the
   deadline is assigned; a packet in between compares with the default deadline, long past. The
   bridge node has the same order at `rb10_direct_bridge_node.cpp:238`.
2. **The min-Z check is switched off in the middle of a cycle** (`control_unsafe_fallback`).
   `violates_min_z_safety()` returns false as soon as `/RMP_flag` has deactivated the controller, also
   in a cycle that began active. The unchecked prediction is then recorded as the last safe command
   (line 2766) after the callback has lowered `last_safe_command_state_initialized_`; after the next
   activation a hold falls back to it. A deactivation before the check of the measured pose does the
   same through line 2673, in a trace of the same length.
3. **The guarded pose is recorded unchecked** (`control_unsafe_guard`). The checks look at the measured
   and at the predicted pose; the guard then clamps joint by joint, and what comes out is commanded and
   recorded as the last safe pose (line 2766) although its height was never looked at. No flag is
   needed. It is within one step of a safe pose, which is `LastSafeNearSafe`.
4. **The boost of the axis leaves is never applied** (`graph_boost`). An axis leaf looks the position
   of the tool up among the nodes evaluated so far. The sort takes the nodes without open parents in
   alphabetical order, and `tcp_axis_target_*` comes before `tcp_position`: the configured
   `axis_target_rmp_proximity_metric_boost_scalar: 10.0` has no effect. No edge of the graph says
   that the one needs the other.

Some statements of the log are less exact than they sound, without the code being wrong: after
"blocking move_servo_j commands" the commands already admitted still reach the robot, and `LeakBound`
in both backends says exactly how many; and the bridge node publishes the states it receives before
the start-up move is armed, which is what `BacklogBound` counts. A third one, "Received initial robot
state on %s; enabling RMP commands" (line 489 of the controller), is true of the order of the two
stores, but the first command may still be computed from the configured pose: `ReadsFindState` says
when.

## 5. The proofs

`DirectRb10Backend_proofs`. The inductive invariant `IInv` is the type invariant and: `Lifecycle`
(which thread can be where while the constructor and the destructors run), `HeldEmpty` (nothing of
a servo command before the release), `LeakCredit` (frames leaked so far plus commands still under
way are at most three, or two once the slot was cleared) and `FreshAfterRewrite` (which filter the buffer can
show). None of the properties is inductive alone: `LeakBound` needs the credit, the credit needs the
life cycle, `HaltIsFinal` needs that the servo thread is done when the sequence is sent. One lemma
per conjunct shows that each action preserves it; `Invariance` combines them, and the theorems
follow from it. `BackendImplementsGate` maps every step to a step or a stutter of `CommandGate`.
All of them hold under `ConfigAssumption` alone: every configuration.

`ControlLoop_proofs`. `IInv` adds `StandbyCredit` (no command pending beyond the one whose cycle passed
the gate), `GoalOrder` (where the box and the flags can stand against each other while a callback or
a synchronisation is under way) and `Remembered` (without the gate both checks are made, so
the measured pose of a cycle that does not hold is safe, and what is about to be recorded is near it).
`GuardedPose` is the lemma on the guard: guarding two poses gives a pose within a step of the first.
Proved for any joints, angles, set of safe poses and step.
`ExternalGoalIsKept` is the property `ExternalGoalStays` of whole cycles; beside the invariant it needs
that `Kept`, an external goal in the box and no synchronisation about to write it, is never lost.

`Rb10SocketClient_proofs`. `IInv` is the type invariant and: `Lifecycle` (which threads exist while
the caller opens, serves and leaves), `Paced` (two unreleased frames imply that the flag is up or is
about to be found up), `ClosedInOrder` (a thread inside `set_disconnected()` is past the store to
`connected_`, so a closed socket has a lowered flag behind it) and `LeftInOrder` (what the caller has
shut and joined when it returns). `PacingBound` needs the life cycle because the flag is only raised
while the session serves; `NothingLeftBehind` needs that the joined threads have left
`set_disconnected()`. The model has no parameter besides the two channels, so the theorems say what
the runs say, for behaviours of any length and by an argument a reader can follow.

`DirectBridgeNode_proofs`. `IInv` adds to the types: what the thread counters say of each other
(no data thread before the connection, no command callback before the constructor has ended), that
the leak counter is at most what the callback under way can add, that the buffer holds a state once
readiness is announced, and that the outdated commands executed plus those waiting
plus the cycle under way are within the bound. `BridgeImplementsGate` maps every step to a step or a
stutter of `CommandGate`. `KeepLastKeepsQueue` and `TailKeepsQueue` are the two facts about topics.

`GoalBridge_proofs`. The conjunction of types, `ForwardingIsJustified` and `TargetsHaveGoals` is
inductive as it stands. (`TargetsHaveGoals`, that no command is forwarded before a goal, is proved
as `CommandsFollowAGoal` and no run repeats it.) The proof goes through every action once per conjunct; it needs that what a
topic delivers is a goal, which the types of the queues give.

`ObstacleFeed_proofs`. Types, `InputsMatchEnabled`, `NothingOldComesBack` and `ClearedMeansEmpty`
together with `NothingGotThrough` (before the first match, and without a restart, no list is out) are
inductive: the second and third support each other in a parameter step, and the last one
needs that a topic which drops its oldest list keeps the newest (`KeepLastKeepsQueue`) and that
taking a list moves the newest one no further than the box (`TailKeepsQueue`).

`RmpGraph_proofs`. `IInv` is: the order is a sequence of names, the graph is one of `Graphs`
(`OrderIsPlain`), `OrderSound`, no node of a knot is ever placed (`KnotsWait`: a set of nodes that all
have a parent among themselves stays out of the order), what the loop counts is what it means
(`LoopCounts`: the indegree of a node is the number of its edges to nodes not yet placed, and the
ready list is the names not yet placed whose count is 0) and `RefusesCyclesOnly`. The heart is
`EndOrder`: if the list is empty and names are left, those that are left all have an open edge and
are a knot; if nothing is left, there was no knot, because its nodes would still wait. It holds for
every list of nodes of any length, and for all three readers at once. `OrdersAreSound` and
`OnlyCyclesAreRefused` follow.

`SizesInv` continues it to the sizes, for `RegularGraphsAreSolved`. The inference of controller, solver and adapter,
the residual check and `solve()` itself each compute sizes, by walks that start anew. What ties them together:
over a sound order the equations between a node and its parents have one solution
(`SolutionsAgree`), so it is enough that each walk has solved them on the prefix it has reached
(`SizesInferred`, `SolverSizes`, `CacheFollows`); the number of nodes never enters. On a regular
graph the vectors in the cache have the sizes of `node_dims`, all but the distances. From that a parent is never
missing, and each throw of `solve()` contradicts one conjunct of `Regular`. Looking for this proof
showed that an earlier `Regular` was too weak: with other numbers of control points than the run had,
TLC found a cycle that fails on the distances. The definition was corrected and the run now has a number
that shows it. `ControllerAgreesWithSolver` follows from the same invariant.

`LoopsTakeBoundedTurns` is the part of `LoopsEnd` that is not fairness: `TurnsLeft`, a natural number
computed from what is still to be read, sorted, inferred and evaluated, decreases with every step of a
reader or of `solve()`, and while a loop has not ended it has a next turn.

`JointPath_proofs`. `JointsInPlace` rests on lemmas about the lookups: the first index of a name
(`FirstIndex`), what is found by name and by order (`ByName`, `ByOrder`), that the adapter's message
is a sample of one pose under the target's names (`AdapterOrders`), and that controller and marker
read such a sample (`ControllerReads`, `MarkerReadsSamples`). They hold for any number of joints and
all layouts that satisfy `LayoutsAssumption`. `GoalsOrigin` carries `HasOrigin` along the topic,
`OperatorsGoal` is the action property.

### 5.1 What liveness rests on

A liveness property needs fairness, which is out of the prover's reach, but most of what can go wrong with it
is safety: a thread that sleeps through its notification, a join of a thread that cannot move, a
loop that starts over, a message that takes back what the last one brought. These parts are proved
for all constants, as a variant (a number that the steps in question lower and no other step raises),
an invariant that the next step is there, or both:

| liveness property | what is proved of it | theorems |
|---|---|---|
| `ShutdownCompletes` of the backend | the thread that the owner joins exists, is awake and cannot start over; its steps run out (`StepsToJoin`) | `JoinedThreadsCanEnd`, `JoinsRunOutTheorem` |
| `SlotDrains` | the servo thread sleeps only on an empty slot and without an order to stop, or a notification is due | `NoWakeupIsLost` |
| `DisconnectReturns` | `running_` is down and both sockets are shut before the join; each reader has returned or can step, whatever the peer does; its steps run out (`ReaderSteps`) | `JoinedReadersCanMove`, `ReadersRunOutTheorem` |
| `ShutdownCompletes` of the bridge node | after the signal the steps of constructor, executor, destructor and data thread run out (`StepsLeft`); the joined thread can go on | `ShutdownRunsOutTheorem`, `JoinedDataThreadMoves` |
| `GoalArrives`, `StopsForGood` | deliveries run out while the operator is silent (`Undelivered`); with nothing on its way the last flag and the last goal are followed | `DeliveriesRunOutTheorem`, `LastOrdersAreFollowed` |
| `RepublishesTargetQ` | then the commands towards an earlier goal run out, none is added, and what comes out after the delay is the last goal | `TargetsFollowTheGoal` |
| `NearIsSeen` | the lists without the sensor run out, none is added, the boxes take it over and keep it | `NearIsNeverLost` |
| `InactiveClears` | a bridge whose DELETEALL was received, or the first one, has the empty list on its way or in both boxes once it counts the obstacles as cleared | `ClearingReachesTheList` |
| `MarkerWins`, `LockFollowsRobot` | goals other than the marker's run out, none is added, the controller keeps the marker's; the lock gives the marker the orientation of the robot's pose | `MarkersGoalIsNeverLost`, `LockHoldsOrientation` |
| `LoopsEnd` | turns run out, and there is one until the loop has ended | `LoopsTakeBoundedTurns` |

What is left to TLC is that fair threads take the steps that are there. `LastOrdersAreFollowed` needs the
longest argument: flag and goal go to bridge and controller on separate ways, the bridge forwards
the goal only while active, and a restarted controller knows neither. `FlagsAgree` and `GoalsAgree`
compare the newest message of each topic (or, if it is empty, what its reader remembers) with what the operator
sent last, which a topic that drops its oldest message preserves.

`HomeGateOpens`, `SessionStaysAlive` and the bridge node's `ControllerHears` have no such part: they are
about the clock, the peer and the network going on.

### 5.2 Beside the runs

The theorems of 5.1 are about definitions of the proof modules, which no run of the project repeats; so are five others:
`GoalComesFirst` (with the gate no command before an external goal), `CommandsFollowAGoal` (the same
for what the bridge forwards), `ClosedAfterTheFlag` (a closed socket has a lowered `connected_`
behind it), `SizesAreInductive` and `ControllerAgreesWithSolver` (above). Every invariant and every
action property of a passing run is a theorem.

Only model-checked: the liveness properties themselves and the counterexamples.

## 6. Not modelled, and why

- **Numerics**: kinematics, metrics, forces, the solver's linear algebra, the velocity filter (sample
  windows and ratios of floating-point times; the backend keeps which window a velocity is from) and
  the learning stack (a small network, its gradients and training).
- **Pure output**: visualization of the controller, ToF ray visualizer, debug and metric publishers,
  the bytes of a packet.
- **Libraries**: the inside of `realtime_tools`. The visualization timer reads a `RealtimeBuffer` that
  is made for one reader; that it holds the mutex is in `DirectBridgeNode`, the pointer that its read
  swaps is not.
- **Obstacle manager**: it is started instead of the proximity bridge, one thread with one map that it
  publishes whole; the controller's side of its topic is in `ObstacleFeed`.
- **API bridge and vendor API**: a second implementation of the path of `DirectBridgeNode`, in Python,
  over the vendor's library.
- **Scripts, launch files, configuration**: experiment runner, recorder and tuning scenario drive the
  stack from outside; analysis and plotting are offline; of the configuration only values are used.
- **Simulation backend**: keeps a state buffer only.

## 7. What could come next

In this order: the direct backend over an abstract promise of the socket client, as a composition;
the API bridge beside `DirectBridgeNode`; the state machines of the experiment scripts; the obstacle
manager; the windows of the velocity filter.
