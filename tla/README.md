# Verification of the VR-enabled digital twin

TLA+ models of the ROS side of the digital twin: a Sagittarius SGR532 arm
teleoperated from Unity, whose motion is recorded into slots and replayed, and
the programs that sort coloured objects and hand over candy with the same arm.
Paths below are short for `src/src/unity_vr_control/scripts/` (`U/`),
`src/src/sdk_sagittarius_arm/src/` (`S/`), `src/src/ROS-TCP-Endpoint/src/ros_tcp_endpoint/`
(`E/`), `src/src/sagittarius_perception/sagittarius_object_color_detector/nodes/` (`P/`)
and `src/src/sagittarius_moveit/` (`M/`).

## 1. The system

    Unity --TCP--> ROS-TCP endpoint --vr_target_pose--> IK solver --ik_goal_cmd--+
      |                                                                          v
      +--services--> dashboard_controller --bag_control--> arm_bag_recorder ("MUX")
                          ^------------- bag_status -----------/   |        |
                          (both delete and read slot files)   rosbag child  | FollowJointTrajectory
                                                                            v
                     colour detection, pick and place, planner, ... --> arm driver --serial--> arm

| Component | Source | State it keeps | Operations | What makes it correct |
|---|---|---|---|---|
| Multiplexer (MUX) | `U/arm_bag_recorder.py` | `_state`, `_active_slot`, `_proc`, `_last_ee_pose`, CSV attributes, slot files, latched status | RECORD, PLAY, STOP, CLEAR; 10 Hz timer; teleop, replay and encoder callbacks; shutdown hook | one rosbag child; the status tells the truth; one owner of the arm; the newest recording is played; files in use stay; commands end |
| Dashboard | `U/dashboard_controller.py` | mirror of the status, time of the last command | four services, status callback | every request answered; the mirror converges; confirmations and finish events are true |
| Driver, trajectory servers | `S/sdk_sagittarius_arm_real.cpp` | goal points, start time, `execute_*_traj`, static counters | action callbacks, two timers, preempt | a goal is answered once; success means executed; a preempted goal does not move the arm on |
| Driver, serial link | `S/sdk_sagittarius_arm_common.cpp`, `_serial.cpp`, `_real.cpp` | receive buffer, last frame sent of each function, servo state, torque switch | receive thread: append, parse, dispatch; start-up, joint commands, torque, servo service | the buffer stays in bounds and recovers after a loss; an answer is that to the request; the arm is where it was last sent |
| TCP endpoint | `E/*.py` | tables of publishers, subscribers and services, sender queue, `srv_lock`, `pending_srv_id` | accept, read, send, call a service, register | responses reach their caller; a sender ends with its connection; nobody waits for ever; the tables say what ROS knows |
| Teleop IK | `U/light_ik_solver.py`, `clean_ik_solver.py`, `unity_vr_goal_listener.py` | last pose, current joints | pose callback, homing | the start of a goal is where the arm is |
| Teach/repeat | `U/teach_repeat_executor.py` | waypoints | teach, repeat with three tries | order of the waypoints, bounded retries |
| Pick and place server | `P/sgr_ctrl.py` | the goal, its preempt request, MoveIt groups | execute, movement by movement | one answer per goal, and a true one; a cancel stops the arm |
| Colour clients | `P/color_classification.py`, `_fixed.py`, `P/grasp_once.py` | detections and their counts, drop positions | images, goals in sequence | no grasp at a stale position; nothing is put down that was not caught |
| Camera bridge | `P/../scripts/cam_bridge.py`, `P/cam_bridge_receiver.py` | socket buffer | frames | framing |
| Planner | `M/planner.py`, `M/WebServer/` | request queue, mode, targets of the arm | HTTP requests, pick and hand-over cycle | requests are handled, Stop stops, sliders add up, no empty hand-over |

The dashboard talks to the MUX by two topics and by the slot files both of them
touch. The MUX talks to the driver by actionlib. Teleoperation reaches the arm
only through the MUX. The colour clients talk to the pick and place server by
actionlib, and it and the planner to the driver through MoveIt.

What is hard here is concurrency. In the MUX, six threads meet: commands hold
`_state_lock` through a wait for a child of up to 10 s, a peek of up to 8 s and
pre-positioning of up to 5 s,
replay callbacks work partly without the lock, encoder callbacks and the
shutdown hook without it altogether. In the driver, an action thread and a timer
share a trajectory with no lock at all, and the receive thread and the callbacks a servo state. In the endpoint all connections share tables that no lock guards. Between dashboard and MUX, decisions are
made on a mirror that lags and whose messages may be dropped. The colour clients
act on images taken while the arm moved, and the planner on a look at its
fingers that is older than the requests handled since.
`PROJECT.json` lists each hazard at its line with the properties that cover it. Where the code does go
wrong in the way a hazard describes, the property excepts that case, mostly by a history variable of its own, and
says that there is no other; the hazard's note says what is left uncovered, and section 3 describes the case.

## 2. The modules

| Module | What it is | Proofs |
|---|---|---|
| `ArmMux` | the abstract specification: what the MUX promises to those who see its status and its files | |
| `BagRecorder` | the MUX: commands, timer, callbacks, children, shutdown | `MuxProofs` |
| `CaptureLog` | the joint-angle CSV of the MUX, attribute access by attribute access | `CaptureLogProofs` |
| `Dashboard`, `MuxSystem` | the dashboard; its composition with `BagRecorder` | `MuxProofs` |
| `ActionServer` | the abstract specification of an action server: what its clients see of their goals | |
| `TrajectoryServer` | the driver's joint and gripper action servers | `TrajectoryServerProofs` |
| `SerialLink` | the driver's serial side: parser, receive thread, commands, servo service | `SerialLinkProofs` |
| `Endpoint` | the TCP endpoint: reader and sender threads, service calls both ways | `EndpointProofs` |
| `Registry` | the endpoint's tables: registration, and the messages and calls that use what is registered | `RegistryProofs` |
| `GraspServer` | the pick and place action server, its goals cancelled at any moment | |
| `ColorClients` | `GraspServer` composed with each of the three programs that use it | `ColorClientsProofs` |
| `Planner` | the planner's request queue, modes and cycle | `PlannerProofs` |
| `MCBagRecorder`, `MCMuxSystem` | sets of slots and handlers for TLC | |

### BagRecorder

Variables have the names of the attributes (`state`, `activeSlot`, `proc`,
`capture`, `lastPose`); `status` is the latched message; `bag` and `act` are
`slot_N.bag` and `slot_N.bag.active`, each with the number of the recording in it; `live` are
the running rosbag children, `sig` those that were sent SIGINT. `ctl` is the
control thread. A command holds `_state_lock` from beginning to end, but it waits
inside: so it is a sequence of actions under `ctl.pc`,

    stopping -> spawn                                RECORD
    stopping -> peek -> peeking -> moving -> launch  PLAY
    stopping                                         STOP

with the ways out that exceptions and failed peeks take (`StopRaises`,
`RecordSpawnFails`, `PeekAborts`, `PrePositionInterrupted`, `LaunchFails`). A
callback that takes the lock and does not wait inside is one action guarded by
`LockFree`. What runs without the lock has no such guard: sending a joint goal
(`JsSend`), the deadband (`EeDeadband`), the hook (`HookSignal`, `HookReap`, `HookRaises`).

Each child may exit, crash, obey SIGINT or ignore it at any time. The driver is
only `GoalDone`: a goal may end at any time. Where a wait has a timeout, the
timeout may win at any time. `latest` is a history variable.

Assumptions: the `rosbag` wrapper and the process behind it are one child, so a
kill takes both; commands come from one publisher, in order, and one callback
thread serves each connection, as rospy does; a timer tick or a callback may
still run during shutdown, a new command may not.

### CaptureLog

`_start_capture`, `_stop_capture` with `_trim_capture`, and `_real_js_callback`,
split at every attribute access and file operation. `BagRecorder` sees all of this as its one
variable `capture`. A row is its time. The encoder callback does not span two
captures: a peek and pre-positioning, seconds long, lie between them.

### Dashboard and MuxSystem

`handler` holds each service thread: what it read, what it sent, what it waits
for. `control` and `wire` are the topics. `/sgr532/bag_control` is a queue; the status
publisher has `queue_size=1`, so `Emit` may replace the last message not yet sent.
The 1 s window after a command is `recent`, which can end at any time. Status
messages carry two fields the code's do not, for the properties only: the session they are
about and what ended it.
`MuxQuiet` is the union of `BagRecorder`'s actions that publish nothing, `MuxStep` of all but the commands.
In the composition `MaxPending = 0` and teleop is left out: the goals are the
matter of `BagRecorder` alone.

### TrajectoryServer

One module for three players: the joint server, the same with
`servo_control_trajectory`, the gripper server; `player` is chosen in `Init`. The
action thread and the timer callback are cut where the other one can come
between: entering, reading the size, looking at the point, sending, finishing.
`SendGoal`, `CancelAll` and `Accept` are actionlib's `SimpleActionServer`, external; its
callbacks run on the thread of `ros::spin()`, like the timer, and so never
inside a timer call. Time is `due`: how many points of the trajectory should have been passed.
`Status` is what a client sees of a goal, `Asked` the goals it has been told to stop: with them the module
implements `ActionServer`. Points read where there are none, or while they are copied, may give any answer
or crash the node; the gripper's `.at()` throws.

Left out: the warning on a wrong start state, the torque switch (a point counts
as sent when it is handed to `arm_set_joint_positions`), and the contents of
points. A copied message is seen point by point for the joint server; the
gripper's assignment of the whole message is one step.

### Endpoint

For each connection: what Unity has sent (`inbox`), the reader thread with the
point of `ClientThread.run` it is at, `halt_event`, the sender thread and its local
queue. `queue`, `pendingId` and `waiting` are the server's, shared by all. A
service message is two, as on the wire, a read gives a whole message or the end of the stream (`GotMessage`,
`EndOfStream`: the bytes between are the loop of `recvall`), and the reader handles each in the steps
in which another reader can come between: the pending id is tested, used and
cleared separately. A connection may break at any time and lose any end of what was on its way. Unity is
external: it calls and answers. Topic messages and registrations are the matter of `Registry`, log lines are
left out, messages are a kind and an id, and the three attempts at a ROS service are one step.

### Registry

A place is a table and a name; what stands in it is the number of a communicator
(`RosPublisher`, `RosSubscriber`, `RosService`, `UnityService`), counted from 1 as they are made.
`live` is what is registered in ROS. A registration is three steps, as `SysCommands` takes them:
look the old one up and unregister it, make the new one, store it; a message is looked up,
deserialized into the one message object of its publisher, and published; a service call has a
thread of its own and one request object for all calls. Other readers may run between any two steps.
`met` and `raced` are history: who has been at a name at once with another, and which names two
have registered at once. Data that cannot be read, blank names and unknown classes are left
out. ROS is as `rospy` has it: publishing on an unregistered publisher raises, so does a second service of a name.

### SerialLink

Two threads: `main`, the callbacks on `ros::spin()`, and `rx`, the receive
thread. Bytes are kept as far as the parser tells them apart: a frame is four
cells (head, length, body, checksum with tail), and the line may swallow any one
of them. A read returns any part of what has come, `Headed` and `Complete` are
choices where a byte out of place decides: data or a checksum may happen to be 0x55, a length is never that long. An answer of the servos is stored
field by field, the flag last, while the service polls the flag and copies field by
field. A command equal to the last frame of its function is not written; a write
may fail; the arm may be freed and moved by hand. `traffic` splits the behaviours
into those that look at commands and those that look at frames coming in: the
two share only the device and the turns of the main thread, and `Init` chooses.

Left out: speed, acceleration and torque settings and the gripper's frame (sent
and not answered), the destructor, and the driver's action thread reading `joint_states` without a lock. A device opened with a
baud rate it cannot set keeps its number and is modelled as closed.

### GraspServer and ColorClients

`exec` is where `execute()` stands and at which of the movements of the goal's kind, `job` the
goal as actionlib sees it: a terminal status, once given, stays, and later calls
only log. Every movement may find no plan, stop anywhere or raise. A pose is the
place it belongs to. A goal may have the fingers open or close first; the three programs only ask for open.

In `ColorClients`, one of three programs is chosen in `Init`; `cli.pc` is the goal it
is about to send or has sent, or `look`. Images come at any moment, on a thread
of their own. The camera is on the arm, so a position in an image is the place it
was seen from: "within 10 pixels" becomes "seen from the same place", and
nothing keeps its position while the arm moves. `None`, the colour of an area without one,
is a name among the drop positions, as in the code.

### Planner

`main.pc` is where the main thread stands in the cycle; the deque is looked at
between cycles and in the two waiting loops, and `main.back` is where `handleQueue`
returns to. `target` is the state of the move group that every slider changes
at one joint, reached or not. A movement is one action, since nothing else happens
to the arm during it; it may fail, which nobody notices.

## 3. What is checked

All runs finish; the numbers are distinct states. "2 slots" are enough because
commands and files of slots other than the one recorded, played or cleared are
not distinguished. Three commands are one to have something running or recorded, one to
replace it and one more to be disturbed by what the first left behind. Every
bound (`MaxCmds`, `MaxPending`, `MaxRequests`, `MaxWire`, `MaxSessions`,
`MaxRows`, `MaxGoals`, `MaxConns`, `MaxServices`, `MaxJobs`, `MaxFrames`, `MaxStream`, `MaxPosts`)
is a guard on the environment or on a history and never stops the code's own steps;
in `TrajectoryServer` the never-ending copy stops growing at the size of the goal.

| Run | Instance | States | Shows |
|---|---|---|---|
| `mux_joints` | joints mode, 2 slots, 3 commands, shutdown | 410 020 | `OneChild`, `StatusTellsChild`, `TeleopBlocked`, `PlayNewest`, `CaptureOfPlayback`, `NoUnlinkInUse`, `QuietShutdownReaps`, refinement of `ArmMux` |
| `mux_ee` | ee mode, 3 commands, 2 messages of a player waiting, fair; no deadlock | 728 023 | the IK callback re-checks: `RecordsLiveOnly`; `FairlyImplementsArmMux`: `ArmMux` with its promise that a playback ends by itself |
| `capture` | 2 captures of at most 4 rows, 1 row trimmed, shutdown | 15 195 | `TrimmedOnce` (the header first, shutdown included), `ClosedIsFinal` |
| `dashboard` | 2 handlers, 2 requests, 2 commands, 1 slot, shutdown of the MUX, fair | 390 405 | `FinishedOnceAndOver`, `StopConfirmedIsStopped`, `MirrorConverges`, `RequestsAnswered`, `CommandsServed` |
| `driver` | 3 players, 2 goals of 1, 2, 3 or 5 points, a "byte" of 4 values, fair | 145 798 | `SuccessComplete`, `StraysNeedPreempt`, `GoalsAnswered`, refinement of `ActionServer` |
| `serial` | 4 frames, one cell of each may be lost, 2 servo requests, 2 poses, a limit of 5 cells | 4 547 128 | `TypeOK` (the buffer), `Recovers`, `AnswerMatches`, `CommandStands` |
| `endpoint` | 2 connections, overlapping or not, 2 services in either direction, fair | 569 106 | `QueueOfLastSender`, `ResponsesMatch`, `BothThreadsEnd`, `CallsEnd` |
| `registry` | 3 connections, 1 name in each table, 4 registrations, messages or calls | 352 042 | `TablesTellRos`, `RaisesOnlyIfMet`, `AnswersOwn` |
| `pick` | 3 programs, 2 colours, found after 1 image more than `Frames` = 1, any number of goals, fair | 2 330 680 | `CancelStopsSoon`, `PutFollowsGrasp`, `SeenWhileLooking`, `GoalsEnd` |
| `planner` | 2 joints, 3 requests, any number of cycles, fair | 85 549 | `CarriesCandy`, `StopEndsCycle`, `SlidersAddUp`, `RequestsHandled` |

In `serial` two frames fill the buffer beyond its limit, so that overflow, loss and a
frame cut into reads all meet; in `pick` two colours let one be found while the
other is in sight, and `Frames` = 1 tells a first image from a repeated one. Three
requests of the planner are one to start the cycle, one to meddle and one to stop.

In `registry` two connections can be at a name while a third uses it, and four jobs let a name be
registered, registered twice at once and then used. The slot of `dashboard` is one because
handlers of two slots meet only at the MUX, whose own runs have two. Its liveness is
"at last for good" (`<>[]`), and of the MUX it asks nothing once a shutdown has begun;
`mux_ee`, whose matter is the callback, is without one.
With a byte of 4 values, goals of 5 points are those of more than 255. Where
runs have `CHECK_DEADLOCK FALSE` the system really stops: the node has shut
down, the requests are used up or the driver has crashed.

### Fairness

* `BagRecorder`: weak fairness of the control thread's steps (each wait
  inside a command has a timeout), of the timer (`rospy.Timer`, 10 Hz) and of
  players coming to their end (bags are finite). None for commands, teleop, replay callbacks or the driver.
* `MuxSystem`: the same, and messages arrive, handlers run and the MUX receives.
  Handlers have timeouts of 2, 5 and 12 s.
* `TrajectoryServer`: both threads run and time passes. None for clients.
* `Endpoint`: all threads run, and Unity answers while connected. None for connections, calls and ROS services.
* `ColorClients`: weak fairness of `execute()` as a whole: MoveIt's calls and the
  servo service return. None for clients or images.
* `Planner`: weak fairness of the main thread: MoveIt's calls return. None for requests, and nobody has to take the candy.

### Disagreements with the code's own words

Each is a run that TLC refutes; `PROJECT.json` quotes the lines.

* `bug_stale_goal_ee`: a message of a stopped player, waiting for the lock
  through the next PLAY, is taken for one of the new playback and its goal is
  sent ("STOP may have cancelled all goals — never send after it").
* `bug_false_grasp`: a pick that is cancelled, or during which MoveIt raises, is
  answered with result 0, and 0 is SUCCESS: the clients go on to put down
  nothing ("grasp success, next", `P/color_classification.py:183`).

Seen while modelling, described here without a run of their own:

* Joints mode sends its replay goal after giving the lock back; the issue list
  says so itself (`src/docs/RECORDING_PIPELINE_KNOWN_ISSUES.md:131`).
  `RecordsLiveOnly` is therefore a property of ee mode.
* `_last_ee_pose` is reset under the lock but written without: a new playback may
  drop its first pose because of the last one of the old.
* PLAY chooses its path before the stop: for the slot being recorded this is
  `.bag.active`, which the stop renames.
* The hook and the lock's owner can both be in `_stop_capture`; the second then
  trims a file already trimmed. `TrimmedOnce` and `ClosedIsFinal` hold up to a shutdown.
* A shutdown in the middle of a RECORD or PLAY finds no child; the command then
  starts one that outlives the node (`U/arm_bag_recorder.py:161`). `QuietShutdownReaps` is
  about shutdowns outside of commands for this reason.
* The `rosbag` wrapper is killed with SIGKILL when it does not stop; the process
  behind it would not be (`U/arm_bag_recorder.py:154`). The model takes the two for one.
* The dashboard takes IDLE during pre-positioning for "free", and its last status
  for the truth after the MUX has died: the mirror is never reset (`U/dashboard_controller.py:52`).
* A STOP that takes more than 1 s looks like the natural end of a playback
  (`U/dashboard_controller.py:77`); `FinishedOnceAndOver` does not tell the two apart.
* The dashboard's clear unlinks a slot whose recording or playback began after
  it looked (`U/dashboard_controller.py:238`). `NoUnlinkInUse` is about the MUX alone.
* A STOP names no slot: sent to stop or clear one slot, it may arrive when another
  one's activity has begun, and stops that. The comment at
  `U/dashboard_controller.py:222-224` wants this never to happen.
* Endpoint: an answer that arrives before its caller waits wakes nobody
  (`E/thread_pauser.py:11` waits without a look at the result and without a timeout), and a connection that
  breaks leaves its callers waiting for ever. `CallsEnd` excepts both by name.
* Endpoint: the pending id is the server's, not the connection's. Cut between the
  two parts of a service message, or while handling it raises, it stays
  pending, and the first message of the next connection is taken for the missing part: at worst
  this raises again and closes that connection too. `ResponsesMatch` excludes
  this by its history variable `exposed`.
* Endpoint: when the newer of two connections ends the queue is `None`, and the older one is
  sent nothing any more.
* Driver: timers are made with `ros::Duration(1/100)`, an integer division, so
  their period is 0 and not 10 ms. The model assumes no period.
* Driver: the timer's counter is only reset when the timer sees no trajectory.
  A goal preempted and followed by another between two ticks leaves the counter
  where it was, maybe past the end of the new points: then the goal may be
  skipped, be partly sent, or the node crash. What `SuccessComplete` says of completeness, and
  `GoalsAnswered`, is about goals started after the timer had seen the server idle
  for this reason; `begun` remembers it. That points come in order is said of every goal.
* Driver: with 256 points or more the copying loop, which counts in a `uint8_t`,
  does not end. `GoalsAnswered` excepts such goals.
* Driver: a goal of one point, such as the homing of the teleop node, is answered as
  succeeded (`INVALID_GOAL`) and not executed (`S/sdk_sagittarius_arm_real.cpp:448`); the teleop node
  takes the home pose for its position all the same. It also starts the next trajectory at the last one commanded, whether or
  not the MUX let it through (`U/light_ik_solver.py:188`).
* Endpoint: an exception other than `ServiceException` is retried without being counted (`E/service.py:63`).
* Endpoint: two connections that subscribe to a topic at once leave a subscriber in ROS that is in no table
  (`E/server.py:154-159`): nobody can unregister it, and every message goes to Unity twice. `TablesTellRos` excepts
  names in `raced`, which is exactly this.
* Endpoint: a publisher that another connection replaces between lookup and use raises a `ROSException`, which is no
  `IOError` and ends the connection (`E/client.py:225`). So does a service that two register at once.
* Endpoint: overlapping calls of one ROS service, on one connection even, share a request object and may all send the
  last request (`E/service.py:52`). `AnswersOwn` is about calls that do not overlap.
* Endpoint: an unknown system command raises in `getattr`, so that "Don't understand" (`E/server.py:113`) is never sent.
* Serial link: the servo service does not compare the id of an answer. One that
  comes after its request has timed out is taken for the answer to the next, or
  mixed with it; the grasp check of a later pick can rest on it. `AnswerMatches` says "no
  earlier request has timed out" for this reason. While it polls, up to 1 s, it
  keeps `ros::spin()` from everything else.
* Serial link: a command counts as sent although its write failed or torque was
  off at the arm, and the same command again is then dropped; so is the
  same pose after the arm was moved by hand with its servos free, and in rviz mode after
  the other function has sent it elsewhere. `CommandStands` excludes what `void` remembers, which is exactly this.
* Pick and place: a movement without a plan is skipped and the rest of the goal goes
  on; the result of the movement is not looked at.
* Colour clients: `_fixed` forgets what it found before it moves to the search
  pose, so that it may find an object from a pose it has left; `grasp_once`
  counts its own rounds and not images, and picks at (0, 0) when there was never an object. `SeenWhileLooking`
  is therefore about `color_classification.py`. A search goal that fails and the
  result of a put are ignored. Two areas of the same colour overwrite each other, which leaves a colour without a
  place and ends the program with a `KeyError`.
* Planner: a gripper request in the queue can drop the candy after the look at the
  fingers, which `CarriesCandy` excepts; a slider past a joint's limit raises and ends the program; requests
  behind an Exit are lost.

## 4. What is proved

Eight modules of proofs. Every theorem holds for all values of the constants,
the bounds included, and assumes only the named `ASSUME`s of the module it is about:
the "none" values are not members of the sets they stand beside, the bounds are naturals, sets of goal sizes and
joints are not empty, the parser's limit is longer than a frame.

| Theorem | Property |
|---|---|
| `MuxProofs!TypeCorrect` | `TypeOK` |
| `MuxInvariant` | `MuxInv`, not a property of a run |
| `OneChildAlways` | `OneChild` |
| `StatusIsTrue` | `StatusTellsChild` |
| `TeleopIsBlocked` | `TeleopBlocked` |
| `EeRecordsLive` | `RecordsLiveOnly`, in ee mode |
| `PlaysNewest` | `PlayNewest` |
| `CaptureIsOfPlayback` | `CaptureOfPlayback` |
| `NeverUnlinkedInUse` | `NoUnlinkInUse` |
| `QuietShutdownAlwaysReaps` | `QuietShutdownReaps` |
| `MuxImplementsArmMux` | `ImplementsArmMux`: each step maps to a step of `ArmMux` or to a stutter |
| `FinishedIsOnceAndOver` | `FinishedOnceAndOver` |
| `ConfirmedStopIsStopped` | `StopConfirmedIsStopped` |
| `CaptureLogProofs!CaptureTypes` | `TypeOK` |
| `AlwaysTrimmedOnce` | `TrimmedOnce` |
| `AlwaysClosedIsFinal` | `ClosedIsFinal` |
| `TrajectoryServerProofs!ServerTypes` | `TypeOK` |
| `ServerImplementsActionServer` | `ImplementsActionServer`: each step maps to a step of `ActionServer` or to a stutter |
| `AlwaysSuccessComplete` | `SuccessComplete`: order for every goal, completeness for those begun at rest |
| `StraysAlwaysNeedPreempt` | `StraysNeedPreempt` |
| `SerialLinkProofs!LinkTypes` | `TypeOK`, with the bound of the buffer |
| `CommandAlwaysStands` | `CommandStands` |
| `AnswersAlwaysMatch` | `AnswerMatches` |
| `AlwaysRecovers` | `Recovers` |
| `EndpointProofs!EndpointTypes` | `TypeOK` |
| `QueueIsOfLastSender` | `QueueOfLastSender` |
| `HandshakeIsFirst` | `HandshakeFirst`, not a property of a run |
| `ResponsesAlwaysMatch` | `ResponsesMatch` |
| `RegistryProofs!RegistryTypes` | `TypeOK` |
| `TablesAlwaysTellRos` | `TablesTellRos` |
| `ConnectionsRaiseOnlyIfMet` | `RaisesOnlyIfMet` |
| `AlwaysAnswersOwn` | `AnswersOwn` |
| `AlwaysPublishesOwn` | `PublishesOwn`, not a property of a run |
| `AlwaysPassedOnce` | `PassedOnce`, not a property of a run |
| `ColorClientsProofs!ClientTypes` | `TypeOK` |
| `CancelAlwaysStopsSoon` | `CancelStopsSoon` |
| `PutAlwaysFollowsGrasp` | `PutFollowsGrasp` |
| `AlwaysSeenWhileLooking` | `SeenWhileLooking` |
| `PlannerProofs!PlannerTypes` | `TypeOK` |
| `SlidersAlwaysAddUp` | `SlidersAddUp` |
| `StopAlwaysEndsCycle` | `StopEndsCycle` |
| `AlwaysCarriesCandy` | `CarriesCandy` |

The properties are seldom inductive; the invariants that are say what the code
relies on without saying so.

**BagRecorder.** `OneChild` needs that between a stop and the
next start nothing is live, which needs that the stop waits for whatever
`_proc` was, which needs that `_proc` is the live child between commands. So
the invariant is

    MuxInv == TypeOK /\ CommandInv /\ ModeInv /\ ChildInv /\ FileInv /\ CaptureInv

* `CommandInv`: what a command in progress knows of itself (a PLAY has a slot).
* `ModeInv`: status and state agree, a busy command is IDLE, teleop goals and
  playbacks exclude each other: they wait for the same lock.
* `ChildInv`: the one child is the stop's victim, the peek player, or `proc`. The
  last holds only while the node is up, because the hook sets `proc` to None under the feet of
  a command.
* `FileInv`: a slot holds its latest recording under one name, a recorder works
  only in the slot being recorded.
* `CaptureInv`: the open CSV is that of the playback.

The lemmas `NextType`, `NextMode`, `NextChild`, `NextCapture` and `NextFile`
prove that `Next` preserves each part, one step per action.
`QuietShutdownReaps` is about a step of the hook that found the lock free, so its proof
is an invariant of what comes after it, `QuietInv`: no command begins any more, the hook waits for the one
child there can be, and when it is done none is live. For this `ChildInv` says of the time from
`on_shutdown` to the hook's first step, when state and `proc` need not agree, that no child but `proc` is live.

**MuxSystem.** The dashboard removes slot files of its own, so of `MuxInv` only the part
that does not speak of files holds, `CoreInv`; `NextCore` proves it for `BagRecorder`, whose steps those of
the system are. `OwnInv` makes it strong enough for a shutdown: beside a `proc` there is no other
child. Then two facts about session numbers are carried along the line, from the publisher to whoever has read a
message. `Sent`: a session announced is older than a command in progress. `Past`: it has no child, and never will have.
`WireInv`, `SeenInv` and `FinishInv` say that of two messages
the later names the later session, or is an IDLE and the session of the earlier is past
(`Follows`), on the line, from the mirror and from what each handler has seen to the line, and from what was
reported as finished. Dropping messages keeps this (`LineReports`), and the last step is that
an IDLE is published only when no child is left (`IdleIsTrue`).

**CaptureLog.** `CaptureInv == TypeOK /\ AttrInv /\ OpenInv /\ HeaderInv /\ RowsInv`.
`AttrInv`: the attributes are those of the last capture or None, and there is
no start time until the header is written; this is why a callback that holds a
time also finds a header (`HeaderInv`). `OpenInv`: only the last capture is open,
and whoever trims it has closed it, so no row comes between reading it back
and rewriting it. `RowsInv` holds while the node is up: the rows are the log
until the owner trims, and what `_trim_capture` computes is what `TrimmedOnce` says (`TrimmedLeft`).

**TrajectoryServer.** `AnswerInv`: neither the goal being worked on nor the one that
waits has been answered, and they are two. A preempt answers the first before
the second is accepted, and goals not sent have no answer. `LifeInv`: the goal that came last is the
last one sent, all but it and the current one are answered, an idle action thread has no goal, and one that
stops for a preempt was asked to. So `Seen` can say what a client sees of every goal, and
`AbsStep` maps each step: a new goal recalls the one that waits and asks the one at work to stop,
a preempted answer finds its goal asked. `ServerInv` adds what the action thread
and the timer share without a lock. `OrderInv`: goals are started in order, and what is sent belongs
to those started. `QuietInv`: while no goal has been preempted (`Quiet`), the timer's
counter is within the goal it plays and is zero when the server rests. `StrayInv`: only a preempt can leave a tick
behind, and at most one. `RestInv`: for a goal begun at rest the points sent are those up to the
counter (`Progress`), so the flag is down only when all have been. That the points of any goal come in order needs
two more facts. `WrapInv`: the joint server's counter does not wrap, since a goal with points enough is never done
being copied. `SentInv`: the last point sent of the goal that runs is the one before the counter, or the
counter is past the end (`LastSent`); one step sends at most one point, and what it sends goes behind it (`AppendInOrder`).

**SerialLink.** `StandInv`: a function whose last frame stands has the arm locked where that frame sent it.
The comparison with the last frame is right exactly while it stands.
The buffer's bound in `TypeOK` is inductive by itself: each of two reads is below the limit.
`AnswerMatches` is followed from the request to the reply: `OnceInv`, no frame is twice on the line or in the buffer;
`AskedInv`, without a timeout only the request that waits can still be answered; `StoreInv`, the
fields stored so far are of that answer, the flag last; `CopyInv`, what the main thread has read is
of it. `RecoverInv`: with each read of a whole frame the buffer is emptied, or grows
by that frame, so that within `Room` reads it passes the limit and is dropped.

**Endpoint.** Beside types, `OwnerInv` says that a connection not yet made has no sender, and no
thread but a sender writes the queue; `HandInv` that the handshake is at the head until
it is sent. `ResponsesMatch` rests on `IdInv` (no id is 0, which the code takes for None),
`QuietInv` and `FlowInv`: on each connection what is still to be read goes on from what was
read last, a body after its head, and the message in the reader's hands carries the pending id.

**Registry.** `IndInv` is seven facts about a name. `FreshInv`: a new communicator has a number nobody
holds. `OwnInv`: what a reader has made is its own, and in ROS, until it is stored; what it has taken out stays out. `MetInv`:
two at a name have met, two registering it have raced. `DeadInv`: an entry that is out of ROS has somebody
about to replace it. `QuietInv`: of a name never raced ROS knows what is in the table, or what the
one registration in progress has got to. `UnityInv`: of a service offered by Unity there is one, since ROS refuses
another. `AloneInv`: who has met nobody works on what is in the table and in ROS, and the message object holds its
message. `RaisesOnlyIfMet` and `PublishesOwn` are then about single steps (`RaiseFacts`); `AnswersOwn`
rests on `CallInv`, that a call alone with its request object finds its own request there.

**ColorClients.** `ServesInv` and `WaitsInv` tie the client's wait to the server's goal;
`AfterInv` counts the movements since a cancel by the place in `execute()`; `HeldInv` says
that a pick that got past its check holds an object; `LookInv` that, while colour classification looks, the arm
stands where it began to. `PickInv` is all of them with the types and the rounds of `grasp_once`.

**Planner.** `TargetInv`: the move group's target is what was asked for last, reached or not. `LateInv`
bounds the movements since Stop by the place in the cycle. `CandyInv` follows the
candy from the grip to the hand-over with what the look at the fingers remembers.

Only model-checked: all liveness, which is beyond the prover: `FairlyImplementsArmMux`, `MirrorConverges`,
`RequestsAnswered`, `CommandsServed`, `GoalsAnswered`, `BothThreadsEnd`, `CallsEnd`, `GoalsEnd` and `RequestsHandled`.

## 5. Not modelled

* Image processing, inverse kinematics and motion planning: real arithmetic and external services.
* The teleoperation nodes (`U/light_ik_solver.py`, `clean_ik_solver.py`,
  `unity_vr_goal_listener.py`): `BagRecorder` takes their goals as input; the pose filter is
  arithmetic. Their one stale value is described in section 3.
* Teach and repeat, and the camera bridge: planned, below.
* Of the planner, the functions of the MoveIt tutorial that nothing calls, requests that only
  print, and Ctrl-C. Of the colour programs, the calibration scripts, which print numbers.
* Of the driver, the speed, acceleration and torque settings and the gripper's frame.
* Launch files, robot descriptions, Gazebo, plotting and analysis scripts (no
  protocol state), demos and the vendor SDK.

## 6. Plan

Done: all modules of section 2, with the proofs of section 4.

Next, in this order:

1. `TeleopIK` and its composition with `BagRecorder`: the start point of the next
   goal after goals the MUX has dropped; homing.
2. `ArmLink`: `BagRecorder` and `TrajectoryServer` together, in place of `GoalDone`:
   after a STOP the arm stands still.
3. `CamBridge`, framing over a stream, and the executor of teach and repeat, with its three tries.
4. Proofs about these modules, as about the others.
