# Verification of the engineer2 workspace

TLA+ models of the decision layer of a RoboMaster engineer robot: how the operator's node
switches and calibrates controllers and starts step queues, how the middleware node runs them on
arm and chassis, how trajectories are taught and played back, and how the EtherCAT node starts,
reconnects and shuts down. TLC checks them on small instances, liveness included; TLAPS proves
their safety properties for every instance: any controllers, calibration entries, keys, queues,
joints and files. All paths below are relative to `src/src/` of the repository.

## 1. The system

A ROS 1 catkin workspace. Its own logic is spread over nodes that talk by topics, services and
actions; inside a node, threads share plain members, often without a lock.

| component | state | operations | interacts with |
|---|---|---|---|
| **ControllerManager + ServiceCaller** (`rm_control/rm_common/.../decision/controller_manager.h`, `service_caller.h`) | `start_buffer_`, `stop_buffer_`, `service_` (request and response), `mutex_`, `thread_` | `startController(s)`, `stopController(s)`, `update()`, `callService()`, `isCalling()`, detached `callingThread()` | main thread of the manual node; `switch_controller` service of the robot |
| **CalibrationQueue** (`calibration_queue.h`) | `calibration_itr_`, `switched_`, `last_query_`, one query caller per service | `reset()`, `update()`, `isCalibrated()` | buffers of the ControllerManager; `is_calibrated` services by detached threads |
| **ManualBase** (`rm_manual/src/manual_base.cpp`) | `remote_is_open_`, `state_`, input events | `dbusDataCallback()`, `gameRobotStatusCallback()`, `run()` | the two above; Engineer2Manual derives from it |
| **Calibration controllers** (`rm_controllers/rm_calibration_controllers`) | `calibration_success_`, actuator `calibrated`, homing state | `starting()`, `stopping()`, `update()`, the service | controller manager, query threads |
| **Middleware** (`rm_engineer/engineer_middleware`) | action server, `is_middleware_control_`, step queues, `ChassisInterface::goal_`, `error_pos_`, `error_yaw_` | `executeCB()`, `StepQueue::run()`, `Step::move/stop/isFinish/checkTimeout`, `ChassisInterface::setGoal/run/stop` | action clients, MoveIt, the teaching server, `/cmd_vel` |
| **Engineer2Manual** (`rm_manual/src/engineer2_manual.cpp`) | `operating_mode_`, `control_mode_`, `is_in_synch_`, `prefix_`, `root_` | key, switch and button handlers, `runStepQueue()`, `updateCustomController()`, the action callbacks on the client's thread | middleware (action), calibration queue, custom controller |
| **Trajectory teaching** (`rm_engineer/engineer_trajectory_teaching`) | recorded points, `joint_state_`, `controller_state_`, files | `executeCB()`: record and playback; the callbacks of the spinner's threads | middleware (action client), arm controller |
| **EtherCAT hardware** (`rm_ecat_dev/rm_ecat_ros/src/RmEcatHardwareInterface.cpp`, `ecat_manager_dev`, `any_node/any_worker`, `any_node/signal_handler`) | three workers, `busIsOk_`, `busDiagDecimationCount_`, the slaves' states, `shutdownRequested_` | `init()`, the worker callbacks, `onActivate()`, `onDeactivate()`, `busMonitoring()`, `handleSignal()`, the destructor | slaves, controller manager, signals |
| referee, dbus, heat and power limits, shooter/gimbal/chassis/gripper/lifter controllers | see `PROJECT.json` | | |
| vision, cameras, descriptions, generated IK, vendored SDKs | - | - | left out |

What is hard here:

* *Threads without locks.* `service_.request` is written by the main thread and read by a
  detached one; `isCalling()` is a `try_lock`, so a thread that was spawned and has not locked
  yet is invisible. `goal_`, `error_*` and `is_middleware_control_` are shared by the execute
  thread and the 100 Hz loop.
* *Answers that come late.* A calibration query may be answered before the switch it belongs to
  has been made; the done callback of one playback may run while the next one is sent.
* *Failures nobody looks at.* A failed or refused switch is logged and forgotten; a failed
  transform leaves a goal in the wrong frame, or ends the node; a failed `move()` leaves other
  motions running.
* *Things that must end.* A calibration, a goal, a preemption - with timeouts that not all
  motions have; a recording, which has no end of its own; a shutdown, which joins threads.
* *Messages that overtake one another.* A goal and its cancel are two topics; a done callback
  runs beside the key that starts the next goal.
* *Signals on any thread.* `handleSignal()` joins workers and takes locks on whatever thread the
  signal interrupts.

Each of these is listed at its line under `hazards` in `PROJECT.json`, with the properties that
cover it.

What makes each part correct: the last command to a controller wins and none is lost
(ControllerManager); calibration takes a joint's controllers away and gives them back, believes
only real answers, and ends (queue); a remote that is off means stopped controllers
(ManualBase); a step is finished only when it is, the chassis drives only to the queue's own
goals and stays stopped once stopped, and goals end at rest (Middleware); one goal at a time, the
operator gets control back, and the arm has one master (Engineer2Manual); a recording is what was
recorded and a stopped playback stops the arm (teaching); a shutdown completes and lasts, a lost
bus comes back (EtherCAT).

## 2. Modules

| module | models |
|---|---|
| `SwitchPort` | the abstract promise of the ControllerManager: commands collect in a buffer, leave as one batch, one batch at a time, applied or lost as a whole |
| `ControllerManager` | `update()` line by line against the detached thread; refines `SwitchPort` |
| `ManualCalibration` | ManualBase's callbacks, CalibrationQueue, query threads and calibration controllers, **composed with** `SwitchPort` (EXTENDS) instead of the threads below it |
| `Middleware` | action server, execute thread, main loop, chassis interface, motions |
| `Engineer2Modes` | Engineer2Manual's handlers and callbacks in two threads, the topics between it and the middleware, an abstract middleware that ends every goal it has got |
| `TrajectoryTeaching` | the teaching server: execute thread, joint and controller state callbacks, goals, files |
| `EcatHardware` | the EtherCAT node: workers, bus monitoring and reconnection, signal handler, destructor |
| `MC*` | instances for TLC |
| `*_proofs` | the TLAPS proofs, one module for each of the six components |

### SwitchPort and ControllerManager

`buffer` is the pair of buffers, `request` the lists of `service_.request`, `pc` the main thread's
place in `update()` (copy start list, copy stop list, `callService()`, clear), `spawned` the
detached threads that do not have `mutex_` yet, `mutex` how far the holder is, `wire` what it
serialised. `running` is the robot's own set (external). Two history variables: `target`, the
controllers whose last command was a start, and `lost`, a call has failed. Names are sets:
`startController()` does not add a name twice and no handler depends on the order in a list.
`PromptSpawn` is the assumption that a spawned thread has the mutex before the next `update()`
of the 100 Hz loop; it is a constant, so that both worlds are checked. `MaxSpawned` bounds the
waiting threads in the model, not in the code, where late threads pile up; no property rests on it.
The refinement maps the port's request to `outstanding` (the request from the spawn on, then the
wire, then nothing) and its buffer to `unsent` (the buffer until `callService()`).

### ManualCalibration

One round of the loop is `ros::spinOnce()` (the callback actions), `ManagerUpdate`
(`ControllerManager::update()`), `CalibrationUpdate` (`CalibrationQueue::update()`, whose branches
are `QueueIdle`, `QueueSwitch`, `QueueAdvance`, `QueueQuery`, `QueueWait`). A query thread goes
spawned - calling - answered - none; `EntryCalibrated` sees exactly what the `try_lock` of
`isCalibrated()` sees. `Switch` includes the `starting()` and `stopping()` of the calibration
controllers; `Refuse` is the controller manager's answer to two controllers on one joint, which
the code never reads; `Fail` is a `switch_controller` call that fails and loses its batch
(`CallMayFail`). `Disturb` says which events may come in the middle of a calibration, that is while
`calibration_itr_` is not at its end. Four histories: `disturbed`, the remote or the robot's life did
change there; `midway`, the remote was last turned off there; `lost` and `refused`, the controllers
whose last request failed or was refused - a later request that names a controller and is
carried out takes it out again. Two updates within 0.2 s are `QueueWait`; `QueueQuery` requires the
threads of the last query to hold their mutexes, and with `PromptQuery` to have returned. The homing
movement is one step, `Home`.

### Middleware

`pc` walks through `executeCB()` and `StepQueue::run()`; `setGoal()` is three steps (`SetGoal`,
`Resolve`, `Far`) because the main loop reads between them; a tick of `ChassisInterface::run()` is
four (`TickLook`, `TickYaw`, `TickPublish`, `TickStore`) because it reads `goal_` twice and uses the
member `error_yaw_` as a local, which `setGoal()` may overwrite. A pose is two coordinates of `Cells`
values; transforms compose displacements. A twist is the pose it drives to, coordinate by
coordinate; one that `error_yaw_` = 1e10 or a failed rotation has spoilt drives `Astray`, anywhere.
`TfMayFail` lets each of the transforms fail where it is looked up: in `setGoal()` and in `run()`,
where it is logged, and in the `move()` of an end effector, which throws out of `executeCB()` and ends the
node (`MoveThrows`, `pc` = "dead"). `MoveMayFail` lets motions refuse; the step is then not stopped
(`Moved`).

`Step::stop()` sends requests: it makes a moving arm "stopping" and a playback "cancelled", and only
`ArmStops` and `PlaybackDone`, at any later time or never, end them. A playback is sent in two steps,
`MovePlayback` (`is_finish_ = false`) and `SendPlayback`, because `doneCb()` of an earlier one runs in the
client's thread: `player` says which motion sent the goal under way, and `PlaybackDone` sets the flag
of that motion. `adrift` (history) names what no `executeCB()` looks after: the motions of a refused
step, and a playback marked as finished before it was sent. `countdown` is kept. `overlap` (history)
records which *windows* of the execute thread a tick ran into: `entry` (from the flag to
the first `goal_`), `set` (a step's `setGoal()`), `exit` (from `stop()` to the flag). `aim` (history)
is the pose in the map that was asked for. `SendGoal`, `Cancel` and the statuses are actionlib's
SimpleActionServer as the code uses it (external). Gripper and lifter commands finish at once
and have no timeout, so they change nothing here; the planning scene is left out.

### Engineer2Modes

`pc` is the main thread's place in a handler: before `prefix_` and `root_` are set (`name`), before
the test of `runStepQueue()` (`check`), before its assignment (`set`), before and within the
synchronisation of `updateCustomController()` (`custom`, `synch`); `cb` is the spin thread's place in
`actionDoneCallback()`. The two halves of that callback are two steps because a handler may run
between them. actionlib keeps the client's goal list locked during a callback, so `SendGoal` waits
for the end of one and `CancelAllGoals` does not (external). `queue` is `prefix_ + root_` as the code
tells such names apart: a name and the number of zeros that clicks have appended. The code appends "0"
without a bound; `OneMoreZero` stops counting at the zeros that Engineer2Manual tells apart, so that
this many and more, down to names that no queue of the middleware has, are one value. Which names
clicks can build is no claim of the model; that the middleware aborts an unknown one is an outcome
of `GoalEnds`. `status` follows
the goal that the client tracks; `cancels` are cancels in flight, which a goal sent before may
reach the middleware after. The middleware may die; the launch file does not respawn it. Nine
further variables are histories; each is the condition of one property: `overtaken` (a callback
between test and assignment of `runStepQueue()`), `overlap` (a callback beside a handler), `keyed`,
`missed`, `sentOff`, `torn` and so on. Left out: velocities, frames, speed and gimbal modes, the
user interface, and the servo mode, which nothing reaches (`vtControlCallback()` is empty).

### TrajectoryTeaching

`exec` walks through `executeCB()`. A lookup in `joint_state_` is one step per joint, so that
`jointStateCallback()` (`clear()`, then one `insert()` per joint) can run between them; a lookup beside
that callback finds the joint, does not, or ends the process. `due` says that the interval of a
recording, or the duration of a point, has passed. A file has points or is missing; a point is
the number of its positions, and 0 is an entry that yaml-cpp cannot convert. `stopPlayback()` is two
steps, names then positions, against `controllerStateCallback()`. A file in a missing directory
is not noticed by `recordToYAML()`, which logs "Save successfully". A playback whose file throws
sets no result; actionlib aborts it. The middleware's `TrajectoryPlaybackMotion` (external to this
module; in `Middleware` it is `SendPlayback` and `PlaybackDone`) takes every result for the end.

### EcatHardware

A worker's callback is a sequence of sections under a lock (`contextMutex_`, the slaves' and the
publishers' mutexes, taken as one); `pc` is the next section, `again` the end of the loop of
`Worker::run()`. The update worker's two sections, which nothing separates, are one (`exchange`).
`onActivate()` is two sections for each of INIT, PRE_OP, SAFE_OP and OPERATIONAL, `setState()` and
`waitForState()`, which lock apart; `onDeactivate()` is two, and the result of its wait is ignored. A
section is one step; only a signal can be in the middle of one, and then its thread keeps `lock`
until the handler has returned.

The slaves are one (external): `order` is the state they were told last and obeyed, at most one
above theirs; `Reach` gets them there, in their time, and they leave OPERATIONAL when they get no
process data. A wait succeeds if the state is reached, and times out if the slaves do not obey or
do not answer *in time*: `cable` is both, and slaves that are too slow for a wait are those whose cable
is out as it ends and in again afterwards.

A signal goes to any live thread - `main()`, a worker, or `other`, one of roscpp's own, which
suspends none of the four - and suspends it (`sig`); `hpc` is the handler's place: stop and join update,
publish and control worker (not the one it runs on), shut the slaves down, shut the publishers
down. `SignalHandler::mutex` serialises handlers; a second signal on the same thread waits for itself
(`stuck`). In the model, signals come until the destructor begins. `Exit` is
`ros::spin()` returning after rosnode kill: `bindAll()` has replaced ROS's own SIGINT handler, so
Ctrl-C does not end the process. Histories: `early`, `byWorker`, `reconnecting`, `tangled`, the cases
excepted by the properties.

## 3. Runs

| run | result | what it shows |
|---|---|---|
| `manager_prompt` | holds | with prompt threads and failing calls: unambiguous, untorn requests, no lost command and every command effective until a call fails, refinement of `SwitchPort` with liveness |
| `manager_spawn_race` | **violated** | with a late thread, a second `update()` rewrites the request under it: one controller in both lists, against controller_manager.h:108 |
| `calibration_disturbed` | holds | one entry as in engineer2.yaml, every disturbance, failing queries and switch calls: chassis stops with the remote, the other controllers with a remote turned off between calibrations, all come back after a calibration - but for the controllers whose call failed or was refused; no refusal until the remote or the life change in the middle |
| `calibration_undisturbed` | holds | two entries as in engineer.yaml, failing queries and switch calls: one at a time, passed only when calibrated, and ending unless the call that starts an entry fails |
| `calibration_late_answer` | **violated** | `reset()` while the previous stop is under way: an old yes passes an entry whose actuators are uncalibrated again |
| `middleware_drive` | holds | two goals, cancellation, preemption, timeouts, transforms that fail anywhere: what holds outside the three windows |
| `middleware_ends` | holds | playbacks that never finish, refused motions, failing transforms, stops heeded late: steps with a timeout end, preempted goals end, and what was set going has ended or been told to stop |
| `middleware_early_finish` | **violated** | a tick across `setGoal()` stores the old goal's error: "Finish step" before the chassis is there |
| `middleware_hang` | **violated** | a step of a playback alone has no timeout; its goal may never end |
| `modes` | holds | every order of keys, clicks, switches, callbacks, goals and cancels, and a middleware that may die: one goal at a time, MANUAL comes back, the custom controller has the arm only when it should |
| `teaching` | holds | recordings and playbacks preempted at any moment, joints that vanish, broken and unwritable files, shutdown: recordings are whole, stopped playbacks hold the arm, goals end |
| `ecat_shutdown` | holds | two signals, the first on any thread, slaves that take their time, a cable pulled and put back at will, rosnode kill: the shutdown completes and lasts; without signals the bus comes back |

The conditions in the passing properties are not decoration; each was found by dropping it:
with the remote or the robot's life changing during a calibration, `robotRevive()` or
`remoteControlTurnOn()` puts a controller and its calibrator into one batch, the batch is refused
and nobody notices, so `NeverRefused` ends there and `ControlRestored` excepts the controllers of that
batch; a remote turned off during a calibration does not stop the queue, so `OffMeansStopped` excepts
that case (`midway`) and no other: with a request under way, a flip-back or the start of an entry or
one that will be refused, the controllers do stop. A failed call loses its batch for good, be it the
stop of the chassis, the flip-back of a calibration or the start of an entry: `OffStopsChassis`,
`OffMeansStopped`, `ControlRestored`, `OneEntryAtATime` and `CalibrationEnds` except exactly the
controllers of such a call (`lost`), until a later call has switched them. A reset in the second entry
starts the first beside it, so `OneEntryAtATime` is checked without resets; without prompt queries
two services can keep each other from being seen calibrated, so `CalibrationEnds` needs `PromptQuery`.
`OneEntryAtATime` and, with switch calls that succeed, `CalibratedIsReal` survive changes of the
remote and of the robot's life (section 4); the run excludes them for the sake of `CalibrationEnds`.
With disturbances *and* failing calls `CalibratedIsReal` does not hold: calibration controllers
whose stop was lost answer the next calibration with the old yes, a remote turned off in the
middle of it stops them, and the queue starts them anew, which makes them uncalibrated.

In `Middleware`: with motions that refuse, `StepQueue::run()` returns without `stop()`, and with a late
`doneCb()` a step is over while its playback has just been sent; both leave a motion going that nobody
looks after, so `EndsAtRest` names them (`adrift`), and says of everything else that it has ended or
been told to stop. It cannot say that a motion *has* stopped: `stop()` and `cancelAllGoals()` are
requests. A twist computed from an `error_yaw_` of 1e10, or not rotated, is as wrong as the code
makes it; `DrivesOwnGoal` and `StopIsLast` speak of whose it is and of when it ends.

In `Engineer2Modes`: a done callback between lines 363 and 367 of engineer2_manual.cpp leaves
`MIDDLEWARE` set with no goal (`overtaken`), and so does a middleware that dies with a goal (`lost`):
`LockedOutOnlyByRace` says that nothing else does. A key pressed during a goal sends nothing but
renames the queue, so `CustomForItsGoal` excepts it (`keyed`). A cancel that arrives before its goal
is lost (`missed`), and the custom controller's buttons start gripper queues with the remote off
(`sentOff`), so `OffStopsGoals` excepts both. In `TrajectoryTeaching`: before the first controller
state `stopPlayback()` publishes an empty command (`early`); a preemption after the last point is
not heeded until `duration.sleep()` is over. In `EcatHardware`: a signal between lines 54 and 77 of
`init()` shuts the slaves down before the workers are started, which then bring them up again
(`early`), and so does a signal that interrupts the control worker with the bus down
(`reconnecting`); a handler on a worker within a section deadlocks (`tangled`); after rosnode kill
alone the workers use members that are destroyed already, so `DestroyedWithoutThreads` speaks of
a node that handled a signal.

### Bounds

* Controllers: two in `ControllerManager` (nothing in the module names one; the proofs cover any
  number; two suffice for a batch that is split). `MaxSpawned` is 2; with prompt threads the
  second one never comes, which `TypeOK` says.
* `ManualCalibration`: four or five controllers, the real lists in small (the lifter as main, the
  gravity compensation as state controller, and for the disturbances a chassis nobody flips).
  Events are not bounded.
* `Middleware`: `MaxGoals` 2 (a preempted and a preempting one, a waiting and a cancelled one),
  1 for the violations; `Countdown` 0 in place of 5 (the reset and the boundary remain); `Cells` 2 where
  the chassis drives, 1 where only the ends of goals matter and it need not; queues of one or two
  steps with every kind of motion that behaves differently.
* `Engineer2Modes`: four of the eight ctrl queues, one of each behaviour (ends in custom mode, is
  told apart by its zeros, has a reverse, sets the mode at the end); HOME and GRIPPER come by the
  switches. One cancel in flight at a time. Keys, goals and clicks are not bounded.
* `TrajectoryTeaching`: two joints (one found, one lost), two files (one unwritable), recordings of
  two points, one file written by hand with a broken second entry. Goals are not bounded.
* `EcatHardware`: `Decimation` 1 in place of 100, `MaxSignals` 2 (a second one during the first and
  after it), `LaterTo` the control worker alone: the first signal goes to any thread, the second to
  the one that reconnects the bus. The safety theorems cover any choice. The cable is not bounded.
* Deadlock is not checked for `TrajectoryTeaching` and `EcatHardware`, whose processes may end, nor
  for `Middleware`, whose process may end, too, and which may stop after `MaxGoals` goals with the
  loop idle.

### Fairness

* `ControllerManager`: the loop keeps calling `update()`; existing threads are scheduled and a
  call returns or fails. Nothing is assumed of the operator.
* `ManualCalibration`: the loop runs and comes to a query (strong fairness: the branch alternates
  with `QueueWait`); threads run; the controller manager answers or the call fails; a query repeated
  for ever is answered some time; a running calibration controller reaches the end of its joint.
* `Middleware`: both threads run and time passes. **Nothing** is assumed of the arm, also not that
  it heeds `stop()`, of the chassis or, with `PlaybackMayHang`, the teaching server: goals must end by their timeouts.
* `Engineer2Modes`: handlers and callbacks run to their end, goals and cancels arrive, and the
  middleware ends every goal - which `Middleware` shows of queues with timeouts only. Nothing is
  assumed of the operator.
* `TrajectoryTeaching`: the execute thread runs and time passes. Joint states need not come.
* `EcatHardware`: `init()` goes on, workers and handlers run when they can. Sections are short and
  workers sleep between cycles, so weak fairness per thread is enough. The slaves get to a state that
  they obey, some time. Nothing is assumed of signals, the cable or the destructor.

## 4. Proofs

### ControllerManager_proofs

For every `Controllers` and `MaxSpawned`, from the named assumptions of the modules:

* `BuffersStayDisjoint`: no assumption on threads or calls. The inductive invariant is `SafeBuffers` =
  types and disjoint buffers.
* `TypeCorrect`: the types from `SafeBuffers`; that a prompt thread is alone (`spawned <= 1`, whatever
  `MaxSpawned` is) from `Exclusive`, below. Of late threads nothing is said.
* `RequestsAreUnambiguous`, `RequestsAreNotTorn`: assume `PromptSpawn`. Disjoint buffers say
  nothing of the request that is sent; `PromptInv` adds `Exclusive` (while `update()` writes the
  request no thread is there), `Copied` (how much of the buffer the request has) and `Whole` (a
  request under way is unambiguous, not empty, and the same on the wire).
* `NoCommandIsLost`: assumes `PromptSpawn`. `LosslessInv` adds `Applied`: between `callService()` and
  the clearing of the buffers the robot may have served the request already, and the buffers are
  then without effect. Each action is one step; the lemma `SwitchTwice` (a batch applied twice
  is a batch applied once) does the work.
* `PortIsImplemented`: assumes `PromptSpawn`. Every step is a step of `SwitchPort` or a stutter,
  which justifies building `ManualCalibration` on the port.

`manager_spawn_race` shows that `PromptSpawn` cannot be dropped.

### Engineer2Modes_proofs

For every `CtrlKeys`, `MaxCancels` and `MayDie`, from the named assumptions alone. Every safety property
of the run `modes` is proved, each from the part of the state it is about:

* `ModesTypeCorrect`: `Members` adds to the types that queues have no more zeros than the model
  counts (an abstraction, section 2); `Flags` is kept apart because the prover treats truth values
  differently.
* `GoalsAreSentOneAtATime`, `OnlyTheRaceLocksOut`: `ModeInv` says that a goal whose callback has not
  run has `operating_mode_` at MIDDLEWARE or about to be set (`GoalHasMode`), and the converse until a
  callback overtakes the assignment (`ModeHasGoal`). Neither property is inductive: both leave out the
  place between `sendGoal()` and the assignment.
* `TurnOffStopsGoals`: `CancelAhead` extends the property to goals still on their way.
* `ArmStaysHeld`: `HeldInv` adds that the callback's second half is over before a goal is sent
  (the client's lock), and that an undisturbed handler still has the arm that `initMode()` took.
* `FollowsAfterSynchronising`: `MovedByGoal` (a goal that moved the arm since a synchronisation began is
  still there) together with `ModeInv`, by which it keeps the mode away from MANUAL.
* `CustomOnlyForItsGoal`: `QueueOfGoal`, that `prefix_` and `root_` are the goal's until a handler sets
  them.

### ManualCalibration_proofs

For every set of controllers and joints, every `Gather`, `Disturb`, `QueryMayFail`, `PromptQuery` and
`CallMayFail`, from the named assumptions. The one that says something of the robot is
`ConfigurationAssumption`, which rm_config's engineer.yaml and engineer2.yaml meet: the operator's
controllers command different joints, an entry stops what its calibration controllers would
collide with, and no controller is in two entries.

* `TypeCorrect`.
* `QueueNeverRefused`. `Coming` is what will run once the commands under way are carried out. A failed
  or refused call leaves its controllers `Doubtful`; `SureNow`, `SureNext` and `SureLast` are what runs
  now, after the request under way and after the buffer without them. `Modes`: each of the three is of
  one mode, the operator's or that of one entry, and the modes are compatible. Hypothesis: the
  queue has at most one entry (engineer2), or is not reset during a calibration. It cannot be
  dropped: with two entries a reset in the second starts the first beside it, and the request may be
  refused.
* `CalibrationRestoresControl`: no hypothesis. `Restoring`: whatever is due and will not run, and
  whatever calibration controller will, is in doubt or is put right when `update()` leaves one of the
  entries `ToLeave`.
* `RemoteOffStopsChassis`, `RemoteOffMeansStopped`: no hypothesis. After a refusal nothing is known of
  what runs, so the invariant `Stops` is about the batch: `remoteControlTurnOff()` leaves a buffer that
  decides on every controlled controller (`Decides`), the queue's later flips keep it one that no
  running set can make collide (`GoodBuffer`, `GoodCall`), hence it is not refused
  (`GoodCallIsAccepted`); `Stopping` follows the stop through buffer and call until it is done or lost with
  a failed call. With the queue at its end there are no later flips, and it covers what the entries
  flip, too, whatever request was under way when the remote went off.
* `EntriesRunOneAtATime`: assumes that the queue is not reset during a calibration. `InTurn`: what runs
  and what the request under way leads to are, the doubtful left aside, of one entry, and what will
  run is of the entry under way.
* `PassedEntryIsCalibrated`: assumes that the queue is not reset during a calibration, and either that
  switch calls do not fail or that nothing else disturbs one; answers may be late, queries may fail.
  For the first case `Course` follows the entries: those to come have no trace in the system
  (`Ahead`); the start of the one under way is in one place, comes with the stop of the one before,
  and a yes is its own (`UnderWay`); a finished one is never started again and its stop is on its way
  (`Behind`) - or the stop was lost, with the start of the entry under way, in a request that
  `robotRevive()` or `remoteControlTurnOn()` made collide; then the queue is `Stuck` at this entry.
  For the second `Answers`: no stop of the controllers of an entry under way or to come is on its
  way, so a yes keeps holding. `calibration_late_answer` shows that the first hypothesis cannot be
  dropped.

### Middleware_proofs

For every `Queues`, `MaxGoals` and `Countdown`, whichever motions are refused and whichever transforms
fail; `Cells` is 1 or 2.

* `TypeCorrect`: `Work` ties goal, queue and step to the place of `executeCB()`, so that no step is
  indexed beyond its queue.
* `ChassisDrivesOwnGoal`: `OwnGoal`, a tick outside the window `entry` has read a goal of the queue under way.
* `ChassisStepIsMeasured`: `Measured`, the errors are far, or were measured against the step's own goal,
  outside the window `set`. The attempt to prove that the chassis *is* at its goal failed for a good
  reason: between the look-up and the publishing of a tick it still drives on the old twist. What
  holds is that the main loop has last *seen* it there, which `FinishIsRealApart` now says.
* `ChassisStopIsLast`: `Stopped` carries the zero twist from `stop()` to the end of `executeCB()`.
* `MiddlewareEndsAtRest`: no hypothesis. `AtWork`: an arm that moves and a playback that has not been
  cancelled are the step's at work, which is not finished before they are, or they are adrift.

### TrajectoryTeaching_proofs

For any number of joints, any files and bound on points.

* `TypeCorrect`: `Work` keeps the counters of lookups and points within theirs.
* `RecordingIsSaved`: `Whole`, the points of a recording under way have every joint; a lookup that fails
  pushes none.
* `RecordingIsNotEmpty`: `HasPoint`, a recording has a point, has lost a joint, or its first point is due.
* `CancelledPlaybackStops`: `Held` follows a cut playback through `stopPlayback()`: it will see the
  preemption, has copied the controller's state, holds.

### EcatHardware_proofs

For every `Decimation`, `MaxSignals` and `LaterTo`, however long the slaves take.

* `TypeCorrect`.
* `DestructorFindsNoThread`: `AllStarted` (a signal that is not early finds all workers started),
  `OnMain`, `Joined` (what the handler on the main thread has passed has ended).
* `SlavesStayDown`: `Climb`, the slaves are at most one state below the one they were told to take, and
  `onActivate()` takes them up state by state; `Phases` ties `busIsOk_` to the control worker's place and to the
  slaves; `Harmless` says that a stopped control worker may deactivate the bus in its last cycle and
  not activate it.

### Only model-checked

Liveness (`EventuallySwitched`, the fairness part of `ImplementsPort`, `CalibrationEnds`,
`WatchedGoalEnds`, `PreemptEnds`, `GoalEnds`, `ControlComesBack`, `GoalsEnd`, `ShutdownCompletes`,
`BusReconnects`) is beyond the prover. Every safety property of a passing run is proved.

## 5. Not modelled, and the plan

Not modelled: the memory of the detached threads, `loadController()` at start-up (blocking),
`CalibrationQueue::stop()` (not called by the engineer robots), geometry, PID, planning scenes; in
the teaching server, points that mix two joint messages, and the destructor, which destroys
`file_path_` before the action server; in the EtherCAT node, the data of the slaves (three things
noticed there: the disable command of a MIT slave's `shutdown()` is never sent,
`stageDigitalOutputs()` stages only the slave of the last output, readings stay when the working
counter is too low), several buses, calls that are unsafe in a signal handler, and slaves that
lose their configuration with their power; `WorkerManager`, which the robot does not use; and the
components that `PROJECT.json` lists as `not_modelled`. Most of the repository is vendored code (camera
SDKs, SOEM, json.hpp, generated inverse kinematics), vision and numeric control, where there is
no protocol to check.

Next, in this order:

1. The abstract middleware of `Engineer2Modes` (a goal is sent, running, stopping, ended) as a module
   of its own, with the proof that `Middleware` implements its safety part.
2. The states of the calibration controllers' homing, now one step.
3. The shooter's states and the heat limit, where they have states.
