----------------------------- MODULE Middleware -----------------------------
(***************************************************************************)
(* The engineer_middleware node: Middleware::executeCB() and run()         *)
(* (middleware.h), StepQueue::run() (step_queue.h), Step (step.h), the     *)
(* motions (motion.h) and ChassisInterface (chassis_interface.h).          *)
(*                                                                         *)
(* Two threads share the chassis interface without a lock: the action      *)
(* server's execute thread sets goals, reads the errors and stops, and the *)
(* 100 Hz main loop runs the chassis controller while                      *)
(* is_middleware_control_ is set.  actionlib's SimpleActionServer, MoveIt, *)
(* the trajectory teaching server and the chassis itself are external.     *)
(***************************************************************************)
EXTENDS Integers, Sequences

CONSTANTS
    MaxGoals,       \* bound: the number of goals sent
    Queues,         \* steps_list: a function from names to sequences of steps
                    \* [kinds, pose]; pose is the target of a chassis motion
    Cells,          \* bound: the values of a coordinate of the chassis, 1 or 2;
                    \* with 1 the chassis is always where it should be
    Countdown,      \* MoveitMotionBase: countdown_ starts at 5
    TfMayFail,      \* TRUE: a TF lookup may throw
    MoveMayFail,    \* TRUE: planning, or the playback server, may refuse
    PlaybackMayHang \* TRUE: the teaching server may never finish a playback

ASSUME MaxGoalsAssumption == MaxGoals \in Nat \ {0}
ASSUME CellsAssumption == Cells \in {1, 2}
ASSUME CountdownAssumption == Countdown \in Nat
ASSUME EnvironmentAssumption ==
    /\ TfMayFail \in BOOLEAN
    /\ MoveMayFail \in BOOLEAN
    /\ PlaybackMayHang \in BOOLEAN

\* The goals, in the order in which they are sent.
Goals == 1 .. MaxGoals

\* The motions a step may have, those that checkTimeout() asks first.  "gpio"
\* stands for the published commands with a delay that do not count for the
\* timeout (gpio, reversal).  A gimbal command is finished as soon as it is
\* published but counts for the timeout; the gripper and lifter commands do
\* neither and are left out.
TimedKinds == {"arm", "hand", "end_effector", "gimbal", "chassis", "chassis_target"}
Kinds == TimedKinds \cup {"gpio", "playback"}

\* A pose of the chassis, the signed yaw being what matters for its errors.
\* Poses compose as displacements.
Cell == 0 .. Cells - 1
Pose == [xy : Cell, yaw : Cell]
Origin == [xy |-> 0, yaw |-> 0]
Nothing == [pose |-> Origin, of |-> 0]
Compose(p, q) == [xy |-> (p.xy + q.xy) % Cells, yaw |-> (p.yaw + q.yaw) % Cells]

ASSUME QueuesAssumption ==
    \A q \in DOMAIN Queues :
        Queues[q] \in Seq([kinds : SUBSET Kinds, pose : Pose])

VARIABLES
    \* the action server
    status,     \* the status of each goal
    asked,      \* the queue each goal names
    next,       \* the goal waiting to be executed; 0: none
    nextCancel, \* it has been cancelled already
    preempt,    \* isPreemptRequested()
    \* the execute thread
    pc,
    current,    \* the goal being executed, or the last one; 0: none yet
    step,       \* the step of its queue; 0 while setCurrentAsGoal() runs
    success,    \* what Step::move() returns
    late,       \* the step's timeout has passed
    control,    \* is_middleware_control_
    \* the chassis interface and the main loop
    goal,       \* goal_: [pose, frame, of]; of: the action goal that set it
    error,      \* [pos, yaw]: error_pos_ and error_yaw_
    tick,       \* where the main loop is in ChassisInterface::run()
    seen,       \* the goal_ it read, as long as it runs
    here,       \* the pose it looked up
    overlap,    \* history: the windows of the execute thread that it ran into
    cmd,        \* the last /cmd_vel: the pose it drives to, coordinate by
                \* coordinate, or Zero
    at,         \* external: the pose of the chassis in the map
    aim,        \* history: the pose that was asked for last, in the map
    \* the other motions
    arm,        \* external: "still", "moving", "there", "stopping": told to stop
    countdown,  \* countdown_
    elapsed,    \* the delay of the published commands is over
    playing,    \* external: the playback goal: "no", "yes", "cancelled"
    player,     \* the motion that sent it: [queue, step]
    played,     \* is_finish_ of the playback motion of the step
    adrift      \* history: the motions that no executeCB() looks after: of
                \* a step that was refused, or taken for done by a late doneCb()

serverVars == <<status, asked, next, nextCancel, preempt>>
execVars == <<pc, current, step, success, late, control>>
chassisVars == <<goal, error, aim>>
loopVars == <<tick, seen, here, overlap>>
motionVars == <<arm, countdown, elapsed, playing, player, played, adrift>>
vars == <<serverVars, execVars, chassisVars, loopVars, cmd, at, motionVars>>

Zero == [xy |-> 2, yaw |-> 2]
Astray == 3     \* a coordinate driven without regard to the goal
Twists == [xy : Cell \cup {Astray}, yaw : Cell \cup {Astray}] \cup {Zero}
Huge == 1000    \* the 1e10 of setGoal(): beyond every tolerance
Terminal == {"succeeded", "aborted", "preempted", "recalled"}
Steps == Queues[asked[current]]
TheStep == Steps[step]
Has(kind) == kind \in TheStep.kinds
TheMotion == [queue |-> asked[current], step |-> step]

\* The stretches of the execute thread in which a tick can do harm.
Windows == {"entry", "set", "exit"}

TypeOK ==
    /\ status \in [Goals -> {"unsent", "pending", "active"} \cup Terminal]
    /\ asked \in [Goals -> DOMAIN Queues \cup {"unknown"}]
    /\ next \in Goals \cup {0}
    /\ nextCancel \in BOOLEAN
    /\ preempt \in BOOLEAN
    /\ pc \in {"wait", "enter", "resolve", "far", "arm", "chassis", "playback",
               "send", "poll", "leave", "dead"}
    /\ current \in Goals \cup {0}
    /\ step \in Nat
    /\ step > 0 => step \in DOMAIN Steps
    /\ success \in BOOLEAN
    /\ late \in BOOLEAN
    /\ control \in BOOLEAN
    /\ goal \in [pose : Pose, frame : {"map", "raw"}, of : Goals \cup {0}]
    /\ error \in [pos : {0, 1, Huge}, yaw : {-1, 0, 1, Huge}]
    /\ tick \in {"sleep", "look", "yaw", "store"}
    /\ seen \in [pose : Pose, of : Goals \cup {0}]
    /\ here \in Pose
    /\ overlap \subseteq Windows
    /\ cmd \in Twists
    /\ at \in Pose
    /\ aim \in Pose
    /\ arm \in {"still", "moving", "there", "stopping"}
    /\ countdown \in -1 .. Countdown
    /\ elapsed \in BOOLEAN
    /\ playing \in {"no", "yes", "cancelled"}
    /\ player \in [queue : DOMAIN Queues \cup {"unknown"}, step : Nat]
    /\ played \in BOOLEAN
    /\ adrift \subseteq {"arm", "playback"}

Init ==
    /\ status = [g \in Goals |-> "unsent"]
    /\ asked = [g \in Goals |-> "unknown"]
    /\ next = 0
    /\ nextCancel = FALSE
    /\ preempt = FALSE
    /\ pc = "wait"
    /\ current = 0
    /\ step = 0
    /\ success = TRUE
    /\ late = FALSE
    /\ control = FALSE
    /\ goal = [pose |-> Origin, frame |-> "raw", of |-> 0]
    /\ error = [pos |-> 0, yaw |-> 0]
    /\ tick = "sleep"
    /\ seen = Nothing
    /\ here = Origin
    /\ overlap = {}
    /\ cmd = Zero
    /\ at = Origin
    /\ aim = Origin
    /\ arm = "still"
    /\ countdown = 0
    /\ elapsed = FALSE
    /\ playing = "no"
    /\ player = [queue |-> "unknown", step |-> 0]
    /\ played = FALSE
    /\ adrift = {}

-----------------------------------------------------------------------------
(* The client and the action server (external). *)

Active == current # 0 /\ status[current] = "active"

\* A goal arrives: it takes the place of a waiting one and preempts the one
\* being executed.
SendGoal(g, q) ==
    /\ pc # "dead"
    /\ status[g] = "unsent"
    /\ \A h \in Goals : h < g => status[h] # "unsent"
    /\ status' = [h \in Goals |-> IF h = g THEN "pending"
                                  ELSE IF h = next THEN "recalled"
                                  ELSE status[h]]
    /\ asked' = [asked EXCEPT ![g] = q]
    /\ next' = g
    /\ nextCancel' = FALSE
    /\ preempt' = (preempt \/ Active)
    /\ UNCHANGED <<execVars, chassisVars, loopVars, cmd, at, motionVars>>

\* cancelAllGoals().
Cancel ==
    /\ pc # "dead"
    /\ next # 0 \/ Active
    /\ nextCancel' = (next # 0)
    /\ preempt' = (preempt \/ Active)
    /\ <<nextCancel, preempt>>' # <<nextCancel, preempt>>
    /\ UNCHANGED <<status, asked, next, execVars, chassisVars, loopVars, cmd, at,
                   motionVars>>

-----------------------------------------------------------------------------
(* The execute thread. *)

\* The stretches of the execute thread that a tick of the main loop may run
\* into: from the flag to the first goal_ of the queue, setGoal() of a step, and
\* from stop() to the flag.  A tick that is under way when one begins is in it.
Met(window) == IF tick = "sleep" THEN overlap ELSE overlap \cup {window}

\* The server accepts the waiting goal and calls executeCB().
Accept ==
    /\ pc = "wait"
    /\ next # 0
    /\ overlap' = IF tick = "sleep" THEN {} ELSE {"entry"}
    /\ pc' = "enter"
    /\ current' = next
    /\ status' = [status EXCEPT ![next] = "active"]
    /\ preempt' = nextCancel
    /\ next' = 0
    /\ nextCancel' = FALSE
    /\ control' = TRUE
    /\ step' = 0
    /\ UNCHANGED <<asked, success, late, chassisVars, tick, seen, here, cmd, at,
                   motionVars>>

\* ChassisInterface::setGoal(): goal_ = pose, not yet in the map frame.
SetGoal(pose) == goal' = [pose |-> pose, frame |-> "raw", of |-> current]

\* StepQueue::run() without setCurrentAsGoal().
EnterNoHold ==
    /\ pc = "enter"
    /\ IF asked[current] \in DOMAIN Queues /\ Steps # <<>>
       THEN /\ pc' = "arm"
            /\ step' = 1
            /\ UNCHANGED status
       ELSE /\ pc' = "leave"
            /\ status' = [status EXCEPT ![current] = "aborted"]
            /\ UNCHANGED step
    /\ UNCHANGED <<asked, next, nextCancel, preempt, current, success, late,
                   control, chassisVars, loopVars, cmd, at, motionVars>>

\* StepQueue::run() begins with setCurrentAsGoal(); a name that is not in
\* step_queues_ and an empty queue end at once.
Enter ==
    /\ pc = "enter"
    /\ IF asked[current] \in DOMAIN Queues /\ Steps # <<>>
       THEN /\ pc' = "resolve"
            /\ SetGoal(Origin)
            /\ UNCHANGED status
       ELSE /\ pc' = "leave"
            /\ status' = [status EXCEPT ![current] = "aborted"]
            /\ UNCHANGED goal
    /\ UNCHANGED <<asked, next, nextCancel, preempt, current, step, success, late,
                   control, error, aim, loopVars, cmd, at, motionVars>>

\* setGoal() transforms goal_ in place; a TF exception is only logged.
Resolve ==
    /\ pc = "resolve"
    /\ \/ goal' = [goal EXCEPT !.pose = Compose(at, @), !.frame = "map"]
       \/ TfMayFail /\ UNCHANGED goal
    /\ aim' = Compose(at, goal.pose)
    /\ pc' = "far"
    /\ UNCHANGED <<serverVars, current, step, success, late, control, error,
                   loopVars, cmd, at, motionVars>>

\* setGoal() that keeps the errors of the last goal.
FarForgotten ==
    /\ pc = "far"
    /\ IF step = 0
       THEN /\ pc' = "arm"
            /\ step' = 1
            /\ late' = FALSE
       ELSE /\ pc' = "playback"
            /\ UNCHANGED <<step, late>>
    /\ UNCHANGED <<serverVars, current, success, control, goal, error, aim, loopVars,
                   cmd, at, motionVars>>

\* setGoal() resets the errors, so that no step is finished before the main
\* loop has measured them again.
Far ==
    /\ pc = "far"
    /\ error' = [pos |-> Huge, yaw |-> Huge]
    /\ IF step = 0
       THEN /\ pc' = "arm"
            /\ step' = 1
            /\ late' = FALSE
       ELSE /\ pc' = "playback"
            /\ UNCHANGED <<step, late>>
    /\ UNCHANGED <<serverVars, current, success, control, goal, aim, loopVars, cmd,
                   at, motionVars>>

\* move() of an arm motion: the countdown starts, and a goal that cannot be
\* transformed, planned or handed to MoveIt leaves the arm as it is.
ArmMove ==
    /\ countdown' = Countdown
    /\ \/ arm' = "moving" /\ success' = TRUE /\ adrift' = adrift \ {"arm"}
       \/ MoveMayFail /\ success' = FALSE /\ UNCHANGED <<arm, adrift>>

\* Step::move() begins with the arm.
ArmFirst ==
    IF Has("arm") THEN ArmMove
    ELSE success' = TRUE /\ UNCHANGED <<arm, countdown, adrift>>

\* Step::move(): the arm plans and executes, the commands with a delay are
\* published.  A motion that fails does not keep the others from moving.
MoveArm ==
    /\ pc = "arm"
    /\ pc' = "chassis"
    /\ ArmFirst
    /\ elapsed' = FALSE
    /\ UNCHANGED <<serverVars, current, step, late, control, chassisVars, loopVars,
                   cmd, at, playing, player, played>>

\* move() of an end effector looks a transform up without a handler: an exception
\* leaves executeCB() and ends the node, with the arm already under way.
MoveThrows ==
    /\ pc = "arm"
    /\ Has("end_effector") /\ TfMayFail
    /\ ArmFirst
    /\ pc' = "dead"
    /\ control' = FALSE
    /\ tick' = "sleep"
    /\ seen' = Nothing
    /\ UNCHANGED <<serverVars, current, step, late, chassisVars, here, overlap,
                   cmd, at, elapsed, playing, player, played>>

\* Step::move() of a chassis motion.  A chassis_target motion is not moved.
MoveChassis ==
    /\ pc = "chassis"
    /\ IF Has("chassis")
       THEN /\ SetGoal(TheStep.pose)
            /\ overlap' = IF tick = "sleep" THEN overlap \ {"set"} ELSE Met("set")
            /\ pc' = "resolve"
       ELSE /\ pc' = "playback"
            /\ UNCHANGED <<goal, overlap>>
    /\ UNCHANGED <<serverVars, current, step, success, late, control, error, aim, tick,
                   seen, here, cmd, at, motionVars>>

\* What StepQueue::run() does with the result of Step::move(): a step that could
\* not be moved ends the queue and is not stopped, whatever it has set going.
Moved(moved, going) ==
    /\ success' = moved
    /\ IF moved
       THEN pc' = "poll" /\ adrift' = going /\ UNCHANGED status
       ELSE /\ pc' = "leave"
            /\ adrift' = going \cup ({"arm", "playback"} \cap TheStep.kinds)
            /\ status' = [status EXCEPT ![current] = "aborted"]

\* Step::move() comes to the playback: is_finish_ is reset if the teaching server
\* is connected.
MovePlayback ==
    /\ pc = "playback"
    /\ \/ /\ Has("playback")
          /\ played' = FALSE
          /\ pc' = "send"
          /\ UNCHANGED <<status, success, adrift>>
       \/ /\ Has("playback") => MoveMayFail
          /\ Moved(success /\ ~Has("playback"), adrift)
          /\ UNCHANGED played
    /\ UNCHANGED <<asked, next, nextCancel, preempt, current, step, late, control,
                   chassisVars, loopVars, cmd, at, arm, countdown, elapsed, playing,
                   player>>

\* The goal is sent.  It takes the place of one before it, the end of which is
\* not told any more - but may just have been.
SendPlayback ==
    /\ pc = "send"
    /\ playing' = "yes"
    /\ player' = TheMotion
    /\ Moved(success, IF played THEN adrift \cup {"playback"} ELSE adrift \ {"playback"})
    /\ UNCHANGED <<asked, next, nextCancel, preempt, current, step, late, control,
                   chassisVars, loopVars, cmd, at, arm, countdown, elapsed, played>>

\* MoveitMotionBase::isFinish() counts down the polls that find the arm in
\* place; all values below 0 are one.
CountdownNext ==
    IF ~Has("arm") THEN countdown
    ELSE IF arm # "there" THEN Countdown
    ELSE IF countdown < 0 THEN -1 ELSE countdown - 1

\* isFinish() of the chassis motions.
ChassisInPlace == error.pos = 0 /\ error.yaw <= 0

\* The motions that are finished when their delay is over.
Delayed == Has("hand") \/ Has("end_effector") \/ Has("gpio")

IsFinish ==
    /\ Has("arm") => CountdownNext < 0
    /\ Has("chassis") \/ Has("chassis_target") => ChassisInPlace
    /\ Delayed => elapsed
    /\ Has("playback") => played

\* Step::checkTimeout() that asks the chassis motions only.
TimedChassisOnly == Has("chassis") \/ Has("chassis_target")

\* Step::checkTimeout() asks these motions only.
Timed == \E kind \in TimedKinds : Has(kind)

\* Step::stop() that forgets the arm and the playback.
StopChassisOnly ==
    /\ cmd' = IF Has("chassis") \/ Has("chassis_target") THEN Zero ELSE cmd
    /\ UNCHANGED <<arm, playing>>

\* Step::stop(): MoveIt is told to stop, a zero twist is published, the
\* cancellation of the playback is sent.  When they heed it is up to them.
StopStep ==
    /\ arm' = IF Has("arm") /\ arm = "moving" THEN "stopping" ELSE arm
    /\ cmd' = IF Has("chassis") \/ Has("chassis_target") THEN Zero ELSE cmd
    /\ playing' = IF Has("playback") /\ playing = "yes" THEN "cancelled" ELSE playing

\* StepQueue::run()'s loop that goes one step too far.
PollFinishedTooFar ==
    /\ pc = "poll"
    /\ IsFinish
    /\ pc' = "arm"
    /\ step' = step + 1
    /\ late' = FALSE
    /\ countdown' = CountdownNext
    /\ UNCHANGED <<serverVars, current, success, control, chassisVars, loopVars,
                   cmd, at, arm, elapsed, playing, player, played, adrift>>

\* One round of StepQueue::run()'s loop finds the step finished: the next
\* step, or deleteScene() and setSucceeded().
PollFinished ==
    /\ pc = "poll"
    /\ IsFinish
    /\ countdown' = CountdownNext
    /\ IF step < Len(Steps)
       THEN /\ pc' = "arm"
            /\ step' = step + 1
            /\ late' = FALSE
            /\ UNCHANGED status
       ELSE /\ pc' = "leave"
            /\ status' = [status EXCEPT ![current] = "succeeded"]
            /\ UNCHANGED <<step, late>>
    /\ UNCHANGED <<asked, next, nextCancel, preempt, current, success, control,
                   chassisVars, loopVars, cmd, at, arm, elapsed, playing, player,
                   played, adrift>>

PollTimeout ==
    /\ pc = "poll"
    /\ ~IsFinish
    /\ overlap' = Met("exit")
    /\ countdown' = CountdownNext
    /\ Timed /\ late
    /\ StopStep
    /\ status' = [status EXCEPT ![current] = "aborted"]
    /\ pc' = "leave"
    /\ UNCHANGED <<asked, next, nextCancel, preempt, current, step, success, late,
                   control, chassisVars, tick, seen, here, at, elapsed, player, played,
                   adrift>>

\* The preemption is looked at only by steps that can time out.
PollPreemptedTimed ==
    /\ pc = "poll"
    /\ ~IsFinish
    /\ overlap' = Met("exit")
    /\ countdown' = CountdownNext
    /\ Timed /\ ~late
    /\ preempt
    /\ StopStep
    /\ status' = [status EXCEPT ![current] = "preempted"]
    /\ pc' = "leave"
    /\ UNCHANGED <<asked, next, nextCancel, preempt, current, step, success, late,
                   control, chassisVars, tick, seen, here, at, elapsed, player, played,
                   adrift>>

PollPreempted ==
    /\ pc = "poll"
    /\ ~IsFinish
    /\ overlap' = Met("exit")
    /\ countdown' = CountdownNext
    /\ ~(Timed /\ late)
    /\ preempt
    /\ StopStep
    /\ status' = [status EXCEPT ![current] = "preempted"]
    /\ pc' = "leave"
    /\ UNCHANGED <<asked, next, nextCancel, preempt, current, step, success, late,
                   control, chassisVars, tick, seen, here, at, elapsed, player, played,
                   adrift>>

\* The loop sleeps for 10 ms and polls again.
PollAgain ==
    /\ pc = "poll"
    /\ ~IsFinish
    /\ ~(Timed /\ late)
    /\ ~preempt
    /\ countdown' = CountdownNext
    /\ UNCHANGED <<serverVars, execVars, chassisVars, loopVars, cmd, at, arm, elapsed,
                   playing, player, played, adrift>>

\* executeCB() that returns without giving up the control.
LeaveControl ==
    /\ pc = "leave"
    /\ pc' = "wait"
    /\ UNCHANGED <<serverVars, current, step, success, late, control, chassisVars,
                   loopVars, cmd, at, motionVars>>

\* executeCB() ends.  Its setAborted() after a failed run finds the goal in a
\* terminal state already, and changes nothing.
Leave ==
    /\ pc = "leave"
    /\ pc' = "wait"
    /\ control' = FALSE
    /\ UNCHANGED <<serverVars, current, step, success, late, chassisVars, loopVars,
                   cmd, at, motionVars>>

-----------------------------------------------------------------------------
(* The main loop: ChassisInterface::run(). *)

\* Where a tick that begins now finds the execute thread.
Window ==
    {w \in Windows : \/ w = "entry" /\ step = 0
                     \/ w = "set" /\ step > 0 /\ pc \in {"resolve", "far"}
                     \/ w = "exit" /\ step > 0 /\ pc = "leave"}

\* The pose is looked up and the position of goal_ read; without a transform
\* run() returns.
TickLook ==
    /\ tick = "sleep"
    /\ control
    /\ overlap' = overlap \cup Window
    /\ tick' = "look"
    /\ seen' = [pose |-> goal.pose, of |-> goal.of]
    /\ here' = at
    /\ UNCHANGED <<serverVars, execVars, chassisVars, cmd, at, motionVars>>

\* The yaw of goal_ is read; error_yaw_ holds the signed error until the end of
\* run().
TickYaw ==
    /\ tick = "look"
    /\ seen' = [seen EXCEPT !.pose.yaw = goal.pose.yaw]
    /\ error' = [error EXCEPT !.yaw = goal.pose.yaw - here.yaw]
    /\ tick' = "yaw"
    /\ UNCHANGED <<serverVars, execVars, goal, aim, here, overlap, cmd, at, motionVars>>

\* The twist.  The error in the map turned into the frame of the chassis by no
\* transform, and the yaw by an error that setGoal() has made huge meanwhile,
\* drive it anywhere.
Twist(rotated) ==
    LET xy == IF rotated \/ seen.pose.xy = here.xy THEN seen.pose.xy ELSE Astray
        yaw == IF error.yaw = Huge THEN Astray ELSE seen.pose.yaw
    IN IF [xy |-> xy, yaw |-> yaw] = here THEN Zero ELSE [xy |-> xy, yaw |-> yaw]

\* The twist is published.  That the error could not be turned is only logged.
TickPublish ==
    /\ tick = "yaw"
    /\ \/ cmd' = Twist(TRUE)
       \/ TfMayFail /\ cmd' = Twist(FALSE)
    /\ tick' = "store"
    /\ UNCHANGED <<serverVars, execVars, chassisVars, seen, here, overlap, at,
                   motionVars>>

\* Both errors are stored as magnitudes, and run() returns.
TickStore ==
    /\ tick = "store"
    /\ error' = [pos |-> IF seen.pose.xy = here.xy THEN 0 ELSE 1,
                 yaw |-> IF error.yaw < 0 THEN -error.yaw ELSE error.yaw]
    /\ tick' = "sleep"
    /\ seen' = Nothing
    /\ UNCHANGED <<serverVars, execVars, goal, aim, here, overlap, cmd, at,
                   motionVars>>

-----------------------------------------------------------------------------
(* The robot and time (external). *)

\* The chassis follows the last twist, in one coordinate or the other.
Drive ==
    /\ cmd # Zero
    /\ \/ cmd.xy # Astray /\ at' = [at EXCEPT !.xy = cmd.xy]
       \/ cmd.yaw # Astray /\ at' = [at EXCEPT !.yaw = cmd.yaw]
       \/ cmd.xy = Astray /\ at' = [at EXCEPT !.xy = Cells - 1 - @]
       \/ cmd.yaw = Astray /\ at' = [at EXCEPT !.yaw = Cells - 1 - @]
    /\ at' # at
    /\ UNCHANGED <<serverVars, execVars, chassisVars, loopVars, cmd, motionVars>>

ArmArrives ==
    /\ arm = "moving"
    /\ arm' = "there"
    /\ UNCHANGED <<serverVars, execVars, chassisVars, loopVars, cmd, at, countdown,
                   elapsed, playing, player, played, adrift>>

\* The arm swings out of its tolerance again.
ArmSwings ==
    /\ pc = "poll"
    /\ Has("arm")
    /\ arm = "there"
    /\ arm' = "moving"
    /\ UNCHANGED <<serverVars, execVars, chassisVars, loopVars, cmd, at, countdown,
                   elapsed, playing, player, played, adrift>>

\* MoveIt has heeded stop().
ArmStops ==
    /\ arm = "stopping"
    /\ arm' = "still"
    /\ UNCHANGED <<serverVars, execVars, chassisVars, loopVars, cmd, at, countdown,
                   elapsed, playing, player, played, adrift>>

\* doneCb(), however the playback ended: it sets the is_finish_ of its own motion,
\* late if the playback was cancelled or left going.
PlaybackDone ==
    /\ playing # "no"
    /\ playing' = "no"
    /\ played' = (played \/ (current # 0 /\ player = TheMotion))
    /\ UNCHANGED <<serverVars, execVars, chassisVars, loopVars, cmd, at, arm, countdown,
                   elapsed, player, adrift>>

DelayElapses ==
    /\ pc = "poll"
    /\ Delayed
    /\ ~elapsed
    /\ elapsed' = TRUE
    /\ UNCHANGED <<serverVars, execVars, chassisVars, loopVars, cmd, at, arm, countdown,
                   playing, player, played, adrift>>

TimeoutPasses ==
    /\ pc = "poll"
    /\ ~late
    /\ late' = TRUE
    /\ UNCHANGED <<serverVars, pc, current, step, success, control, chassisVars,
                   loopVars, cmd, at, motionVars>>

-----------------------------------------------------------------------------
Execute ==
    \/ Accept
    \/ Enter
    \/ Resolve
    \/ Far
    \/ MoveArm
    \/ MoveThrows
    \/ MoveChassis
    \/ MovePlayback
    \/ SendPlayback
    \/ PollFinished
    \/ PollTimeout
    \/ PollPreempted
    \/ PollAgain
    \/ Leave

Loop == TickLook \/ TickYaw \/ TickPublish \/ TickStore

Next ==
    \/ \E g \in Goals, q \in DOMAIN Queues \cup {"unknown"} : SendGoal(g, q)
    \/ Cancel
    \/ Execute
    \/ Loop
    \/ Drive
    \/ ArmArrives
    \/ ArmSwings
    \/ ArmStops
    \/ PlaybackDone
    \/ DelayElapses
    \/ TimeoutPasses

Safety == Init /\ [][Next]_vars

\* Both threads are scheduled and time passes.  Nothing is assumed of the arm
\* and of the chassis: a motion that does not arrive runs into its timeout.
Fairness ==
    /\ WF_vars(Execute)
    /\ WF_vars(Loop)
    /\ WF_vars(DelayElapses)
    /\ WF_vars(TimeoutPasses)
    /\ ~PlaybackMayHang => WF_vars(PlaybackDone)

Spec == Safety /\ Fairness

-----------------------------------------------------------------------------
(* Properties. *)

\* A step with a chassis motion is reported with "Finish step" (step_queue.h:106)
\* only when the chassis stands where the step asked for.
FinishIsReal ==
    [][PollFinished /\ Has("chassis") => at = aim]_vars

\* The execute thread never takes an error that was measured against another
\* goal for the error of its own: when a chassis step is finished, the main loop
\* has last seen the chassis where the step asked for - unless a tick ran into
\* setGoal() or is half way through when the errors are read, or the transform of
\* the goal into the map failed.
FinishIsRealApart ==
    [][PollFinished /\ Has("chassis") /\ goal.frame = "map"
        /\ tick = "sleep" /\ "set" \notin overlap
        => here = aim]_vars

\* Every twist of the main loop is computed from a goal that the step queue
\* under way has set, never from the one a previous queue left in goal_, unless a
\* tick came before the queue's setCurrentAsGoal().
DrivesOwnGoal ==
    [][cmd' \notin {cmd, Zero} /\ "entry" \notin overlap => seen.of = current]_vars

\* When a chassis step is preempted or runs into its timeout, the zero twist
\* of stop() is the last one, unless a tick fell between it and the end of
\* executeCB(): once the goal has ended, the chassis is not left driving.
StopIsLast ==
    /\ pc = "wait"
    /\ tick = "sleep"
    /\ current # 0 /\ step > 0
    /\ status[current] \in {"aborted", "preempted"} /\ success
    /\ Has("chassis")
    /\ "exit" \notin overlap
    => cmd = Zero

\* However a goal ended - finished, preempted or timed out, in whichever of its
\* steps - every arm motion and playback that was set going has ended or has been
\* told to stop.  Two exceptions, which go on unwatched: the motions of a step that
\* was refused, until they are started anew, and a playback whose motion the late
\* doneCb() of an earlier one had marked as finished.
EndsAtRest ==
    pc = "wait" =>
        /\ arm = "moving" => "arm" \in adrift
        /\ playing = "yes" => "playback" \in adrift

\* A step that is not finished in time is stopped, "it should be finish in %f
\* seconds" (motion.h:73), so every goal that was sent comes to an end, whatever
\* the motions do.
GoalEnds ==
    \A g \in Goals : (status[g] \in {"pending", "active"}) ~> (status[g] \in Terminal)

\* A queue that plays trajectories only beside motions with a timeout.
Watched(q) ==
    q \in DOMAIN Queues =>
        \A i \in DOMAIN Queues[q] :
            "playback" \in Queues[q][i].kinds =>
                Queues[q][i].kinds \cap TimedKinds # {}

\* A goal of such a queue comes to an end whatever its motions do, and even when
\* the goal before it is stuck in a playback that never finishes - unless an end
\* effector without a transform ends the node.
WatchedGoalEnds ==
    \A g \in Goals :
        (status[g] \in {"pending", "active"} /\ Watched(asked[g]))
            ~> (status[g] \in Terminal \/ pc = "dead")

\* A preempted goal ends, even when a playback never finishes, unless the node
\* does.
PreemptEnds ==
    \A g \in Goals :
        (current = g /\ preempt) ~> (status[g] \in Terminal \/ pc = "dead")
=============================================================================
