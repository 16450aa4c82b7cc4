-------------------------- MODULE TrajectoryTeaching --------------------------
(***************************************************************************)
(* The trajectory teaching server (engineer_trajectory_teaching.cpp): it   *)
(* records the joints into a file and plays a file back to the arm.        *)
(*                                                                         *)
(* executeCB() runs on the thread of the action server.  The callbacks of  *)
(* /joint_states and of the controller's state, and those of the action's  *)
(* goals and cancels, run on the three threads of the spinner; nothing is  *)
(* locked.  The action server (external) keeps one goal at work and one    *)
(* that waits; a goal that comes preempts the one at work.                 *)
(*                                                                         *)
(* A point is the number of its positions: Joints of them make it whole,   *)
(* and 0 stands for an entry of a file that yaml-cpp cannot convert.       *)
(***************************************************************************)
EXTENDS Naturals, Sequences

CONSTANTS
    Joints,      \* how many joints record_joint_names names
    Files,       \* the file names of the goals
    Unwritable,  \* those in a directory that does not exist
    Written,     \* what files that were written by hand contain
    MaxPoints    \* bound: the points of a recording

ASSUME JointsAssumption == Joints \in Nat \ {0}
ASSUME FilesAssumption == Unwritable \subseteq Files
ASSUME WrittenAssumption == Written \subseteq Seq(0 .. Joints)
ASSUME MaxPointsAssumption == MaxPoints \in Nat \ {0}

\* The goals: RECORD, PLAYBACK, and those that are refused at once (an empty
\* file name, a sync_time or a speed that is not positive).
Goals ==
    [command : {"RECORD", "PLAYBACK"}, file : Files] \cup {[command |-> "REFUSED"]}
NoGoal == [command |-> "NONE"]

NoFile == [there |-> FALSE, points |-> <<>>]

VARIABLES
    up,          \* the process lives
    ok,          \* ros::ok()
    \* the action server (external)
    goal,        \* the goal at work, or the last one that was
    next,        \* the goal that waits
    preempt,     \* isPreemptRequested()
    nextPreempt, \* the goal that waits is cancelled already
    \* the thread that runs executeCB()
    exec,
    due,         \* the interval between points, or the duration, has passed
    taken,       \* the positions that record() has looked up for its point
    recorded,    \* recorded_trajectory_.trajectory_points
    points,      \* the points that were loaded
    at,          \* the point to be played next
    hold,        \* what stopPlayback() has copied: joint names, positions
    thrown,      \* playback was left through the catch block
    \* the callbacks
    joints,      \* how many of the joints joint_state_ holds
    joining,     \* jointStateCallback() is between clear() and its end
    state,       \* controller_state_
    \* the surroundings
    files,
    cmd,         \* the trajectory command published last
    \* histories, of the goal at work
    count,       \* the points that were recorded
    lost,        \* a joint was not found
    cut,         \* it was preempted with points left to play
    early        \* stopPlayback() began before a state was there

execVars == <<exec, due, taken, recorded, points, at, hold, thrown>>
serverVars == <<goal, next, preempt, nextPreempt>>
callbackVars == <<joints, joining, state>>
histories == <<count, lost, cut, early>>
vars == <<up, ok, serverVars, execVars, callbackVars, files, cmd, histories>>

Recordings == UNION {[1 .. n -> 0 .. Joints] : n \in 0 .. MaxPoints}
Contents == Recordings \cup Written

TypeOK ==
    /\ up \in BOOLEAN /\ ok \in BOOLEAN
    /\ goal \in Goals \cup {NoGoal}
    /\ next \in Goals \cup {NoGoal}
    /\ preempt \in BOOLEAN /\ nextPreempt \in BOOLEAN
    /\ exec \in {"wait", "record", "lookup", "check", "load", "play", "played",
                 "stop", "stopping", "sleep"}
    /\ due \in BOOLEAN
    /\ taken \in 0 .. Joints
    /\ recorded \in Recordings
    /\ points \in Contents
    /\ at \in Nat /\ at <= Len(points) + 1
    /\ hold \in BOOLEAN /\ thrown \in BOOLEAN
    /\ joints \in 0 .. Joints
    /\ joining \in BOOLEAN
    /\ state \in {"none", "arriving", "there"}
    /\ files \in [Files -> [there : BOOLEAN, points : Contents]]
    /\ cmd \in {"none", "point", "hold", "empty"}
    /\ count \in 0 .. MaxPoints
    /\ lost \in BOOLEAN /\ cut \in BOOLEAN /\ early \in BOOLEAN

\* The constructor has started the action server.
Init ==
    /\ up = TRUE /\ ok = TRUE
    /\ goal = NoGoal /\ next = NoGoal
    /\ preempt = FALSE /\ nextPreempt = FALSE
    /\ exec = "wait" /\ due = FALSE /\ taken = 0
    /\ recorded = <<>> /\ points = <<>> /\ at = 1
    /\ hold = FALSE /\ thrown = FALSE
    /\ joints = 0 /\ joining = FALSE /\ state = "none"
    /\ files \in [Files -> {NoFile} \cup [there : {TRUE}, points : Written]]
    /\ \A file \in Unwritable : files[file] = NoFile
    /\ cmd = "none"
    /\ count = 0 /\ lost = FALSE /\ cut = FALSE /\ early = FALSE

-----------------------------------------------------------------------------
(* The action server (external). *)

\* Points are left to be played by the goal at work.
Unplayed ==
    \/ exec = "load"
    \/ exec \in {"play", "played"} /\ at <= Len(points)

\* A goal comes: it replaces the one that waits and preempts the one at work.
GoalCallback(g) ==
    /\ up /\ ok
    /\ next' = g
    /\ nextPreempt' = FALSE
    /\ preempt' = (preempt \/ exec # "wait")
    /\ cut' = (cut \/ Unplayed)
    /\ UNCHANGED <<up, ok, goal, execVars, callbackVars, files, cmd, count, lost, early>>

\* The goal at work is cancelled.
CancelCallback ==
    /\ up /\ ok
    /\ exec # "wait"
    /\ preempt' = TRUE
    /\ cut' = (cut \/ Unplayed)
    /\ UNCHANGED <<up, ok, goal, next, nextPreempt, execVars, callbackVars, files, cmd,
                   count, lost, early>>

\* The goal that waits is cancelled.
CancelNext ==
    /\ up /\ ok
    /\ next # NoGoal
    /\ nextPreempt' = TRUE
    /\ UNCHANGED <<up, ok, goal, next, preempt, execVars, callbackVars, files, cmd,
                   histories>>

\* The node is shut down: the loops of executeCB() look at ros::ok(), and
\* nothing is published any more.
RosShutdown ==
    /\ up /\ ok
    /\ ok' = FALSE
    /\ UNCHANGED <<up, serverVars, execVars, callbackVars, files, cmd, histories>>

\* The loops' condition to stop.
StopRequested == preempt \/ ~ok

\* executeCB() ends, and with it its locals; a goal without a result is aborted
\* by the server.
Finish ==
    /\ exec' = "wait"
    /\ points' = <<>> /\ at' = 1

Publish(what) == cmd' = IF ok THEN what ELSE cmd

-----------------------------------------------------------------------------
(* executeCB() begins. *)

\* startRecord() that keeps last_time_from_start_.
ExecuteRecordNotDue ==
    /\ up /\ ok /\ exec = "wait"
    /\ next.command = "RECORD"
    /\ goal' = next /\ next' = NoGoal
    /\ preempt' = nextPreempt /\ nextPreempt' = FALSE
    /\ exec' = "record"
    /\ recorded' = <<>>
    /\ count' = 0 /\ lost' = FALSE /\ cut' = FALSE /\ early' = FALSE
    /\ UNCHANGED <<up, ok, due, taken, points, at, hold, thrown, callbackVars, files, cmd>>

\* A RECORD goal begins with startRecord(): the first point is due at once.
ExecuteRecord ==
    /\ up /\ ok /\ exec = "wait"
    /\ next.command = "RECORD"
    /\ goal' = next /\ next' = NoGoal
    /\ preempt' = nextPreempt /\ nextPreempt' = FALSE
    /\ exec' = "record"
    /\ recorded' = <<>>
    /\ due' = TRUE
    /\ count' = 0 /\ lost' = FALSE /\ cut' = FALSE /\ early' = FALSE
    /\ UNCHANGED <<up, ok, taken, points, at, hold, thrown, callbackVars, files, cmd>>

ExecutePlayback ==
    /\ up /\ ok /\ exec = "wait"
    /\ next.command = "PLAYBACK"
    /\ goal' = next /\ next' = NoGoal
    /\ preempt' = nextPreempt /\ nextPreempt' = FALSE
    /\ exec' = "load"
    /\ thrown' = FALSE
    /\ count' = 0 /\ lost' = FALSE /\ cut' = nextPreempt /\ early' = FALSE
    /\ UNCHANGED <<up, ok, due, taken, recorded, points, at, hold, callbackVars, files, cmd>>

\* A goal that is refused is aborted.
ExecuteRefused ==
    /\ up /\ ok /\ exec = "wait"
    /\ next.command = "REFUSED"
    /\ goal' = next /\ next' = NoGoal
    /\ preempt' = nextPreempt /\ nextPreempt' = FALSE
    /\ count' = 0 /\ lost' = FALSE /\ cut' = FALSE /\ early' = FALSE
    /\ UNCHANGED <<up, ok, execVars, callbackVars, files, cmd>>

-----------------------------------------------------------------------------
(* Recording. *)

\* record() begins; before the interval has passed it returns at once.
Record ==
    /\ up /\ exec = "record"
    /\ exec' = IF due THEN "lookup" ELSE "check"
    /\ UNCHANGED <<up, ok, serverVars, due, taken, recorded, points, at, hold, thrown,
                   callbackVars, files, cmd, histories>>

\* joint_state_.at() of the next joint.  Beside the callback, which takes the
\* map apart and builds it up, anything may come of it.
Found == joining \/ taken < joints
NotFound == joining \/ taken >= joints

LookUp ==
    /\ up /\ exec = "lookup"
    /\ taken < Joints
    /\ Found
    /\ taken' = taken + 1
    /\ UNCHANGED <<up, ok, serverVars, exec, due, recorded, points, at, hold, thrown,
                   callbackVars, files, cmd, histories>>

\* The catch block goes on with what has been looked up so far.
LookUpFailsPushes ==
    /\ up /\ exec = "lookup"
    /\ taken < Joints
    /\ NotFound
    /\ exec' = "check"
    /\ taken' = 0
    /\ lost' = TRUE
    /\ recorded' = Append(recorded, taken)
    /\ count' = count + 1
    /\ due' = FALSE
    /\ UNCHANGED <<up, ok, serverVars, points, at, hold, thrown, callbackVars,
                   files, cmd, cut, early>>

\* The joint is not found: record() returns without a point, and the next call
\* tries again at once.
LookUpFails ==
    /\ up /\ exec = "lookup"
    /\ taken < Joints
    /\ NotFound
    /\ exec' = "check"
    /\ taken' = 0
    /\ lost' = TRUE
    /\ UNCHANGED <<up, ok, serverVars, due, recorded, points, at, hold, thrown,
                   callbackVars, files, cmd, count, cut, early>>

\* The map is read while its nodes are freed.
LookUpCrashes ==
    /\ up /\ exec = "lookup"
    /\ joining
    /\ up' = FALSE
    /\ UNCHANGED <<ok, serverVars, execVars, callbackVars, files, cmd, histories>>

\* All joints were found: the point is kept.
PushPoint ==
    /\ up /\ exec = "lookup"
    /\ taken = Joints
    /\ recorded' = Append(recorded, taken)
    /\ count' = count + 1
    /\ due' = FALSE
    /\ exec' = "check"
    /\ taken' = 0
    /\ UNCHANGED <<up, ok, serverVars, points, at, hold, thrown, callbackVars,
                   files, cmd, lost, cut, early>>

\* recordToYAML(): a file that cannot be opened is not noticed.
RecordToYAML(file) ==
    files' = IF file \in Unwritable THEN files
             ELSE [files EXCEPT ![file] = [there |-> TRUE, points |-> recorded]]

\* The loop looks for a cancel of the goal only.
RecordCheckIgnoresGoals ==
    /\ up /\ exec = "check"
    /\ IF StopRequested /\ next = NoGoal
       THEN RecordToYAML(goal.file) /\ Finish
       ELSE exec' = "record" /\ UNCHANGED <<files, points, at>>
    /\ UNCHANGED <<up, ok, serverVars, due, taken, recorded, hold, thrown,
                   callbackVars, cmd, histories>>

\* The end of the loop's body: stopRecord() saves, and the goal has succeeded.
RecordCheck ==
    /\ up /\ exec = "check"
    /\ IF StopRequested
       THEN RecordToYAML(goal.file) /\ Finish
       ELSE exec' = "record" /\ UNCHANGED <<files, points, at>>
    /\ UNCHANGED <<up, ok, serverVars, due, taken, recorded, hold, thrown,
                   callbackVars, cmd, histories>>

-----------------------------------------------------------------------------
(* Playback. *)

\* The catch block: stopPlayback() comes next, and no result is set.
Catch == exec' = "stop" /\ thrown' = TRUE

\* The file is loaded, and its first time stamp is read; the first point is due
\* at once.
Load ==
    /\ up /\ exec = "load"
    /\ files[goal.file].there /\ files[goal.file].points # <<>>
    /\ points' = files[goal.file].points
    /\ at' = 1
    /\ due' = TRUE
    /\ IF Head(files[goal.file].points) = 0 THEN Catch
       ELSE exec' = "play" /\ UNCHANGED thrown
    /\ UNCHANGED <<up, ok, serverVars, taken, recorded, hold, callbackVars, files, cmd,
                   histories>>

\* There is no such file; or it has no points: the code then dereferences the
\* end of an empty sequence, which may throw or kill the process.
LoadFails ==
    /\ up /\ exec = "load"
    /\ ~files[goal.file].there \/ files[goal.file].points = <<>>
    /\ points' = <<>> /\ at' = 1
    /\ \/ Catch /\ UNCHANGED up
       \/ files[goal.file].there /\ up' = FALSE /\ UNCHANGED <<exec, thrown>>
    /\ UNCHANGED <<ok, serverVars, due, taken, recorded, hold, callbackVars, files, cmd,
                   histories>>

\* playback(): the point's commands are published.
Playback ==
    /\ up /\ exec = "play"
    /\ due
    /\ points[at] # 0
    /\ Publish("point")
    /\ at' = at + 1
    /\ due' = FALSE
    /\ exec' = "played"
    /\ UNCHANGED <<up, ok, serverVars, taken, recorded, points, hold, thrown, callbackVars,
                   files, histories>>

\* An entry is no point: an exception, before or after its trajectory command
\* was published.
PlaybackThrows ==
    /\ up /\ exec = "play"
    /\ due
    /\ points[at] = 0
    /\ Publish("point") \/ UNCHANGED cmd
    /\ Catch
    /\ UNCHANGED <<up, ok, serverVars, due, taken, recorded, points, at, hold, callbackVars,
                   files, histories>>

\* The loop's condition.
LoopAgain == exec' = IF at <= Len(points) THEN "play" ELSE "sleep"

\* The test that stops a playback is made only when no point was due.
PlayedElse ==
    /\ up
    /\ \/ exec = "played" /\ LoopAgain
       \/ exec = "play" /\ ~due /\ StopRequested /\ exec' = "stop"
    /\ UNCHANGED <<up, ok, serverVars, due, taken, recorded, points, at, hold, thrown,
                   callbackVars, files, cmd, histories>>

\* The end of the loop's body, with a point just played or with none due.
Played ==
    /\ up
    /\ \/ exec = "played" /\ IF StopRequested THEN exec' = "stop" ELSE LoopAgain
       \/ exec = "play" /\ ~due /\ StopRequested /\ exec' = "stop"
    /\ UNCHANGED <<up, ok, serverVars, due, taken, recorded, points, at, hold, thrown,
                   callbackVars, files, cmd, histories>>

\* stopPlayback() copies the joint names of controller_state_, ...
StopPlayback ==
    /\ up /\ exec = "stop"
    /\ exec' = "stopping"
    /\ hold' = (state # "none")
    /\ early' = (state # "there")
    /\ UNCHANGED <<up, ok, serverVars, due, taken, recorded, points, at, thrown,
                   callbackVars, files, cmd, count, lost, cut>>

\* ... then the positions, and publishes; after the last point the loop's end
\* still sleeps.
StopPlaybackPublishes ==
    /\ up /\ exec = "stopping"
    /\ \/ state # "none" /\ hold /\ Publish("hold")
       \/ (state # "there" \/ ~hold) /\ Publish("empty")
    /\ hold' = FALSE
    /\ IF ~thrown /\ at > Len(points)
       THEN exec' = "sleep" /\ UNCHANGED <<points, at>>
       ELSE Finish
    /\ UNCHANGED <<up, ok, serverVars, due, taken, recorded, thrown, callbackVars, files,
                   histories>>

\* duration.sleep() of the last point; the goal has succeeded.
Slept ==
    /\ up /\ exec = "sleep"
    /\ Finish
    /\ UNCHANGED <<up, ok, serverVars, due, taken, recorded, hold, thrown, callbackVars,
                   files, cmd, histories>>

\* Time passes.
TimePasses ==
    /\ up /\ ~due
    /\ \/ exec \in {"record", "check"} /\ Len(recorded) < MaxPoints
       \/ exec \in {"play", "played"}
    /\ due' = TRUE
    /\ UNCHANGED <<up, ok, serverVars, exec, taken, recorded, points, at, hold, thrown,
                   callbackVars, files, cmd, histories>>

-----------------------------------------------------------------------------
(* The callbacks. *)

\* jointStateCallback() clears the map and fills it joint by joint.
JointStateClear ==
    /\ up /\ ok /\ ~joining
    /\ joining' = TRUE
    /\ joints' = 0
    /\ UNCHANGED <<up, ok, serverVars, execVars, state, files, cmd, histories>>

\* One joint too many is inserted.
JointStateInsertMore ==
    /\ up /\ joining
    /\ joints' = joints + 1
    /\ joining' = (joints < Joints)
    /\ UNCHANGED <<up, ok, serverVars, execVars, state, files, cmd, histories>>

JointStateInsert ==
    /\ up /\ joining
    /\ joints' = joints + 1
    /\ joining' = (joints + 1 < Joints)
    /\ UNCHANGED <<up, ok, serverVars, execVars, state, files, cmd, histories>>

\* controllerStateCallback(): the first state assigns the joint names, then the
\* positions; the later ones change positions in place.
ControllerStateCallback ==
    /\ up
    /\ \/ ok /\ state = "none" /\ state' = "arriving"
       \/ state = "arriving" /\ state' = "there"
    /\ UNCHANGED <<up, ok, serverVars, execVars, joints, joining, files, cmd, histories>>

-----------------------------------------------------------------------------
Execute ==
    \/ ExecuteRecord \/ ExecutePlayback \/ ExecuteRefused
    \/ Record \/ LookUp \/ LookUpFails \/ LookUpCrashes \/ PushPoint \/ RecordCheck
    \/ Load \/ LoadFails \/ Playback \/ PlaybackThrows \/ Played
    \/ StopPlayback \/ StopPlaybackPublishes \/ Slept

Next ==
    \/ \E g \in Goals : GoalCallback(g)
    \/ CancelCallback \/ CancelNext \/ RosShutdown
    \/ Execute
    \/ TimePasses
    \/ JointStateClear \/ JointStateInsert \/ ControllerStateCallback

Safety == Init /\ [][Next]_vars

\* The thread of executeCB() runs on, and time passes.  Nothing is assumed of
\* the operator, nor that joint states come.
Spec == Safety /\ WF_vars(Execute) /\ WF_vars(TimePasses)

-----------------------------------------------------------------------------
(* Properties. *)

\* What a RECORD goal leaves in its file are the points of this goal, all of
\* them and none of an earlier recording, each with every joint - also when
\* joints vanished from joint_state_ while they were looked up, when the goal was
\* cancelled before it began, or when the node is shut down.
SavedRecording ==
    exec = "wait" /\ goal.command = "RECORD" /\ goal.file \notin Unwritable =>
        /\ files[goal.file].there
        /\ Len(files[goal.file].points) = count
        /\ \A i \in 1 .. count : files[goal.file].points[i] = Joints

\* A recording, however short, has a point, unless a joint was not found: only
\* then is a file without points written, which a playback cannot survive.
RecordingHasPoints ==
    exec = "wait" /\ goal.command = "RECORD" => count > 0 \/ lost

\* A playback that is cancelled, or replaced by a new goal, while points are left,
\* or whose file proves to be no good, ends with the arm held where it is, unless
\* the controller had not told its state by then or the node is being shut down.
CancelledPlaybackHolds ==
    exec = "wait" /\ goal.command = "PLAYBACK" /\ (cut \/ thrown) /\ ok =>
        cmd = "hold" \/ early

\* A goal that comes is taken up, whatever the one at work does (a recording has
\* no end of its own), and every playback ends.
GoalsEnd ==
    /\ (next # NoGoal) ~> (next = NoGoal \/ ~ok \/ ~up)
    /\ (exec # "wait" /\ goal.command = "PLAYBACK") ~> (exec = "wait" \/ ~up)
=============================================================================
