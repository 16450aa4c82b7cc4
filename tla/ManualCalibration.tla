-------------------------- MODULE ManualCalibration --------------------------
(***************************************************************************)
(* The calibration of the robot's joints, from the operator's switch to    *)
(* the calibration controllers: ManualBase's handling of the remote and of *)
(* the robot's life (manual_base.cpp), CalibrationQueue and                *)
(* CalibrationService (calibration_queue.h), the detached threads of       *)
(* QueryCalibrationServiceCaller (service_caller.h), CalibrationBase       *)
(* (calibration_base.cpp) and the order of the manual node's loop          *)
(* (main.cpp, Engineer2Manual::run()): callbacks, ControllerManager        *)
(* update, queue update.  Controller switching is the port of SwitchPort,  *)
(* which ControllerManager implements.                                     *)
(***************************************************************************)
EXTENDS SwitchPort, Naturals, Sequences

CONSTANTS
    StateControllers,       \* controllers_list/state_controllers
    MainControllers,        \* controllers_list/main_controllers
    CalibrationControllers, \* controllers_list/calibration_controllers
    Gather,                 \* calibration_gather: a sequence of entries
                            \* [start, stop]; an entry queries the controllers
                            \* it starts
    Joints,                 \* the joints of the robot
    Claims,                 \* the joints a controller commands
    Disturb,                \* the events that may come during a calibration:
                            \* a subset of {"reset", "remote", "robot"}
    QueryMayFail,           \* TRUE: an is_calibrated call may fail
    PromptQuery             \* TRUE: an is_calibrated call returns within the
                            \* 0.2 s between two queries

ASSUME ListsAssumption ==
    /\ StateControllers \subseteq Controllers
    /\ MainControllers \subseteq Controllers
    /\ CalibrationControllers \subseteq Controllers
    /\ CalibrationControllers \cap (StateControllers \cup MainControllers) = {}

ASSUME GatherAssumption ==
    Gather \in Seq([start : SUBSET CalibrationControllers,
                    stop : SUBSET (StateControllers \cup MainControllers)])

ASSUME ClaimsAssumption == Claims \in [Controllers -> SUBSET Joints]

\* No joint is commanded by two of the controllers.
Compatible(cs) == \A c, d \in cs : c # d => Claims[c] \cap Claims[d] = {}

\* What engineer.yaml and engineer2.yaml (rm_config/config/rm_manual) make sure of:
\* the operator's controllers command different joints, an entry stops what its
\* calibration controllers would collide with, and no controller is in two entries.
ASSUME ConfigurationAssumption ==
    /\ StateControllers \cap MainControllers = {}
    /\ Compatible(StateControllers \cup MainControllers)
    /\ \A i \in DOMAIN Gather :
        Compatible(((StateControllers \cup MainControllers) \ Gather[i].stop)
                       \cup Gather[i].start)
    /\ \A i, j \in DOMAIN Gather : i # j => Gather[i].start \cap Gather[j].start = {}

ASSUME EnvironmentAssumption ==
    /\ Disturb \subseteq {"reset", "remote", "robot"}
    /\ QueryMayFail \in BOOLEAN
    /\ PromptQuery \in BOOLEAN

VARIABLES
    turn,       \* the main loop: "spin" (callbacks), "calibrate"
    remote,     \* remote_is_open_
    alive,      \* robot_hp_event_: the last remain_hp was not 0
    itr,        \* calibration_itr_; Len(Gather) + 1 is end()
    switched,   \* switched_
    answer,     \* response.is_calibrated of each query service
    asking,     \* the thread of each query service
    success,    \* the controllers with calibration_success_
    calibrated, \* the controllers whose actuator_ is calibrated
    disturbed,  \* history: the remote, or the robot's life, has changed
                \* during a calibration
    midway,     \* history: the remote was last turned off during a calibration
    lost,       \* history: the controllers whose last request failed
    refused     \* history: the controllers whose last request was refused

manualVars == <<turn, remote, alive>>
queueVars == <<itr, switched>>
queryVars == <<answer, asking>>
operatorHistory == <<disturbed, midway>>
requestHistory == <<lost, refused>>
history == <<operatorHistory, requestHistory>>
vars == <<portVars, manualVars, queueVars, queryVars, success, calibrated, history>>

End == Len(Gather) + 1

\* How far the thread of a query is: spawned and not yet holding the mutex,
\* holding it, or holding it with the server's answer under way.
Threads == {"none", "spawned", "calling", "yes", "no"}

TypeOK ==
    /\ PortTypeOK
    /\ turn \in {"spin", "calibrate"}
    /\ remote \in BOOLEAN
    /\ alive \in BOOLEAN
    /\ itr \in 1 .. End
    /\ switched \in BOOLEAN
    /\ answer \in [CalibrationControllers -> BOOLEAN]
    /\ asking \in [CalibrationControllers -> Threads]
    /\ success \subseteq CalibrationControllers
    /\ calibrated \subseteq CalibrationControllers
    /\ disturbed \in BOOLEAN
    /\ midway \in BOOLEAN
    /\ lost \subseteq Controllers
    /\ refused \subseteq Controllers

\* The constructors: the state controllers are to be started, and the queue
\* starts out calibrated.
Init ==
    /\ buffer = WithStart(Nothing, StateControllers)
    /\ call = Nothing
    /\ running = {}
    /\ turn = "spin"
    /\ remote = FALSE
    /\ alive = FALSE
    /\ itr = End
    /\ switched = FALSE
    /\ answer = [s \in CalibrationControllers |-> FALSE]
    /\ asking = [s \in CalibrationControllers |-> "none"]
    /\ success = {}
    /\ calibrated = {}
    /\ disturbed = FALSE
    /\ midway = FALSE
    /\ lost = {}
    /\ refused = {}

-----------------------------------------------------------------------------
(* CalibrationQueue. *)

IsCalibrated == itr = End

\* CalibrationService::isCalibrated(): a service with a call under way counts
\* as not calibrated; a thread that does not hold the mutex yet is not seen.
EntryCalibrated(e) ==
    \A s \in e.start : asking[s] \in {"none", "spawned"} /\ answer[s]

\* reset() that keeps the old answers.
ResetKeepingAnswers ==
    /\ itr' = 1
    /\ switched' = FALSE
    /\ UNCHANGED answer

Reset ==
    /\ itr' = 1
    /\ switched' = FALSE
    /\ answer' = [s \in CalibrationControllers |-> FALSE]

\* update() when the queue is at its end.
QueueIdle ==
    /\ IsCalibrated
    /\ UNCHANGED <<buffer, itr, switched, asking>>

\* update() that starts the controllers of an entry and stops none.
QueueSwitchStartOnly ==
    /\ ~IsCalibrated
    /\ ~switched
    /\ switched' = TRUE
    /\ buffer' = WithStart(buffer, Gather[itr].start)
    /\ UNCHANGED <<itr, asking>>

\* update() starts the calibration controllers of the entry in place of the
\* ones that command the same joints.
QueueSwitch ==
    /\ ~IsCalibrated
    /\ ~switched
    /\ switched' = TRUE
    /\ buffer' = WithStop(WithStart(buffer, Gather[itr].start), Gather[itr].stop)
    /\ UNCHANGED <<itr, asking>>

\* update() that does not put the stopped controllers back.
QueueAdvanceNoFlip ==
    /\ ~IsCalibrated
    /\ switched
    /\ EntryCalibrated(Gather[itr])
    /\ buffer' = WithStop(buffer, Gather[itr].start)
    /\ itr' = itr + 1
    /\ switched' = FALSE
    /\ UNCHANGED asking

\* update() that leaves the calibration controllers of a finished entry on.
QueueAdvanceNoStop ==
    /\ ~IsCalibrated
    /\ switched
    /\ EntryCalibrated(Gather[itr])
    /\ itr' = itr + 1
    /\ switched' = FALSE
    /\ UNCHANGED <<buffer, asking>>

\* update() that advances calibration_itr_ twice.
QueueAdvanceTwice ==
    /\ ~IsCalibrated
    /\ switched
    /\ EntryCalibrated(Gather[itr])
    /\ buffer' = WithStop(WithStart(buffer, Gather[itr].stop), Gather[itr].start)
    /\ itr' = itr + 2
    /\ switched' = FALSE
    /\ UNCHANGED asking

\* update() goes on to the next entry and flips the controllers back.
QueueAdvance ==
    /\ ~IsCalibrated
    /\ switched
    /\ EntryCalibrated(Gather[itr])
    /\ buffer' = WithStop(WithStart(buffer, Gather[itr].stop), Gather[itr].start)
    /\ itr' = itr + 1
    /\ switched' = FALSE
    /\ UNCHANGED asking

\* update() more than 0.2 s after the last query: a thread per service that
\* has no call under way.  The threads of the last query have their mutexes.
QueueQuery ==
    /\ ~IsCalibrated
    /\ switched
    /\ ~EntryCalibrated(Gather[itr])
    /\ \A s \in Gather[itr].start : asking[s] # "spawned"
    /\ PromptQuery => \A s \in Gather[itr].start : asking[s] = "none"
    /\ asking' = [s \in CalibrationControllers |->
                    IF s \in Gather[itr].start /\ asking[s] = "none"
                    THEN "spawned" ELSE asking[s]]
    /\ UNCHANGED <<buffer, itr, switched>>

\* update() less than 0.2 s after the last query.
QueueWait ==
    /\ ~IsCalibrated
    /\ switched
    /\ ~EntryCalibrated(Gather[itr])
    /\ UNCHANGED <<buffer, itr, switched, asking>>

\* Nothing of a calibration is under way: the queue is at its end, no command
\* is on its way and no query thread is left.
Settled == buffer = Nothing /\ call = Nothing
Quiet ==
    /\ IsCalibrated
    /\ Settled
    /\ \A s \in CalibrationControllers : asking[s] = "none"

-----------------------------------------------------------------------------
(* ManualBase: the callbacks of one ros::spinOnce(). *)

RemoteControlTurnOn == WithStart(buffer, StateControllers \cup MainControllers)

\* remoteControlTurnOff() that stops the calibration controllers only.
RemoteControlTurnOffKeepMain == WithStop(buffer, CalibrationControllers)

RemoteControlTurnOff == WithStop(buffer, MainControllers \cup CalibrationControllers)

RobotRevive == IF remote THEN WithStart(buffer, MainControllers) ELSE buffer

RobotDie ==
    IF remote THEN WithStop(buffer, MainControllers \cup CalibrationControllers)
    ELSE buffer

\* dbusDataCallback() with a fresh stamp: remoteControlTurnOn() if the remote
\* was off.  calibrate: the message raises the left switch (state RC) or
\* presses ctrl-R (state PC), whose handlers reset the queue.
DbusFresh(calibrate) ==
    /\ turn = "spin"
    /\ ~remote \/ calibrate
    /\ (~remote /\ "remote" \notin Disturb) => IsCalibrated
    /\ (calibrate /\ "reset" \notin Disturb) => Quiet
    /\ buffer' = IF remote THEN buffer ELSE RemoteControlTurnOn
    /\ remote' = TRUE
    /\ disturbed' = (disturbed \/ (~remote /\ ~IsCalibrated))
    /\ midway' = FALSE
    /\ IF calibrate THEN Reset ELSE UNCHANGED <<itr, switched, answer>>
    /\ UNCHANGED <<call, running, turn, alive, asking, success, calibrated,
                   requestHistory>>

\* dbusDataCallback() with a stale stamp: remoteControlTurnOff().  The queue
\* is not told.
DbusStale ==
    /\ turn = "spin"
    /\ remote
    /\ "remote" \notin Disturb => IsCalibrated
    /\ buffer' = RemoteControlTurnOff
    /\ remote' = FALSE
    /\ disturbed' = (disturbed \/ ~IsCalibrated)
    /\ midway' = ~IsCalibrated
    /\ UNCHANGED <<call, running, turn, alive, queueVars, queryVars, success,
                   calibrated, requestHistory>>

\* gameRobotStatusCallback(): an edge of robot_hp_event_, robotRevive() or
\* robotDie().
GameRobotStatus ==
    /\ turn = "spin"
    /\ "robot" \notin Disturb => IsCalibrated
    /\ alive' = ~alive
    /\ disturbed' = (disturbed \/ ~IsCalibrated)
    /\ buffer' = IF alive' THEN RobotRevive ELSE RobotDie
    /\ UNCHANGED <<call, running, turn, remote, queueVars, queryVars, success,
                   calibrated, midway, requestHistory>>

\* run() after the callbacks: ControllerManager::update().
ManagerUpdate ==
    /\ turn = "spin"
    /\ turn' = "calibrate"
    /\ \/ Flush
       \/ /\ call # Nothing \/ buffer = Nothing
          /\ UNCHANGED portVars
    /\ UNCHANGED <<remote, alive, queueVars, queryVars, success, calibrated, history>>

\* The rest of run(): CalibrationQueue::update().
CalibrationUpdate ==
    /\ turn = "calibrate"
    /\ turn' = "spin"
    /\ QueueIdle \/ QueueSwitch \/ QueueAdvance \/ QueueQuery \/ QueueWait
    /\ UNCHANGED <<call, running, remote, alive, answer, success, calibrated, history>>

-----------------------------------------------------------------------------
(* The query threads. *)

\* callingThread() gets the mutex.
QueryLock(s) ==
    /\ asking[s] = "spawned"
    /\ asking' = [asking EXCEPT ![s] = "calling"]
    /\ UNCHANGED <<portVars, manualVars, queueVars, answer, success, calibrated, history>>

\* CalibrationBase::isCalibrated() on the robot.
QueryServe(s) ==
    /\ asking[s] = "calling"
    /\ asking' = [asking EXCEPT ![s] = IF s \in success THEN "yes" ELSE "no"]
    /\ UNCHANGED <<portVars, manualVars, queueVars, answer, success, calibrated, history>>

\* The answer is written to service_.response and the mutex released.
QueryReturn(s) ==
    /\ asking[s] \in {"yes", "no"}
    /\ answer' = [answer EXCEPT ![s] = asking[s] = "yes"]
    /\ asking' = [asking EXCEPT ![s] = "none"]
    /\ UNCHANGED <<portVars, manualVars, queueVars, success, calibrated,
                   history>>

\* client_.call() fails: the response keeps its old value.
QueryFail(s) ==
    /\ QueryMayFail
    /\ asking[s] = "calling"
    /\ asking' = [asking EXCEPT ![s] = "none"]
    /\ UNCHANGED <<portVars, manualVars, queueVars, answer, success, calibrated, history>>

-----------------------------------------------------------------------------
(* The robot: the controller manager and the calibration controllers. *)

\* The controllers that a request starts or stops.
Named(request) == request.start \cup request.stop

\* The controller manager switches; a calibration controller that stops clears
\* its calibration_success_ (CalibrationBase::stopping()), one that starts marks
\* its actuator as not calibrated (starting()).
Switch ==
    /\ Compatible(Switched(running, call))
    /\ Apply
    /\ success' = success \ (call.stop \cap running)
    /\ calibrated' = calibrated \ (call.start \ running)
    /\ lost' = lost \ Named(call)
    /\ refused' = refused \ Named(call)
    /\ UNCHANGED <<manualVars, queueVars, queryVars, operatorHistory>>

\* Two controllers would command one joint: the controller manager answers
\* ok = false and switches nothing.
Refuse ==
    /\ ~Compatible(Switched(running, call))
    /\ call' = Nothing
    /\ refused' = refused \cup Named(call)
    /\ UNCHANGED <<buffer, running, manualVars, queueVars, queryVars, success,
                   calibrated, operatorHistory, lost>>

\* The call fails, which callingThread() only reports: nothing is switched, and
\* nobody sends the request again.
Fail ==
    /\ Lose
    /\ lost' = lost \cup Named(call)
    /\ UNCHANGED <<manualVars, queueVars, queryVars, success, calibrated,
                   operatorHistory, refused>>

\* A running calibration controller finds its joint's end: the actuator is
\* calibrated, and calibration_success_ is set until the controller stops.
Home(c) ==
    /\ c \in running \ success
    /\ success' = success \cup {c}
    /\ calibrated' = calibrated \cup {c}
    /\ UNCHANGED <<portVars, manualVars, queueVars, queryVars, history>>

-----------------------------------------------------------------------------
Query(s) == QueryLock(s) \/ QueryServe(s) \/ QueryReturn(s) \/ QueryFail(s)

Next ==
    \/ \E calibrate \in BOOLEAN : DbusFresh(calibrate)
    \/ DbusStale
    \/ GameRobotStatus
    \/ ManagerUpdate
    \/ CalibrationUpdate
    \/ \E s \in CalibrationControllers : Query(s) \/ Home(s)
    \/ Switch
    \/ Refuse
    \/ Fail

Safety == Init /\ [][Next]_vars

\* The loop runs at 100 Hz and comes to a query every 0.2 s; threads are
\* scheduled; the controller manager answers or the call fails; a query that is
\* made again and again does not fail every time; a joint reaches its end.
Fairness ==
    /\ WF_vars(ManagerUpdate)
    /\ WF_vars(CalibrationUpdate)
    /\ SF_vars(CalibrationUpdate /\ QueueQuery)
    /\ WF_vars(Switch \/ Refuse \/ Fail)
    /\ \A s \in CalibrationControllers :
        WF_vars(Query(s)) /\ SF_vars(QueryServe(s)) /\ WF_vars(Home(s))

Spec == Safety /\ Fairness

-----------------------------------------------------------------------------
(* Properties. *)

\* The is_calibrated services answer "whether target actuators has been
\* calibrated" (calibration_base.h:49): when the queue has taken the answers for
\* a yes and passes an entry, every actuator of the entry is calibrated,
\* whatever the query threads and the switch requests did in between.
CalibratedIsReal ==
    [][itr' = itr + 1 => Gather[itr].start \subseteq calibrated]_vars

\* As long as the remote and the robot's life change between calibrations only,
\* the queue never has the controller manager asked for two controllers on one
\* joint, a request that it refuses as a whole - however often the operator
\* resets the queue, whatever the queries answer, and again once the controllers
\* of a failed call have been switched by a later one.
NeverRefused ==
    ~disturbed /\ lost \cup refused = {} /\ call # Nothing =>
        Compatible(Switched(running, call))

\* Once the commands have been carried out, a robot whose remote is off runs
\* no main controller and no calibration controller, whatever request the remote
\* found under way - unless it was turned off during a calibration, which the
\* queue then goes on with, or a call that was to stop the controller failed.
OffMeansStopped ==
    ~remote /\ ~midway /\ Settled =>
        running \cap (MainControllers \cup CalibrationControllers) \subseteq lost

\* Whatever comes during a calibration, turning the remote off stops the main
\* controllers that no calibration entry flips (the chassis): its stop gets lost
\* with a call that fails only, never with one that is refused.
OffStopsChassis ==
    ~remote /\ Settled =>
        \A c \in MainControllers \cap running :
            c \in lost \/ \E i \in DOMAIN Gather : c \in Gather[i].stop

\* After a calibration the robot is the operator's again, whatever came during it:
\* all main and state controllers run, and no calibration controller does, except
\* those whose last request failed or was refused.
ControlRestored ==
    IsCalibrated /\ Settled /\ remote /\ alive =>
        \A c \in Controllers \ (lost \cup refused) :
            c \in running <=> c \in StateControllers \cup MainControllers

\* The entries are calibrated one after the other: the controllers of two
\* entries never run at the same time, unless the request that was to stop one
\* failed or was refused.
OneEntryAtATime ==
    \A i, j \in DOMAIN Gather :
        /\ (Gather[i].start \cap running) \ (lost \cup refused) # {}
        /\ (Gather[j].start \cap running) \ (lost \cup refused) # {}
        => i = j

\* A calibration that is not disturbed comes to its end, though single queries
\* fail: every entry is switched to, queried, answered and left again, unless the
\* call that was to start it failed.
CalibrationEnds ==
    ~IsCalibrated ~>
        IsCalibrated \/ Gather[itr].start \cap lost # {}
=============================================================================
