---------------------------- MODULE Engineer2Modes ----------------------------
(***************************************************************************)
(* Engineer2Manual (engineer2_manual.cpp): how the operator's keys and     *)
(* switches start and cancel step queues of the middleware, who drives the *)
(* robot meanwhile (operating_mode_), and when the custom controller moves *)
(* the arm (control_mode_, is_in_synch_).                                  *)
(*                                                                         *)
(* Two threads share these members without a lock: the main thread runs    *)
(* the handlers, the spin thread of the action client runs                 *)
(* actionActiveCallback() and actionDoneCallback().  The client keeps its  *)
(* list of goals locked during a callback, so that sendGoal() waits for    *)
(* the end of one, and cancelAllGoals() does not.  Goals and cancels are   *)
(* topics of their own, without an order between them.  The middleware is  *)
(* abstract here: a goal that reached it ends.                             *)
(***************************************************************************)
EXTENDS Naturals

CONSTANTS
    CtrlKeys,   \* the queues behind the ctrl keys of the PC state
    MaxCancels, \* bound: the cancels that are under way together
    MayDie      \* TRUE: the middleware may die (it is not respawned)

ASSUME CancelsAssumption == MaxCancels \in Nat \ {0}
ASSUME MayDieAssumption == MayDie \in BOOLEAN

\* What prefix_ and root_ spell, without the zeros: the names that the code
\* tells apart.
Names == {"", "HOME", "GET_STORED", "READY_ASSEMBLE", "GET_UNITS", "LIFTER",
          "LIFTER_INIT", "STORE_UNIT", "STORE_UNIT_R", "GRIPPER", "CALIBRATION"}
ASSUME CtrlKeysAssumption ==
    CtrlKeys \subseteq Names \ {"", "STORE_UNIT_R", "CALIBRATION"}

\* How many zeros at the end of root_ are told apart.  The code appends them
\* without a bound; this many and more, down to names that no queue of the
\* middleware has, are one value: Engineer2Manual treats all of them alike, and
\* that the middleware aborts the unknown ones is an outcome of GoalEnds.
ZerosTold(name) ==
    IF name = "GET_UNITS" THEN 4 ELSE IF name = "LIFTER" THEN 2 ELSE 1

Queues == [name : Names, zeros : 0 .. 4]
Plain(name) == [name |-> name, zeros |-> 0]
NoOrder == [to |-> Plain(""), init |-> FALSE, custom |-> FALSE]

\* The queues after which actionDoneCallback() calls enterCustom().
EntersCustom(q) == q.name = "GET_STORED" \/ q = Plain("READY_ASSEMBLE")

\* The queues after which it calls initMode().
EntersJoint(q) ==
    \/ q = Plain("HOME")
    \/ q = [name |-> "GET_UNITS", zeros |-> 3]
    \/ q = [name |-> "LIFTER", zeros |-> 1]

\* The ctrl keys whose handlers begin with initMode().
CallsInitMode == {"HOME", "GET_STORED", "STORE_UNIT", "LIFTER_INIT"}

VARIABLES
    \* the remote
    remote,     \* remote_is_open_
    right,      \* the position of the right switch; "none" before the first
    leftUp,     \* left_switch_up_event_: the left switch is up
    \* the members of Engineer2Manual
    mode,       \* operating_mode_
    control,    \* control_mode_
    queue,      \* prefix_ + root_
    clickable,  \* mouse_left_pressed_
    synch,      \* is_in_synch_
    \* the main thread
    pc,
    order,      \* the queue of the handler under way; init: it called initMode();
                \* custom: updateCustomController() called it
    \* the spin thread: between the two halves of actionDoneCallback()
    cb,
    \* the action (external)
    connected,  \* isServerConnected()
    status,     \* how far the goal sent last is, which the client tracks
    cancels,    \* the cancels under way
    \* histories
    asked,      \* enterCustom() is to follow the queue that it names
    keyed,      \* a handler has set the queue since the last goal was sent
    overlap,    \* a done callback ran beside the handler under way
    overtaken,  \* one ran between sendGoal() and operating_mode_ = MIDDLEWARE
    held,       \* initMode() took the arm for the last goal, and neither an
                \* overlap nor the right switch gave it away
    missed,     \* a cancel came to the middleware before the last goal
    sentOff,    \* the last goal was sent with the remote off
    moved,      \* a goal ran since the arm and the custom controller
                \* began to synchronise
    torn        \* a done callback ran within updateCustomController()

remoteVars == <<remote, right, leftUp>>
actionVars == <<connected, status, cancels, asked>>
vars == <<remoteVars, mode, control, queue, clickable, synch, pc, order, cb, actionVars,
          keyed, overlap, overtaken, held, missed, sentOff, moved, torn>>

\* A goal: on its way, at the middleware, asked to stop there, ended, its done
\* callback called; or gone with the middleware.
UnderWay == {"sent", "running", "stopping"}
Over == {"none", "told", "lost"}

TypeOK ==
    /\ remote \in BOOLEAN
    /\ right \in {"none", "DOWN", "MID", "UP"}
    /\ leftUp \in BOOLEAN
    /\ mode \in {"MANUAL", "MIDDLEWARE"}
    /\ control \in {"JOINT", "CUSTOM"}
    /\ queue \in Queues
    /\ clickable \in BOOLEAN
    /\ synch \in {"WITHOUT_SYNCH", "SYNCHRONIZING", "IN_SYNCH"}
    /\ pc \in {"idle", "name", "check", "set", "custom", "synch"}
    /\ order \in [to : Queues, init : BOOLEAN, custom : BOOLEAN]
    /\ cb \in {"idle", "effects"}
    /\ connected \in BOOLEAN
    /\ status \in UnderWay \cup {"ended"} \cup Over
    /\ cancels \in 0 .. MaxCancels
    /\ asked \in BOOLEAN
    /\ keyed \in BOOLEAN
    /\ overlap \in BOOLEAN
    /\ overtaken \in BOOLEAN
    /\ held \in BOOLEAN
    /\ missed \in BOOLEAN
    /\ sentOff \in BOOLEAN
    /\ moved \in BOOLEAN
    /\ torn \in BOOLEAN

\* The constructor has waited for the middleware.
Init ==
    /\ remote = FALSE
    /\ right = "none"
    /\ leftUp = FALSE
    /\ mode = "MANUAL"
    /\ control = "JOINT"
    /\ queue = Plain("")
    /\ clickable = FALSE
    /\ synch = "WITHOUT_SYNCH"
    /\ pc = "idle"
    /\ order = NoOrder
    /\ cb = "idle"
    /\ connected = TRUE
    /\ status = "none"
    /\ cancels = 0
    /\ asked = FALSE
    /\ keyed = FALSE
    /\ overlap = FALSE
    /\ overtaken = FALSE
    /\ held = FALSE
    /\ missed = FALSE
    /\ sentOff = FALSE
    /\ moved = FALSE
    /\ torn = FALSE

-----------------------------------------------------------------------------
(* The main thread: the remote. *)

CancelAllGoals == cancels < MaxCancels /\ cancels' = cancels + 1

\* rightSwitchDownRise() that enters the servo mode.
RightSwitchRiseServo(p) ==
    IF p = "DOWN"
    THEN control' = "SERVO" /\ held' = FALSE /\ CancelAllGoals
    ELSE control' = "JOINT" /\ UNCHANGED <<held, cancels>>

\* The rising edge of a position of the right switch: rightSwitchUpRise() and
\* rightSwitchMidRise() take the arm from the custom controller,
\* rightSwitchDownRise() gives it to it and cancels all goals.
RightSwitchRise(p) ==
    IF p = "DOWN"
    THEN control' = "CUSTOM" /\ held' = FALSE /\ CancelAllGoals
    ELSE control' = "JOINT" /\ UNCHANGED <<held, cancels>>

\* dbusDataCallback() with a fresh stamp that opens the remote or finds the
\* right switch moved.
DbusFresh(p) ==
    /\ pc = "idle"
    /\ ~remote \/ p # right
    /\ remote' = TRUE
    /\ right' = p
    /\ IF p # right THEN RightSwitchRise(p) ELSE UNCHANGED <<control, held, cancels>>
    /\ UNCHANGED <<leftUp, mode, queue, clickable, synch, pc, order, cb, connected,
                   status, asked, keyed, overlap, overtaken, missed, sentOff, moved, torn>>

\* remoteControlTurnOff() that leaves the goals to themselves.
DbusStaleNoCancel ==
    /\ pc = "idle"
    /\ remote
    /\ remote' = FALSE
    /\ sentOff' = FALSE
    /\ UNCHANGED <<right, leftUp, mode, control, queue, clickable, synch, pc, order, cb,
                   actionVars, keyed, overlap, overtaken, held, missed, moved, torn>>

\* dbusDataCallback() with a stale stamp: remoteControlTurnOff() cancels all
\* goals.  control_mode_ stays.
DbusStale ==
    /\ pc = "idle"
    /\ remote
    /\ remote' = FALSE
    /\ CancelAllGoals
    /\ sentOff' = FALSE
    /\ UNCHANGED <<right, leftUp, mode, control, queue, clickable, synch, pc, order, cb,
                   connected, status, asked, keyed, overlap, overtaken, held, missed,
                   moved, torn>>

\* The chassis gets its power back while the middleware drives.
ChassisOutputOn ==
    /\ pc = "idle"
    /\ mode = "MIDDLEWARE"
    /\ CancelAllGoals
    /\ UNCHANGED <<remoteVars, mode, control, queue, clickable, synch, pc, order, cb,
                   connected, status, asked, keyed, overlap, overtaken, held, missed,
                   sentOff, moved, torn>>

CtrlCPress ==
    /\ pc = "idle"
    /\ remote /\ right = "UP"
    /\ CancelAllGoals
    /\ control' = "JOINT"
    /\ UNCHANGED <<remoteVars, mode, queue, clickable, synch, pc, order, cb, connected,
                   status, asked, keyed, overlap, overtaken, held, missed, sentOff,
                   moved, torn>>

\* leftSwitchUpRise(): the calibration queue is reset, and no goal is sent.
LeftSwitchUpRise ==
    /\ pc = "idle"
    /\ remote /\ right \in {"MID", "UP"}
    /\ ~leftUp
    /\ leftUp' = TRUE
    /\ queue' = Plain("CALIBRATION")
    /\ keyed' = TRUE
    /\ UNCHANGED <<remote, right, mode, control, clickable, synch, pc, order, cb,
                   actionVars, overlap, overtaken, held, missed, sentOff, moved, torn>>

-----------------------------------------------------------------------------
(* The main thread: the handlers that run a step queue. *)

\* A handler that forgets initMode().
OrderNoInit(q, init, custom) ==
    /\ pc = "idle"
    /\ pc' = "name"
    /\ order' = [to |-> q, init |-> init, custom |-> custom]
    /\ overlap' = (cb # "idle")
    /\ UNCHANGED <<remote, right, mode, control, queue, synch, cb, actionVars, keyed,
                   overtaken, held, missed, sentOff, moved, torn>>

\* A handler begins, some with initMode(); a gripper handler then calls
\* grab_state and waits for the answer.
Order(q, init, custom) ==
    /\ pc = "idle"
    /\ pc' = "name"
    /\ order' = [to |-> q, init |-> init, custom |-> custom]
    /\ control' = IF init THEN "JOINT" ELSE control
    /\ overlap' = (cb # "idle")
    /\ UNCHANGED <<remote, right, mode, queue, synch, cb, actionVars, keyed, overtaken,
                   held, missed, sentOff, moved, torn>>

\* ctrlAPress() and its like.
CtrlPress(name) ==
    /\ remote /\ right = "UP"
    /\ Order(Plain(name), name \in CallsInitMode, FALSE)
    /\ UNCHANGED <<leftUp, clickable>>

\* rPress() turns the unit of a STORE_UNIT queue round, and back.
RPress ==
    /\ remote /\ right = "UP"
    /\ queue.name \in {"STORE_UNIT", "STORE_UNIT_R"}
    /\ queue.zeros = 0
    /\ Order(Plain(IF queue.name = "STORE_UNIT" THEN "STORE_UNIT_R" ELSE "STORE_UNIT"),
             FALSE, FALSE)
    /\ UNCHANGED <<leftUp, clickable>>

\* root_ += "0", up to the zeros that are told apart.
OneMoreZero(q) ==
    [q EXCEPT !.zeros = IF @ = ZerosTold(q.name) THEN @ ELSE @ + 1]

\* mouseLeftRelease(): the next part of the queue, once per goal that ended.
MouseLeftRelease ==
    /\ remote /\ right = "UP"
    /\ clickable
    /\ Order(OneMoreZero(queue), FALSE, FALSE)
    /\ clickable' = FALSE
    /\ UNCHANGED leftUp

LeftSwitchUpFall ==
    /\ remote /\ right \in {"MID", "UP"}
    /\ leftUp
    /\ leftUp' = FALSE
    /\ Order(Plain("HOME"), FALSE, FALSE)
    /\ UNCHANGED clickable

LeftSwitchDownRise ==
    /\ remote /\ right = "MID"
    /\ ~leftUp
    /\ Order(Plain("GRIPPER"), FALSE, FALSE)
    /\ UNCHANGED <<leftUp, clickable>>

\* customButton3Press() and customButton4Press(): the custom controller is
\* heard whenever control_mode_ is CUSTOM, with the remote off, too.  The rest of
\* updateCustomController() follows.
CustomButton ==
    /\ control = "CUSTOM"
    /\ Order(Plain("GRIPPER"), FALSE, TRUE)
    /\ UNCHANGED <<leftUp, clickable>>

\* The handler sets prefix_ and root_.
SetName ==
    /\ pc = "name"
    /\ queue' = order.to
    /\ keyed' = TRUE
    /\ pc' = "check"
    /\ UNCHANGED <<remoteVars, mode, control, clickable, synch, order, cb, actionVars,
                   overlap, overtaken, held, missed, sentOff, moved, torn>>

\* The end of the handler: ctrlRPress() sets control_mode_ once more.
Return ==
    /\ pc' = IF order.custom THEN "custom" ELSE "idle"
    /\ order' = NoOrder
    /\ overlap' = FALSE
    /\ control' = IF order.to.name = "LIFTER_INIT" THEN "JOINT" ELSE control

\* action_client_.sendGoal().
SendGoal ==
    /\ cb = "idle"
    /\ status' = "sent"
    /\ asked' = EntersCustom(queue)
    /\ keyed' = FALSE
    /\ held' = (order.init /\ ~overlap)
    /\ missed' = FALSE
    /\ sentOff' = ~remote

\* runStepQueue() that does not look at operating_mode_.
RunStepQueueAnyMode ==
    /\ pc = "check"
    /\ IF connected
       THEN SendGoal /\ pc' = "set" /\ UNCHANGED <<control, order, overlap>>
       ELSE Return /\ UNCHANGED <<status, asked, keyed, held, missed, sentOff>>
    /\ UNCHANGED <<remoteVars, mode, queue, clickable, synch, cb, connected, cancels,
                   overtaken, moved, torn>>

\* runStepQueue() whose assignment of operating_mode_ does not ask for the
\* connection.
RunStepQueueUnconnected ==
    /\ pc = "check"
    /\ pc' = "set"
    /\ IF connected /\ mode = "MANUAL" THEN SendGoal
       ELSE UNCHANGED <<status, asked, keyed, held, missed, sentOff>>
    /\ UNCHANGED <<remoteVars, mode, control, queue, clickable, synch, order, cb, connected,
                   cancels, overlap, overtaken, moved, torn>>

\* runStepQueue(): a goal is sent in MANUAL mode only.
RunStepQueue ==
    /\ pc = "check"
    /\ \/ /\ connected /\ mode = "MANUAL"
          /\ SendGoal
          /\ pc' = "set"
          /\ UNCHANGED <<control, order, overlap>>
       \/ /\ connected /\ mode = "MIDDLEWARE"
          /\ pc' = "set"
          /\ UNCHANGED <<control, order, overlap, status, asked, keyed, held, missed,
                         sentOff>>
       \/ /\ ~connected
          /\ Return
          /\ UNCHANGED <<status, asked, keyed, held, missed, sentOff>>
    /\ UNCHANGED <<remoteVars, mode, queue, clickable, synch, cb, connected, cancels,
                   overtaken, moved, torn>>

\* operating_mode_ = MIDDLEWARE, whether a goal was sent or not.
SetMode ==
    /\ pc = "set"
    /\ mode' = "MIDDLEWARE"
    /\ Return
    /\ UNCHANGED <<remoteVars, queue, clickable, synch, cb, actionVars, keyed, overtaken, held, missed, sentOff, moved, torn>>

-----------------------------------------------------------------------------
(* The main thread: updateCustomController(). *)

\* is_in_synch_ is read; without synchronisation one begins.
Synchronise ==
    /\ synch # "IN_SYNCH"
    /\ pc' = "synch"
    /\ synch' = "SYNCHRONIZING"
    /\ IF synch = "WITHOUT_SYNCH"
       THEN /\ moved' = (status \in {"running", "stopping"})
            /\ torn' = FALSE
       ELSE UNCHANGED <<moved, torn>>
    /\ UNCHANGED <<remoteVars, mode, control, queue, clickable, order, cb, actionVars,
                   keyed, overlap, overtaken, held, missed, sentOff>>

\* customControllerCallback() without a button.  In synchrony the arm follows at
\* once, and nothing of this state changes.
CustomSynchronise == pc = "idle" /\ control = "CUSTOM" /\ Synchronise

\* The rest of updateCustomController() after the handler of a button.
CustomGoesOn ==
    /\ pc = "custom"
    /\ \/ Synchronise
       \/ /\ synch = "IN_SYNCH"
          /\ pc' = "idle"
          /\ UNCHANGED <<remoteVars, mode, control, queue, clickable, synch, order, cb,
                         actionVars, keyed, overlap, overtaken, held, missed, sentOff,
                         moved, torn>>

\* The arm is near, or a second has passed; or neither.
CustomSynchronised ==
    /\ pc = "synch"
    /\ pc' = "idle"
    /\ synch' = "IN_SYNCH" \/ UNCHANGED synch
    /\ UNCHANGED <<remoteVars, mode, control, queue, clickable, order, cb, actionVars,
                   keyed, overlap, overtaken, held, missed, sentOff, moved, torn>>

-----------------------------------------------------------------------------
(* The spin thread. *)

ActionActiveCallback ==
    /\ cb = "idle"
    /\ status \in {"running", "stopping", "ended"}
    /\ mode # "MIDDLEWARE"
    /\ mode' = "MIDDLEWARE"
    /\ UNCHANGED <<remoteVars, control, queue, clickable, synch, pc, order, cb, actionVars,
                   keyed, overlap, overtaken, held, missed, sentOff, moved, torn>>

\* actionDoneCallback() that leaves the mode as it is.
DoneKeepsMode ==
    /\ cb = "idle"
    /\ status = "ended"
    /\ status' = "told"
    /\ cb' = "effects"
    /\ clickable' = TRUE
    /\ synch' = "WITHOUT_SYNCH"
    /\ held' = FALSE
    /\ missed' = FALSE
    /\ sentOff' = FALSE
    /\ overlap' = (overlap \/ pc # "idle")
    /\ overtaken' = (overtaken \/ pc = "set")
    /\ torn' = (torn \/ pc = "synch")
    /\ UNCHANGED <<remoteVars, mode, control, queue, pc, order, connected, cancels,
                   asked, keyed, moved>>

\* actionDoneCallback() that keeps is_in_synch_.
DoneKeepsSynch ==
    /\ cb = "idle"
    /\ status = "ended"
    /\ status' = "told"
    /\ cb' = "effects"
    /\ clickable' = TRUE
    /\ mode' = "MANUAL"
    /\ held' = FALSE
    /\ missed' = FALSE
    /\ sentOff' = FALSE
    /\ overlap' = (overlap \/ pc # "idle")
    /\ overtaken' = (overtaken \/ pc = "set")
    /\ torn' = (torn \/ pc = "synch")
    /\ UNCHANGED <<remoteVars, control, queue, synch, pc, order, connected, cancels,
                   asked, keyed, moved>>

\* The first half of actionDoneCallback(), of the goal that is tracked.
Done ==
    /\ cb = "idle"
    /\ status = "ended"
    /\ status' = "told"
    /\ cb' = "effects"
    /\ clickable' = TRUE
    /\ synch' = "WITHOUT_SYNCH"
    /\ mode' = "MANUAL"
    /\ held' = FALSE
    /\ missed' = FALSE
    /\ sentOff' = FALSE
    /\ overlap' = (overlap \/ pc # "idle")
    /\ overtaken' = (overtaken \/ pc = "set")
    /\ torn' = (torn \/ pc = "synch")
    /\ UNCHANGED <<remoteVars, control, queue, pc, order, connected, cancels, asked, keyed,
                   moved>>

\* The second half, with enterCustom() after all that is got.
DoneEffectsGet ==
    /\ cb = "effects"
    /\ cb' = "idle"
    /\ overlap' = (overlap \/ pc # "idle")
    /\ IF EntersCustom(queue) \/ queue.name = "GET_UNITS"
       THEN control' = "CUSTOM" /\ CancelAllGoals
       ELSE /\ control' = IF EntersJoint(queue) THEN "JOINT" ELSE control
            /\ UNCHANGED cancels
    /\ UNCHANGED <<remoteVars, mode, queue, clickable, synch, pc, order, connected,
                   status, asked, keyed, overtaken, held, missed, sentOff, moved, torn>>

\* The second half, which goes by prefix_ and root_ as they are now.
DoneEffects ==
    /\ cb = "effects"
    /\ cb' = "idle"
    /\ overlap' = (overlap \/ pc # "idle")
    /\ IF EntersCustom(queue)
       THEN control' = "CUSTOM" /\ CancelAllGoals
       ELSE /\ control' = IF EntersJoint(queue) THEN "JOINT" ELSE control
            /\ UNCHANGED cancels
    /\ UNCHANGED <<remoteVars, mode, queue, clickable, synch, pc, order, connected,
                   status, asked, keyed, overtaken, held, missed, sentOff, moved, torn>>

-----------------------------------------------------------------------------
(* The topics and the middleware (external). *)

\* A goal reaches the middleware.
GoalArrives ==
    /\ connected
    /\ status = "sent"
    /\ status' = "running"
    /\ moved' = TRUE
    /\ UNCHANGED <<remoteVars, mode, control, queue, clickable, synch, pc, order, cb,
                   connected, cancels, asked, keyed, overlap, overtaken, held, missed,
                   sentOff, torn>>

\* A cancel reaches it, and the goal that has reached it before.
CancelArrives ==
    /\ cancels > 0
    /\ cancels' = cancels - 1
    /\ status' = IF status = "running" THEN "stopping" ELSE status
    /\ missed' = (missed \/ status = "sent")
    /\ UNCHANGED <<remoteVars, mode, control, queue, clickable, synch, pc, order, cb,
                   connected, asked, keyed, overlap, overtaken, held, sentOff, moved,
                   torn>>

\* A goal is finished, aborted or preempted.
GoalEnds ==
    /\ connected
    /\ status \in {"running", "stopping"}
    /\ status' = "ended"
    /\ UNCHANGED <<remoteVars, mode, control, queue, clickable, synch, pc, order, cb,
                   connected, cancels, asked, keyed, overlap, overtaken, held, missed,
                   sentOff, moved, torn>>

MiddlewareDies ==
    /\ MayDie
    /\ connected
    /\ connected' = FALSE
    /\ status' = IF status \in UnderWay THEN "lost" ELSE status
    /\ UNCHANGED <<remoteVars, mode, control, queue, clickable, synch, pc, order, cb,
                   cancels, asked, keyed, overlap, overtaken, held, missed, sentOff,
                   moved, torn>>

-----------------------------------------------------------------------------
Handler == SetName \/ RunStepQueue \/ SetMode \/ CustomGoesOn \/ CustomSynchronised

Middleware == CancelArrives \/ GoalArrives \/ GoalEnds

Next ==
    \/ \E p \in {"DOWN", "MID", "UP"} : DbusFresh(p)
    \/ DbusStale
    \/ ChassisOutputOn
    \/ CtrlCPress
    \/ LeftSwitchUpRise
    \/ \E name \in CtrlKeys : CtrlPress(name)
    \/ RPress
    \/ MouseLeftRelease
    \/ LeftSwitchUpFall
    \/ LeftSwitchDownRise
    \/ CustomButton
    \/ Handler
    \/ CustomSynchronise
    \/ ActionActiveCallback
    \/ Done
    \/ DoneEffects
    \/ Middleware
    \/ MiddlewareDies

Safety == Init /\ [][Next]_vars

\* Handlers and callbacks run to their end, messages arrive, and the middleware
\* ends every goal, which Middleware shows of queues with timeouts.  Nothing is
\* assumed of the operator.
Fairness ==
    /\ WF_vars(Handler)
    /\ WF_vars(Done)
    /\ WF_vars(DoneEffects)
    /\ WF_vars(CancelArrives)
    /\ WF_vars(GoalArrives)
    /\ WF_vars(GoalEnds)

Spec == Safety /\ Fairness

-----------------------------------------------------------------------------
(* Properties. *)

\* sendGoal() is called only when the callback of the goal before has run: the
\* middleware never has two goals of the operator's node, and no done callback
\* is lost to a newer goal, however keys, clicks, switches and callbacks
\* interleave (operating_mode_ is the only thing that keeps them apart).
OneGoalAtATime ==
    [][status # "sent" /\ status' = "sent" => status \in Over]_vars

\* The operator is locked out - operating_mode_ is MIDDLEWARE with no goal whose
\* callback could set it to MANUAL - only when a done callback ran between the
\* test of runStepQueue() and its assignment, or when the middleware died with a
\* goal; neither keys and clicks during a goal, nor cancels, nor orders to a dead
\* middleware do it.
LockedOutOnlyByRace ==
    pc = "idle" /\ cb = "idle" /\ mode = "MIDDLEWARE" /\ ~overtaken =>
        status \in UnderWay \cup {"ended", "lost"}

\* Without that race, and as long as the middleware lives, the operator gets
\* MANUAL mode back, whatever is pressed meanwhile.
ControlComesBack ==
    (mode = "MIDDLEWARE") ~> (mode = "MANUAL" \/ overtaken \/ ~connected)

\* actionDoneCallback() gives the arm to the custom controller only after a goal
\* of a queue that ends so, unless a key has changed prefix_ and root_ since the
\* goal was sent (no goal is sent for such a key, but its queue counts).
CustomForItsGoal ==
    [][DoneEffects /\ control = "JOINT" /\ control' = "CUSTOM" =>
        asked \/ keyed]_vars

\* A remote that is turned off stops the arm: once the cancel has reached the
\* middleware, the only goals running are those that the custom controller's
\* buttons start after it, and one that came there after its own cancel.
OffStopsGoals ==
    ~remote /\ cancels = 0 /\ status = "running" => sentOff \/ missed

\* While a goal runs for which initMode() has taken the arm from the custom
\* controller, the custom controller does not get it back and move it against
\* the middleware, unless a done callback ran beside the handler that sent the
\* goal, or the operator's right switch says so.
ArmHeldForGoal ==
    held /\ status \in UnderWay => control = "JOINT"

\* In MANUAL mode the arm follows the custom controller at once (0.2 s) only if
\* no goal has moved it since the two were synchronised (1 s), unless the done
\* callback ran within updateCustomController() and its reset of is_in_synch_
\* was overwritten.
FollowsOnlySynchronised ==
    pc = "idle" /\ mode = "MANUAL" /\ control = "CUSTOM" /\ synch = "IN_SYNCH" =>
        ~moved \/ torn
=============================================================================
