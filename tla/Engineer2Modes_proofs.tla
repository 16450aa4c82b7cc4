------------------------- MODULE Engineer2Modes_proofs -------------------------
(***************************************************************************)
(* Proofs about Engineer2Modes, for every set of ctrl keys, every bound on *)
(* the cancels under way and a middleware that may die or not.             *)
(***************************************************************************)
EXTENDS Engineer2Modes, TLAPS

-----------------------------------------------------------------------------
(* Types. *)

\* A queue with no more zeros than are told apart.
Counted(q) == q \in Queues /\ q.zeros <= ZerosTold(q.name)

\* The names without zeros are such queues, and so is the next part of one.
LEMMA CountedQueues ==
    /\ \A name \in Names : Counted(Plain(name))
    /\ \A q : Counted(q) => Counted(OneMoreZero(q))
<1>1. ASSUME NEW name \in Names PROVE Counted(Plain(name))
  BY <1>1 DEF Counted, Plain, Queues, ZerosTold
<1>2. ASSUME NEW q, Counted(q) PROVE Counted(OneMoreZero(q))
  <2>1. q.name \in Names /\ q.zeros \in 0 .. 4 /\ ZerosTold(q.name) \in 1 .. 4
    BY <1>2 DEF Counted, Queues, ZerosTold
  <2>2. OneMoreZero(q) = [q EXCEPT !.zeros = IF q.zeros = ZerosTold(q.name)
                                             THEN q.zeros ELSE q.zeros + 1]
    BY DEF OneMoreZero
  <2>3. OneMoreZero(q).name = q.name /\ OneMoreZero(q) \in Queues
    BY <1>2, <2>1, <2>2 DEF Counted, Queues
  <2>4. OneMoreZero(q).zeros <= ZerosTold(q.name)
    BY <1>2, <2>1, <2>2 DEF Counted, Queues
  <2> QED
    BY <2>3, <2>4 DEF Counted
<1> QED
  BY <1>1, <1>2

\* Membership is true or false.
LEMMA MembershipIsBoolean == \A S, x : (x \in S) \in BOOLEAN
  OBVIOUS

\* The members and histories that are true or false.
Flags ==
    /\ remote \in BOOLEAN
    /\ leftUp \in BOOLEAN
    /\ clickable \in BOOLEAN
    /\ connected \in BOOLEAN
    /\ asked \in BOOLEAN
    /\ keyed \in BOOLEAN
    /\ overlap \in BOOLEAN
    /\ overtaken \in BOOLEAN
    /\ held \in BOOLEAN
    /\ missed \in BOOLEAN
    /\ sentOff \in BOOLEAN
    /\ moved \in BOOLEAN
    /\ torn \in BOOLEAN

\* The others.
Members ==
    /\ right \in {"none", "DOWN", "MID", "UP"}
    /\ mode \in {"MANUAL", "MIDDLEWARE"}
    /\ control \in {"JOINT", "CUSTOM"}
    /\ Counted(queue)
    /\ synch \in {"WITHOUT_SYNCH", "SYNCHRONIZING", "IN_SYNCH"}
    /\ pc \in {"idle", "name", "check", "set", "custom", "synch"}
    /\ order \in [to : Queues, init : BOOLEAN, custom : BOOLEAN]
    /\ Counted(order.to)
    /\ cb \in {"idle", "effects"}
    /\ status \in UnderWay \cup {"ended"} \cup Over
    /\ cancels \in 0 .. MaxCancels

\* The constructor establishes both ...
LEMMA InitTypes == Init => Flags /\ Members
<1> SUFFICES ASSUME Init PROVE Flags /\ Members
  OBVIOUS
<1>1. Flags
  BY Zenon DEF Init, Flags
<1>2. Counted(Plain("")) /\ Plain("") \in Queues
  BY CountedQueues DEF Names, Counted
<1>3. order \in [to : Queues, init : BOOLEAN, custom : BOOLEAN] /\ order.to = Plain("")
  BY <1>2 DEF Init, NoOrder
<1>4. /\ right = "none" /\ mode = "MANUAL" /\ control = "JOINT" /\ queue = Plain("")
      /\ synch = "WITHOUT_SYNCH" /\ pc = "idle" /\ cb = "idle" /\ status = "none"
  BY DEF Init
<1>5. Counted(queue) /\ Counted(order.to)
  BY <1>2, <1>3, <1>4
<1>6. cancels = 0
  BY DEF Init
<1>7. cancels \in 0 .. MaxCancels
  BY ONLY <1>6, CancelsAssumption
<1>8. Members
  BY <1>3, <1>4, <1>5, <1>7 DEF Members, UnderWay, Over
<1> QED
  BY <1>1, <1>8

\* ... every step keeps the flags ...
LEMMA NextFlags == Flags /\ [Next]_vars => Flags'
<1> SUFFICES ASSUME Flags, [Next]_vars PROVE Flags'
  OBVIOUS
<1> USE DEF Flags, remoteVars, actionVars
<1>1. ASSUME NEW p \in {"DOWN", "MID", "UP"}, DbusFresh(p) PROVE Flags'
  <2>1. UNCHANGED <<leftUp, clickable, connected, asked, keyed, overlap, overtaken,
                    missed, sentOff, moved, torn>>
    BY <1>1 DEF DbusFresh
  <2>2. remote' = TRUE
    BY <1>1 DEF DbusFresh
  <2>3. held' = held \/ held' = FALSE
    BY <1>1 DEF DbusFresh, RightSwitchRise
  <2> QED
    BY <2>1, <2>2, <2>3, Zenon
<1>2. CASE DbusStale
  BY <1>2 DEF DbusStale
<1>3. CASE ChassisOutputOn
  BY <1>3 DEF ChassisOutputOn
<1>4. CASE CtrlCPress
  BY <1>4 DEF CtrlCPress
<1>5. CASE LeftSwitchUpRise
  BY <1>5 DEF LeftSwitchUpRise
<1>6. ASSUME NEW q, NEW init, NEW custom, Order(q, init, custom),
             (leftUp \in BOOLEAN)', (clickable \in BOOLEAN)'
      PROVE  Flags'
  BY <1>6, Zenon DEF Order
<1>7. CASE SetName
  BY <1>7 DEF SetName
<1>8. CASE RunStepQueue
  <2>1. UNCHANGED <<remote, leftUp, clickable, connected, overtaken, moved, torn>>
    BY <1>8 DEF RunStepQueue
  <2>2. CASE SendGoal /\ UNCHANGED overlap
    <3>1. (asked \in BOOLEAN)' /\ (keyed \in BOOLEAN)' /\ (missed \in BOOLEAN)'
      BY <2>2, Zenon DEF SendGoal, EntersCustom
    <3>2. (held \in BOOLEAN)' /\ (sentOff \in BOOLEAN)'
      BY <2>2, Zenon DEF SendGoal
    <3> QED
      BY <2>1, <2>2, <3>1, <3>2
  <2>3. CASE overlap' \in BOOLEAN /\ UNCHANGED <<asked, keyed, held, missed, sentOff>>
    BY <2>1, <2>3
  <2> QED
    BY <1>8, <2>2, <2>3 DEF RunStepQueue, Return
<1>9. CASE SetMode
  BY <1>9 DEF SetMode, Return
<1>10. CASE Synchronise
  <2>1. (moved \in BOOLEAN)' /\ (torn \in BOOLEAN)'
    <3>1. CASE synch = "WITHOUT_SYNCH"
      <4>1. torn' = FALSE /\ moved' = (status \in {"running", "stopping"})
        BY <1>10, <3>1 DEF Synchronise
      <4>2. (status \in {"running", "stopping"}) \in BOOLEAN
        BY MembershipIsBoolean, Zenon
      <4> QED
        BY <4>1, <4>2, Zenon
    <3>2. CASE synch # "WITHOUT_SYNCH"
      BY <1>10, <3>2 DEF Synchronise
    <3> QED
      BY <3>1, <3>2
  <2>2. UNCHANGED <<remote, leftUp, clickable, connected, asked, keyed, overlap,
                    overtaken, held, missed, sentOff>>
    BY <1>10 DEF Synchronise
  <2> QED
    BY <2>1, <2>2
<1>11. CASE CustomGoesOn
  BY <1>10, <1>11 DEF CustomGoesOn
<1>12. CASE CustomSynchronised
  BY <1>12 DEF CustomSynchronised
<1>13. CASE ActionActiveCallback
  BY <1>13 DEF ActionActiveCallback
<1>14. CASE Done
  BY <1>14, Zenon DEF Done
<1>15. CASE DoneEffects
  BY <1>15, Zenon DEF DoneEffects
<1>16. CASE GoalArrives
  BY <1>16 DEF GoalArrives
<1>17. CASE CancelArrives
  BY <1>17, Zenon DEF CancelArrives
<1>18. CASE GoalEnds
  BY <1>18 DEF GoalEnds
<1>19. CASE MiddlewareDies
  BY <1>19 DEF MiddlewareDies
<1>20. CASE UNCHANGED vars
  BY <1>20 DEF vars
<1>21. CASE CustomSynchronise
  BY <1>10, <1>21, Zenon DEF CustomSynchronise
<1>22. ASSUME NEW name \in CtrlKeys, CtrlPress(name) PROVE Flags'
  BY <1>6, <1>22, Zenon DEF CtrlPress
<1>23. CASE RPress
  BY <1>6, <1>23, Zenon DEF RPress
<1>24. CASE MouseLeftRelease
  BY <1>6, <1>24, Zenon DEF MouseLeftRelease
<1>25. CASE LeftSwitchUpFall
  BY <1>6, <1>25, Zenon DEF LeftSwitchUpFall
<1>26. CASE LeftSwitchDownRise
  BY <1>6, <1>26, Zenon DEF LeftSwitchDownRise
<1>27. CASE CustomButton
  BY <1>6, <1>27, Zenon DEF CustomButton
<1> QED
  BY <1>1, <1>2, <1>3, <1>4, <1>5, <1>7, <1>8, <1>9, <1>11, <1>12, <1>13, <1>14,
     <1>15, <1>16, <1>17, <1>18, <1>19, <1>20, <1>21, <1>22, <1>23, <1>24, <1>25,
     <1>26, <1>27
  DEF Next, Handler, Middleware

\* ... and the other members, as every queue that a handler names is counted.
LEMMA NextMembers == Members /\ [Next]_vars => Members'
<1> SUFFICES ASSUME Members, [Next]_vars PROVE Members'
  OBVIOUS
<1> USE CancelsAssumption DEF Members, UnderWay, Over, remoteVars, actionVars
<1>n. Counted(Plain("")) /\ Plain("") \in Queues /\ Counted(Plain("CALIBRATION"))
  BY CountedQueues DEF Names, Counted
<1>1. ASSUME NEW p \in {"DOWN", "MID", "UP"}, DbusFresh(p) PROVE Members'
  BY <1>1 DEF DbusFresh, RightSwitchRise, CancelAllGoals
<1>2. CASE DbusStale
  BY <1>2 DEF DbusStale, CancelAllGoals
<1>3. CASE ChassisOutputOn
  BY <1>3 DEF ChassisOutputOn, CancelAllGoals
<1>4. CASE CtrlCPress
  BY <1>4 DEF CtrlCPress, CancelAllGoals
<1>5. CASE LeftSwitchUpRise
  BY <1>5, <1>n DEF LeftSwitchUpRise
<1>6. ASSUME NEW q, Counted(q), NEW init \in BOOLEAN, NEW custom \in BOOLEAN,
             Order(q, init, custom)
      PROVE  Members'
  <2>1. /\ order' \in [to : Queues, init : BOOLEAN, custom : BOOLEAN]
        /\ order'.to = q
    BY <1>6 DEF Order, Counted
  <2> QED
    BY <1>6, <2>1 DEF Order
<1>7. CASE SetName
  BY <1>7 DEF SetName
<1>r. Return => /\ order' \in [to : Queues, init : BOOLEAN, custom : BOOLEAN]
                /\ order'.to = Plain("")
                /\ pc' \in {"custom", "idle"}
                /\ control' \in {"JOINT", "CUSTOM"}
  <2> SUFFICES ASSUME Return
               PROVE  /\ order' \in [to : Queues, init : BOOLEAN, custom : BOOLEAN]
                      /\ order'.to = Plain("")
                      /\ pc' \in {"custom", "idle"}
                      /\ control' \in {"JOINT", "CUSTOM"}
    OBVIOUS
  <2>1. order' = [to |-> Plain(""), init |-> FALSE, custom |-> FALSE]
    BY DEF Return, NoOrder
  <2>2. order' \in [to : Queues, init : BOOLEAN, custom : BOOLEAN] /\ order'.to = Plain("")
    BY <2>1, <1>n
  <2>3. pc' \in {"custom", "idle"} /\ control' \in {"JOINT", "CUSTOM"}
    BY DEF Return
  <2> QED
    BY <2>2, <2>3
<1>8. CASE RunStepQueue
  BY <1>8, <1>r, <1>n DEF RunStepQueue, SendGoal
<1>9. CASE SetMode
  BY <1>9, <1>r, <1>n DEF SetMode
<1>10. CASE Synchronise
  BY <1>10 DEF Synchronise
<1>11. CASE CustomGoesOn
  BY <1>10, <1>11 DEF CustomGoesOn
<1>12. CASE CustomSynchronised
  BY <1>12 DEF CustomSynchronised
<1>13. CASE ActionActiveCallback
  BY <1>13 DEF ActionActiveCallback
<1>14. CASE Done
  BY <1>14 DEF Done
<1>15. CASE DoneEffects
  BY <1>15 DEF DoneEffects, CancelAllGoals
<1>16. CASE GoalArrives
  BY <1>16 DEF GoalArrives
<1>17. CASE CancelArrives
  BY <1>17 DEF CancelArrives
<1>18. CASE GoalEnds
  BY <1>18 DEF GoalEnds
<1>19. CASE MiddlewareDies
  BY <1>19 DEF MiddlewareDies
<1>20. CASE UNCHANGED vars
  BY <1>20 DEF vars
<1>21. CASE CustomSynchronise
  BY <1>10, <1>21 DEF CustomSynchronise
<1>22. ASSUME NEW name \in CtrlKeys, CtrlPress(name) PROVE Members'
  <2>1. Counted(Plain(name))
    BY CountedQueues, CtrlKeysAssumption
  <2>2. (name \in CallsInitMode) \in BOOLEAN /\ FALSE \in BOOLEAN
    OBVIOUS
  <2>3. Order(Plain(name), name \in CallsInitMode, FALSE)
    BY <1>22 DEF CtrlPress
  <2> QED
    BY <1>6, <2>1, <2>2, <2>3, Zenon
<1>23. CASE RPress
  <2>1. Counted(Plain("STORE_UNIT")) /\ Counted(Plain("STORE_UNIT_R"))
    BY CountedQueues DEF Names
  <2> QED
    BY <1>6, <1>23, <2>1, Zenon DEF RPress
<1>24. CASE MouseLeftRelease
  BY <1>6, <1>24, CountedQueues, Zenon DEF MouseLeftRelease
<1>25. CASE \/ LeftSwitchUpFall \/ LeftSwitchDownRise \/ CustomButton
  <2>1. Counted(Plain("HOME")) /\ Counted(Plain("GRIPPER"))
    BY CountedQueues DEF Names
  <2> QED
    BY <1>6, <1>25, <2>1, Zenon DEF LeftSwitchUpFall, LeftSwitchDownRise, CustomButton
<1> QED
  BY <1>1, <1>2, <1>3, <1>4, <1>5, <1>7, <1>8, <1>9, <1>11, <1>12, <1>13, <1>14,
     <1>15, <1>16, <1>17, <1>18, <1>19, <1>20, <1>21, <1>22, <1>23, <1>24, <1>25
  DEF Next, Handler, Middleware

\* Every reachable state of the two threads is well typed, whichever handlers,
\* callbacks, cancels and deaths of the middleware come.
THEOREM ModesTypeCorrect == Safety => []TypeOK
<1>1. Flags /\ Members => TypeOK
  BY DEF Flags, Members, Counted, TypeOK
<1> QED
  BY InitTypes, NextFlags, NextMembers, <1>1, PTL DEF Safety

-----------------------------------------------------------------------------
(* Goals and the operating mode. *)

\* What is needed of the types here.
GoalTypes ==
    /\ mode \in {"MANUAL", "MIDDLEWARE"}
    /\ status \in UnderWay \cup {"ended"} \cup Over

\* A goal whose done callback has not run keeps operating_mode_ at MIDDLEWARE,
\* or runStepQueue() is about to set it, so that no further goal is sent.
GoalHasMode ==
    status \in UnderWay \cup {"ended", "lost"} => mode = "MIDDLEWARE" \/ pc = "set"

\* The converse, until a done callback overtakes the assignment.
ModeHasGoal ==
    ~overtaken /\ (mode = "MIDDLEWARE" \/ pc = "set") =>
        status \in UnderWay \cup {"ended", "lost"}

ModeInv == GoalTypes /\ GoalHasMode /\ ModeHasGoal

\* The constructor establishes it ...
LEMMA InitModeInv == Init => ModeInv
  BY DEF Init, ModeInv, GoalTypes, GoalHasMode, ModeHasGoal, UnderWay, Over

\* ... and every handler, callback and message keeps it.
LEMMA NextModeInv == ModeInv /\ [Next]_vars => ModeInv'
<1> SUFFICES ASSUME ModeInv, [Next]_vars PROVE ModeInv'
  OBVIOUS
<1> USE DEF ModeInv, GoalTypes, GoalHasMode, ModeHasGoal, UnderWay, Over
<1>1. ASSUME NEW p \in {"DOWN", "MID", "UP"}, DbusFresh(p) PROVE ModeInv'
  BY <1>1 DEF DbusFresh
<1>2. CASE DbusStale
  BY <1>2 DEF DbusStale, actionVars
<1>3. CASE ChassisOutputOn
  BY <1>3 DEF ChassisOutputOn
<1>4. CASE CtrlCPress
  BY <1>4 DEF CtrlCPress
<1>5. CASE LeftSwitchUpRise
  BY <1>5 DEF LeftSwitchUpRise, actionVars
<1>6. ASSUME NEW q, NEW init, NEW custom, Order(q, init, custom) PROVE ModeInv'
  BY <1>6 DEF Order, actionVars
<1>7. CASE SetName
  BY <1>7 DEF SetName, actionVars
<1>8. CASE RunStepQueue
  <2>1. CASE connected /\ mode = "MANUAL"
    BY <1>8, <2>1 DEF RunStepQueue, SendGoal
  <2>2. CASE connected /\ mode = "MIDDLEWARE"
    BY <1>8, <2>2 DEF RunStepQueue
  <2>3. CASE ~connected
    BY <1>8, <2>3 DEF RunStepQueue, Return
  <2> QED
    BY <2>1, <2>2, <2>3
<1>9. CASE SetMode
  BY <1>9 DEF SetMode, Return, actionVars
<1>10. ASSUME pc # "set", Synchronise PROVE ModeInv'
  BY <1>10 DEF Synchronise, actionVars
<1>11. CASE CustomGoesOn
  BY <1>10, <1>11 DEF CustomGoesOn, actionVars
<1>12. CASE CustomSynchronised
  BY <1>12 DEF CustomSynchronised, actionVars
<1>13. CASE ActionActiveCallback
  BY <1>13 DEF ActionActiveCallback, actionVars
<1>14. CASE Done
  BY <1>14 DEF Done
<1>15. CASE DoneEffects
  BY <1>15 DEF DoneEffects
<1>16. CASE GoalArrives
  BY <1>16 DEF GoalArrives
<1>17. CASE CancelArrives
  BY <1>17 DEF CancelArrives
<1>18. CASE GoalEnds
  BY <1>18 DEF GoalEnds
<1>19. CASE MiddlewareDies
  BY <1>19 DEF MiddlewareDies
<1>20. CASE UNCHANGED vars
  BY <1>20 DEF vars, actionVars
<1>21. CASE CustomSynchronise
  BY <1>10, <1>21 DEF CustomSynchronise
<1>22. CASE \/ \E name \in CtrlKeys : CtrlPress(name)
            \/ RPress \/ MouseLeftRelease \/ LeftSwitchUpFall
            \/ LeftSwitchDownRise \/ CustomButton
  BY ONLY <1>6, <1>22
  DEF CtrlPress, RPress, MouseLeftRelease, LeftSwitchUpFall, LeftSwitchDownRise,
      CustomButton
<1> QED
  BY <1>1, <1>2, <1>3, <1>4, <1>5, <1>7, <1>8, <1>9, <1>11, <1>12, <1>13, <1>14,
     <1>15, <1>16, <1>17, <1>18, <1>19, <1>20, <1>21, <1>22
  DEF Next, Handler, Middleware

\* In all reachable states.
LEMMA AlwaysModeInv == Safety => []ModeInv
  BY InitModeInv, NextModeInv, PTL DEF Safety

\* sendGoal() finds the goal before over, its done callback called or its
\* middleware dead: only runStepQueue() in MANUAL mode makes a goal "sent".
THEOREM GoalsAreSentOneAtATime == Safety => OneGoalAtATime
<1>1. ModeInv /\ [Next]_vars
      => [status # "sent" /\ status' = "sent" => status \in Over]_vars
  <2> SUFFICES ASSUME ModeInv, Next, status # "sent", status' = "sent"
               PROVE  status \in Over
    OBVIOUS
  <2> USE DEF ModeInv, GoalTypes, GoalHasMode, UnderWay, Over
  <2>1. CASE RunStepQueue
    BY <2>1 DEF RunStepQueue, SendGoal
  <2>2. ~RunStepQueue => FALSE
    <3> SUFFICES ASSUME ~RunStepQueue PROVE FALSE
      OBVIOUS
    <3>1. status' = status \/ status' # "sent"
      BY DEF Next, Handler, Middleware, DbusFresh, DbusStale, ChassisOutputOn,
             CtrlCPress, LeftSwitchUpRise, CtrlPress, RPress, MouseLeftRelease,
             LeftSwitchUpFall, LeftSwitchDownRise, CustomButton, Order, SetName,
             SetMode, CustomGoesOn, Synchronise, CustomSynchronise,
             CustomSynchronised, ActionActiveCallback, Done, DoneEffects,
             GoalArrives, CancelArrives, GoalEnds, MiddlewareDies, actionVars
    <3> QED
      BY <3>1
  <2> QED
    BY <2>1, <2>2
<1> QED
  BY AlwaysModeInv, <1>1, PTL DEF Safety, OneGoalAtATime

\* operating_mode_ stays MIDDLEWARE without a goal only after the race of
\* actionDoneCallback() with runStepQueue(), or after the middleware's death.
THEOREM OnlyTheRaceLocksOut == Safety => []LockedOutOnlyByRace
<1>1. ModeInv => LockedOutOnlyByRace
  BY DEF ModeInv, ModeHasGoal, LockedOutOnlyByRace
<1> QED
  BY AlwaysModeInv, <1>1, PTL

-----------------------------------------------------------------------------
(* Goals and the remote. *)

\* A goal that a remote turned off should stop has its cancel ahead, was sent
\* after the remote was turned off, or has already been missed by its cancel.
CancelAhead ==
    ~remote /\ cancels = 0 /\ status \in {"sent", "running"} => sentOff \/ missed

CancelInv == cancels \in 0 .. MaxCancels /\ CancelAhead

\* The constructor establishes it ...
LEMMA InitCancelInv == Init => CancelInv
<1> SUFFICES ASSUME Init PROVE CancelInv
  OBVIOUS
<1>1. status = "none" /\ cancels = 0
  BY DEF Init
<1> QED
  BY <1>1, CancelsAssumption DEF CancelInv, CancelAhead

\* ... and every step keeps it: cancels and goals cross on their topics.
LEMMA NextCancelInv == CancelInv /\ [Next]_vars => CancelInv'
<1> SUFFICES ASSUME CancelInv, [Next]_vars PROVE CancelInv'
  OBVIOUS
<1> USE CancelsAssumption DEF CancelInv, CancelAhead
<1>1. ASSUME NEW p \in {"DOWN", "MID", "UP"}, DbusFresh(p) PROVE CancelInv'
  BY <1>1 DEF DbusFresh, RightSwitchRise, CancelAllGoals
<1>2. CASE DbusStale
  BY <1>2 DEF DbusStale, CancelAllGoals
<1>3. CASE ChassisOutputOn
  BY <1>3 DEF ChassisOutputOn, CancelAllGoals
<1>4. CASE CtrlCPress
  BY <1>4 DEF CtrlCPress, CancelAllGoals
<1>5. CASE LeftSwitchUpRise
  BY <1>5 DEF LeftSwitchUpRise, actionVars
<1>6. ASSUME NEW q, NEW init, NEW custom, Order(q, init, custom) PROVE CancelInv'
  BY <1>6 DEF Order, actionVars
<1>7. CASE SetName
  BY <1>7 DEF SetName, actionVars, remoteVars
<1>8. CASE RunStepQueue
  BY <1>8 DEF RunStepQueue, SendGoal, remoteVars
<1>9. CASE SetMode
  BY <1>9 DEF SetMode, actionVars, remoteVars
<1>10. CASE Synchronise
  BY <1>10 DEF Synchronise, actionVars, remoteVars
<1>11. CASE CustomGoesOn
  BY <1>10, <1>11 DEF CustomGoesOn, actionVars, remoteVars
<1>12. CASE CustomSynchronised
  BY <1>12 DEF CustomSynchronised, actionVars, remoteVars
<1>13. CASE ActionActiveCallback
  BY <1>13 DEF ActionActiveCallback, actionVars, remoteVars
<1>14. CASE Done
  BY <1>14 DEF Done, remoteVars
<1>15. CASE DoneEffects
  BY <1>15 DEF DoneEffects, CancelAllGoals, remoteVars
<1>16. CASE GoalArrives
  BY <1>16 DEF GoalArrives, remoteVars
<1>17. CASE CancelArrives
  <2>1. cancels' \in 0 .. MaxCancels
    BY <1>17 DEF CancelArrives
  <2>2. status' \in {"sent", "running"} => status' = "sent" /\ status = "sent"
    BY <1>17 DEF CancelArrives
  <2>3. status = "sent" => missed'
    BY <1>17, Zenon DEF CancelArrives
  <2> QED
    BY <2>1, <2>2, <2>3
<1>18. CASE GoalEnds
  BY <1>18 DEF GoalEnds, remoteVars
<1>19. CASE MiddlewareDies
  BY <1>19 DEF MiddlewareDies, remoteVars
<1>20. CASE UNCHANGED vars
  BY <1>20 DEF vars, actionVars, remoteVars
<1>21. CASE CustomSynchronise
  BY <1>10, <1>21 DEF CustomSynchronise
<1>22. CASE \/ \E name \in CtrlKeys : CtrlPress(name)
            \/ RPress \/ MouseLeftRelease \/ LeftSwitchUpFall
            \/ LeftSwitchDownRise \/ CustomButton
  BY ONLY <1>6, <1>22
  DEF CtrlPress, RPress, MouseLeftRelease, LeftSwitchUpFall, LeftSwitchDownRise,
      CustomButton
<1> QED
  BY <1>1, <1>2, <1>3, <1>4, <1>5, <1>7, <1>8, <1>9, <1>11, <1>12, <1>13, <1>14,
     <1>15, <1>16, <1>17, <1>18, <1>19, <1>20, <1>21, <1>22
  DEF Next, Handler, Middleware

\* remoteControlTurnOff() stops the goals, but for those that the custom
\* controller starts later and those that their cancel overtook.
THEOREM TurnOffStopsGoals == Safety => []OffStopsGoals
<1>1. CancelInv => OffStopsGoals
  BY DEF CancelInv, CancelAhead, OffStopsGoals
<1> QED
  BY InitCancelInv, NextCancelInv, <1>1, PTL DEF Safety

-----------------------------------------------------------------------------
(* Who has the arm. *)

\* The callback that could give the arm away has run before a goal is sent, and
\* a handler that called initMode() and was not disturbed still has the arm.
HeldInv ==
    /\ cb = "effects" => ~held
    /\ pc \in {"name", "check"} /\ order.init /\ ~overlap => control = "JOINT"
    /\ held /\ status \in UnderWay => control = "JOINT"

\* The constructor establishes it ...
LEMMA InitHeldInv == Init => HeldInv
  BY DEF Init, HeldInv

\* ... and every step keeps it: DoneEffects, which may enter CUSTOM, shows in
\* the handler under way as an overlap.
LEMMA NextHeldInv == HeldInv /\ [Next]_vars => HeldInv'
<1> SUFFICES ASSUME HeldInv, [Next]_vars PROVE HeldInv'
  OBVIOUS
<1> USE DEF HeldInv, UnderWay
<1>1. ASSUME NEW p \in {"DOWN", "MID", "UP"}, DbusFresh(p) PROVE HeldInv'
  BY <1>1 DEF DbusFresh, RightSwitchRise
<1>2. CASE DbusStale
  BY <1>2 DEF DbusStale
<1>3. CASE ChassisOutputOn
  BY <1>3 DEF ChassisOutputOn
<1>4. CASE CtrlCPress
  BY <1>4 DEF CtrlCPress
<1>5. CASE LeftSwitchUpRise
  BY <1>5 DEF LeftSwitchUpRise, actionVars
<1>6. ASSUME NEW q, NEW init, NEW custom, Order(q, init, custom) PROVE HeldInv'
  BY <1>6 DEF Order, actionVars
<1>7. CASE SetName
  BY <1>7 DEF SetName, actionVars
<1>8. CASE RunStepQueue
  <2>1. CASE SendGoal /\ pc' = "set" /\ UNCHANGED control
    <3>1. held' => order.init /\ ~overlap
      BY <2>1, Zenon DEF SendGoal
    <3> QED
      BY <1>8, <2>1, <3>1 DEF RunStepQueue, SendGoal
  <2>2. CASE pc' = "set" /\ UNCHANGED <<control, status, held>>
    BY <1>8, <2>2 DEF RunStepQueue
  <2>3. CASE Return /\ UNCHANGED <<status, held>>
    BY <1>8, <2>3 DEF RunStepQueue, Return
  <2> QED
    BY <1>8, <2>1, <2>2, <2>3 DEF RunStepQueue
<1>9. CASE SetMode
  BY <1>9 DEF SetMode, Return, actionVars
<1>10. CASE Synchronise
  BY <1>10 DEF Synchronise, actionVars
<1>11. CASE CustomGoesOn
  BY <1>10, <1>11 DEF CustomGoesOn, actionVars
<1>12. CASE CustomSynchronised
  BY <1>12 DEF CustomSynchronised, actionVars
<1>13. CASE ActionActiveCallback
  BY <1>13 DEF ActionActiveCallback, actionVars
<1>14. CASE Done
  BY <1>14 DEF Done
<1>15. CASE DoneEffects
  BY <1>15 DEF DoneEffects
<1>16. CASE GoalArrives
  BY <1>16 DEF GoalArrives
<1>17. CASE CancelArrives
  BY <1>17 DEF CancelArrives
<1>18. CASE GoalEnds
  BY <1>18 DEF GoalEnds
<1>19. CASE MiddlewareDies
  BY <1>19 DEF MiddlewareDies
<1>20. CASE UNCHANGED vars
  BY <1>20 DEF vars, actionVars
<1>21. CASE CustomSynchronise
  BY <1>10, <1>21 DEF CustomSynchronise
<1>22. CASE \/ \E name \in CtrlKeys : CtrlPress(name)
            \/ RPress \/ MouseLeftRelease \/ LeftSwitchUpFall
            \/ LeftSwitchDownRise \/ CustomButton
  BY ONLY <1>6, <1>22
  DEF CtrlPress, RPress, MouseLeftRelease, LeftSwitchUpFall, LeftSwitchDownRise,
      CustomButton
<1> QED
  BY <1>1, <1>2, <1>3, <1>4, <1>5, <1>7, <1>8, <1>9, <1>11, <1>12, <1>13, <1>14,
     <1>15, <1>16, <1>17, <1>18, <1>19, <1>20, <1>21, <1>22
  DEF Next, Handler, Middleware

\* The arm that initMode() has taken for a goal stays taken while the goal runs.
THEOREM ArmStaysHeld == Safety => []ArmHeldForGoal
<1>1. HeldInv => ArmHeldForGoal
  BY DEF HeldInv, ArmHeldForGoal
<1> QED
  BY InitHeldInv, NextHeldInv, <1>1, PTL DEF Safety

-----------------------------------------------------------------------------
(* The arm and the custom controller in synchrony. *)

\* A goal that has moved the arm since a synchronisation began, and whose done
\* callback has not torn it, is still there: its callback will reset
\* is_in_synch_.
MovedByGoal ==
    (synch # "WITHOUT_SYNCH" \/ pc = "synch") /\ moved /\ ~torn =>
        status \in {"running", "stopping", "ended", "lost"}

\* The constructor establishes it ...
LEMMA InitMovedByGoal == Init => MovedByGoal
  BY DEF Init, MovedByGoal

\* ... and every step keeps it: a new goal is sent only in MANUAL mode, when the
\* goal before is gone and with it what it moved (ModeInv).
LEMMA NextMovedByGoal == ModeInv /\ MovedByGoal /\ [Next]_vars => MovedByGoal'
<1> SUFFICES ASSUME ModeInv, MovedByGoal, [Next]_vars PROVE MovedByGoal'
  OBVIOUS
<1> USE DEF MovedByGoal
<1>1. ASSUME NEW p \in {"DOWN", "MID", "UP"}, DbusFresh(p) PROVE MovedByGoal'
  BY <1>1 DEF DbusFresh
<1>2. CASE DbusStale
  BY <1>2 DEF DbusStale
<1>3. CASE ChassisOutputOn
  BY <1>3 DEF ChassisOutputOn
<1>4. CASE CtrlCPress
  BY <1>4 DEF CtrlCPress
<1>5. CASE LeftSwitchUpRise
  BY <1>5 DEF LeftSwitchUpRise, actionVars
<1>6. ASSUME NEW q, NEW init, NEW custom, Order(q, init, custom) PROVE MovedByGoal'
  BY <1>6 DEF Order, actionVars
<1>7. CASE SetName
  BY <1>7 DEF SetName, actionVars
<1>8. CASE RunStepQueue
  BY <1>8 DEF RunStepQueue, SendGoal, Return, ModeInv, GoalTypes, GoalHasMode, UnderWay
<1>9. CASE SetMode
  BY <1>9 DEF SetMode, Return, actionVars
<1>10. ASSUME pc # "synch", Synchronise PROVE MovedByGoal'
  <2>1. CASE synch = "WITHOUT_SYNCH"
    <3>1. moved' => status \in {"running", "stopping"}
      BY <1>10, <2>1, Zenon DEF Synchronise
    <3> QED
      BY <1>10, <3>1 DEF Synchronise, actionVars
  <2>2. CASE synch # "WITHOUT_SYNCH"
    BY <1>10, <2>2 DEF Synchronise, actionVars
  <2> QED
    BY <2>1, <2>2
<1>11. CASE CustomGoesOn
  BY <1>10, <1>11 DEF CustomGoesOn, actionVars
<1>12. CASE CustomSynchronised
  BY <1>12 DEF CustomSynchronised, actionVars
<1>13. CASE ActionActiveCallback
  BY <1>13 DEF ActionActiveCallback, actionVars
<1>14. CASE Done
  <2>1. pc = "synch" => torn'
    BY <1>14, Zenon DEF Done
  <2> QED
    BY <1>14, <2>1 DEF Done
<1>15. CASE DoneEffects
  BY <1>15 DEF DoneEffects
<1>16. CASE GoalArrives
  BY <1>16 DEF GoalArrives
<1>17. CASE CancelArrives
  BY <1>17 DEF CancelArrives
<1>18. CASE GoalEnds
  BY <1>18 DEF GoalEnds
<1>19. CASE MiddlewareDies
  BY <1>19 DEF MiddlewareDies, UnderWay
<1>20. CASE UNCHANGED vars
  BY <1>20 DEF vars, actionVars
<1>21. CASE CustomSynchronise
  BY <1>10, <1>21 DEF CustomSynchronise
<1>22. CASE \/ \E name \in CtrlKeys : CtrlPress(name)
            \/ RPress \/ MouseLeftRelease \/ LeftSwitchUpFall
            \/ LeftSwitchDownRise \/ CustomButton
  BY ONLY <1>6, <1>22
  DEF CtrlPress, RPress, MouseLeftRelease, LeftSwitchUpFall, LeftSwitchDownRise,
      CustomButton
<1> QED
  BY <1>1, <1>2, <1>3, <1>4, <1>5, <1>7, <1>8, <1>9, <1>11, <1>12, <1>13, <1>14,
     <1>15, <1>16, <1>17, <1>18, <1>19, <1>20, <1>21, <1>22
  DEF Next, Handler, Middleware

\* updateCustomController() never makes the arm jump to where the custom
\* controller is after a goal moved it, unless actionDoneCallback() ran within it.
THEOREM FollowsAfterSynchronising == Safety => []FollowsOnlySynchronised
<1>1. ModeInv /\ MovedByGoal => FollowsOnlySynchronised
  BY DEF ModeInv, GoalHasMode, MovedByGoal, FollowsOnlySynchronised, UnderWay
<1> QED
  BY AlwaysModeInv, InitMovedByGoal, NextMovedByGoal, <1>1, PTL DEF Safety

-----------------------------------------------------------------------------
(* The queue that the done callback goes by. *)

\* As long as no handler has set prefix_ and root_ since the goal was sent, they
\* name its queue.
QueueOfGoal == ~keyed /\ EntersCustom(queue) => asked

\* The constructor establishes it ...
LEMMA InitQueueOfGoal == Init => QueueOfGoal
<1> SUFFICES ASSUME Init PROVE QueueOfGoal
  OBVIOUS
<1>1. queue = Plain("")
  BY DEF Init
<1>2. queue.name = "" /\ Plain("READY_ASSEMBLE").name = "READY_ASSEMBLE"
  BY <1>1 DEF Plain
<1> QED
  BY <1>2 DEF QueueOfGoal, EntersCustom

\* ... and every step keeps it: prefix_ and root_ change with keyed set.
LEMMA NextQueueOfGoal == QueueOfGoal /\ [Next]_vars => QueueOfGoal'
<1> SUFFICES ASSUME QueueOfGoal, [Next]_vars PROVE QueueOfGoal'
  OBVIOUS
<1>1. CASE LeftSwitchUpRise
  BY <1>1 DEF QueueOfGoal, LeftSwitchUpRise
<1>2. CASE SetName
  BY <1>2 DEF QueueOfGoal, SetName
<1>3. CASE RunStepQueue
  <2>1. CASE UNCHANGED <<queue, keyed, asked>>
    BY <2>1 DEF QueueOfGoal, EntersCustom
  <2>2. CASE SendGoal /\ UNCHANGED queue
    <3>1. EntersCustom(queue)' => EntersCustom(queue)
      BY <2>2 DEF EntersCustom
    <3> QED
      BY <2>2, <3>1, Zenon DEF SendGoal, QueueOfGoal
  <2> QED
    BY <1>3, <2>1, <2>2 DEF RunStepQueue
<1>4. CASE UNCHANGED <<queue, keyed, asked>>
  BY <1>4 DEF QueueOfGoal, EntersCustom
<1> QED
  BY <1>1, <1>2, <1>3, <1>4
  DEF Next, Handler, Middleware, DbusFresh, DbusStale, ChassisOutputOn, CtrlCPress,
      CtrlPress, RPress, MouseLeftRelease, LeftSwitchUpFall, LeftSwitchDownRise,
      CustomButton, Order, SetMode, CustomGoesOn, Synchronise, CustomSynchronise,
      CustomSynchronised, ActionActiveCallback, Done, DoneEffects, GoalArrives,
      CancelArrives, GoalEnds, MiddlewareDies, vars, actionVars

\* actionDoneCallback() enters CUSTOM only for the queue of the goal that is done,
\* unless a key has overwritten prefix_ and root_ meanwhile.
THEOREM CustomOnlyForItsGoal == Safety => CustomForItsGoal
<1>1. QueueOfGoal /\ [Next]_vars
      => [DoneEffects /\ control = "JOINT" /\ control' = "CUSTOM" => asked \/ keyed]_vars
  <2> SUFFICES ASSUME QueueOfGoal, DoneEffects, control = "JOINT", control' = "CUSTOM"
               PROVE  asked \/ keyed
    OBVIOUS
  <2>1. EntersCustom(queue)
    BY DEF DoneEffects
  <2> QED
    BY <2>1 DEF QueueOfGoal
<1> QED
  BY InitQueueOfGoal, NextQueueOfGoal, <1>1, PTL DEF Safety, CustomForItsGoal
=============================================================================
