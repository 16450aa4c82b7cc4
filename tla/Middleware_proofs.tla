-------------------------- MODULE Middleware_proofs --------------------------
(***************************************************************************)
(* Proofs about Middleware, for every list of steps, every number of goals *)
(* and every countdown of the arm motions.                                 *)
(***************************************************************************)
EXTENDS Middleware, SequenceTheorems, TLAPS

-----------------------------------------------------------------------------
(* Poses and steps. *)

\* Poses compose to poses.
LEMMA ComposeType == \A p, q \in Pose : Compose(p, q) \in Pose
<1>1. CASE Cells = 1
  BY <1>1 DEF Pose, Cell, Compose
<1>2. CASE Cells = 2
  BY <1>2 DEF Pose, Cell, Compose
<1> QED
  BY <1>1, <1>2, CellsAssumption

\* The coordinates of a pose are 0 and 1 at most.
LEMMA CellType ==
    Cell \subseteq {0, 1} /\ 0 \in Cell /\ \A c \in Cell : Cells - 1 - c \in Cell
  BY CellsAssumption DEF Cell

\* A step of a queue has motions and a pose, and the steps are numbered from 1.
LEMMA StepType ==
    ASSUME asked[current] \in DOMAIN Queues
    PROVE  /\ Len(Steps) \in Nat /\ DOMAIN Steps = 1 .. Len(Steps)
           /\ Steps # <<>> => Len(Steps) >= 1
           /\ step \in 1 .. Len(Steps) => TheStep.pose \in Pose
<1>1. Steps \in Seq([kinds : SUBSET Kinds, pose : Pose])
  BY QueuesAssumption DEF Steps
<1>2. Len(Steps) \in Nat /\ DOMAIN Steps = 1 .. Len(Steps)
  BY <1>1, LenProperties
<1>3. Steps # <<>> => Len(Steps) >= 1
  BY <1>1, EmptySeq
<1>4. ASSUME step \in 1 .. Len(Steps) PROVE TheStep \in [kinds : SUBSET Kinds, pose : Pose]
  BY <1>1, <1>4, ElementOfSeq DEF TheStep
<1> QED
  BY <1>2, <1>3, <1>4

-----------------------------------------------------------------------------
(* Types. *)

Places ==
    /\ status \in [Goals -> {"unsent", "pending", "active"} \cup Terminal]
    /\ asked \in [Goals -> DOMAIN Queues \cup {"unknown"}]
    /\ next \in Goals \cup {0}
    /\ pc \in {"wait", "enter", "resolve", "far", "arm", "chassis", "playback",
               "send", "poll", "leave", "dead"}
    /\ current \in Goals \cup {0}
    /\ step \in Nat

Chassis ==
    /\ goal \in [pose : Pose, frame : {"map", "raw"}, of : Goals \cup {0}]
    /\ error \in [pos : {0, 1, Huge}, yaw : {-1, 0, 1, Huge}]
    /\ tick \in {"sleep", "look", "yaw", "store"}
    /\ seen \in [pose : Pose, of : Goals \cup {0}]
    /\ here \in Pose
    /\ overlap \subseteq Windows
    /\ cmd \in Twists
    /\ at \in Pose
    /\ aim \in Pose

Motions ==
    /\ arm \in {"still", "moving", "there", "stopping"}
    /\ countdown \in -1 .. Countdown
    /\ playing \in {"no", "yes", "cancelled"}
    /\ player \in [queue : DOMAIN Queues \cup {"unknown"}, step : Nat]
    /\ adrift \subseteq {"arm", "playback"}

Flags ==
    /\ nextCancel \in BOOLEAN
    /\ preempt \in BOOLEAN
    /\ success \in BOOLEAN
    /\ late \in BOOLEAN
    /\ control \in BOOLEAN
    /\ elapsed \in BOOLEAN
    /\ played \in BOOLEAN

\* A queue is under way, from its setCurrentAsGoal() on.
UnderWay == step > 0 \/ pc \in {"resolve", "far"}

\* How the goals, their queue and the step go with the place of executeCB().
Work ==
    /\ next # 0 => status[next] = "pending"
    /\ current # 0 => status[current] \notin {"unsent", "pending"}
    /\ pc # "wait" => current # 0
    /\ pc \in {"arm", "chassis", "playback", "send", "poll"} => step > 0
    /\ pc = "enter" => step = 0
    /\ pc = "resolve" => goal.frame = "raw"
    /\ UnderWay => /\ current # 0
                   /\ asked[current] \in DOMAIN Queues
                   /\ Steps # <<>> /\ step <= Len(Steps)
                   /\ goal.of = current

\* The steps of the main loop, of the robot and of time.
LEMMA SurroundingSteps ==
    ASSUME [Next]_vars
    PROVE  \/ \E g \in Goals, q \in DOMAIN Queues \cup {"unknown"} : SendGoal(g, q)
           \/ Cancel
           \/ Execute
           \/ UNCHANGED <<serverVars, pc, current, step, success, control, goal, aim>>
<1> USE DEF execVars, chassisVars, serverVars
<1>1. CASE Loop
  BY <1>1 DEF Loop, TickLook, TickYaw, TickPublish, TickStore
<1>2. CASE Drive \/ ArmArrives \/ ArmSwings \/ ArmStops
  BY <1>2 DEF Drive, ArmArrives, ArmSwings, ArmStops
<1>3. CASE PlaybackDone \/ DelayElapses \/ TimeoutPasses
  BY <1>3 DEF PlaybackDone, DelayElapses, TimeoutPasses
<1>4. CASE UNCHANGED vars
  BY <1>4 DEF vars
<1> QED
  BY <1>1, <1>2, <1>3, <1>4 DEF Next

\* A goal that is sent is neither the one at work nor its queue.
LEMMA SendGoalServer ==
    ASSUME Places, Work, NEW g \in Goals, NEW q \in DOMAIN Queues \cup {"unknown"},
           SendGoal(g, q)
    PROVE  /\ Places'
           /\ next' = g /\ status'[g] = "pending"
           /\ current # 0 => status'[current] = status[current]
           /\ current # 0 => asked'[current] = asked[current]
<1>1. Places'
  BY DEF SendGoal, Places, execVars, Terminal
<1>2. current # 0 => current # g /\ current # next /\ current \in Goals
  BY DEF SendGoal, Places, Work
<1> QED
  BY <1>1, <1>2 DEF SendGoal, Places

\* The server's and the execute thread's variables at first ...
LEMMA InitWork == Init => Places /\ Work
  BY DEF Init, Places, Work, UnderWay

\* ... and after every step.
LEMMA NextWork == Places /\ Work /\ Chassis /\ [Next]_vars => Places' /\ Work'
<1> SUFFICES ASSUME Places, Work, Chassis, [Next]_vars PROVE Places' /\ Work'
  OBVIOUS
<1> DEFINE Goal == Places' /\ Work'
<1> USE DEF execVars, serverVars, chassisVars, loopVars
<1>1. ASSUME NEW g \in Goals, NEW q \in DOMAIN Queues \cup {"unknown"}, SendGoal(g, q)
      PROVE  Goal
  <2>1. UNCHANGED <<pc, current, step, goal>> /\ g # 0
    BY <1>1 DEF SendGoal, Goals
  <2> QED
    BY <1>1, <2>1, SendGoalServer DEF Work, UnderWay, Steps
<1>2. CASE Cancel
  BY <1>2 DEF Cancel, Places, Work, UnderWay, Steps
<1>3. CASE Accept
  <2>1. next \in Goals /\ next # 0
    BY <1>3 DEF Accept, Places
  <2> QED
    BY <1>3, <2>1 DEF Accept, Places, Work, UnderWay, Terminal
<1>4. CASE Enter
  <2>1. current \in Goals /\ current # next
    BY <1>4 DEF Enter, Places, Work
  <2>2. CASE asked[current] \in DOMAIN Queues /\ Steps # <<>>
    <3>1. 0 <= Len(Steps)
      BY <2>2, StepType
    <3> QED
      BY <1>4, <2>1, <2>2, <3>1 DEF Enter, SetGoal, Places, Work, UnderWay, Steps
  <2>3. CASE ~(asked[current] \in DOMAIN Queues /\ Steps # <<>>)
    BY <1>4, <2>1, <2>3 DEF Enter, Places, Work, UnderWay, Terminal
  <2> QED
    BY <2>2, <2>3
<1>5. CASE Resolve
  <2>1. goal'.of = goal.of
    BY <1>5 DEF Resolve, Chassis
  <2> QED
    BY <1>5, <2>1 DEF Resolve, Places, Work, UnderWay, Steps
<1>6. CASE Far
  <2>1. 1 <= Len(Steps)
    BY <1>6, StepType DEF Far, Work, UnderWay
  <2> QED
    BY <1>6, <2>1 DEF Far, Places, Work, UnderWay, Steps
<1>7. CASE MoveArm \/ MoveThrows
  BY <1>7 DEF MoveArm, MoveThrows, Places, Work, UnderWay, Steps
<1>8. CASE MoveChassis
  BY <1>8 DEF MoveChassis, SetGoal, Places, Work, UnderWay, Steps
<1>9. CASE MovePlayback \/ SendPlayback
  <2>1. current \in Goals /\ current # next
    BY <1>9 DEF MovePlayback, SendPlayback, Places, Work
  <2>2. /\ pc' \in {"send", "poll", "leave"}
        /\ status' \in {status, [status EXCEPT ![current] = "aborted"]}
    BY <1>9 DEF MovePlayback, SendPlayback, Moved
  <2>3. UNCHANGED <<asked, next, current, step, goal>> /\ pc \in {"playback", "send"}
    BY <1>9 DEF MovePlayback, SendPlayback
  <2> QED
    BY <2>1, <2>2, <2>3 DEF Places, Work, UnderWay, Steps, Terminal
<1>10. CASE PollFinished
  <2>1. current \in Goals /\ current # next
    BY <1>10 DEF PollFinished, Places, Work
  <2>2. Len(Steps) \in Nat
    BY <1>10, StepType DEF PollFinished, Work, UnderWay
  <2> QED
    BY <1>10, <2>1, <2>2 DEF PollFinished, Places, Work, UnderWay, Steps, Terminal
<1>11. CASE PollTimeout \/ PollPreempted
  <2>1. current \in Goals /\ current # next
    BY <1>11 DEF PollTimeout, PollPreempted, Places, Work
  <2> QED
    BY <1>11, <2>1 DEF PollTimeout, PollPreempted, Places, Work, UnderWay, Steps, Terminal
<1>12. CASE PollAgain \/ Leave
  BY <1>12 DEF PollAgain, Leave, Places, Work, UnderWay, Steps
<1>13. CASE UNCHANGED <<serverVars, pc, current, step, success, control, goal, aim>>
  BY <1>13 DEF Places, Work, UnderWay, Steps
<1> QED
  BY <1>1, <1>2, <1>3, <1>4, <1>5, <1>6, <1>7, <1>8, <1>9, <1>10, <1>11, <1>12, <1>13,
     SurroundingSteps
  DEF Execute

\* The chassis' variables at first ...
LEMMA InitChassis == Init => Chassis /\ Motions
<1> SUFFICES ASSUME Init PROVE Chassis /\ Motions
  OBVIOUS
<1>1. Origin \in Pose
  BY CellType DEF Origin, Pose
<1>2. Chassis
  BY <1>1 DEF Init, Chassis, Huge, Nothing, Twists
<1>3. Motions
  BY CountdownAssumption DEF Init, Motions
<1> QED
  BY <1>2, <1>3

\* The steps that leave the chassis and the main loop alone.
LEMMA ChassisAlone ==
    ASSUME [Next]_vars
    PROVE  \/ Accept \/ Enter \/ Resolve \/ Far \/ MoveThrows \/ MoveChassis
           \/ PollTimeout \/ PollPreempted
           \/ TickLook \/ TickYaw \/ TickPublish \/ TickStore \/ Drive
           \/ UNCHANGED <<chassisVars, loopVars, cmd, at>>
<1> USE DEF chassisVars, loopVars
<1>1. ASSUME NEW g \in Goals, NEW q \in DOMAIN Queues \cup {"unknown"}, SendGoal(g, q)
      PROVE  UNCHANGED <<chassisVars, loopVars, cmd, at>>
  BY <1>1 DEF SendGoal
<1>2. CASE \/ Cancel \/ MoveArm \/ MovePlayback \/ SendPlayback
           \/ PollFinished \/ PollAgain \/ Leave
  BY <1>2 DEF Cancel, MoveArm, MovePlayback, SendPlayback, PollFinished, PollAgain, Leave
<1>3. CASE \/ ArmArrives \/ ArmSwings \/ ArmStops
           \/ PlaybackDone \/ DelayElapses \/ TimeoutPasses
  BY <1>3 DEF ArmArrives, ArmSwings, ArmStops, PlaybackDone, DelayElapses, TimeoutPasses
<1>4. CASE UNCHANGED vars
  BY <1>4 DEF vars
<1> QED
  BY <1>1, <1>2, <1>3, <1>4 DEF Next, Execute, Loop

\* ... and after every step.
LEMMA NextChassis == Places /\ Work /\ Chassis /\ [Next]_vars => Chassis'
<1> SUFFICES ASSUME Places, Work, Chassis, [Next]_vars PROVE Chassis'
  OBVIOUS
<1> USE DEF chassisVars, loopVars
<1>1. CASE Accept
  BY <1>1 DEF Accept, Chassis, Windows
<1>2. CASE Enter
  <2>1. goal' \in [pose : Pose, frame : {"map", "raw"}, of : Goals \cup {0}]
    BY <1>2, CellType DEF Enter, SetGoal, Origin, Pose, Chassis, Places
  <2> QED
    BY <1>2, <2>1 DEF Enter, Chassis
<1>3. CASE Resolve
  <2>1. Compose(at, goal.pose) \in Pose
    BY ComposeType DEF Chassis
  <2>2. goal' \in [pose : Pose, frame : {"map", "raw"}, of : Goals \cup {0}]
    BY <1>3, <2>1 DEF Resolve, Chassis
  <2> QED
    BY <1>3, <2>1, <2>2 DEF Resolve, Chassis
<1>4. CASE Far
  <2>1. error' \in [pos : {0, 1, Huge}, yaw : {-1, 0, 1, Huge}]
    BY <1>4 DEF Far
  <2> QED
    BY <1>4, <2>1 DEF Far, Chassis
<1>5. CASE MoveChassis
  <2>1. TheStep.pose \in Pose
    BY <1>5, StepType DEF MoveChassis, Work, UnderWay, Places
  <2>2. goal' \in [pose : Pose, frame : {"map", "raw"}, of : Goals \cup {0}]
    BY <1>5, <2>1 DEF MoveChassis, SetGoal, Chassis, Places
  <2>3. overlap' \subseteq Windows
    BY <1>5 DEF MoveChassis, Met, Windows, Chassis
  <2> QED
    BY <1>5, <2>2, <2>3 DEF MoveChassis, Chassis
<1>6. CASE PollTimeout \/ PollPreempted
  <2>1. overlap' \subseteq Windows
    BY <1>6 DEF PollTimeout, PollPreempted, Met, Windows, Chassis
  <2>2. cmd' \in Twists
    BY <1>6 DEF PollTimeout, PollPreempted, StopStep, Chassis, Twists
  <2> QED
    BY <1>6, <2>1, <2>2 DEF PollTimeout, PollPreempted, Chassis
<1>7. CASE TickLook
  <2>1. overlap' \subseteq Windows
    BY <1>7 DEF TickLook, Window, Chassis
  <2> QED
    BY <1>7, <2>1 DEF TickLook, Chassis
<1>8. CASE TickYaw
  <2>1. seen' \in [pose : Pose, of : Goals \cup {0}]
    BY <1>8 DEF TickYaw, Chassis, Pose
  <2>2. goal.pose.yaw - here.yaw \in {-1, 0, 1}
    <3>1. goal.pose.yaw \in {0, 1} /\ here.yaw \in {0, 1}
      BY CellType DEF Chassis, Pose
    <3> QED
      BY <3>1
  <2>3. error' \in [pos : {0, 1, Huge}, yaw : {-1, 0, 1, Huge}]
    BY <1>8, <2>2 DEF TickYaw, Chassis
  <2> QED
    BY <1>8, <2>1, <2>3 DEF TickYaw, Chassis
<1>9. CASE TickPublish
  <2>1. ASSUME NEW rotated \in BOOLEAN PROVE Twist(rotated) \in Twists
    <3> DEFINE xy == IF rotated \/ seen.pose.xy = here.xy THEN seen.pose.xy ELSE Astray
               yaw == IF error.yaw = Huge THEN Astray ELSE seen.pose.yaw
    <3>1. xy \in Cell \cup {Astray} /\ yaw \in Cell \cup {Astray}
      BY DEF Chassis, Pose
    <3> HIDE DEF xy, yaw
    <3>2. Twist(rotated) \in {Zero, [xy |-> xy, yaw |-> yaw]}
      BY DEF Twist, xy, yaw
    <3> QED
      BY <3>1, <3>2 DEF Twists
  <2>2. cmd' \in Twists
    BY <1>9, <2>1 DEF TickPublish
  <2> QED
    BY <1>9, <2>2 DEF TickPublish, Chassis
<1>10. CASE TickStore
  <2>1. error' \in [pos : {0, 1, Huge}, yaw : {-1, 0, 1, Huge}]
    BY <1>10 DEF TickStore, Chassis, Huge
  <2>2. seen' \in [pose : Pose, of : Goals \cup {0}]
    BY <1>10, CellType DEF TickStore, Nothing, Origin, Pose
  <2> QED
    BY <1>10, <2>1, <2>2 DEF TickStore, Chassis
<1>11. CASE Drive
  <2>1. cmd # Zero => /\ cmd.xy # Astray => cmd.xy \in Cell
                      /\ cmd.yaw # Astray => cmd.yaw \in Cell
    BY DEF Chassis, Twists
  <2>2. at' \in Pose
    <3>1. at \in [xy : Cell, yaw : Cell] /\ cmd # Zero
      BY <1>11 DEF Drive, Chassis, Pose
    <3>2. Cells - 1 - at.xy \in Cell /\ Cells - 1 - at.yaw \in Cell
      BY <3>1, CellType
    <3>3. CASE at' \in {[at EXCEPT !.xy = Cells - 1 - @], [at EXCEPT !.yaw = Cells - 1 - @]}
      BY <3>1, <3>2, <3>3 DEF Pose
    <3>4. \A c \in Cell : [at EXCEPT !.xy = c] \in Pose /\ [at EXCEPT !.yaw = c] \in Pose
      BY <3>1 DEF Pose
    <3>5. CASE cmd.xy # Astray /\ at' = [at EXCEPT !.xy = cmd.xy]
      BY <2>1, <3>1, <3>4, <3>5, Zenon
    <3>6. CASE cmd.yaw # Astray /\ at' = [at EXCEPT !.yaw = cmd.yaw]
      BY <2>1, <3>1, <3>4, <3>6, Zenon
    <3> QED
      BY <1>11, <3>3, <3>5, <3>6 DEF Drive
  <2> QED
    BY <1>11, <2>2 DEF Drive, Chassis
<1>12. CASE MoveThrows
  <2>1. seen' \in [pose : Pose, of : Goals \cup {0}]
    BY <1>12, CellType DEF MoveThrows, Nothing, Origin, Pose
  <2> QED
    BY <1>12, <2>1 DEF MoveThrows, Chassis
<1>13. CASE UNCHANGED <<chassisVars, loopVars, cmd, at>>
  BY <1>13 DEF Chassis
<1> QED
  BY <1>1, <1>2, <1>3, <1>4, <1>5, <1>6, <1>7, <1>8, <1>9, <1>10, <1>11, <1>12, <1>13,
     ChassisAlone

\* A poll counts down, not below -1.
LEMMA CountdownType ==
    countdown \in -1 .. Countdown => CountdownNext \in -1 .. Countdown
  BY CountdownAssumption DEF CountdownNext

\* The arm and its countdown keep their types ...
LEMMA NextMotions == Places /\ Work /\ Motions /\ [Next]_vars => Motions'
<1> SUFFICES ASSUME Places, Work, Motions, [Next]_vars PROVE Motions'
  OBVIOUS
<1> USE DEF Motions, motionVars
<1>1. ASSUME NEW g \in Goals, NEW q \in DOMAIN Queues \cup {"unknown"}, SendGoal(g, q)
      PROVE  Motions'
  BY <1>1 DEF SendGoal
<1>2. CASE Cancel \/ Accept \/ Enter \/ Resolve \/ Far \/ MoveChassis \/ Leave
  BY <1>2 DEF Cancel, Accept, Enter, Resolve, Far, MoveChassis, Leave
<1>3. CASE MoveArm \/ MoveThrows
  <2>1. /\ arm' \in {arm, "moving"} /\ adrift' \in {adrift, adrift \ {"arm"}}
        /\ countdown' \in {countdown, Countdown}
    BY <1>3 DEF MoveArm, MoveThrows, ArmFirst, ArmMove
  <2>2. UNCHANGED <<playing, player>>
    BY <1>3 DEF MoveArm, MoveThrows
  <2> QED
    BY <2>1, <2>2, CountdownAssumption
<1>4. CASE MovePlayback \/ SendPlayback
  <2>1. UNCHANGED <<arm, countdown>> /\ playing' \in {playing, "yes"}
    BY <1>4 DEF MovePlayback, SendPlayback
  <2>2. TheMotion \in [queue : DOMAIN Queues \cup {"unknown"}, step : Nat]
    BY <1>4 DEF MovePlayback, SendPlayback, TheMotion, Places, Work
  <2>3. player' \in {player, TheMotion}
    BY <1>4 DEF MovePlayback, SendPlayback
  <2>4. adrift' \subseteq adrift \cup {"arm", "playback"}
    BY <1>4 DEF MovePlayback, SendPlayback, Moved
  <2> QED
    BY <2>1, <2>2, <2>3, <2>4
<1>5. CASE PollFinished \/ PollTimeout \/ PollPreempted \/ PollAgain
  BY <1>5, CountdownType DEF PollFinished, PollTimeout, PollPreempted, PollAgain, StopStep
<1>6. CASE Loop \/ Drive \/ TimeoutPasses
  BY <1>6 DEF Loop, TickLook, TickYaw, TickPublish, TickStore, Drive, TimeoutPasses
<1>7. CASE ArmArrives \/ ArmSwings \/ ArmStops \/ PlaybackDone \/ DelayElapses
  BY <1>7 DEF ArmArrives, ArmSwings, ArmStops, PlaybackDone, DelayElapses
<1>8. CASE UNCHANGED vars
  BY <1>8 DEF vars
<1> QED
  BY <1>1, <1>2, <1>3, <1>4, <1>5, <1>6, <1>7, <1>8 DEF Next, Execute

\* ... and so do the truth values.
LEMMA NextFlags == Flags /\ [Next]_vars => Flags'
<1> SUFFICES ASSUME Flags, [Next]_vars PROVE Flags'
  OBVIOUS
<1> USE DEF Flags, serverVars, execVars, motionVars
<1>1. ASSUME NEW g \in Goals, NEW q \in DOMAIN Queues \cup {"unknown"}, SendGoal(g, q)
      PROVE  Flags'
  <2>1. preempt' \in BOOLEAN
    BY <1>1, Zenon DEF SendGoal
  <2> QED
    BY <1>1, <2>1, Zenon DEF SendGoal
<1>2. CASE Cancel
  <2>1. preempt' \in BOOLEAN /\ nextCancel' \in BOOLEAN
    BY <1>2, Zenon DEF Cancel
  <2> QED
    BY <1>2, <2>1, Zenon DEF Cancel
<1>3. CASE Accept \/ Enter \/ Resolve
  BY <1>3, Zenon DEF Accept, Enter, Resolve
<1>4. CASE Far \/ MoveChassis \/ Leave
  BY <1>4, Zenon DEF Far, MoveChassis, Leave
<1>5. CASE MoveArm \/ MoveThrows
  BY <1>5, Zenon DEF MoveArm, MoveThrows, ArmFirst, ArmMove
<1>6. CASE MovePlayback \/ SendPlayback
  <2>1. success' \in BOOLEAN /\ played' \in BOOLEAN
    BY <1>6, Zenon DEF MovePlayback, SendPlayback, Moved
  <2> QED
    BY <1>6, <2>1, Zenon DEF MovePlayback, SendPlayback
<1>7. CASE PollFinished
  BY <1>7, Zenon DEF PollFinished
<1>8. CASE PollTimeout \/ PollPreempted \/ PollAgain
  BY <1>8, Zenon DEF PollTimeout, PollPreempted, PollAgain, StopStep
<1>9. CASE TickLook \/ TickYaw
  BY <1>9, Zenon DEF TickLook, TickYaw
<1>10. CASE TickPublish \/ TickStore \/ Drive
  BY <1>10, Zenon DEF TickPublish, TickStore, Drive
<1>11. CASE ArmArrives \/ ArmSwings \/ ArmStops \/ PlaybackDone
  <2>1. played' \in BOOLEAN
    BY <1>11, Zenon DEF ArmArrives, ArmSwings, ArmStops, PlaybackDone
  <2> QED
    BY <1>11, <2>1, Zenon DEF ArmArrives, ArmSwings, ArmStops, PlaybackDone
<1>12. CASE DelayElapses \/ TimeoutPasses
  BY <1>12, Zenon DEF DelayElapses, TimeoutPasses
<1>13. CASE UNCHANGED vars
  BY <1>13, Zenon DEF vars
<1> QED
  BY <1>1, <1>2, <1>3, <1>4, <1>5, <1>6, <1>7, <1>8, <1>9, <1>10, <1>11, <1>12, <1>13
  DEF Next, Execute, Loop

\* The types, with what keeps the step within its queue.
Typed == Places /\ Work /\ Chassis

\* Typed is an inductive invariant.
LEMMA NextTyped == Typed /\ [Next]_vars => Typed'
  BY NextWork, NextChassis DEF Typed

\* Type correctness: no sequence of goals, cancels and polls runs over the end of
\* a queue or indexes a queue that is not there, and every variable that the two
\* threads share keeps its type.
THEOREM TypeCorrect == Safety => []TypeOK
<1>1. Init => Typed /\ Motions /\ Flags
  <2>1. Init => Flags
    BY DEF Init, Flags
  <2> QED
    BY <2>1, InitWork, InitChassis DEF Typed
<1>2. Typed /\ Motions /\ Flags /\ [Next]_vars => (Typed /\ Motions /\ Flags)'
  BY NextTyped, NextMotions, NextFlags DEF Typed
<1>3. Typed /\ Motions /\ Flags => TypeOK
  <2> SUFFICES ASSUME Typed, Motions, Flags PROVE TypeOK
    OBVIOUS
  <2>1. step > 0 => step \in DOMAIN Steps
    BY StepType DEF Typed, Places, Work, UnderWay
  <2> QED
    BY <2>1, Zenon DEF Typed, Places, Chassis, Motions, Flags, TypeOK
<1> QED
  BY <1>1, <1>2, <1>3, PTL DEF Safety

-----------------------------------------------------------------------------
(* The goals of the chassis. *)

\* A tick that did not begin before the queue's setCurrentAsGoal() has read a goal
\* of the queue under way.
OwnGoal == tick # "sleep" /\ "entry" \notin overlap => seen.of = current

\* Every step keeps this.
LEMMA NextOwnGoal == Typed /\ OwnGoal /\ [Next]_vars => OwnGoal'
<1> SUFFICES ASSUME Typed, OwnGoal, [Next]_vars PROVE OwnGoal'
  OBVIOUS
<1> USE DEF loopVars, execVars, OwnGoal
<1>1. CASE Accept
  BY <1>1 DEF Accept
<1>2. CASE Enter \/ Resolve \/ Far
  BY <1>2 DEF Enter, Resolve, Far
<1>3. CASE MoveChassis
  BY <1>3 DEF MoveChassis, Met
<1>4. CASE PollTimeout \/ PollPreempted
  BY <1>4 DEF PollTimeout, PollPreempted, Met
<1>5. CASE TickLook
  <2>1. step = 0 => "entry" \in overlap'
    BY <1>5 DEF TickLook, Window, Windows
  <2>2. step # 0 => goal.of = current
    BY DEF Typed, Places, Work, UnderWay
  <2> QED
    BY <1>5, <2>1, <2>2 DEF TickLook
<1>6. CASE TickYaw
  <2>1. seen'.of = seen.of
    BY <1>6 DEF TickYaw, Typed, Chassis
  <2> QED
    BY <1>6, <2>1 DEF TickYaw
<1>7. CASE TickPublish \/ TickStore \/ Drive \/ MoveThrows
  BY <1>7 DEF TickPublish, TickStore, Drive, MoveThrows
<1>8. CASE UNCHANGED <<loopVars, current>>
  BY <1>8
<1>9. UNCHANGED <<loopVars, current>> \/ Accept \/ Enter \/ Resolve \/ Far \/ MoveThrows
        \/ MoveChassis \/ PollTimeout \/ PollPreempted
        \/ TickLook \/ TickYaw \/ TickPublish \/ TickStore \/ Drive
  <2>1. ASSUME NEW g \in Goals, NEW q \in DOMAIN Queues \cup {"unknown"}, SendGoal(g, q)
        PROVE  UNCHANGED <<loopVars, current>>
    BY <2>1 DEF SendGoal
  <2>2. CASE \/ Cancel \/ MoveArm \/ MovePlayback \/ SendPlayback
             \/ PollFinished \/ PollAgain \/ Leave
    BY <2>2 DEF Cancel, MoveArm, MovePlayback, SendPlayback, PollFinished, PollAgain, Leave
  <2>3. CASE \/ ArmArrives \/ ArmSwings \/ ArmStops
             \/ PlaybackDone \/ DelayElapses \/ TimeoutPasses
    BY <2>3 DEF ArmArrives, ArmSwings, ArmStops, PlaybackDone, DelayElapses, TimeoutPasses
  <2>4. CASE UNCHANGED vars
    BY <2>4 DEF vars
  <2> QED
    BY <2>1, <2>2, <2>3, <2>4 DEF Next, Execute, Loop
<1> QED
  BY <1>1, <1>2, <1>3, <1>4, <1>5, <1>6, <1>7, <1>8, <1>9

\* A twist that is not zero is published by the main loop only.
LEMMA TwistsOfTheLoop ==
    ASSUME [Next]_vars, cmd' \notin {cmd, Zero}
    PROVE  TickPublish
  BY ChassisAlone
  DEF Accept, Enter, Resolve, Far, MoveThrows, MoveChassis, PollTimeout, PollPreempted,
      StopStep, TickLook, TickYaw, TickStore, Drive

\* DrivesOwnGoal: whatever goal a previous queue left in goal_, the main loop
\* drives the chassis to none but the goals of the queue under way, once that has
\* run its setCurrentAsGoal() before the tick began.
THEOREM ChassisDrivesOwnGoal == Safety => DrivesOwnGoal
<1>1. Init => Typed /\ OwnGoal
  <2>1. Init => OwnGoal
    BY DEF Init, OwnGoal
  <2> QED
    BY <2>1, InitWork, InitChassis DEF Typed
<1>2. Typed /\ OwnGoal /\ [Next]_vars => (Typed /\ OwnGoal)'
  BY NextTyped, NextOwnGoal
<1>3. OwnGoal /\ [Next]_vars
        => [cmd' \notin {cmd, Zero} /\ "entry" \notin overlap => seen.of = current]_vars
  BY TwistsOfTheLoop DEF TickPublish, OwnGoal
<1> QED
  BY <1>1, <1>2, <1>3, PTL DEF Safety, DrivesOwnGoal

-----------------------------------------------------------------------------
(* The end of a chassis step. *)

\* The errors that the execute thread reads were measured against its own goal.
Measured ==
    step > 0 /\ "set" \notin overlap =>
        /\ pc \in {"resolve", "far"} => tick = "sleep"
        /\ pc = "far" /\ goal.frame = "map" => goal.pose = aim
        /\ pc \in {"playback", "send", "poll"} /\ Has("chassis") /\ goal.frame = "map" =>
            /\ goal.pose = aim
            /\ tick # "sleep" => seen.pose = aim
            /\ tick \in {"yaw", "store"} => error.yaw = aim.yaw - here.yaw
            /\ tick = "sleep" /\ ChassisInPlace => here = aim

\* The queue of the goal at work does not change under way.
LEMMA SameStep ==
    ASSUME Typed, step > 0, [Next]_vars, UNCHANGED <<current, step>>
    PROVE  TheStep' = TheStep
<1>1. current # 0
  BY DEF Typed, Work, UnderWay
<1>2. asked'[current] = asked[current]
  <2>1. ASSUME NEW g \in Goals, NEW q \in DOMAIN Queues \cup {"unknown"}, SendGoal(g, q)
        PROVE  asked'[current] = asked[current]
    BY <1>1, <2>1, SendGoalServer DEF Typed
  <2>2. CASE Cancel \/ UNCHANGED serverVars
    BY <2>2 DEF Cancel, serverVars
  <2>3. CASE Accept \/ Enter \/ Resolve \/ Far \/ MoveArm \/ MoveThrows \/ MoveChassis
    BY <2>3 DEF Accept, Enter, Resolve, Far, MoveArm, MoveThrows, MoveChassis, serverVars
  <2>4. CASE MovePlayback \/ SendPlayback \/ PollFinished \/ PollTimeout \/ PollPreempted
    BY <2>4 DEF MovePlayback, SendPlayback, PollFinished, PollTimeout, PollPreempted
  <2>5. CASE PollAgain \/ Leave
    BY <2>5 DEF PollAgain, Leave, serverVars
  <2> QED
    BY <2>1, <2>2, <2>3, <2>4, <2>5, SurroundingSteps DEF Execute, serverVars
<1> QED
  BY <1>2 DEF TheStep, Steps

\* Every step keeps the errors measured.
LEMMA NextMeasured == Typed /\ Measured /\ [Next]_vars => Measured'
<1> SUFFICES ASSUME Typed, Measured, [Next]_vars, step' > 0, "set" \notin overlap'
             PROVE  Measured'
  BY DEF Measured
<1> USE DEF loopVars, execVars, chassisVars
<1>1. CASE Accept
  BY <1>1 DEF Accept
<1>2. CASE Enter
  BY <1>2 DEF Enter, Typed, Work
<1>3. CASE Resolve
  <2>1. goal'.frame = "map" => goal'.pose = aim'
    BY <1>3 DEF Resolve, Typed, Chassis, Work
  <2> QED
    BY <1>3, <2>1 DEF Resolve, Measured
<1>4. CASE Far
  <2>1. CASE step = 0
    BY <1>4, <2>1 DEF Far, Measured
  <2>2. CASE step # 0
    <3>1. tick' = "sleep" /\ error'.pos # 0
      BY <1>4, <2>2 DEF Far, Measured, Typed, Places, Huge
    <3> QED
      BY <1>4, <2>2, <3>1 DEF Far, Measured, ChassisInPlace, Typed, Places
  <2> QED
    BY <2>1, <2>2
<1>5. CASE MoveArm \/ MoveThrows
  BY <1>5 DEF MoveArm, MoveThrows, Measured
<1>6. CASE MoveChassis
  <2>1. TheStep' = TheStep
    BY <1>6, SameStep DEF MoveChassis, Typed, Work
  <2>2. CASE Has("chassis")
    BY <1>6, <2>2 DEF MoveChassis, Met, Measured
  <2>3. CASE ~Has("chassis")
    BY <1>6, <2>1, <2>3 DEF MoveChassis, Has, Measured
  <2> QED
    BY <2>2, <2>3
<1>7. CASE MovePlayback \/ SendPlayback
  <2>1. TheStep' = TheStep
    BY <1>7, SameStep DEF MovePlayback, SendPlayback, Typed, Work
  <2>2. pc \in {"playback", "send"} /\ pc' \in {"send", "poll", "leave"}
    BY <1>7 DEF MovePlayback, SendPlayback, Moved
  <2>3. UNCHANGED <<step, goal, error, aim, tick, seen, here, overlap>>
    BY <1>7 DEF MovePlayback, SendPlayback
  <2> QED
    BY <2>1, <2>2, <2>3 DEF Has, Measured, ChassisInPlace
<1>8. CASE PollFinished
  BY <1>8 DEF PollFinished, Measured
<1>9. CASE PollTimeout \/ PollPreempted
  BY <1>9 DEF PollTimeout, PollPreempted, Measured
<1>10. CASE Leave
  BY <1>10 DEF Leave, Measured
<1>11. ASSUME UNCHANGED <<pc, current, step, goal, aim>>,
              overlap \subseteq overlap',
              \/ TickLook \/ TickYaw \/ TickPublish \/ TickStore
              \/ UNCHANGED <<tick, seen, here, error>>
       PROVE  Measured'
  <2>1. TheStep' = TheStep /\ "set" \notin overlap /\ step > 0
    BY <1>11, SameStep
  <2> DEFINE Own == pc \in {"playback", "send", "poll"} /\ Has("chassis") /\ goal.frame = "map"
  <2>2. /\ pc \in {"resolve", "far"} => tick = "sleep"
        /\ pc = "far" /\ goal.frame = "map" => goal.pose = aim
        /\ Own =>
            /\ goal.pose = aim
            /\ tick # "sleep" => seen.pose = aim
            /\ tick \in {"yaw", "store"} => error.yaw = aim.yaw - here.yaw
            /\ tick = "sleep" /\ ChassisInPlace => here = aim
    BY <2>1 DEF Measured
  <2>3. pc \in {"resolve", "far"} => tick' = "sleep"
    <3>1. CASE TickLook
      BY <2>1, <3>1 DEF TickLook, Window, Windows
    <3> QED
      BY <1>11, <2>2, <3>1 DEF TickYaw, TickPublish, TickStore
  <2>4. ASSUME Own
        PROVE  /\ tick' # "sleep" => seen'.pose = aim
               /\ tick' \in {"yaw", "store"} => error'.yaw = aim.yaw - here'.yaw
               /\ tick' = "sleep" /\ ChassisInPlace' => here' = aim
    <3>1. CASE TickLook
      BY <2>2, <2>4, <3>1 DEF TickLook
    <3>2. CASE TickYaw
      BY <2>2, <2>4, <3>2 DEF TickYaw, Typed, Chassis, Pose
    <3>3. CASE TickStore
      <4>1. /\ seen.pose = aim /\ error.yaw = aim.yaw - here.yaw
            /\ aim \in Pose /\ here \in Pose /\ here' = here /\ tick' = "sleep"
        BY <2>2, <2>4, <3>3 DEF TickStore, Typed, Chassis
      <4>2. /\ aim.xy \in {0, 1} /\ aim.yaw \in {0, 1}
            /\ here.xy \in {0, 1} /\ here.yaw \in {0, 1}
        BY <4>1, CellType DEF Pose
      <4>3. ChassisInPlace' => here.xy = aim.xy /\ here.yaw = aim.yaw
        BY <3>3, <4>1, <4>2 DEF TickStore, ChassisInPlace
      <4>4. here.xy = aim.xy /\ here.yaw = aim.yaw => here = aim
        BY <4>1 DEF Pose
      <4> QED
        BY <4>1, <4>3, <4>4
    <3>4. CASE TickPublish \/ UNCHANGED <<tick, seen, here, error>>
      BY <1>11, <2>2, <2>4, <3>4 DEF TickPublish, ChassisInPlace
    <3> QED
      BY <1>11, <3>1, <3>2, <3>3, <3>4
  <2> QED
    BY <1>11, <2>1, <2>2, <2>3, <2>4 DEF Measured, Has
<1>12. CASE TickLook \/ TickYaw \/ TickPublish \/ TickStore
  BY <1>11, <1>12 DEF TickLook, TickYaw, TickPublish, TickStore
<1>13. ASSUME NEW g \in Goals, NEW q \in DOMAIN Queues \cup {"unknown"}, SendGoal(g, q)
       PROVE  Measured'
  BY <1>11, <1>13 DEF SendGoal
<1>14. CASE Cancel \/ PollAgain \/ Drive \/ ArmArrives \/ ArmSwings \/ ArmStops
  BY <1>11, <1>14 DEF Cancel, PollAgain, Drive, ArmArrives, ArmSwings, ArmStops
<1>15. CASE PlaybackDone \/ DelayElapses \/ TimeoutPasses \/ UNCHANGED vars
  BY <1>11, <1>15 DEF PlaybackDone, DelayElapses, TimeoutPasses, vars
<1> QED
  BY <1>1, <1>2, <1>3, <1>4, <1>5, <1>6, <1>7, <1>8, <1>9, <1>10, <1>12, <1>13, <1>14, <1>15
  DEF Next, Execute, Loop

\* FinishIsRealApart: setGoal()'s reset of the errors does what it is for - a
\* chassis step is finished only on a measurement of its own goal, as long as no
\* tick of the main loop runs into setGoal() and none is half way through.
THEOREM ChassisStepIsMeasured == Safety => FinishIsRealApart
<1>1. Init => Typed /\ Measured
  <2>1. Init => Measured
    BY DEF Init, Measured
  <2> QED
    BY <2>1, InitWork, InitChassis DEF Typed
<1>2. Typed /\ Measured /\ [Next]_vars => (Typed /\ Measured)'
  BY NextTyped, NextMeasured
<1>3. Typed /\ Measured
        => [PollFinished /\ Has("chassis") /\ goal.frame = "map"
              /\ tick = "sleep" /\ "set" \notin overlap => here = aim]_vars
  <2> SUFFICES ASSUME Typed, Measured, PollFinished, Has("chassis"), goal.frame = "map",
                      tick = "sleep", "set" \notin overlap
               PROVE  here = aim
    OBVIOUS
  <2>1. ChassisInPlace /\ pc = "poll" /\ step > 0
    BY DEF PollFinished, IsFinish, Typed, Work
  <2> QED
    BY <2>1 DEF Measured
<1> QED
  BY <1>1, <1>2, <1>3, PTL DEF Safety, FinishIsRealApart

\* A chassis step that was stopped and has not met a tick since.
Stopped ==
    /\ control <=> pc \notin {"wait", "dead"}
    /\ /\ pc \in {"leave", "wait"} /\ step > 0
       /\ status[current] \in {"aborted", "preempted"} /\ success
       /\ Has("chassis")
       /\ "exit" \notin overlap
       => cmd = Zero /\ tick = "sleep"

\* A stop, and the end of executeCB() after it, leave no twist behind.
LEMMA NextStopped == Typed /\ Stopped /\ [Next]_vars => Stopped'
<1> SUFFICES ASSUME Typed, Stopped, [Next]_vars PROVE Stopped'
  OBVIOUS
<1> USE DEF loopVars, execVars, serverVars, Stopped
<1>1. CASE Accept
  BY <1>1 DEF Accept
<1>2. CASE Enter
  BY <1>2 DEF Enter, Typed, Work
<1>3. CASE Resolve \/ Far
  BY <1>3 DEF Resolve, Far
<1>4. CASE MoveArm \/ MoveThrows \/ MoveChassis
  BY <1>4 DEF MoveArm, MoveThrows, MoveChassis
<1>5. CASE MovePlayback \/ SendPlayback
  <2>1. control' = control /\ pc \in {"playback", "send"} /\ step > 0
    BY <1>5 DEF MovePlayback, SendPlayback, Typed, Work
  <2>2. pc' \in {"send", "poll", "leave"}
    BY <1>5 DEF MovePlayback, SendPlayback, Moved
  <2>3. pc' = "leave" => ~success'
    BY <1>5, Zenon DEF MovePlayback, SendPlayback, Moved
  <2> QED
    BY <2>1, <2>2, <2>3
<1>6. CASE PollFinished
  <2>1. current \in Goals
    BY <1>6 DEF PollFinished, Typed, Work, Places
  <2> QED
    BY <1>6, <2>1 DEF PollFinished, Typed, Places
<1>7. CASE PollTimeout \/ PollPreempted
  <2>1. TheStep' = TheStep
    BY <1>7, SameStep DEF PollTimeout, PollPreempted, Typed, Work
  <2>2. "exit" \notin overlap' => tick' = "sleep"
    BY <1>7 DEF PollTimeout, PollPreempted, Met
  <2>3. Has("chassis") => cmd' = Zero
    BY <1>7 DEF PollTimeout, PollPreempted, StopStep
  <2> QED
    BY <1>7, <2>1, <2>2, <2>3 DEF PollTimeout, PollPreempted, Has
<1>8. CASE Leave
  <2>1. step > 0 => TheStep' = TheStep
    BY <1>8, SameStep DEF Leave
  <2> QED
    BY <1>8, <2>1 DEF Leave, Has
<1>9. ASSUME UNCHANGED <<pc, current, step, success, control>>,
             step > 0 => status'[current] = status[current],
             overlap \subseteq overlap',
             TickLook \/ TickYaw \/ TickPublish \/ TickStore \/ UNCHANGED <<tick, cmd>>
      PROVE  Stopped'
  <2>1. step > 0 => TheStep' = TheStep
    BY <1>9, SameStep
  <2>2. CASE TickLook
    <3>1. pc \notin {"wait", "dead"}
      BY <2>2 DEF TickLook
    <3>2. pc = "leave" /\ step > 0 => "exit" \in overlap'
      BY <2>2 DEF TickLook, Window, Windows
    <3> QED
      BY <1>9, <3>1, <3>2
  <2>3. CASE ~TickLook
    BY <1>9, <2>1, <2>3 DEF TickYaw, TickPublish, TickStore, Has
  <2> QED
    BY <2>2, <2>3
<1>10. CASE TickLook \/ TickYaw \/ TickPublish \/ TickStore
  BY <1>9, <1>10 DEF TickLook, TickYaw, TickPublish, TickStore
<1>11. ASSUME NEW g \in Goals, NEW q \in DOMAIN Queues \cup {"unknown"}, SendGoal(g, q)
       PROVE  Stopped'
  <2>1. step > 0 => status'[current] = status[current]
    BY <1>11, SendGoalServer DEF Typed, Work, UnderWay
  <2> QED
    BY <1>9, <1>11, <2>1 DEF SendGoal
<1>12. CASE Cancel \/ PollAgain \/ Drive \/ ArmArrives \/ ArmSwings \/ ArmStops
  BY <1>9, <1>12 DEF Cancel, PollAgain, Drive, ArmArrives, ArmSwings, ArmStops
<1>13. CASE PlaybackDone \/ DelayElapses \/ TimeoutPasses \/ UNCHANGED vars
  BY <1>9, <1>13 DEF PlaybackDone, DelayElapses, TimeoutPasses, vars
<1> QED
  BY <1>1, <1>2, <1>3, <1>4, <1>5, <1>6, <1>7, <1>8, <1>10, <1>11, <1>12, <1>13
  DEF Next, Execute, Loop

\* StopIsLast: the zero twist of a chassis step that was preempted or timed out is
\* not overtaken by the main loop, unless a tick met the end of executeCB().
THEOREM ChassisStopIsLast == Safety => []StopIsLast
<1>1. Init => Typed /\ Stopped
  <2>1. Init => Stopped
    BY DEF Init, Stopped
  <2> QED
    BY <2>1, InitWork, InitChassis DEF Typed
<1>2. Typed /\ Stopped /\ [Next]_vars => (Typed /\ Stopped)'
  BY NextTyped, NextStopped
<1>3. Stopped => StopIsLast
  BY DEF Stopped, StopIsLast
<1> QED
  BY <1>1, <1>2, <1>3, PTL DEF Safety

-----------------------------------------------------------------------------
(* The arm and the playback. *)

\* An arm that moves and a playback belong to the step at work, which is not
\* finished before they are - unless they are adrift.
AtWork ==
    /\ arm = "moving" /\ "arm" \notin adrift =>
        /\ step > 0 /\ Has("arm")
        /\ pc \in {"chassis", "resolve", "far", "playback", "send", "poll", "dead"}
    /\ pc = "send" => Has("playback")
    /\ playing = "yes" /\ "playback" \notin adrift =>
        ~played /\ pc = "poll" /\ Has("playback")

\* Every step keeps that.
LEMMA NextAtWork == Typed /\ AtWork /\ [Next]_vars => AtWork'
<1> SUFFICES ASSUME Typed, AtWork, [Next]_vars PROVE AtWork'
  OBVIOUS
<1> USE DEF execVars, motionVars, AtWork
<1>1. CASE Accept \/ Enter
  BY <1>1 DEF Accept, Enter, Typed, Work
<1>2. CASE Resolve
  <2>1. step > 0 => TheStep' = TheStep
    BY <1>2, SameStep DEF Resolve
  <2> QED
    BY <1>2, <2>1 DEF Resolve, Has
<1>3. CASE Far
  <2>1. step > 0 => UNCHANGED step /\ TheStep' = TheStep
    BY <1>3, SameStep DEF Far
  <2>2. step = 0 => (arm = "moving" => "arm" \in adrift) /\ pc' = "arm"
    BY <1>3 DEF Far
  <2>3. step = 0 \/ step > 0
    BY DEF Typed, Places
  <2> QED
    BY <1>3, <2>1, <2>2, <2>3 DEF Far, Has
<1>4. CASE MoveArm \/ MoveThrows
  <2>1. TheStep' = TheStep /\ step' > 0
    BY <1>4, SameStep DEF MoveArm, MoveThrows, Typed, Work
  <2>2. /\ pc = "arm" /\ pc' \in {"chassis", "dead"} /\ UNCHANGED <<playing, played>>
        /\ adrift \ {"arm"} \subseteq adrift' /\ adrift' \subseteq adrift
    BY <1>4 DEF MoveArm, MoveThrows, ArmFirst, ArmMove
  <2>3. Has("arm") \/ UNCHANGED <<arm, adrift>>
    BY <1>4 DEF MoveArm, MoveThrows, ArmFirst
  <2> QED
    BY <2>1, <2>2, <2>3 DEF Has
<1>5. CASE MoveChassis
  <2>1. TheStep' = TheStep
    BY <1>5, SameStep DEF MoveChassis, Typed, Work
  <2> QED
    BY <1>5, <2>1 DEF MoveChassis, Has
<1>6. CASE MovePlayback
  <2>1. TheStep' = TheStep /\ step' = step /\ step > 0 /\ pc = "playback"
    BY <1>6, SameStep DEF MovePlayback, Typed, Work
  <2>2. CASE pc' = "leave"
    <3>1. adrift' = adrift \cup ({"arm", "playback"} \cap TheStep.kinds)
      BY <1>6, <2>2 DEF MovePlayback, Moved
    <3> QED
      BY <1>6, <2>1, <2>2, <3>1 DEF MovePlayback, Has
  <2>3. CASE pc' # "leave"
    <3>1. adrift' = adrift /\ (pc' = "poll" \/ (pc' = "send" /\ Has("playback")))
      BY <1>6, <2>3 DEF MovePlayback, Moved
    <3> QED
      BY <1>6, <2>1, <3>1 DEF MovePlayback, Has
  <2> QED
    BY <2>2, <2>3
<1>7. CASE SendPlayback
  <2>1. TheStep' = TheStep /\ step' = step /\ step > 0 /\ Has("playback")
    BY <1>7, SameStep DEF SendPlayback, Typed, Work
  <2> DEFINE going == IF played THEN adrift \cup {"playback"} ELSE adrift \ {"playback"}
  <2>2. CASE pc' = "leave"
    <3>1. adrift' = going \cup ({"arm", "playback"} \cap TheStep.kinds)
      BY <1>7, <2>2 DEF SendPlayback, Moved
    <3> QED
      BY <1>7, <2>1, <2>2, <3>1 DEF SendPlayback, Has
  <2>3. CASE pc' # "leave"
    <3>1. adrift' = going /\ pc' = "poll"
      BY <1>7, <2>3 DEF SendPlayback, Moved
    <3> QED
      BY <1>7, <2>1, <3>1 DEF SendPlayback, Has
  <2> QED
    BY <2>2, <2>3
<1>8. CASE PollFinished
  <2>1. arm = "moving" => "arm" \in adrift
    BY <1>8, CountdownAssumption DEF PollFinished, IsFinish, CountdownNext
  <2>2. playing = "yes" => "playback" \in adrift
    BY <1>8 DEF PollFinished, IsFinish
  <2> QED
    BY <1>8, <2>1, <2>2 DEF PollFinished
<1>9. CASE PollTimeout \/ PollPreempted
  <2>1. /\ arm' = "moving" => "arm" \in adrift
        /\ playing' = "yes" => "playback" \in adrift
    BY <1>9 DEF PollTimeout, PollPreempted, StopStep
  <2> QED
    BY <1>9, <2>1 DEF PollTimeout, PollPreempted
<1>10. CASE Leave
  BY <1>10 DEF Leave
<1>11. ASSUME UNCHANGED <<pc, current, step, adrift>>,
              \/ UNCHANGED <<arm, playing, played>>
              \/ ArmArrives \/ ArmSwings \/ ArmStops \/ PlaybackDone
       PROVE  AtWork'
  <2>1. step > 0 => TheStep' = TheStep
    BY <1>11, SameStep
  <2>2. pc \in {"send", "poll"} => step > 0
    BY DEF Typed, Work
  <2>3. CASE UNCHANGED <<arm, playing, played>>
    BY <1>11, <2>1, <2>2, <2>3 DEF Has
  <2>4. CASE ArmArrives
    BY <1>11, <2>1, <2>2, <2>4 DEF ArmArrives, Has
  <2>5. CASE ArmSwings
    BY <1>11, <2>1, <2>2, <2>5 DEF ArmSwings, Has
  <2>6. CASE PlaybackDone \/ ArmStops
    BY <1>11, <2>1, <2>2, <2>6 DEF PlaybackDone, ArmStops, Has
  <2> QED
    BY <1>11, <2>3, <2>4, <2>5, <2>6
<1>12. ASSUME NEW g \in Goals, NEW q \in DOMAIN Queues \cup {"unknown"}, SendGoal(g, q)
       PROVE  AtWork'
  BY <1>11, <1>12 DEF SendGoal
<1>13. CASE Cancel \/ PollAgain \/ Loop \/ Drive
  BY <1>11, <1>13 DEF Cancel, PollAgain, Loop, TickLook, TickYaw, TickPublish, TickStore, Drive
<1>14. CASE ArmArrives \/ ArmSwings \/ ArmStops \/ PlaybackDone
  BY <1>11, <1>14 DEF ArmArrives, ArmSwings, ArmStops, PlaybackDone
<1>15. CASE DelayElapses \/ TimeoutPasses \/ UNCHANGED vars
  BY <1>11, <1>15 DEF DelayElapses, TimeoutPasses, vars
<1> QED
  BY <1>1, <1>2, <1>3, <1>4, <1>5, <1>6, <1>7, <1>8, <1>9, <1>10, <1>12, <1>13, <1>14, <1>15
  DEF Next, Execute

\* EndsAtRest: however executeCB() leaves its loop - finished, preempted or timed
\* out, after whatever steps were refused before - the arm motions and playbacks
\* that were set going have ended or have been told to stop, but for those of a
\* refused step and for a playback overtaken by the doneCb() of an earlier one.
THEOREM MiddlewareEndsAtRest == Safety => []EndsAtRest
<1>1. Init => Typed /\ AtWork
  <2>1. Init => AtWork
    BY DEF Init, AtWork
  <2> QED
    BY <2>1, InitWork, InitChassis DEF Typed
<1>2. Typed /\ AtWork /\ [Next]_vars => (Typed /\ AtWork)'
  BY NextTyped, NextAtWork
<1>3. AtWork => EndsAtRest
  BY DEF AtWork, EndsAtRest
<1> QED
  BY <1>1, <1>2, <1>3, PTL DEF Safety
==============================================================================
