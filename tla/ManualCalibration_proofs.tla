----------------------- MODULE ManualCalibration_proofs -----------------------
(***************************************************************************)
(* Proofs about ManualCalibration, for every configuration that the        *)
(* assumptions of ManualCalibration admit: any controllers, any entries of *)
(* calibration_gather, any joints.                                         *)
(***************************************************************************)
EXTENDS ManualCalibration, SequenceTheorems, TLAPS

\* The controllers of the operator, and those that run while entry i calibrates.
Normal == StateControllers \cup MainControllers
Mode(i) == (Normal \ Gather[i].stop) \cup Gather[i].start

\* The controllers that will run once the commands under way are carried out.
Coming == Switched(Switched(running, call), buffer)

-----------------------------------------------------------------------------
(* The entries and the switching of controllers. *)

\* The entries are numbered from 1, and each flips controllers of the operator for
\* calibration controllers.
LEMMA EntryType ==
    /\ Len(Gather) \in Nat /\ DOMAIN Gather = 1 .. Len(Gather)
    /\ \A i \in DOMAIN Gather : /\ Gather[i].start \subseteq CalibrationControllers
                                /\ Gather[i].stop \subseteq Normal
<1> DEFINE Entry == [start : SUBSET CalibrationControllers,
                     stop : SUBSET (StateControllers \cup MainControllers)]
<1>1. Gather \in Seq(Entry)
  BY GatherAssumption
<1>2. Len(Gather) \in Nat /\ DOMAIN Gather = 1 .. Len(Gather)
  BY <1>1, LenProperties
<1>3. \A i \in 1 .. Len(Gather) : Gather[i] \in Entry
  BY <1>1, ElementOfSeq
<1> QED
  BY <1>2, <1>3 DEF Normal

\* What startController() and stopController() do to what a batch leads to.
LEMMA SwitchedBatch ==
    ASSUME NEW X, NEW b, NEW S
    PROVE  /\ Switched(X, WithStart(b, S)) = Switched(X, b) \cup S
           /\ Switched(X, WithStop(b, S)) = Switched(X, b) \ S
           /\ Switched(X, Nothing) = X
  BY DEF Switched, WithStart, WithStop, Nothing

\* Fewer controllers are compatible if more are.
LEMMA CompatibleSubset ==
    ASSUME NEW X, NEW Y, X \subseteq Y, Compatible(Y)
    PROVE  Compatible(X)
  BY DEF Compatible

\* Controllers of the operator, or of a single entry beside those that it leaves.
InMode(cs) == cs \subseteq Normal \/ \E i \in DOMAIN Gather : cs \subseteq Mode(i)

\* Such controllers never share a joint.
LEMMA ModesAreCompatible ==
    ASSUME NEW cs, InMode(cs)
    PROVE  Compatible(cs)
<1>1. CASE cs \subseteq Normal
  BY <1>1, ConfigurationAssumption, CompatibleSubset DEF Normal
<1>2. ASSUME NEW i \in DOMAIN Gather, cs \subseteq Mode(i) PROVE Compatible(cs)
  <2>1. Compatible(Mode(i))
    BY ConfigurationAssumption DEF Normal, Mode
  <2> QED
    BY <1>2, <2>1, CompatibleSubset
<1> QED
  BY <1>1, <1>2 DEF InMode

\* Calibration controllers are none of the operator's.
LEMMA CalibrationIsApart == CalibrationControllers \cap Normal = {}
  BY ListsAssumption DEF Normal

-----------------------------------------------------------------------------
(* Types. *)

Places ==
    /\ PortTypeOK
    /\ turn \in {"spin", "calibrate"}
    /\ itr \in 1 .. End
    /\ asking \in [CalibrationControllers -> Threads]
    /\ success \subseteq CalibrationControllers
    /\ calibrated \subseteq CalibrationControllers
    /\ lost \subseteq Controllers
    /\ refused \subseteq Controllers

Flags ==
    /\ remote \in BOOLEAN
    /\ alive \in BOOLEAN
    /\ switched \in BOOLEAN
    /\ answer \in [CalibrationControllers -> BOOLEAN]
    /\ disturbed \in BOOLEAN
    /\ midway \in BOOLEAN

\* Commands of loaded controllers keep a batch one.
LEMMA BatchType ==
    ASSUME NEW b \in Batch, NEW S \in SUBSET Controllers
    PROVE  WithStart(b, S) \in Batch /\ WithStop(b, S) \in Batch
  BY DEF Batch, WithStart, WithStop

\* The steps that command controllers, switch them, or move the queue.
LEMMA StepKinds ==
    ASSUME [Next]_vars
    PROVE  \/ \E calibrate \in BOOLEAN : DbusFresh(calibrate)
           \/ DbusStale
           \/ GameRobotStatus
           \/ ManagerUpdate /\ Flush
           \/ CalibrationUpdate /\ (QueueSwitch \/ QueueAdvance)
           \/ Switch
           \/ Refuse
           \/ Fail
           \/ UNCHANGED <<portVars, remote, alive, queueVars, history>>
<1> USE DEF portVars, manualVars, queueVars, history, operatorHistory, requestHistory
<1>1. CASE ManagerUpdate /\ ~Flush
  BY <1>1 DEF ManagerUpdate
<1>2. CASE CalibrationUpdate /\ ~(QueueSwitch \/ QueueAdvance)
  BY <1>2 DEF CalibrationUpdate, QueueIdle, QueueQuery, QueueWait
<1>3. ASSUME NEW s \in CalibrationControllers, Query(s) \/ Home(s)
      PROVE  UNCHANGED <<portVars, remote, alive, queueVars, history>>
  BY <1>3 DEF Query, QueryLock, QueryServe, QueryReturn, QueryFail, Home
<1>4. CASE UNCHANGED vars
  BY <1>4 DEF vars
<1> QED
  BY <1>1, <1>2, <1>3, <1>4 DEF Next

\* The constructors leave the places typed ...
LEMMA InitPlaces == Init => Places
<1> SUFFICES ASSUME Init PROVE Places
  OBVIOUS
<1>1. Nothing \in Batch
  BY DEF Nothing, Batch
<1>2. PortTypeOK
  BY <1>1, BatchType, ListsAssumption DEF Init, PortTypeOK
<1>3. itr \in 1 .. End
  BY EntryType DEF Init, End
<1> QED
  BY <1>2, <1>3 DEF Init, Places, Threads

\* ... and so does every step.
LEMMA NextPlaces == Places /\ [Next]_vars => Places'
<1> SUFFICES ASSUME Places, [Next]_vars PROVE Places'
  OBVIOUS
<1> USE DEF portVars, manualVars, queueVars, queryVars, history, requestHistory
<1>0. /\ StateControllers \in SUBSET Controllers /\ MainControllers \in SUBSET Controllers
      /\ MainControllers \cup CalibrationControllers \in SUBSET Controllers
      /\ StateControllers \cup MainControllers \in SUBSET Controllers
      /\ 1 \in 1 .. End
  BY ListsAssumption, EntryType DEF End
<1>1. ASSUME NEW calibrate \in BOOLEAN, DbusFresh(calibrate) PROVE Places'
  <2>1. PortTypeOK'
    BY <1>0, <1>1, BatchType DEF DbusFresh, RemoteControlTurnOn, Places, PortTypeOK
  <2>2. itr' \in 1 .. End
    BY <1>0, <1>1 DEF DbusFresh, Reset, Places
  <2> QED
    BY <1>1, <2>1, <2>2 DEF DbusFresh, Places, End
<1>2. CASE DbusStale
  <2>1. PortTypeOK'
    BY <1>0, <1>2, BatchType DEF DbusStale, RemoteControlTurnOff, Places, PortTypeOK
  <2> QED
    BY <1>2, <2>1 DEF DbusStale, Places, End
<1>3. CASE GameRobotStatus
  <2>1. PortTypeOK'
    BY <1>0, <1>3, BatchType
    DEF GameRobotStatus, RobotRevive, RobotDie, Places, PortTypeOK
  <2> QED
    BY <1>3, <2>1 DEF GameRobotStatus, Places, End
<1>4. CASE ManagerUpdate
  <2>1. PortTypeOK'
    BY <1>4 DEF ManagerUpdate, Flush, Places, PortTypeOK, Nothing, Batch
  <2> QED
    BY <1>4, <2>1 DEF ManagerUpdate, Places, End
<1>5. CASE CalibrationUpdate
  <2>1. ~IsCalibrated => /\ itr \in DOMAIN Gather /\ itr + 1 \in 1 .. End
                         /\ Gather[itr].start \in SUBSET Controllers
                         /\ Gather[itr].stop \in SUBSET Controllers
    BY EntryType, ListsAssumption DEF Places, IsCalibrated, End, Normal
  <2>2. buffer' \in Batch
    BY <1>5, <2>1, BatchType
    DEF CalibrationUpdate, QueueIdle, QueueSwitch, QueueAdvance, QueueQuery, QueueWait,
        Places, PortTypeOK
  <2>3. itr' \in 1 .. End
    BY <1>5, <2>1
    DEF CalibrationUpdate, QueueIdle, QueueSwitch, QueueAdvance, QueueQuery, QueueWait,
        Places
  <2>4. asking' \in [CalibrationControllers -> Threads]
    BY <1>5
    DEF CalibrationUpdate, QueueIdle, QueueSwitch, QueueAdvance, QueueQuery, QueueWait,
        Places, Threads
  <2> QED
    BY <1>5, <2>2, <2>3, <2>4 DEF CalibrationUpdate, Places, PortTypeOK, End
<1>6. ASSUME NEW s \in CalibrationControllers, Query(s) PROVE Places'
  <2>1. asking' \in [CalibrationControllers -> Threads]
    BY <1>6 DEF Query, QueryLock, QueryServe, QueryReturn, QueryFail, Places, Threads
  <2> QED
    BY <1>6, <2>1
    DEF Query, QueryLock, QueryServe, QueryReturn, QueryFail, Places, PortTypeOK, End
<1>7. ASSUME NEW s \in CalibrationControllers, Home(s) PROVE Places'
  BY <1>7 DEF Home, Places, PortTypeOK, End
<1>8. CASE Switch
  <2>1. PortTypeOK'
    BY <1>8 DEF Switch, Apply, Switched, Nothing, Places, PortTypeOK, Batch
  <2>2. lost' \subseteq Controllers /\ refused' \subseteq Controllers
    BY <1>8 DEF Switch, Places
  <2> QED
    BY <1>8, <2>1, <2>2 DEF Switch, Places, End
<1>9. CASE Refuse \/ Fail
  <2>1. PortTypeOK'
    BY <1>9 DEF Refuse, Fail, Lose, Nothing, Places, PortTypeOK, Batch
  <2>2. Named(call) \subseteq Controllers
    BY DEF Named, Places, PortTypeOK, Batch
  <2> QED
    BY <1>9, <2>1, <2>2 DEF Refuse, Fail, Places, End
<1>10. CASE UNCHANGED vars
  BY <1>10 DEF vars, Places, PortTypeOK, End
<1> QED
  BY <1>1, <1>2, <1>3, <1>4, <1>5, <1>6, <1>7, <1>8, <1>9, <1>10 DEF Next

\* The truth values stay truth values.
LEMMA NextFlags == Flags /\ [Next]_vars => Flags'
<1> SUFFICES ASSUME Flags, [Next]_vars PROVE Flags'
  OBVIOUS
<1> USE DEF Flags, manualVars, queueVars, queryVars, history, operatorHistory
<1>1. ASSUME NEW calibrate \in BOOLEAN, DbusFresh(calibrate) PROVE Flags'
  <2>1. disturbed' \in BOOLEAN
    BY <1>1, Zenon DEF DbusFresh
  <2>2. switched' \in BOOLEAN /\ answer' \in [CalibrationControllers -> BOOLEAN]
    BY <1>1 DEF DbusFresh, Reset
  <2> QED
    BY <1>1, <2>1, <2>2, Zenon DEF DbusFresh
<1>2. CASE DbusStale
  <2>1. disturbed' \in BOOLEAN /\ midway' \in BOOLEAN
    BY <1>2, Zenon DEF DbusStale
  <2> QED
    BY <1>2, <2>1, Zenon DEF DbusStale
<1>3. CASE GameRobotStatus
  <2>1. disturbed' \in BOOLEAN /\ alive' \in BOOLEAN
    BY <1>3, Zenon DEF GameRobotStatus
  <2> QED
    BY <1>3, <2>1, Zenon DEF GameRobotStatus
<1>4. CASE ManagerUpdate
  BY <1>4, Zenon DEF ManagerUpdate
<1>5. CASE CalibrationUpdate
  <2>1. switched' \in BOOLEAN
    BY <1>5, Zenon
    DEF CalibrationUpdate, QueueIdle, QueueSwitch, QueueAdvance, QueueQuery, QueueWait
  <2> QED
    BY <1>5, <2>1, Zenon DEF CalibrationUpdate
<1>6. ASSUME NEW s \in CalibrationControllers, Query(s) PROVE Flags'
  <2>1. CASE QueryReturn(s)
    <3>1. (asking[s] = "yes") \in BOOLEAN
      BY Zenon
    <3>2. answer' \in [CalibrationControllers -> BOOLEAN]
      BY <2>1, <3>1, Zenon DEF QueryReturn
    <3> QED
      BY <2>1, <3>2, Zenon DEF QueryReturn
  <2>2. CASE QueryLock(s) \/ QueryServe(s) \/ QueryFail(s)
    BY <2>2, Zenon DEF QueryLock, QueryServe, QueryFail
  <2> QED
    BY <1>6, <2>1, <2>2 DEF Query
<1>7. ASSUME NEW s \in CalibrationControllers, Home(s) PROVE Flags'
  BY <1>7, Zenon DEF Home
<1>8. CASE Switch \/ Refuse \/ Fail
  BY <1>8, Zenon DEF Switch, Refuse, Fail
<1>9. CASE UNCHANGED vars
  BY <1>9, Zenon DEF vars
<1> QED
  BY <1>1, <1>2, <1>3, <1>4, <1>5, <1>6, <1>7, <1>8, <1>9 DEF Next

\* Type correctness: the queue stays within its entries, whatever the operator, the
\* referee and the query threads do, and only loaded controllers are commanded.
THEOREM TypeCorrect == Safety => []TypeOK
<1>1. Init => Places /\ Flags
  <2>1. Init => Flags
    BY DEF Init, Flags
  <2> QED
    BY <2>1, InitPlaces
<1>2. Places /\ Flags /\ [Next]_vars => (Places /\ Flags)'
  BY NextPlaces, NextFlags
<1>3. Places /\ Flags => TypeOK
  BY Zenon DEF Places, Flags, TypeOK
<1> QED
  BY <1>1, <1>2, <1>3, PTL DEF Safety

-----------------------------------------------------------------------------
(* What will run. *)

\* The controllers that the operator's remote and the robot's life control.
Controlled == MainControllers \cup CalibrationControllers

\* The controllers of which nobody knows whether they run, since their last request
\* failed or was refused: now, after the request under way, and after the buffer.
Doubtful == lost \cup refused
DoubtfulNext == Doubtful \ Named(call)
DoubtfulLast == DoubtfulNext \ Named(buffer)

\* The controllers that run now, after the request under way and after the buffer,
\* without the doubtful ones; and those that will run if the doubtful ones do.
SureNow == running \ Doubtful
SureNext == Switched(running, call) \ DoubtfulNext
SureLast == Coming \ DoubtfulLast
Possible == Coming \cup DoubtfulLast

\* A command takes its controllers out of doubt.
LEMMA CommandSteps ==
    ASSUME NEW S, UNCHANGED <<call, running, lost, refused>>
    PROVE  /\ SureNow' = SureNow /\ SureNext' = SureNext
           /\ buffer' = buffer => SureLast' = SureLast /\ Possible' = Possible
           /\ buffer' = WithStart(buffer, S) =>
                SureLast' = SureLast \cup S /\ Possible' = Possible \cup S
           /\ buffer' = WithStop(buffer, S) =>
                SureLast' = SureLast \ S /\ Possible' = Possible \ S
<1> USE DEF Doubtful, DoubtfulNext, DoubtfulLast, SureLast, Possible, Coming, Switched,
            Named
<1>1. SureNow' = SureNow /\ SureNext' = SureNext
  BY DEF SureNow, SureNext
<1>2. buffer' = buffer => SureLast' = SureLast /\ Possible' = Possible
  OBVIOUS
<1>3. ASSUME buffer' = WithStart(buffer, S)
      PROVE  SureLast' = SureLast \cup S /\ Possible' = Possible \cup S
  <2>1. buffer'.start = buffer.start \cup S /\ buffer'.stop = buffer.stop \ S
    BY <1>3 DEF WithStart
  <2> QED
    BY <2>1
<1>4. ASSUME buffer' = WithStop(buffer, S)
      PROVE  SureLast' = SureLast \ S /\ Possible' = Possible \ S
  <2>1. buffer'.start = buffer.start \ S /\ buffer'.stop = buffer.stop \cup S
    BY <1>4 DEF WithStop
  <2> QED
    BY <2>1
<1> QED
  BY <1>1, <1>2, <1>3, <1>4

\* Handing the commands over and carrying them out changes nothing of what will run.
LEMMA RequestSteps ==
    /\ ManagerUpdate /\ Flush =>
        SureNow' = SureNow /\ SureNext' = SureLast /\ SureLast' = SureLast
        /\ Possible' = Possible
    /\ Switch =>
        SureNow' = SureNext /\ SureNext' = SureNext /\ SureLast' = SureLast
        /\ Possible' = Possible
<1> USE DEF Doubtful, DoubtfulNext, DoubtfulLast, SureNow, SureNext, SureLast, Possible,
            Coming, Switched, Named
<1>1. ASSUME ManagerUpdate, Flush
      PROVE  /\ SureNow' = SureNow /\ SureNext' = SureLast /\ SureLast' = SureLast
             /\ Possible' = Possible
  <2>1. /\ call.start = {} /\ call.stop = {} /\ buffer'.start = {} /\ buffer'.stop = {}
        /\ call' = buffer /\ UNCHANGED <<running, lost, refused>>
    BY <1>1 DEF ManagerUpdate, Flush, Nothing, history, requestHistory
  <2> QED
    BY <2>1
<1>2. ASSUME Switch
      PROVE  /\ SureNow' = SureNext /\ SureNext' = SureNext /\ SureLast' = SureLast
             /\ Possible' = Possible
  <2>1. /\ call'.start = {} /\ call'.stop = {} /\ buffer' = buffer
        /\ running' = (running \ call.stop) \cup call.start
        /\ lost' = lost \ (call.start \cup call.stop)
        /\ refused' = refused \ (call.start \cup call.stop)
    BY <1>2 DEF Switch, Apply, Nothing
  <2> QED
    BY <2>1
<1> QED
  BY <1>1, <1>2

\* A request that is refused or fails leaves its controllers in doubt, and nothing
\* runs for sure that did not before.
LEMMA LostSteps ==
    ASSUME Refuse \/ Fail
    PROVE  /\ SureNow' \subseteq SureNow /\ SureNext' \subseteq SureNow
           /\ SureLast' \subseteq SureLast /\ Possible \subseteq Possible'
<1> USE DEF Doubtful, DoubtfulNext, DoubtfulLast, SureNow, SureNext, SureLast, Possible,
            Coming, Switched, Named
<1>1. /\ call'.start = {} /\ call'.stop = {} /\ UNCHANGED <<buffer, running>>
      /\ lost' \cup refused' = lost \cup refused \cup call.start \cup call.stop
  BY DEF Refuse, Fail, Lose, Nothing
<1> QED
  BY <1>1

\* What each step does to the controllers that will run.
LEMMA SureSteps ==
    /\ \A calibrate \in BOOLEAN :
        DbusFresh(calibrate) =>
            /\ SureNow' = SureNow /\ SureNext' = SureNext
            /\ remote => SureLast' = SureLast /\ Possible' = Possible
            /\ ~remote => SureLast' = SureLast \cup Normal /\ Possible' = Possible \cup Normal
    /\ DbusStale =>
        /\ SureNow' = SureNow /\ SureNext' = SureNext
        /\ SureLast' = SureLast \ Controlled /\ Possible' = Possible \ Controlled
    /\ GameRobotStatus =>
        /\ SureNow' = SureNow /\ SureNext' = SureNext
        /\ ~remote => SureLast' = SureLast /\ Possible' = Possible
        /\ remote /\ alive' => /\ SureLast' = SureLast \cup MainControllers
                               /\ Possible' = Possible \cup MainControllers
        /\ remote /\ ~alive' => /\ SureLast' = SureLast \ Controlled
                                /\ Possible' = Possible \ Controlled
    /\ CalibrationUpdate /\ QueueSwitch =>
        /\ SureNow' = SureNow /\ SureNext' = SureNext
        /\ SureLast' = (SureLast \cup Gather[itr].start) \ Gather[itr].stop
        /\ Possible' = (Possible \cup Gather[itr].start) \ Gather[itr].stop
    /\ CalibrationUpdate /\ QueueAdvance =>
        /\ SureNow' = SureNow /\ SureNext' = SureNext
        /\ SureLast' = (SureLast \cup Gather[itr].stop) \ Gather[itr].start
        /\ Possible' = (Possible \cup Gather[itr].stop) \ Gather[itr].start
<1> USE DEF history, requestHistory
<1>1. ASSUME NEW calibrate \in BOOLEAN, DbusFresh(calibrate)
      PROVE  /\ SureNow' = SureNow /\ SureNext' = SureNext
             /\ remote => SureLast' = SureLast /\ Possible' = Possible
             /\ ~remote => SureLast' = SureLast \cup Normal /\ Possible' = Possible \cup Normal
  <2>1. /\ UNCHANGED <<call, running, lost, refused>>
        /\ remote => buffer' = buffer
        /\ ~remote => buffer' = WithStart(buffer, Normal)
    BY <1>1 DEF DbusFresh, RemoteControlTurnOn, Normal
  <2> QED
    BY <2>1, CommandSteps
<1>2. ASSUME DbusStale
      PROVE  /\ SureNow' = SureNow /\ SureNext' = SureNext
             /\ SureLast' = SureLast \ Controlled /\ Possible' = Possible \ Controlled
  <2>1. UNCHANGED <<call, running, lost, refused>> /\ buffer' = WithStop(buffer, Controlled)
    BY <1>2 DEF DbusStale, RemoteControlTurnOff, Controlled
  <2> QED
    BY <2>1, CommandSteps
<1>3. ASSUME GameRobotStatus
      PROVE  /\ SureNow' = SureNow /\ SureNext' = SureNext
             /\ ~remote => SureLast' = SureLast /\ Possible' = Possible
             /\ remote /\ alive' => /\ SureLast' = SureLast \cup MainControllers
                                    /\ Possible' = Possible \cup MainControllers
             /\ remote /\ ~alive' => /\ SureLast' = SureLast \ Controlled
                                     /\ Possible' = Possible \ Controlled
  <2>1. /\ UNCHANGED <<call, running, lost, refused>>
        /\ buffer' = IF ~remote THEN buffer
                     ELSE IF alive' THEN WithStart(buffer, MainControllers)
                     ELSE WithStop(buffer, Controlled)
    BY <1>3, Zenon DEF GameRobotStatus, RobotRevive, RobotDie, Controlled
  <2> QED
    BY <2>1, CommandSteps
<1>4. ASSUME CalibrationUpdate, QueueSwitch
      PROVE  /\ SureNow' = SureNow /\ SureNext' = SureNext
             /\ SureLast' = (SureLast \cup Gather[itr].start) \ Gather[itr].stop
             /\ Possible' = (Possible \cup Gather[itr].start) \ Gather[itr].stop
  <2> DEFINE S == Gather[itr].start
             T == Gather[itr].stop
  <2>1. /\ UNCHANGED <<call, running, lost, refused>>
        /\ buffer'.start = (buffer.start \cup S) \ T
        /\ buffer'.stop = (buffer.stop \ S) \cup T
    BY <1>4 DEF CalibrationUpdate, QueueSwitch, WithStart, WithStop
  <2> QED
    BY <2>1
    DEF Doubtful, DoubtfulNext, DoubtfulLast, SureNow, SureNext, SureLast, Possible,
        Coming, Switched, Named
<1>5. ASSUME CalibrationUpdate, QueueAdvance
      PROVE  /\ SureNow' = SureNow /\ SureNext' = SureNext
             /\ SureLast' = (SureLast \cup Gather[itr].stop) \ Gather[itr].start
             /\ Possible' = (Possible \cup Gather[itr].stop) \ Gather[itr].start
  <2> DEFINE S == Gather[itr].start
             T == Gather[itr].stop
  <2>1. /\ UNCHANGED <<call, running, lost, refused>>
        /\ buffer'.start = (buffer.start \cup T) \ S
        /\ buffer'.stop = (buffer.stop \ T) \cup S
    BY <1>5 DEF CalibrationUpdate, QueueAdvance, WithStart, WithStop
  <2> QED
    BY <2>1
    DEF Doubtful, DoubtfulNext, DoubtfulLast, SureNow, SureNext, SureLast, Possible,
        Coming, Switched, Named
<1> QED
  BY <1>1, <1>2, <1>3, <1>4, <1>5

\* The one entry of a queue with one entry is next or under way.
Single == Len(Gather) = 1 /\ itr = 1

\* As long as nothing disturbs a calibration, what runs, what the request under way
\* leads to and what will run are, the doubtful left aside, of one mode: that of the
\* entry under way, or the operator's.
Modes ==
    ~disturbed =>
        /\ switched => ~IsCalibrated /\ SureLast \subseteq Mode(itr)
        /\ ~switched => SureLast \subseteq Normal \/ (Single /\ SureLast \subseteq Mode(itr))
        /\ InMode(SureNow) /\ InMode(SureNext)

\* What will run is of one mode, too.
LEMMA ComingInMode ==
    ASSUME Places, Modes, ~disturbed
    PROVE  /\ InMode(SureLast)
           /\ IsCalibrated => ~switched /\ SureLast \subseteq Normal
<1>1. Single => itr \in DOMAIN Gather /\ ~IsCalibrated
  BY EntryType DEF Single, IsCalibrated, End
<1>2. ~IsCalibrated => itr \in DOMAIN Gather
  BY EntryType DEF Places, IsCalibrated, End
<1> QED
  BY <1>1, <1>2 DEF Modes, InMode

\* A step that is not to disturb leaves no disturbance behind.
LEMMA Undisturbed ==
    ASSUME [Next]_vars, ~disturbed'
    PROVE  /\ ~disturbed
           /\ \A calibrate \in BOOLEAN : DbusFresh(calibrate) => remote \/ IsCalibrated
           /\ DbusStale \/ GameRobotStatus => IsCalibrated
<1> USE DEF portVars, manualVars, queueVars, history, operatorHistory
<1>1. \A calibrate \in BOOLEAN :
        DbusFresh(calibrate) => ~disturbed /\ (remote \/ IsCalibrated)
  BY Zenon DEF DbusFresh
<1>2. DbusStale => ~disturbed /\ IsCalibrated
  BY Zenon DEF DbusStale
<1>3. GameRobotStatus => ~disturbed /\ IsCalibrated
  BY Zenon DEF GameRobotStatus
<1>4. ManagerUpdate \/ CalibrationUpdate \/ Switch \/ Refuse \/ Fail => ~disturbed
  BY DEF ManagerUpdate, CalibrationUpdate, Switch, Refuse, Fail
<1> QED
  BY <1>1, <1>2, <1>3, <1>4, StepKinds

\* Every step keeps the modes, as long as a queue of several entries is not reset
\* during a calibration.
LEMMA NextModes ==
    ASSUME Len(Gather) <= 1 \/ "reset" \notin Disturb
    PROVE  Places /\ Modes /\ [Next]_vars => Modes'
<1> SUFFICES ASSUME Places, Modes, [Next]_vars, ~disturbed' PROVE Modes'
  BY DEF Modes
<1> USE DEF portVars, queueVars
<1>1. ~disturbed /\ InMode(SureLast) /\ InMode(SureNow) /\ InMode(SureNext)
  BY Undisturbed, ComingInMode DEF Modes
<1>2. ASSUME NEW calibrate \in BOOLEAN, DbusFresh(calibrate) PROVE Modes'
  <2>1. InMode(SureNow') /\ InMode(SureNext')
    BY <1>1, <1>2, SureSteps
  <2>2. CASE IsCalibrated
    <3>1. SureLast' \subseteq Normal /\ ~switched
      BY <1>1, <1>2, <2>2, SureSteps, ComingInMode
    <3>2. ~switched'
      BY <1>2, <3>1 DEF DbusFresh, Reset
    <3> QED
      BY <2>1, <3>1, <3>2 DEF Modes, InMode, Mode
  <2>3. CASE ~IsCalibrated
    <3>1. SureLast' = SureLast
      BY <1>2, <2>3, Undisturbed, SureSteps
    <3>2. CASE ~calibrate
      <4>1. UNCHANGED <<itr, switched>>
        BY <1>2, <3>2 DEF DbusFresh
      <4> QED
        BY <1>1, <2>1, <3>1, <4>1 DEF Modes, IsCalibrated, Single, End, InMode, Mode
    <3>3. CASE calibrate
      <4>1. Len(Gather) <= 1 /\ ~switched' /\ itr' = 1
        BY <1>2, <2>3, <3>3 DEF DbusFresh, Reset, Quiet
      <4>2. CASE SureLast \subseteq Normal
        BY <2>1, <3>1, <4>1, <4>2 DEF Modes, InMode, Mode
      <4>3. CASE ~(SureLast \subseteq Normal)
        <5>1. ~IsCalibrated /\ SureLast \subseteq Mode(itr)
          BY <1>1, <4>3, ComingInMode DEF Modes
        <5>2. itr = 1 /\ Len(Gather) = 1
          BY <4>1, <5>1, EntryType DEF Places, IsCalibrated, End
        <5> QED
          BY <2>1, <3>1, <4>1, <5>1, <5>2 DEF Modes, Single, InMode, Mode
      <4> QED
        BY <4>2, <4>3
    <3> QED
      BY <3>2, <3>3
  <2> QED
    BY <2>2, <2>3
<1>3. CASE DbusStale \/ GameRobotStatus
  <2>1. SureLast \subseteq Normal /\ ~switched
    BY <1>1, <1>3, Undisturbed, ComingInMode
  <2>2. SureLast' \subseteq Normal
    BY <1>3, <2>1, SureSteps DEF Normal
  <2>3. SureNow' = SureNow /\ SureNext' = SureNext /\ switched' = switched
    BY <1>3, SureSteps DEF DbusStale, GameRobotStatus
  <2> QED
    BY <1>1, <2>1, <2>2, <2>3 DEF Modes, InMode, Mode
<1>4. CASE (ManagerUpdate /\ Flush) \/ Switch \/ Refuse \/ Fail
  <2>1. UNCHANGED <<itr, switched>>
    BY <1>4 DEF ManagerUpdate, Switch, Refuse, Fail
  <2>2. /\ SureLast' \subseteq SureLast
        /\ SureNow' \subseteq SureNow \/ SureNow' \subseteq SureNext
        /\ \/ SureNext' \subseteq SureNow
           \/ SureNext' \subseteq SureNext
           \/ SureNext' \subseteq SureLast
    BY <1>4, RequestSteps, LostSteps
  <2>3. InMode(SureNow') /\ InMode(SureNext')
    BY <1>1, <2>2 DEF InMode
  <2> QED
    BY <1>1, <2>1, <2>2, <2>3 DEF Modes, IsCalibrated, Single, End, InMode, Mode
<1>5. CASE CalibrationUpdate /\ (QueueSwitch \/ QueueAdvance)
  <2>1. itr \in DOMAIN Gather /\ ~IsCalibrated
    BY <1>5, EntryType DEF CalibrationUpdate, QueueSwitch, QueueAdvance, IsCalibrated, Places, End
  <2>2. InMode(SureNow') /\ InMode(SureNext')
    BY <1>1, <1>5, SureSteps
  <2>3. CASE QueueSwitch
    <3>1. ~switched /\ switched' /\ itr' = itr /\ ~IsCalibrated'
      BY <2>3 DEF QueueSwitch, IsCalibrated, End
    <3>2. SureLast \subseteq Normal \/ SureLast \subseteq Mode(itr)
      BY <1>1, <3>1 DEF Modes
    <3>3. SureLast' \subseteq Mode(itr)
      BY <1>5, <2>3, <3>2, SureSteps DEF Mode
    <3> QED
      BY <2>2, <3>1, <3>3 DEF Modes, InMode, Mode
  <2>4. CASE QueueAdvance
    <3>1. switched /\ ~switched'
      BY <2>4 DEF QueueAdvance
    <3>2. SureLast' \subseteq Normal
      BY <1>1, <1>5, <2>1, <2>4, <3>1, SureSteps, EntryType DEF Modes, Mode
    <3> QED
      BY <2>2, <3>1, <3>2 DEF Modes, InMode, Mode
  <2> QED
    BY <1>5, <2>3, <2>4
<1>6. CASE UNCHANGED <<portVars, remote, alive, queueVars, history>>
  <2>1. /\ SureLast' = SureLast /\ SureNow' = SureNow /\ SureNext' = SureNext
        /\ UNCHANGED <<itr, switched>>
    BY <1>6, CommandSteps DEF history, requestHistory
  <2> QED
    BY <1>1, <2>1 DEF Modes, IsCalibrated, Single, End, InMode, Mode
<1> QED
  BY <1>2, <1>3, <1>4, <1>5, <1>6, StepKinds

\* At first nothing runs, nothing is in doubt, and the state controllers are to be
\* started.
LEMMA InitSure ==
    Init => /\ SureNow = {} /\ SureNext = {} /\ SureLast = StateControllers
            /\ Possible = StateControllers
  BY DEF Init, SureNow, SureNext, SureLast, Possible, Doubtful, DoubtfulNext, DoubtfulLast,
         Named, Coming, Switched, WithStart, Nothing

LEMMA InitModes == Init => Places /\ Modes
<1> SUFFICES ASSUME Init PROVE Modes
  BY InitPlaces
<1> QED
  BY InitSure DEF Init, Modes, InMode, Normal

\* NeverRefused: an undisturbed queue never has two controllers of one joint
\* started, so that no request of its is refused - for one entry however often it
\* is reset, for several entries if they are reset between calibrations only; nor
\* after calls that failed, once a later one has switched their controllers.
THEOREM QueueNeverRefused ==
    ASSUME Len(Gather) <= 1 \/ "reset" \notin Disturb
    PROVE  Safety => []NeverRefused
<1>1. Places /\ Modes /\ [Next]_vars => (Places /\ Modes)'
  BY NextPlaces, NextModes
<1>2. Modes => NeverRefused
  <2> SUFFICES ASSUME Modes, ~disturbed, lost \cup refused = {}
               PROVE  Compatible(Switched(running, call))
    BY DEF NeverRefused
  <2>1. SureNext = Switched(running, call)
    BY DEF SureNext, DoubtfulNext, Doubtful
  <2> QED
    BY <2>1, ModesAreCompatible DEF Modes
<1> QED
  BY <1>1, <1>2, InitModes, PTL DEF Safety

-----------------------------------------------------------------------------
(* The operator's controllers. *)

\* The calibration controllers of the queue's entries, and what is to run when the
\* remote is on.
Calibrating == {s \in CalibrationControllers : \E i \in DOMAIN Gather : s \in Gather[i].start}
Due == IF alive THEN Normal ELSE StateControllers

\* Only the operator's controllers and those of the entries are started and run.
Known == buffer.start \cup call.start \cup running \subseteq Normal \cup Calibrating

\* The entries that update() has still to leave.
ToLeave == {j \in DOMAIN Gather : j >= itr}

\* Whatever will run of the calibration controllers, and whatever will not of those
\* that are due, update() will put right when it leaves an entry - but for the
\* controllers in doubt.
Restoring ==
    /\ \A c \in SureLast \cap Calibrating : \E j \in ToLeave : c \in Gather[j].start
    /\ remote => \A c \in Due \ Possible : \E j \in ToLeave : c \in Gather[j].stop

\* Commands start controllers of the lists only.
LEMMA NextKnown == Places /\ Known /\ [Next]_vars => Known'
<1> SUFFICES ASSUME Places, Known, [Next]_vars PROVE Known'
  OBVIOUS
<1> USE DEF portVars, Known, WithStart, WithStop
<1>1. ASSUME NEW calibrate \in BOOLEAN, DbusFresh(calibrate) PROVE Known'
  BY <1>1 DEF DbusFresh, RemoteControlTurnOn, Normal
<1>2. CASE DbusStale
  BY <1>2 DEF DbusStale, RemoteControlTurnOff
<1>3. CASE GameRobotStatus
  <2>1. UNCHANGED <<call, running>>
    BY <1>3 DEF GameRobotStatus
  <2>2. CASE alive'
    BY <1>3, <2>1, <2>2 DEF GameRobotStatus, RobotRevive, Normal
  <2>3. CASE ~alive'
    BY <1>3, <2>1, <2>3 DEF GameRobotStatus, RobotDie
  <2> QED
    BY <2>2, <2>3
<1>4. CASE ManagerUpdate /\ Flush
  BY <1>4 DEF Flush, Nothing
<1>5. CASE CalibrationUpdate /\ (QueueSwitch \/ QueueAdvance)
  <2>1. itr \in DOMAIN Gather /\ UNCHANGED <<call, running>>
    BY <1>5, EntryType
    DEF CalibrationUpdate, QueueSwitch, QueueAdvance, IsCalibrated, Places, End
  <2>2. Gather[itr].start \subseteq Calibrating /\ Gather[itr].stop \subseteq Normal
    BY <2>1, EntryType DEF Calibrating
  <2> QED
    BY <1>5, <2>1, <2>2 DEF QueueSwitch, QueueAdvance
<1>6. CASE Switch
  BY <1>6 DEF Switch, Apply, Switched, Nothing
<1>7. CASE Refuse \/ Fail
  BY <1>7 DEF Refuse, Fail, Lose, Nothing
<1>8. CASE UNCHANGED <<portVars, remote, alive, queueVars, history>>
  BY <1>8
<1> QED
  BY <1>1, <1>2, <1>3, <1>4, <1>5, <1>6, <1>7, <1>8, StepKinds

\* Every step keeps what is to be restored.
LEMMA NextRestoring == Places /\ Restoring /\ [Next]_vars => Restoring'
<1> SUFFICES ASSUME Places, Restoring, [Next]_vars PROVE Restoring'
  OBVIOUS
<1> USE DEF portVars, manualVars, queueVars
<1>0. /\ StateControllers \cap Controlled = {}
      /\ Calibrating \subseteq Controlled /\ Calibrating \cap Normal = {}
      /\ MainControllers \subseteq Normal /\ Due \subseteq Normal
  BY ConfigurationAssumption, ListsAssumption DEF Controlled, Calibrating, Normal, Due
<1>1. ASSUME NEW calibrate \in BOOLEAN, DbusFresh(calibrate) PROVE Restoring'
  <2>1. Due' = Due /\ ToLeave \subseteq ToLeave'
    <3>1. CASE calibrate
      <4>1. itr' = 1 /\ alive' = alive
        BY <1>1, <3>1 DEF DbusFresh, Reset
      <4> QED
        BY <4>1, EntryType DEF Due, ToLeave, Places, End
    <3>2. CASE ~calibrate
      BY <1>1, <3>2 DEF DbusFresh, Due, ToLeave
    <3> QED
      BY <3>1, <3>2
  <2>2. CASE remote
    BY <1>1, <2>1, <2>2, SureSteps DEF Restoring
  <2>3. CASE ~remote
    <3>1. SureLast' = SureLast \cup Normal /\ Possible' = Possible \cup Normal
      BY <1>1, <2>3, SureSteps
    <3> QED
      BY <1>0, <2>1, <3>1 DEF Restoring
  <2> QED
    BY <2>2, <2>3
<1>2. CASE DbusStale
  <2>1. ~remote' /\ ToLeave' = ToLeave /\ SureLast' \subseteq SureLast
    BY <1>2, SureSteps DEF DbusStale, ToLeave
  <2> QED
    BY <2>1 DEF Restoring
<1>3. CASE GameRobotStatus
  <2>1. ToLeave' = ToLeave /\ remote' = remote
    BY <1>3 DEF GameRobotStatus, ToLeave
  <2>2. CASE ~remote
    BY <1>3, <2>1, <2>2, SureSteps DEF Restoring
  <2>3. CASE remote /\ alive'
    <3>1. /\ SureLast' = SureLast \cup MainControllers
          /\ Possible' = Possible \cup MainControllers
      BY <1>3, <2>3, SureSteps
    <3>2. Due' \subseteq Due \cup MainControllers
      BY DEF Due, Normal
    <3> QED
      BY <1>0, <2>1, <2>3, <3>1, <3>2 DEF Restoring
  <2>4. CASE remote /\ ~alive'
    <3>1. SureLast' = SureLast \ Controlled /\ Possible' = Possible \ Controlled
      BY <1>3, <2>4, SureSteps
    <3>2. Due' \subseteq Due /\ Due' \cap Controlled = {}
      BY <1>0, <2>4 DEF Due, Normal
    <3> QED
      BY <2>1, <2>4, <3>1, <3>2 DEF Restoring
  <2> QED
    BY <2>2, <2>3, <2>4
<1>4. CASE (ManagerUpdate /\ Flush) \/ Switch \/ Refuse \/ Fail
  <2>1. UNCHANGED <<itr, remote, alive>>
    BY <1>4 DEF ManagerUpdate, Switch, Refuse, Fail
  <2>2. SureLast' \subseteq SureLast /\ Possible \subseteq Possible'
    BY <1>4, RequestSteps, LostSteps
  <2>3. Due' = Due /\ ToLeave' = ToLeave
    BY <2>1 DEF Due, ToLeave
  <2> QED
    BY <2>1, <2>2, <2>3 DEF Restoring
<1>5. CASE CalibrationUpdate /\ (QueueSwitch \/ QueueAdvance)
  <2>1. /\ itr \in DOMAIN Gather /\ itr \in ToLeave
        /\ UNCHANGED <<remote, alive>> /\ Due' = Due
    BY <1>5, EntryType
    DEF CalibrationUpdate, QueueSwitch, QueueAdvance, IsCalibrated, Places, End, ToLeave, Due
  <2> DEFINE S == Gather[itr].start
             T == Gather[itr].stop
  <2>2. S \cap Normal = {} /\ T \subseteq Normal
    BY <2>1, EntryType, CalibrationIsApart
  <2>3. CASE QueueSwitch
    <3>1. ToLeave' = ToLeave
      BY <2>3 DEF QueueSwitch, ToLeave
    <3>2. SureLast' = (SureLast \cup S) \ T /\ Possible' = (Possible \cup S) \ T
      BY <1>5, <2>3, SureSteps
    <3>3. \A c \in SureLast' \cap Calibrating : \E j \in ToLeave : c \in Gather[j].start
      BY <2>1, <3>2 DEF Restoring
    <3>4. remote => \A c \in Due \ Possible' : \E j \in ToLeave : c \in Gather[j].stop
      BY <2>1, <3>2 DEF Restoring
    <3> QED
      BY <2>1, <3>1, <3>3, <3>4 DEF Restoring
  <2>4. CASE QueueAdvance
    <3>1. ToLeave' = ToLeave \ {itr}
      BY <2>1, <2>4, EntryType DEF QueueAdvance, ToLeave
    <3>2. SureLast' = (SureLast \cup T) \ S /\ Possible' = (Possible \cup T) \ S
      BY <1>5, <2>4, SureSteps
    <3>3. \A c \in SureLast' \cap Calibrating : \E j \in ToLeave' : c \in Gather[j].start
      BY <1>0, <2>2, <3>1, <3>2 DEF Restoring
    <3>4. remote => \A c \in Due \ Possible' : \E j \in ToLeave' : c \in Gather[j].stop
      BY <1>0, <2>2, <3>1, <3>2 DEF Restoring
    <3> QED
      BY <2>1, <3>3, <3>4 DEF Restoring
  <2> QED
    BY <1>5, <2>3, <2>4
<1>6. CASE UNCHANGED <<portVars, remote, alive, queueVars, history>>
  <2>1. /\ SureLast' = SureLast /\ Possible' = Possible
        /\ Due' = Due /\ ToLeave' = ToLeave /\ remote' = remote
    BY <1>6, CommandSteps DEF history, requestHistory, Due, ToLeave
  <2> QED
    BY <2>1 DEF Restoring
<1> QED
  BY <1>1, <1>2, <1>3, <1>4, <1>5, <1>6, StepKinds

\* ControlRestored: when a calibration is over, update() has put back every controller
\* that an entry stopped, and no calibration controller is left - whatever came
\* during it, and whichever calls failed or were refused, except for the controllers
\* of those calls.
THEOREM CalibrationRestoresControl == Safety => []ControlRestored
<1>1. Init => Known /\ Restoring
  <2> SUFFICES ASSUME Init PROVE Known /\ Restoring
    OBVIOUS
  <2>1. buffer.start = StateControllers /\ call.start = {} /\ running = {} /\ ~remote
    BY DEF Init, WithStart, Nothing
  <2>2. StateControllers \cap Calibrating = {}
    BY ListsAssumption DEF Calibrating
  <2> QED
    BY <2>1, <2>2, InitSure DEF Known, Restoring, Normal
<1>2. Places /\ Known /\ Restoring /\ [Next]_vars => (Places /\ Known /\ Restoring)'
  BY NextPlaces, NextKnown, NextRestoring
<1>3. Places /\ Known /\ Restoring => ControlRestored
  <2> SUFFICES ASSUME Places, Known, Restoring, IsCalibrated, Settled, remote, alive,
                      NEW c \in Controllers \ (lost \cup refused)
               PROVE  c \in running <=> c \in Normal
    BY DEF ControlRestored, Normal
  <2>1. ToLeave = {}
    BY EntryType DEF ToLeave, IsCalibrated, End
  <2>2. /\ call.start = {} /\ call.stop = {} /\ buffer.start = {} /\ buffer.stop = {}
    BY DEF Settled, Nothing
  <2>3. /\ c \in running => c \in SureLast
        /\ c \in Possible => c \in running
    BY <2>2 DEF SureLast, Possible, Coming, Switched, Doubtful, DoubtfulNext, DoubtfulLast
  <2>4. c \in running => c \in Normal
    BY <2>1, <2>3 DEF Known, Restoring
  <2>5. c \in Normal => c \in running
    BY <2>1, <2>3 DEF Restoring, Due
  <2> QED
    BY <2>4, <2>5
<1> QED
  BY <1>1, <1>2, <1>3, InitPlaces, PTL DEF Safety

-----------------------------------------------------------------------------
(* The remote is off. *)

\* The main controllers that no entry of the queue flips.
Chassis == {c \in MainControllers : \A i \in DOMAIN Gather : c \notin Gather[i].stop}

\* A batch that decides on every controlled controller and starts those of the
\* operator, or those of an entry in place of the ones that the entry stops: it is
\* never refused.
Replaces(b, i) == b.start \subseteq Mode(i) /\ Gather[i].stop \subseteq b.stop
Decides(b) == Controlled \subseteq b.start \cup b.stop

GoodBuffer ==
    /\ Decides(buffer)
    /\ buffer.start \subseteq Normal \/ (switched /\ ~IsCalibrated /\ Replaces(buffer, itr))

GoodCall ==
    /\ Decides(call)
    /\ call.start \subseteq Normal \/ \E i \in DOMAIN Gather : Replaces(call, i)

\* Since the remote went off, the stop of a controller waits in the buffer, is under
\* way, is done, or got lost with a call that failed.
Stopping(c) ==
    /\ c \notin buffer.start
    /\ \/ c \in buffer.stop /\ GoodBuffer
       \/ c \notin call.start /\ ((c \in call.stop /\ GoodCall) \/ c \notin running \/ c \in lost)

\* The chassis stops in any case; what the queue flips stops, too, when the queue was
\* at its end, where it then stays.
Stops ==
    /\ Known
    /\ ~remote => \A c \in Chassis : Stopping(c)
    /\ ~remote /\ ~midway => IsCalibrated /\ \A c \in Controlled : Stopping(c)

\* The controller manager refuses no good request, whatever is running.
LEMMA GoodCallIsAccepted ==
    ASSUME Known, GoodCall
    PROVE  Compatible(Switched(running, call))
<1>1. Normal \cup Calibrating \subseteq StateControllers \cup Controlled
  BY DEF Normal, Controlled, Calibrating
<1>2. Switched(running, call) \subseteq (StateControllers \ call.stop) \cup call.start
  BY <1>1 DEF Known, GoodCall, Decides, Switched
<1>3. CASE call.start \subseteq Normal
  <2>1. InMode(Switched(running, call))
    BY <1>2, <1>3 DEF InMode, Normal
  <2> QED
    BY <2>1, ModesAreCompatible
<1>4. ASSUME NEW i \in DOMAIN Gather, Replaces(call, i)
      PROVE  Compatible(Switched(running, call))
  <2>1. InMode(Switched(running, call))
    BY <1>2, <1>4 DEF InMode, Mode, Normal, Replaces
  <2> QED
    BY <2>1, ModesAreCompatible
<1> QED
  BY <1>3, <1>4 DEF GoodCall

\* A stop on its way arrives unless its call fails: the queue goes on commanding, but
\* not this controller, and its flips keep the buffer good.
LEMMA NextStopping ==
    ASSUME Places, Known, [Next]_vars, ~remote, ~remote', NEW c \in Controlled, Stopping(c),
           \/ IsCalibrated
           \/ \A i \in DOMAIN Gather : c \notin Gather[i].start /\ c \notin Gather[i].stop
    PROVE  Stopping(c)'
<1> USE DEF portVars, manualVars, queueVars, history, requestHistory
<1>1. ASSUME NEW calibrate \in BOOLEAN, DbusFresh(calibrate) PROVE FALSE
  BY <1>1 DEF DbusFresh
<1>2. CASE DbusStale
  BY <1>2 DEF DbusStale
<1>3. CASE GameRobotStatus
  <2>1. UNCHANGED <<buffer, call, running, itr, switched, lost>>
    BY <1>3, Zenon DEF GameRobotStatus, RobotRevive, RobotDie
  <2> QED
    BY <2>1
    DEF Stopping, GoodBuffer, GoodCall, Decides, Replaces, Mode, IsCalibrated, End
<1>4. CASE ManagerUpdate /\ Flush
  <2>1. /\ call = Nothing /\ call' = buffer /\ buffer' = Nothing
        /\ running' = running /\ lost' = lost
    BY <1>4 DEF ManagerUpdate, Flush
  <2>2. c \notin buffer'.start /\ c \notin call'.start
    BY <2>1 DEF Stopping, Nothing
  <2>3. CASE c \in buffer.stop /\ GoodBuffer
    <3>1. ~IsCalibrated => itr \in DOMAIN Gather
      BY EntryType DEF IsCalibrated, Places, End
    <3>2. GoodCall'
      BY <2>1, <2>3, <3>1 DEF GoodBuffer, GoodCall, Decides, Replaces, Mode
    <3> QED
      BY <2>1, <2>2, <2>3, <3>2 DEF Stopping
  <2>4. CASE c \notin running \/ c \in lost
    BY <2>1, <2>2, <2>4 DEF Stopping
  <2> QED
    BY <2>1, <2>3, <2>4 DEF Stopping, Nothing
<1>5. CASE CalibrationUpdate /\ (QueueSwitch \/ QueueAdvance)
  <2>1. /\ itr \in DOMAIN Gather /\ ~IsCalibrated /\ UNCHANGED <<call, running, lost>>
        /\ GoodCall' = GoodCall
    BY <1>5, EntryType
    DEF CalibrationUpdate, QueueSwitch, QueueAdvance, IsCalibrated, Places, End,
        GoodCall, Decides, Replaces, Mode
  <2> DEFINE S == Gather[itr].start
             T == Gather[itr].stop
  <2>2. T \subseteq Normal /\ c \notin S \cup T
    BY <2>1, EntryType
  <2>3. CASE QueueSwitch
    <3>1. /\ buffer'.start = (buffer.start \cup S) \ T
          /\ buffer'.stop = (buffer.stop \ S) \cup T
          /\ ~switched /\ switched' /\ itr' = itr /\ ~IsCalibrated'
      BY <2>3 DEF QueueSwitch, WithStart, WithStop, IsCalibrated, End
    <3>2. GoodBuffer => GoodBuffer'
      BY <3>1 DEF GoodBuffer, Decides, Replaces, Mode
    <3> QED
      BY <2>1, <2>2, <3>1, <3>2 DEF Stopping
  <2>4. CASE QueueAdvance
    <3>1. /\ buffer'.start = (buffer.start \cup T) \ S
          /\ buffer'.stop = (buffer.stop \ T) \cup S
      BY <2>4 DEF QueueAdvance, WithStart, WithStop
    <3>2. GoodBuffer => GoodBuffer'
      BY <2>2, <3>1 DEF GoodBuffer, Decides, Replaces, Mode
    <3> QED
      BY <2>1, <2>2, <3>1, <3>2 DEF Stopping
  <2> QED
    BY <1>5, <2>3, <2>4
<1>6. CASE Switch \/ Refuse \/ Fail
  <2>1. /\ call' = Nothing /\ UNCHANGED <<buffer, itr, switched>>
        /\ GoodBuffer' = GoodBuffer
    BY <1>6
    DEF Switch, Refuse, Fail, Lose, Apply, GoodBuffer, Decides, Replaces, Mode,
        IsCalibrated, End
  <2>2. CASE c \in buffer.stop /\ GoodBuffer
    BY <2>1, <2>2 DEF Stopping
  <2>3. CASE c \notin call.start /\ ((c \in call.stop /\ GoodCall) \/ c \notin running \/ c \in lost)
    <3>1. c \notin running' \/ c \in lost'
      <4>1. CASE Switch
        <5>1. /\ running' = (running \ call.stop) \cup call.start
              /\ lost' = lost \ (call.start \cup call.stop)
          BY <4>1 DEF Switch, Apply, Switched, Named
        <5> QED
          BY <2>3, <5>1
      <4>2. CASE Refuse
        <5>1. running' = running /\ lost' = lost /\ ~GoodCall
          BY <4>2, GoodCallIsAccepted DEF Refuse
        <5> QED
          BY <2>3, <5>1
      <4>3. CASE Fail
        <5>1. running' = running /\ lost' = lost \cup call.start \cup call.stop
          BY <4>3 DEF Fail, Lose, Named
        <5> QED
          BY <2>3, <5>1
      <4> QED
        BY <1>6, <4>1, <4>2, <4>3
    <3> QED
      BY <2>1, <3>1 DEF Stopping, Nothing
  <2> QED
    BY <2>1, <2>2, <2>3 DEF Stopping
<1>7. CASE UNCHANGED <<portVars, remote, alive, queueVars, history>>
  BY <1>7
  DEF Stopping, GoodBuffer, GoodCall, Decides, Replaces, Mode, IsCalibrated, End
<1> QED
  BY <1>1, <1>2, <1>3, <1>4, <1>5, <1>6, <1>7, StepKinds

\* Turning the remote off puts every stop into the buffer, in a batch that is good;
\* from then on the lemma above holds, and a queue at its end stays there.
LEMMA NextStops == Places /\ Stops /\ [Next]_vars => Stops'
<1> SUFFICES ASSUME Places, Stops, [Next]_vars, ~remote'
             PROVE  /\ \A c \in Chassis : Stopping(c)'
                    /\ ~midway' => IsCalibrated' /\ \A c \in Controlled : Stopping(c)'
  BY NextKnown DEF Stops, Chassis, Controlled
<1> USE DEF portVars, manualVars, queueVars, history, operatorHistory
<1>0. /\ Known
      /\ Chassis \subseteq Controlled
      /\ \A c \in Chassis :
            \A i \in DOMAIN Gather : c \notin Gather[i].start /\ c \notin Gather[i].stop
  BY EntryType, ListsAssumption DEF Stops, Chassis, Controlled
<1>1. CASE DbusStale
  <2>1. /\ buffer'.start = buffer.start \ Controlled /\ buffer'.stop = buffer.stop \cup Controlled
        /\ midway' = ~IsCalibrated /\ itr' = itr
    BY <1>1 DEF DbusStale, RemoteControlTurnOff, WithStop, Controlled
  <2>2. buffer'.start \subseteq Normal
    BY <1>0, <2>1 DEF Known, Controlled, Calibrating
  <2>3. GoodBuffer'
    BY <2>1, <2>2 DEF GoodBuffer, Decides
  <2>4. \A c \in Controlled : Stopping(c)'
    BY <2>1, <2>3 DEF Stopping
  <2>5. ~midway' => IsCalibrated'
    BY <2>1, Zenon DEF IsCalibrated, End
  <2> QED
    BY <1>0, <2>4, <2>5
<1>2. CASE ~DbusStale
  <2>1. ~remote /\ midway' = midway
    <3>1. \A calibrate \in BOOLEAN : ~DbusFresh(calibrate)
      BY DEF DbusFresh
    <3>2. UNCHANGED <<remote, midway>>
      BY <1>2, <3>1, StepKinds
      DEF GameRobotStatus, ManagerUpdate, CalibrationUpdate, Switch, Refuse, Fail
    <3> QED
      BY <3>2
  <2>2. \A c \in Chassis : Stopping(c)'
    BY <1>0, <2>1, NextStopping DEF Stops
  <2>3. ASSUME ~midway' PROVE IsCalibrated' /\ \A c \in Controlled : Stopping(c)'
    <3>1. IsCalibrated /\ \A c \in Controlled : Stopping(c)
      BY <2>1, <2>3, Zenon DEF Stops
    <3>2. \A c \in Controlled : Stopping(c)'
      BY <1>0, <2>1, <3>1, NextStopping
    <3>3. itr' = itr
      <4>1. \A calibrate \in BOOLEAN : ~DbusFresh(calibrate)
        BY DEF DbusFresh
      <4>2. ~(CalibrationUpdate /\ (QueueSwitch \/ QueueAdvance))
        BY <3>1 DEF QueueSwitch, QueueAdvance
      <4> QED
        BY <1>2, <4>1, <4>2, StepKinds, Zenon
        DEF GameRobotStatus, ManagerUpdate, Switch, Refuse, Fail
    <3> QED
      BY <3>1, <3>2, <3>3 DEF IsCalibrated, End
  <2> QED
    BY <2>2, <2>3
<1> QED
  BY <1>1, <1>2

\* The stops are an invariant.
LEMMA StopsInvariant == Safety => []Stops
<1>1. Init => Stops
  <2> SUFFICES ASSUME Init PROVE Stops
    OBVIOUS
  <2>1. /\ buffer.start = StateControllers /\ call.start = {} /\ running = {}
        /\ IsCalibrated
    BY DEF Init, WithStart, Nothing, IsCalibrated
  <2>2. StateControllers \cap Controlled = {}
    BY ConfigurationAssumption, ListsAssumption DEF Controlled
  <2> QED
    BY <2>1, <2>2 DEF Stops, Chassis, Controlled, Known, Stopping, Normal
<1>2. Places /\ Stops /\ [Next]_vars => (Places /\ Stops)'
  BY NextPlaces, NextStops
<1> QED
  BY <1>1, <1>2, InitPlaces, PTL DEF Safety

\* OffStopsChassis: remoteControlTurnOff() stops the chassis even in the middle of a
\* calibration that the queue goes on with, and after any disturbance: its stop is
\* never part of a request that the controller manager refuses, and only a call that
\* fails loses it.
THEOREM RemoteOffStopsChassis == Safety => []OffStopsChassis
<1>1. Stops => OffStopsChassis
  BY DEF Stops, OffStopsChassis, Chassis, Stopping, Settled, Nothing
<1> QED
  BY <1>1, StopsInvariant, PTL

\* OffMeansStopped: remoteControlTurnOff() with the queue at its end leaves no main
\* and no calibration controller running, whatever request it finds under way - the
\* last flip of a calibration, an entry's start, a request that will be refused -
\* unless the call that carries the stop fails.
THEOREM RemoteOffMeansStopped == Safety => []OffMeansStopped
<1>1. Stops => OffMeansStopped
  <2> SUFFICES ASSUME Stops, ~remote, ~midway, Settled, NEW c \in running, c \in Controlled
               PROVE  c \in lost
    BY DEF OffMeansStopped, Controlled
  <2>1. Stopping(c) /\ call.stop = {} /\ buffer.stop = {}
    BY DEF Stops, Settled, Nothing
  <2> QED
    BY <2>1 DEF Stopping
<1> QED
  BY <1>1, StopsInvariant, PTL

-----------------------------------------------------------------------------
(* One entry at a time. *)

\* Controllers of one entry at most.
OfOneEntry(cs) ==
    \A i, j \in DOMAIN Gather :
        Gather[i].start \cap cs # {} /\ Gather[j].start \cap cs # {} => i = j

\* What runs and what the request under way leads to are controllers of one entry;
\* what will run is of the entry under way.
InTurn ==
    /\ switched => ~IsCalibrated
    /\ OfOneEntry(SureNow) /\ OfOneEntry(SureNext)
    /\ \A c \in SureLast \cap Calibrating : switched /\ c \in Gather[itr].start

\* Every step keeps the turn, as long as nobody resets the queue during a calibration.
LEMMA NextInTurn ==
    ASSUME "reset" \notin Disturb
    PROVE  Places /\ InTurn /\ [Next]_vars => InTurn'
<1> SUFFICES ASSUME Places, InTurn, [Next]_vars PROVE InTurn'
  OBVIOUS
<1> USE DEF portVars, manualVars, queueVars
<1>0. Calibrating \subseteq Controlled /\ Calibrating \cap Normal = {}
  BY CalibrationIsApart DEF Controlled, Calibrating
<1>1. CASE DbusStale \/ GameRobotStatus \/ \E calibrate \in BOOLEAN : DbusFresh(calibrate)
  <2>1. SureNow' = SureNow /\ SureNext' = SureNext
    BY <1>1, SureSteps
  <2>2. SureLast' \cap Calibrating \subseteq SureLast
    <3>1. \/ SureLast' = SureLast
          \/ SureLast' = SureLast \cup Normal
          \/ SureLast' = SureLast \cup MainControllers
          \/ SureLast' = SureLast \ Controlled
      BY <1>1, SureSteps
    <3> QED
      BY <1>0, <3>1 DEF Normal
  <2>3. CASE UNCHANGED <<itr, switched>>
    BY <2>1, <2>2, <2>3 DEF InTurn, OfOneEntry, IsCalibrated, End
  <2>4. CASE ~UNCHANGED <<itr, switched>>
    <3>1. Quiet /\ ~switched'
      BY <1>1, <2>4 DEF DbusStale, GameRobotStatus, DbusFresh, Reset
    <3>2. ~switched
      BY <3>1 DEF Quiet, InTurn
    <3> QED
      BY <2>1, <2>2, <3>1, <3>2 DEF InTurn, OfOneEntry
  <2> QED
    BY <2>3, <2>4
<1>2. CASE (ManagerUpdate /\ Flush) \/ Switch \/ Refuse \/ Fail
  <2>1. UNCHANGED <<itr, switched>>
    BY <1>2 DEF ManagerUpdate, Switch, Refuse, Fail
  <2>2. /\ SureLast' \subseteq SureLast
        /\ SureNow' \subseteq SureNow \/ SureNow' \subseteq SureNext
        /\ \/ SureNext' \subseteq SureNow
           \/ SureNext' \subseteq SureNext
           \/ SureNext' \subseteq SureLast
    BY <1>2, RequestSteps, LostSteps
  <2>3. OfOneEntry(SureLast)
    <3>1. switched => itr \in DOMAIN Gather
      BY EntryType DEF InTurn, IsCalibrated, Places, End
    <3>2. \A i \in DOMAIN Gather : Gather[i].start \cap SureLast # {} => i = itr
      <4> SUFFICES ASSUME NEW i \in DOMAIN Gather, NEW c \in Gather[i].start, c \in SureLast
                   PROVE  i = itr
        OBVIOUS
      <4>1. c \in Calibrating
        BY EntryType DEF Calibrating
      <4> QED
        BY <3>1, <4>1, ConfigurationAssumption DEF InTurn
    <3> QED
      BY <3>2 DEF OfOneEntry
  <2>4. OfOneEntry(SureNow') /\ OfOneEntry(SureNext')
    <3>1. \A X, Y : X \subseteq Y /\ OfOneEntry(Y) => OfOneEntry(X)
      BY DEF OfOneEntry
    <3> QED
      BY <2>2, <2>3, <3>1 DEF InTurn
  <2> QED
    BY <2>1, <2>2, <2>4 DEF InTurn, OfOneEntry, IsCalibrated, End
<1>3. CASE CalibrationUpdate /\ (QueueSwitch \/ QueueAdvance)
  <2>1. /\ itr \in DOMAIN Gather /\ ~IsCalibrated
        /\ OfOneEntry(SureNow') /\ OfOneEntry(SureNext')
    BY <1>3, SureSteps, EntryType
    DEF InTurn, CalibrationUpdate, QueueSwitch, QueueAdvance, IsCalibrated, Places, End
  <2>2. CASE QueueSwitch
    <3>1. ~switched /\ switched' /\ itr' = itr /\ ~IsCalibrated'
      BY <2>2 DEF QueueSwitch, IsCalibrated, End
    <3>2. SureLast' \subseteq SureLast \cup Gather[itr].start
      BY <1>3, <2>2, SureSteps
    <3> QED
      BY <2>1, <3>1, <3>2 DEF InTurn, OfOneEntry
  <2>3. CASE QueueAdvance
    <3>1. ~switched'
      BY <2>3 DEF QueueAdvance
    <3>2. SureLast' = (SureLast \cup Gather[itr].stop) \ Gather[itr].start
      BY <1>3, <2>3, SureSteps
    <3>3. SureLast' \cap Calibrating = {}
      BY <1>0, <2>1, <3>2, EntryType DEF InTurn
    <3> QED
      BY <2>1, <3>1, <3>3 DEF InTurn, OfOneEntry
  <2> QED
    BY <1>3, <2>2, <2>3
<1>4. CASE UNCHANGED <<portVars, remote, alive, queueVars, history>>
  <2>1. /\ SureLast' = SureLast /\ SureNow' = SureNow /\ SureNext' = SureNext
        /\ UNCHANGED <<itr, switched>>
    BY <1>4, CommandSteps DEF history, requestHistory
  <2> QED
    BY <2>1 DEF InTurn, OfOneEntry, IsCalibrated, End
<1> QED
  BY <1>1, <1>2, <1>3, <1>4, StepKinds

\* OneEntryAtATime: unless the queue is reset during a calibration, the controllers
\* of two entries never run together - even if the remote or the robot's life changes
\* meanwhile - except those whose last request failed or was refused.
THEOREM EntriesRunOneAtATime ==
    ASSUME "reset" \notin Disturb
    PROVE  Safety => []OneEntryAtATime
<1>1. Init => InTurn
  <2> SUFFICES ASSUME Init PROVE InTurn
    OBVIOUS
  <2>1. StateControllers \cap Calibrating = {} /\ ~switched
    BY ListsAssumption DEF Calibrating, Init
  <2> QED
    BY <2>1, InitSure DEF InTurn, OfOneEntry
<1>2. Places /\ InTurn /\ [Next]_vars => (Places /\ InTurn)'
  BY NextPlaces, NextInTurn
<1>3. InTurn => OneEntryAtATime
  BY DEF InTurn, OfOneEntry, OneEntryAtATime, SureNow, Doubtful
<1> QED
  BY <1>1, <1>2, <1>3, InitPlaces, PTL DEF Safety

-----------------------------------------------------------------------------
(* The course of a calibration that nobody resets, while no call fails. *)

\* The calibration controllers of entry j, and whether one of them runs.
Homing(j) == Gather[j].start
Runs(j) == Homing(j) \cap running # {}

\* The entries before calibration_itr_ have stopped.
Clear == \A k \in DOMAIN Gather : k < itr => ~Runs(k)

\* The entry under way was to be started by a request that has been refused: it
\* never gets an answer, and the queue stays at it.
Stuck ==
    /\ switched
    /\ Homing(itr) # {}
    /\ Homing(itr) \cap (buffer.start \cup call.start \cup running) = {}

\* calibration_success_ is set for running controllers with calibrated actuators.
Homed == success \subseteq running \cap calibrated

\* An entry that is to come has no trace in the system.
Fresh(j) ==
    /\ Homing(j) \cap (buffer.start \cup call.start \cup running) = {}
    /\ \A s \in Homing(j) : ~answer[s] /\ asking[s] = "none"

Ahead ==
    ~IsCalibrated =>
        \A j \in DOMAIN Gather : j > itr \/ (j = itr /\ ~switched) => Fresh(j)

\* The start of the entry under way is in one place: in the buffer, under way or
\* done; the request that carries it stops what is left of the earlier entries; and
\* a yes was given by a controller of this entry when it was at its end.
UnderWay ==
    switched =>
        /\ ~IsCalibrated
        /\ Homing(itr) \cap buffer.start # {} =>
            Homing(itr) \cap (call.start \cup running) = {}
        /\ Homing(itr) \cap call.start # {} =>
            /\ Homing(itr) \cap running = {}
            /\ \A k \in DOMAIN Gather : k < itr /\ Runs(k) => Homing(k) \subseteq call.stop
        /\ Runs(itr) => Clear
        /\ \A s \in Homing(itr) : answer[s] \/ asking[s] = "yes" =>
            /\ s \in calibrated
            /\ Homing(itr) \cap (buffer.start \cup call.start) = {}
            /\ Clear

\* An entry that is over is not started again, and its stop is on its way, done, or
\* was lost with the start of the entry that the queue is stuck at.
Behind ==
    \A k \in DOMAIN Gather : k < itr =>
        /\ Homing(k) \cap (buffer.start \cup call.start) = {}
        /\ Runs(k) => Homing(k) \subseteq buffer.stop \/ Homing(k) \subseteq call.stop \/ Stuck

\* The controllers of one entry run at most, in doubt or not.
Alone == OfOneEntry(running)

Course == Known /\ Homed /\ Ahead /\ UnderWay /\ Behind /\ Alone

\* The entries share no controller, with each other and with the operator.
LEMMA EntriesApart ==
    /\ \A j \in DOMAIN Gather : /\ Homing(j) \subseteq CalibrationControllers
                                /\ Homing(j) \cap Normal = {}
    /\ \A i, j \in DOMAIN Gather : i # j => Homing(i) \cap Homing(j) = {}
  BY EntryType, CalibrationIsApart, ConfigurationAssumption DEF Homing

\* A command that starts no calibration controller and keeps the stops of those that
\* are to be stopped changes nothing of this.
LEMMA CommandKeepsCourse ==
    ASSUME Places, Course, Known',
           UNCHANGED <<call, running, itr, switched, answer, asking, success, calibrated>>,
           buffer'.start \cap CalibrationControllers \subseteq buffer.start,
           buffer.stop \cap CalibrationControllers \subseteq buffer'.stop
    PROVE  Course'
<1> USE DEF Homing
<1>0. /\ IsCalibrated' = IsCalibrated
      /\ ~IsCalibrated => itr \in DOMAIN Gather
      /\ \A j \in DOMAIN Gather :
            /\ Homing(j) \cap buffer'.start \subseteq Homing(j) \cap buffer.start
            /\ Homing(j) \subseteq buffer.stop => Homing(j) \subseteq buffer'.stop
  BY EntryType, EntriesApart DEF IsCalibrated, End, Places
<1>1. Homed' /\ Alone'
  BY DEF Course, Homed, Alone, OfOneEntry
<1>2. Ahead'
  BY <1>0 DEF Course, Ahead, Fresh
<1>3. UnderWay'
  <2> SUFFICES ASSUME switched PROVE UnderWay'
    BY DEF UnderWay
  <2>1. ~IsCalibrated /\ itr \in DOMAIN Gather /\ Clear' = Clear
    BY <1>0 DEF Course, UnderWay, Clear, Runs
  <2> QED
    BY <1>0, <2>1 DEF Course, UnderWay, Runs
<1>4. Behind'
  <2>1. Stuck => Stuck'
    <3>1. Stuck => itr \in DOMAIN Gather
      BY <1>0 DEF Course, UnderWay, Stuck
    <3> QED
      BY <1>0, <3>1 DEF Stuck
  <2> QED
    BY <1>0, <2>1 DEF Course, Behind, Runs
<1> QED
  BY <1>1, <1>2, <1>3, <1>4 DEF Course

\* The callbacks: turning the remote on or off and the robot's life leave the queue
\* alone, and a reset comes when nothing of a calibration is left.
LEMMA CallbacksKeepCourse ==
    ASSUME "reset" \notin Disturb, Places, Course, Known',
           DbusStale \/ GameRobotStatus \/ \E calibrate \in BOOLEAN : DbusFresh(calibrate)
    PROVE  Course'
<1> USE DEF manualVars, queueVars, queryVars
<1>0. /\ CalibrationControllers \cap (StateControllers \cup MainControllers) = {}
      /\ CalibrationControllers \cap MainControllers = {}
  BY ListsAssumption
<1>1. CASE DbusStale
  <2>1. buffer' = WithStop(buffer, MainControllers \cup CalibrationControllers)
    BY <1>1 DEF DbusStale, RemoteControlTurnOff
  <2>2. UNCHANGED <<call, running, itr, switched, answer, asking, success, calibrated>>
    BY <1>1 DEF DbusStale
  <2> QED
    BY <2>1, <2>2, CommandKeepsCourse DEF WithStop
<1>2. CASE GameRobotStatus
  <2>1. \/ buffer' = buffer
        \/ buffer' = WithStart(buffer, MainControllers)
        \/ buffer' = WithStop(buffer, MainControllers \cup CalibrationControllers)
    BY <1>2, Zenon DEF GameRobotStatus, RobotRevive, RobotDie
  <2>2. UNCHANGED <<call, running, itr, switched, answer, asking, success, calibrated>>
    BY <1>2 DEF GameRobotStatus
  <2>3. /\ buffer'.start \cap CalibrationControllers \subseteq buffer.start
        /\ buffer.stop \cap CalibrationControllers \subseteq buffer'.stop
    BY <1>0, <2>1 DEF WithStart, WithStop
  <2> QED
    BY <2>2, <2>3, CommandKeepsCourse
<1>3. ASSUME NEW calibrate \in BOOLEAN, DbusFresh(calibrate) PROVE Course'
  <2>1. /\ buffer'.start \cap CalibrationControllers \subseteq buffer.start
        /\ buffer.stop \cap CalibrationControllers \subseteq buffer'.stop
        /\ UNCHANGED <<call, running, asking, success, calibrated>>
    BY <1>0, <1>3 DEF DbusFresh, RemoteControlTurnOn, WithStart
  <2>2. CASE ~calibrate
    <3>1. UNCHANGED <<itr, switched, answer>>
      BY <1>3, <2>2 DEF DbusFresh
    <3> QED
      BY <2>1, <3>1, CommandKeepsCourse
  <2>3. CASE calibrate
    <3>1. /\ Quiet /\ itr' = 1 /\ ~switched'
          /\ answer' = [s \in CalibrationControllers |-> FALSE]
      BY <1>3, <2>3 DEF DbusFresh, Reset
    <3>2. buffer.start = {} /\ buffer.stop = {} /\ call.start = {} /\ call.stop = {}
      BY <3>1 DEF Quiet, Settled, Nothing
    <3>3. \A j \in DOMAIN Gather : j < itr /\ ~Stuck
      BY <3>1, EntryType DEF Quiet, IsCalibrated, End, Course, UnderWay, Stuck
    <3>4. \A j \in DOMAIN Gather : ~Runs(j)
      BY <3>2, <3>3 DEF Course, Behind, Runs
    <3>5. \A j \in DOMAIN Gather : Homing(j) \subseteq CalibrationControllers
      BY EntriesApart
    <3>6. \A j \in DOMAIN Gather : Fresh(j)'
      BY <2>1, <3>1, <3>2, <3>4, <3>5 DEF Fresh, Runs, Quiet, Homing
    <3>7. Ahead' /\ UnderWay' /\ Behind'
      BY <3>1, <3>6, EntryType DEF Ahead, UnderWay, Behind
    <3> QED
      BY <2>1, <3>7 DEF Course, Homed, Alone, OfOneEntry
  <2> QED
    BY <2>2, <2>3
<1> QED
  BY <1>1, <1>2, <1>3

\* ControllerManager::update() hands the buffer over as it is.
LEMMA FlushKeepsCourse ==
    ASSUME Places, Course, Known', ManagerUpdate, Flush
    PROVE  Course'
<1> USE DEF queueVars, queryVars, Homing
<1>1. /\ call = Nothing /\ call' = buffer /\ buffer' = Nothing
      /\ UNCHANGED <<running, itr, switched, answer, asking, success, calibrated>>
  BY DEF ManagerUpdate, Flush
<1>2. /\ call.start = {} /\ call.stop = {} /\ buffer'.start = {} /\ buffer'.stop = {}
      /\ call'.start = buffer.start /\ call'.stop = buffer.stop
  BY <1>1 DEF Nothing
<1>3. /\ IsCalibrated' = IsCalibrated /\ Clear' = Clear /\ \A j : Runs(j)' = Runs(j)
      /\ ~IsCalibrated => itr \in DOMAIN Gather
  BY <1>1, EntryType DEF IsCalibrated, End, Clear, Runs, Places
<1>4. Ahead'
  BY <1>1, <1>2, <1>3 DEF Course, Ahead, Fresh
<1>5. UnderWay'
  <2> SUFFICES ASSUME switched PROVE UnderWay'
    BY <1>1 DEF UnderWay
  <2>1. /\ ~IsCalibrated /\ (Runs(itr) => Clear)
        /\ Homing(itr) \cap buffer.start # {} => Homing(itr) \cap running = {} /\ ~Stuck
        /\ \A s \in Homing(itr) : answer[s] \/ asking[s] = "yes" =>
            s \in calibrated /\ Homing(itr) \cap buffer.start = {} /\ Clear
    BY DEF Course, UnderWay, Stuck
  <2>2. \A k \in DOMAIN Gather : k < itr /\ Runs(k) /\ ~Stuck => Homing(k) \subseteq buffer.stop
    BY <1>2 DEF Course, Behind, Runs
  <2> QED
    BY <1>1, <1>2, <1>3, <2>1, <2>2 DEF UnderWay
<1>6. Behind'
  <2>1. Stuck' = Stuck
    BY <1>1, <1>2 DEF Stuck
  <2> QED
    BY <1>1, <1>2, <1>3, <2>1 DEF Course, Behind, Runs
<1> QED
  BY <1>1, <1>4, <1>5, <1>6 DEF Course, Homed, Alone, OfOneEntry

\* update() starts the next entry.
LEMMA QueueSwitchKeepsCourse ==
    ASSUME Places, Course, Known', CalibrationUpdate, QueueSwitch
    PROVE  Course'
<1> USE DEF Homing
<1> DEFINE T == Gather[itr].stop
<1>1. /\ ~switched /\ switched' /\ ~IsCalibrated /\ ~IsCalibrated' /\ itr \in DOMAIN Gather
      /\ UNCHANGED <<call, running, itr, answer, asking, success, calibrated>>
  BY EntryType DEF CalibrationUpdate, QueueSwitch, IsCalibrated, End, Places
<1>2. /\ buffer'.start = (buffer.start \cup Homing(itr)) \ T
      /\ buffer'.stop = (buffer.stop \ Homing(itr)) \cup T
      /\ T \subseteq Normal
  BY <1>1, EntryType DEF QueueSwitch, WithStart, WithStop
<1>3. Fresh(itr) /\ Clear' = Clear /\ \A j : Runs(j)' = Runs(j)
  BY <1>1 DEF Course, Ahead, Clear, Runs
<1>4. Ahead'
  <2> SUFFICES ASSUME NEW j \in DOMAIN Gather, j > itr PROVE Fresh(j)'
    BY <1>1 DEF Ahead
  <2>1. Fresh(j) /\ Homing(j) \cap Homing(itr) = {}
    BY <1>1, EntriesApart, EntryType DEF Course, Ahead
  <2> QED
    BY <1>1, <1>2, <2>1 DEF Fresh
<1>5. UnderWay'
  BY <1>1, <1>2, <1>3 DEF UnderWay, Fresh, Runs
<1>6. Behind'
  <2> SUFFICES ASSUME NEW k \in DOMAIN Gather, k < itr
               PROVE  /\ Homing(k) \cap (buffer'.start \cup call.start) = {}
                      /\ Runs(k) => Homing(k) \subseteq buffer'.stop \/ Homing(k) \subseteq call.stop
    BY <1>1, <1>3 DEF Behind
  <2>1. Homing(k) \cap Homing(itr) = {}
    BY <1>1, EntriesApart, EntryType
  <2>2. /\ Homing(k) \cap (buffer.start \cup call.start) = {}
        /\ Runs(k) => Homing(k) \subseteq buffer.stop \/ Homing(k) \subseteq call.stop
    BY <1>1 DEF Course, Behind, Stuck
  <2> QED
    BY <1>2, <2>1, <2>2
<1> QED
  BY <1>1, <1>4, <1>5, <1>6 DEF Course, Homed, Alone, OfOneEntry

\* update() leaves an entry that has answered.
LEMMA QueueAdvanceKeepsCourse ==
    ASSUME Places, Course, Known', CalibrationUpdate, QueueAdvance
    PROVE  Course' /\ Homing(itr) \subseteq calibrated
<1> USE DEF Homing
<1> DEFINE T == Gather[itr].stop
<1>1. /\ switched /\ ~switched' /\ ~IsCalibrated /\ itr \in DOMAIN Gather
      /\ itr' = itr + 1 /\ itr \in Nat /\ EntryCalibrated(Gather[itr])
      /\ UNCHANGED <<call, running, answer, asking, success, calibrated>>
  BY EntryType DEF CalibrationUpdate, QueueAdvance, IsCalibrated, End, Places
<1>2. /\ buffer'.start = (buffer.start \cup T) \ Homing(itr)
      /\ buffer'.stop = (buffer.stop \ T) \cup Homing(itr)
      /\ T \subseteq Normal
  BY <1>1, EntryType DEF QueueAdvance, WithStart, WithStop
<1>3. /\ Homing(itr) \subseteq calibrated
      /\ Homing(itr) # {} => Clear /\ Homing(itr) \cap call.start = {}
  BY <1>1 DEF Course, UnderWay, EntryCalibrated
<1>4. Ahead'
  <2> SUFFICES ASSUME NEW j \in DOMAIN Gather, j >= itr + 1 PROVE Fresh(j)'
    BY <1>1, EntryType DEF Ahead
  <2>1. Fresh(j) /\ Homing(j) \cap Normal = {}
    BY <1>1, EntriesApart, EntryType DEF Course, Ahead
  <2> QED
    BY <1>1, <1>2, <2>1 DEF Fresh
<1>5. Behind'
  <2> SUFFICES ASSUME NEW k \in DOMAIN Gather, k < itr + 1
               PROVE  /\ Homing(k) \cap (buffer'.start \cup call.start) = {}
                      /\ Runs(k) => Homing(k) \subseteq buffer'.stop \/ Homing(k) \subseteq call.stop
    BY <1>1 DEF Behind, Runs
  <2>1. CASE k = itr
    BY <1>2, <1>3, <2>1
  <2>2. CASE k # itr
    <3>1. k < itr /\ Homing(k) \cap Normal = {}
      BY <1>1, <2>2, EntryType, EntriesApart
    <3>2. /\ Homing(k) \cap (buffer.start \cup call.start) = {}
          /\ Runs(k) => Homing(k) \subseteq buffer.stop \/ Homing(k) \subseteq call.stop \/ Stuck
      BY <3>1 DEF Course, Behind
    <3>3. Stuck => ~Runs(k)
      BY <1>3, <3>1 DEF Stuck, Clear
    <3> QED
      BY <1>2, <3>1, <3>2, <3>3
  <2> QED
    BY <2>1, <2>2
<1> QED
  BY <1>1, <1>3, <1>4, <1>5 DEF Course, Homed, Alone, OfOneEntry, UnderWay

\* A query, an answer or a joint at its end changes nothing of this, if it leaves the
\* entries to come alone and a yes comes from calibration_success_.
LEMMA AnswerKeepsCourse ==
    ASSUME Places, Course, Known', Homed', calibrated \subseteq calibrated',
           UNCHANGED <<buffer, call, running, itr, switched>>,
           \A s \in CalibrationControllers :
               /\ answer'[s] => answer[s] \/ asking[s] = "yes"
               /\ asking'[s] = "yes" => asking[s] = "yes" \/ s \in success
               /\ asking[s] = "none" /\ ~(switched /\ s \in Homing(itr)) => asking'[s] = "none"
    PROVE  Course'
<1> USE DEF Homing
<1>1. /\ IsCalibrated' = IsCalibrated /\ Clear' = Clear /\ Stuck' = Stuck
      /\ \A j : Runs(j)' = Runs(j)
      /\ itr \in 1 .. End /\ (~IsCalibrated => itr \in DOMAIN Gather)
  BY EntryType DEF IsCalibrated, End, Clear, Runs, Stuck, Places
<1>2. Ahead'
  <2> SUFFICES ASSUME ~IsCalibrated, NEW j \in DOMAIN Gather, j > itr \/ (j = itr /\ ~switched)
               PROVE  Fresh(j)'
    BY <1>1 DEF Ahead
  <2>1. Fresh(j) /\ Homing(j) \subseteq CalibrationControllers
    BY EntriesApart DEF Course, Ahead
  <2>2. \A s \in Homing(j) : ~(switched /\ s \in Homing(itr))
    BY <1>1, EntriesApart, EntryType
  <2> QED
    BY <2>1, <2>2 DEF Fresh
<1>3. UnderWay'
  <2> SUFFICES ASSUME switched PROVE UnderWay'
    BY DEF UnderWay
  <2>1. itr \in DOMAIN Gather /\ Homing(itr) \subseteq CalibrationControllers
    BY <1>1, EntriesApart DEF Course, UnderWay
  <2>2. \A s \in Homing(itr) : answer'[s] \/ asking'[s] = "yes" =>
            /\ s \in calibrated'
            /\ Homing(itr) \cap (buffer.start \cup call.start) = {}
            /\ Clear
    <3> SUFFICES ASSUME NEW s \in Homing(itr), answer'[s] \/ asking'[s] = "yes"
                 PROVE  /\ s \in calibrated'
                        /\ Homing(itr) \cap (buffer.start \cup call.start) = {}
                        /\ Clear
      OBVIOUS
    <3>1. CASE answer[s] \/ asking[s] = "yes"
      BY <3>1 DEF Course, UnderWay
    <3>2. CASE s \in success
      <4>1. s \in calibrated /\ Runs(itr)
        BY <3>2 DEF Course, Homed, Runs
      <4> QED
        BY <4>1 DEF Course, UnderWay, Runs
    <3> QED
      BY <2>1, <3>1, <3>2
  <2> QED
    BY <1>1, <2>2 DEF Course, UnderWay
<1>4. Behind'
  BY <1>1 DEF Course, Behind
<1> QED
  BY <1>2, <1>3, <1>4 DEF Course, Alone, OfOneEntry

\* The query threads and the joints.
LEMMA QueriesKeepCourse ==
    ASSUME Places, Flags, Course, Known',
           \/ CalibrationUpdate /\ QueueQuery
           \/ \E s \in CalibrationControllers : Query(s) \/ Home(s)
    PROVE  Course'
<1> USE DEF portVars, manualVars, queueVars, queryVars
<1>1. CASE CalibrationUpdate /\ QueueQuery
  <2>1. UNCHANGED <<buffer, call, running, itr, switched, answer, success, calibrated>>
    BY <1>1 DEF CalibrationUpdate, QueueQuery
  <2>2. \A s \in CalibrationControllers :
            asking'[s] = IF s \in Homing(itr) /\ asking[s] = "none" THEN "spawned" ELSE asking[s]
    BY <1>1 DEF QueueQuery, Homing
  <2>3. switched
    BY <1>1 DEF QueueQuery
  <2> QED
    BY <2>1, <2>2, <2>3, AnswerKeepsCourse DEF Course, Homed
<1>2. ASSUME NEW s \in CalibrationControllers, Query(s) PROVE Course'
  <2>1. UNCHANGED <<buffer, call, running, itr, switched, success, calibrated>> /\ Homed'
    BY <1>2 DEF Query, QueryLock, QueryServe, QueryReturn, QueryFail, Course, Homed
  <2>2. /\ \A r \in CalibrationControllers : r # s => asking'[r] = asking[r] /\ answer'[r] = answer[r]
        /\ asking[s] # "none"
        /\ asking'[s] = "yes" => s \in success
    BY <1>2 DEF Query, QueryLock, QueryServe, QueryReturn, QueryFail, Places, Flags
  <2>3. answer'[s] => answer[s] \/ asking[s] = "yes"
    <3>1. CASE QueryReturn(s)
      BY <3>1 DEF QueryReturn, Flags
    <3>2. CASE ~QueryReturn(s)
      BY <1>2, <3>2 DEF Query, QueryLock, QueryServe, QueryFail
    <3> QED
      BY <3>1, <3>2
  <2> QED
    BY <2>1, <2>2, <2>3, AnswerKeepsCourse
<1>3. ASSUME NEW s \in CalibrationControllers, Home(s) PROVE Course'
  <2>1. /\ UNCHANGED <<buffer, call, running, itr, switched, answer, asking>>
        /\ Homed' /\ calibrated \subseteq calibrated'
    BY <1>3 DEF Home, Course, Homed
  <2> QED
    BY <2>1, AnswerKeepsCourse
<1> QED
  BY <1>1, <1>2, <1>3

\* The controller manager carries a request out: the start of the entry under way
\* comes with the stop of what was left of the one before.
LEMMA SwitchKeepsCourse ==
    ASSUME Places, Course, Known', Switch
    PROVE  Course'
<1> USE DEF manualVars, queueVars, queryVars, Homing
<1>1. /\ running' = (running \ call.stop) \cup call.start
      /\ call'.start = {} /\ call'.stop = {}
      /\ success' = success \ (call.stop \cap running)
      /\ calibrated' = calibrated \ (call.start \ running)
      /\ UNCHANGED <<buffer, itr, switched, answer, asking>>
  BY DEF Switch, Apply, Switched, Nothing
<1>2. IsCalibrated' = IsCalibrated /\ (~IsCalibrated => itr \in DOMAIN Gather) /\ itr \in Nat
  BY <1>1, EntryType DEF IsCalibrated, End, Places
<1>3. Homed'
  BY <1>1 DEF Course, Homed
<1>4. Ahead'
  BY <1>1, <1>2 DEF Course, Ahead, Fresh
<1>5. \A k \in DOMAIN Gather : k < itr /\ Runs(k)' => Runs(k) /\ ~(Homing(k) \subseteq call.stop)
  BY <1>1 DEF Course, Behind, Runs
<1>6. Clear => Clear'
  BY <1>1, <1>5 DEF Clear
<1>7. switched /\ Runs(itr)' => Clear'
  <2>1. CASE Homing(itr) \cap call.start = {}
    BY <1>1, <1>6, <2>1 DEF Course, UnderWay, Runs
  <2>2. CASE Homing(itr) \cap call.start # {}
    BY <1>1, <1>5, <2>2 DEF Course, UnderWay, Clear
  <2> QED
    BY <2>1, <2>2
<1>8. UnderWay'
  <2> SUFFICES ASSUME switched PROVE UnderWay'
    BY <1>1 DEF UnderWay
  <2>1. ~IsCalibrated /\ (Homing(itr) \cap buffer.start # {} => ~Runs(itr)')
    BY <1>1 DEF Course, UnderWay, Runs
  <2>2. \A s \in Homing(itr) : answer[s] \/ asking[s] = "yes" =>
            s \in calibrated' /\ Homing(itr) \cap buffer.start = {} /\ Clear'
    BY <1>1, <1>6 DEF Course, UnderWay
  <2> QED
    BY <1>1, <1>2, <1>7, <2>1, <2>2 DEF UnderWay, Runs
<1>9. Behind'
  <2>1. Stuck => Stuck'
    BY <1>1 DEF Stuck
  <2> QED
    BY <1>1, <1>5, <2>1 DEF Course, Behind
<1>10. Alone'
  <2> SUFFICES ASSUME NEW i \in DOMAIN Gather, NEW j \in DOMAIN Gather, Runs(i)', Runs(j)', i # j
               PROVE  FALSE
    BY DEF Alone, OfOneEntry, Runs
  <2>1. \A k \in DOMAIN Gather : Runs(k)' => k < itr \/ (k = itr /\ switched)
    <3> SUFFICES ASSUME NEW k \in DOMAIN Gather, Runs(k)', ~(k < itr), ~(k = itr /\ switched)
                 PROVE  FALSE
      OBVIOUS
    <3>1. ~IsCalibrated /\ (k > itr \/ (k = itr /\ ~switched))
      BY <1>2, EntryType DEF IsCalibrated, End
    <3> QED
      BY <1>1, <3>1 DEF Course, Ahead, Fresh, Runs
  <2>2. CASE i < itr /\ j < itr
    BY <1>5, <2>2 DEF Course, Alone, OfOneEntry, Runs
  <2>3. CASE i = itr \/ j = itr
    BY <1>1, <1>2, <1>7, <2>1, <2>3, EntryType DEF Clear
  <2> QED
    BY <2>1, <2>2, <2>3
<1> QED
  BY <1>3, <1>4, <1>8, <1>9, <1>10 DEF Course

\* A refused request was to start the entry under way: stops alone, and the operator's
\* controllers in place of the entry's, are never refused.
LEMMA RefuseKeepsCourse ==
    ASSUME Places, Course, Known', Refuse
    PROVE  Course'
<1> USE DEF manualVars, queueVars, queryVars, Homing
<1>1. /\ ~Compatible((running \ call.stop) \cup call.start)
      /\ call'.start = {} /\ call'.stop = {}
      /\ UNCHANGED <<buffer, running, itr, switched, answer, asking, success, calibrated>>
  BY DEF Refuse, Switched, Nothing
<1>2. /\ IsCalibrated' = IsCalibrated /\ Clear' = Clear /\ \A j : Runs(j)' = Runs(j)
      /\ itr \in Nat
  BY <1>1, EntryType DEF IsCalibrated, End, Clear, Runs, Places
<1>3. Ahead'
  BY <1>1, <1>2 DEF Course, Ahead, Fresh
<1>4. UnderWay'
  BY <1>1, <1>2 DEF Course, UnderWay
<1>5. Behind'
  <2> SUFFICES ASSUME NEW k \in DOMAIN Gather, k < itr, Runs(k), ~(Homing(k) \subseteq buffer.stop)
               PROVE  Stuck'
    BY <1>1, <1>2 DEF Course, Behind
  <2>1. CASE Stuck
    BY <1>1, <2>1 DEF Stuck
  <2>2. CASE Homing(k) \subseteq call.stop
    <3>1. \A j \in DOMAIN Gather : j # k => ~Runs(j)
      BY DEF Course, Alone, OfOneEntry, Runs
    <3>2. (running \ call.stop) \cap Calibrating = {}
      BY <2>2, <3>1 DEF Calibrating, Runs
    <3>3. PICK c \in call.start : c \notin Normal
      <4>1. ~((running \ call.stop) \cup call.start \subseteq Normal)
        BY <1>1, ModesAreCompatible DEF InMode
      <4> QED
        BY <3>2, <4>1 DEF Course, Known
    <3>4. PICK j \in DOMAIN Gather : c \in Homing(j)
      BY <3>3 DEF Course, Known, Calibrating
    <3>5. j = itr /\ switched
      <4>1. ~(j < itr)
        BY <3>3, <3>4 DEF Course, Behind
      <4>2. ~IsCalibrated
        BY <4>1, EntryType DEF IsCalibrated, End
      <4>3. ~(j > itr \/ (j = itr /\ ~switched))
        BY <3>3, <3>4, <4>2 DEF Course, Ahead, Fresh
      <4> QED
        BY <1>2, <4>1, <4>3, EntryType
    <3> QED
      BY <1>1, <3>3, <3>4, <3>5 DEF Course, UnderWay, Stuck
  <2> QED
    BY <2>1, <2>2 DEF Course, Behind
<1> QED
  BY <1>1, <1>3, <1>4, <1>5 DEF Course, Homed, Alone, OfOneEntry

\* Every step keeps the course, as long as nobody resets the queue during a
\* calibration and no call fails.
LEMMA NextCourse ==
    ASSUME "reset" \notin Disturb, ~CallMayFail
    PROVE  Places /\ Flags /\ Course /\ [Next]_vars => Course'
<1> SUFFICES ASSUME Places, Flags, Course, [Next]_vars PROVE Course'
  OBVIOUS
<1>0. Known'
  BY NextKnown DEF Course
<1>1. ASSUME UNCHANGED <<buffer, call, running, itr, switched, answer, asking, success,
                         calibrated>>
      PROVE  Course'
  BY <1>0, <1>1, CommandKeepsCourse
<1>2. CASE ManagerUpdate
  <2>1. CASE Flush
    BY <1>0, <1>2, <2>1, FlushKeepsCourse
  <2>2. CASE ~Flush
    BY <1>1, <1>2, <2>2 DEF ManagerUpdate, portVars, queueVars, queryVars
  <2> QED
    BY <2>1, <2>2
<1>3. CASE CalibrationUpdate
  <2>1. CASE QueueIdle \/ QueueWait
    BY <1>1, <1>3, <2>1 DEF CalibrationUpdate, QueueIdle, QueueWait
  <2> QED
    BY <1>0, <1>3, <2>1, QueueSwitchKeepsCourse, QueueAdvanceKeepsCourse, QueriesKeepCourse
    DEF CalibrationUpdate
<1>4. CASE UNCHANGED vars
  BY <1>1, <1>4 DEF vars, portVars, queueVars, queryVars
<1>5. ~Fail
  BY DEF Fail, Lose
<1> QED
  BY <1>0, <1>2, <1>3, <1>4, <1>5, CallbacksKeepCourse, QueriesKeepCourse, SwitchKeepsCourse,
     RefuseKeepsCourse
  DEF Next

\* The course is an invariant.
LEMMA CourseInvariant ==
    ASSUME "reset" \notin Disturb, ~CallMayFail
    PROVE  Safety => [](Places /\ Flags /\ Course)
<1>1. Init => Flags
  BY DEF Init, Flags
<1>2. Init => Course
  <2> SUFFICES ASSUME Init PROVE Course
    OBVIOUS
  <2>1. /\ buffer.start = StateControllers /\ call.start = {} /\ running = {} /\ success = {}
        /\ IsCalibrated /\ ~switched
    BY DEF Init, WithStart, Nothing, IsCalibrated
  <2>2. \A j \in DOMAIN Gather : Homing(j) \cap StateControllers = {}
    BY EntriesApart DEF Normal
  <2> QED
    BY <2>1, <2>2 DEF Course, Known, Normal, Homed, Ahead, UnderWay, Behind, Runs,
                      Alone, OfOneEntry
<1>3. Places /\ Flags /\ Course /\ [Next]_vars => (Places /\ Flags /\ Course)'
  BY NextPlaces, NextFlags, NextCourse
<1> QED
  BY <1>1, <1>2, <1>3, InitPlaces, PTL DEF Safety

-----------------------------------------------------------------------------
(* The answers of a calibration that nobody disturbs. *)

\* No stop of the controllers of an entry under way or to come is on its way; those
\* to come have not answered, and a yes of one under way still holds.
Answers ==
    /\ Homed
    /\ ~IsCalibrated =>
        \A j \in DOMAIN Gather : j >= itr =>
            /\ Homing(j) \cap (buffer.stop \cup call.stop) = {}
            /\ \A s \in Homing(j) :
                IF j = itr /\ switched
                THEN answer[s] \/ asking[s] = "yes" => s \in success
                ELSE ~answer[s] /\ asking[s] = "none"

\* Every step keeps the answers, whichever calls fail, as long as nothing disturbs a
\* calibration.
LEMMA NextAnswers ==
    ASSUME Disturb = {}
    PROVE  Places /\ Flags /\ Answers /\ [Next]_vars => Answers'
<1> SUFFICES ASSUME Places, Flags, Answers, [Next]_vars PROVE Answers'
  OBVIOUS
<1> USE DEF portVars, manualVars, queueVars, queryVars, Homing
<1> DEFINE Pending(j) == Homing(j) \cap (buffer.stop \cup call.stop) = {}
           Told(j) == \A s \in Homing(j) :
                        IF j = itr /\ switched
                        THEN answer[s] \/ asking[s] = "yes" => s \in success
                        ELSE ~answer[s] /\ asking[s] = "none"
<1>0. Homed /\ (~IsCalibrated => \A j \in DOMAIN Gather : j >= itr => Pending(j) /\ Told(j))
  BY DEF Answers
<1>1. ASSUME NEW calibrate \in BOOLEAN, DbusFresh(calibrate) PROVE Answers'
  <2>1. Homed'
    BY <1>0, <1>1 DEF DbusFresh, Homed
  <2>2. CASE calibrate
    <3>1. /\ Quiet /\ itr' = 1 /\ ~switched' /\ UNCHANGED <<call, asking>>
          /\ answer' = [s \in CalibrationControllers |-> FALSE]
          /\ buffer' = buffer \/ buffer' = WithStart(buffer, Normal)
      BY <1>1, <2>2 DEF DbusFresh, Reset, RemoteControlTurnOn, Normal
    <3>2. buffer'.stop = {} /\ call'.stop = {}
      BY <3>1 DEF Quiet, Settled, Nothing, WithStart
    <3>3. \A j \in DOMAIN Gather : Homing(j) \subseteq CalibrationControllers
      BY EntriesApart
    <3> QED
      BY <2>1, <3>1, <3>2, <3>3 DEF Answers, Quiet
  <2>3. CASE ~calibrate
    <3>1. ~remote /\ IsCalibrated /\ itr' = itr
      BY <1>1, <2>3 DEF DbusFresh
    <3> QED
      BY <2>1, <3>1 DEF Answers, IsCalibrated, End
  <2> QED
    BY <2>2, <2>3
<1>2. CASE DbusStale \/ GameRobotStatus
  <2>1. IsCalibrated /\ UNCHANGED <<itr, running, success, calibrated>>
    BY <1>2 DEF DbusStale, GameRobotStatus
  <2> QED
    BY <1>0, <2>1 DEF Answers, Homed, IsCalibrated, End
<1>3. ASSUME UNCHANGED <<itr, switched, answer, asking, success>>, Homed',
             buffer'.stop \cup call'.stop \subseteq buffer.stop \cup call.stop
      PROVE  Answers'
  BY <1>0, <1>3 DEF Answers, IsCalibrated, End
<1>4. CASE ManagerUpdate
  <2>1. UNCHANGED <<running, itr, switched, answer, asking, success, calibrated>>
    BY <1>4 DEF ManagerUpdate, Flush
  <2>2. buffer'.stop \cup call'.stop \subseteq buffer.stop \cup call.stop
    BY <1>4 DEF ManagerUpdate, Flush, Nothing
  <2> QED
    BY <1>0, <1>3, <2>1, <2>2 DEF Homed
<1>5. CASE CalibrationUpdate
  <2>1. UNCHANGED <<call, running, answer, success, calibrated>> /\ Homed'
    BY <1>0, <1>5 DEF CalibrationUpdate, Homed
  <2>2. CASE QueueIdle \/ QueueWait
    BY <1>3, <2>1, <2>2 DEF QueueIdle, QueueWait
  <2>3. ~IsCalibrated => itr \in DOMAIN Gather /\ itr \in Nat
    BY EntryType DEF IsCalibrated, Places, End
  <2>4. CASE QueueSwitch
    <3>1. /\ ~IsCalibrated /\ itr' = itr /\ ~switched /\ switched' /\ asking' = asking
          /\ buffer'.stop = (buffer.stop \ Homing(itr)) \cup Gather[itr].stop
      BY <2>4 DEF QueueSwitch, WithStart, WithStop
    <3>2. \A j \in DOMAIN Gather : Homing(j) \cap Gather[itr].stop = {}
      BY <2>3, <3>1, EntriesApart, EntryType
    <3>3. \A j \in DOMAIN Gather : j >= itr' => Pending(j)' /\ Told(j)'
      BY <1>0, <2>1, <3>1, <3>2
    <3> QED
      BY <2>1, <3>3 DEF Answers
  <2>5. CASE QueueAdvance
    <3>1. /\ ~IsCalibrated /\ itr' = itr + 1 /\ ~switched' /\ asking' = asking
          /\ buffer'.stop = (buffer.stop \ Gather[itr].stop) \cup Homing(itr)
      BY <2>5 DEF QueueAdvance, WithStart, WithStop
    <3>2. \A j \in DOMAIN Gather :
              j >= itr + 1 => j >= itr /\ j # itr /\ Homing(j) \cap Homing(itr) = {}
      BY <2>3, <3>1, EntriesApart, EntryType
    <3>3. \A j \in DOMAIN Gather : j >= itr' => Pending(j)' /\ Told(j)'
      BY <1>0, <2>1, <3>1, <3>2
    <3> QED
      BY <2>1, <3>3 DEF Answers
  <2>6. CASE QueueQuery
    <3>1. /\ ~IsCalibrated /\ switched /\ UNCHANGED <<buffer, itr, switched>>
          /\ \A s \in CalibrationControllers :
                asking'[s] = IF s \in Homing(itr) /\ asking[s] = "none"
                             THEN "spawned" ELSE asking[s]
      BY <2>6 DEF QueueQuery
    <3>2. \A j \in DOMAIN Gather :
              /\ Homing(j) \subseteq CalibrationControllers
              /\ j # itr => Homing(j) \cap Homing(itr) = {}
      BY <2>3, <3>1, EntriesApart
    <3>3. \A j \in DOMAIN Gather : j >= itr => Pending(j)' /\ Told(j)'
      BY <1>0, <2>1, <3>1, <3>2
    <3> QED
      BY <2>1, <3>1, <3>3 DEF Answers
  <2> QED
    BY <1>5, <2>2, <2>4, <2>5, <2>6 DEF CalibrationUpdate
<1>6. ASSUME NEW s \in CalibrationControllers, Query(s) PROVE Answers'
  <2>1. UNCHANGED <<buffer, call, running, itr, switched, success, calibrated>> /\ Homed'
    BY <1>0, <1>6 DEF Query, QueryLock, QueryServe, QueryReturn, QueryFail, Homed
  <2>2. /\ \A r \in CalibrationControllers : r # s => asking'[r] = asking[r] /\ answer'[r] = answer[r]
        /\ asking[s] # "none"
        /\ asking'[s] = "yes" => s \in success
    BY <1>6 DEF Query, QueryLock, QueryServe, QueryReturn, QueryFail, Places, Flags
  <2>3. answer'[s] => answer[s] \/ asking[s] = "yes"
    <3>1. CASE QueryReturn(s)
      BY <3>1 DEF QueryReturn, Flags
    <3>2. CASE ~QueryReturn(s)
      BY <1>6, <3>2 DEF Query, QueryLock, QueryServe, QueryFail
    <3> QED
      BY <3>1, <3>2
  <2>4. \A j \in DOMAIN Gather : Homing(j) \subseteq CalibrationControllers
    BY EntriesApart
  <2>5. ~IsCalibrated => \A j \in DOMAIN Gather : j >= itr => Pending(j)' /\ Told(j)'
    BY <1>0, <2>1, <2>2, <2>3, <2>4
  <2> QED
    BY <2>1, <2>5 DEF Answers, IsCalibrated, End
<1>7. ASSUME NEW s \in CalibrationControllers, Home(s) PROVE Answers'
  <2>1. /\ UNCHANGED <<buffer, call, itr, switched, answer, asking>>
        /\ success \subseteq success' /\ Homed'
    BY <1>0, <1>7 DEF Home, Homed
  <2> QED
    BY <1>0, <2>1 DEF Answers, IsCalibrated, End
<1>8. CASE Switch
  <2>1. /\ running' = (running \ call.stop) \cup call.start
        /\ call'.stop = {} /\ buffer' = buffer
        /\ success' = success \ (call.stop \cap running)
        /\ calibrated' = calibrated \ (call.start \ running)
        /\ UNCHANGED <<itr, switched, answer, asking>>
    BY <1>8 DEF Switch, Apply, Switched, Nothing
  <2>2. Homed'
    BY <1>0, <2>1 DEF Homed
  <2> QED
    BY <1>0, <2>1, <2>2 DEF Answers, IsCalibrated, End
<1>9. CASE Refuse \/ Fail
  <2>1. /\ UNCHANGED <<running, itr, switched, answer, asking, success, calibrated>>
        /\ buffer'.stop \cup call'.stop \subseteq buffer.stop \cup call.stop
    BY <1>9 DEF Refuse, Fail, Lose, Nothing
  <2> QED
    BY <1>0, <1>3, <2>1 DEF Homed
<1>10. CASE UNCHANGED vars
  BY <1>0, <1>3, <1>10 DEF vars, Homed
<1> QED
  BY <1>1, <1>2, <1>4, <1>5, <1>6, <1>7, <1>8, <1>9, <1>10 DEF Next

\* The answers are an invariant.
LEMMA AnswersInvariant ==
    ASSUME Disturb = {}
    PROVE  Safety => [](Places /\ Flags /\ Answers)
<1>1. Init => Flags
  BY DEF Init, Flags
<1>2. Init => Answers
  BY DEF Init, Answers, Homed, IsCalibrated
<1>3. Places /\ Flags /\ Answers /\ [Next]_vars => (Places /\ Flags /\ Answers)'
  BY NextPlaces, NextFlags, NextAnswers
<1> QED
  BY <1>1, <1>2, <1>3, InitPlaces, PTL DEF Safety

\* The steps that pass an entry.
LEMMA PassingSteps ==
    ASSUME Places, [Next]_vars, itr' = itr + 1
    PROVE  /\ CalibrationUpdate /\ QueueAdvance
           /\ itr \in DOMAIN Gather /\ ~IsCalibrated /\ switched
           /\ \A s \in Homing(itr) : answer[s]
<1>1. itr' # itr /\ itr \in 1 .. End
  BY EntryType DEF Places, End
<1>2. ASSUME NEW calibrate \in BOOLEAN, DbusFresh(calibrate) PROVE FALSE
  <2>1. calibrate /\ itr' = 1
    BY <1>1, <1>2 DEF DbusFresh, Reset
  <2> QED
    BY <1>1, <2>1, EntryType DEF End
<1>3. CalibrationUpdate /\ QueueAdvance
  BY <1>1, <1>2, StepKinds
  DEF DbusStale, GameRobotStatus, ManagerUpdate, QueueSwitch, Switch, Refuse, Fail, queueVars
<1> QED
  BY <1>1, <1>3, EntryType DEF QueueAdvance, EntryCalibrated, IsCalibrated, End, Homing

\* CalibratedIsReal: update() passes an entry only if the actuators of all of its
\* controllers are calibrated, however late the answers come and whichever queries
\* fail, unless the queue is reset during a calibration - whatever the remote and the
\* robot's life do while the switch calls succeed, and whichever switch calls fail
\* while nothing disturbs a calibration.
THEOREM PassedEntryIsCalibrated ==
    ASSUME \/ "reset" \notin Disturb /\ ~CallMayFail
           \/ Disturb = {}
    PROVE  Safety => CalibratedIsReal
<1>1. CASE "reset" \notin Disturb /\ ~CallMayFail
  <2>1. Places /\ Flags /\ Course /\ [Next]_vars
          => [itr' = itr + 1 => Gather[itr].start \subseteq calibrated]_vars
    BY PassingSteps, NextKnown, QueueAdvanceKeepsCourse DEF Course, Homing
  <2>2. Safety => [](Places /\ Flags /\ Course)
    BY <1>1, CourseInvariant
  <2> QED
    BY <2>1, <2>2, PTL DEF Safety, CalibratedIsReal
<1>2. CASE Disturb = {}
  <2>1. Places /\ Flags /\ Answers /\ [Next]_vars
          => [itr' = itr + 1 => Gather[itr].start \subseteq calibrated]_vars
    <3> SUFFICES ASSUME Places, Answers, [Next]_vars, itr' = itr + 1
                 PROVE  Gather[itr].start \subseteq calibrated
      OBVIOUS
    <3> QED
      BY PassingSteps, EntryType DEF Answers, Homed, Homing
  <2>2. Safety => [](Places /\ Flags /\ Answers)
    BY <1>2, AnswersInvariant
  <2> QED
    BY <2>1, <2>2, PTL DEF Safety, CalibratedIsReal
<1> QED
  BY <1>1, <1>2
===============================================================================
