-------------------------- MODULE EcatHardware_proofs --------------------------
(***************************************************************************)
(* Proofs about EcatHardware, for every decimation of the bus monitoring   *)
(* and every number of signals, on whatever threads they are delivered.    *)
(***************************************************************************)
EXTENDS EcatHardware, TLAPS

-----------------------------------------------------------------------------
(* Types. *)

\* The starting order names the workers.
LEMMA StartOrderWorkers == \A i \in 0 .. 2 : StartOrder[i + 1] \in Workers
  BY DEF StartOrder, Workers

\* Every worker begins with its first section.
LEMMA FirstSections ==
    \A w \in Workers : First[w] \in {"exchange", "stage", "send"}
  BY DEF First, Workers

\* The orders lead from worker to worker, and out.
LEMMA OrdersLeadOut ==
    \A w \in Workers : /\ StopOrder[w] \in Workers \cup {"shutdown"}
                       /\ DestroyOrder[w] \in Workers \cup {"gone"}
  BY DEF StopOrder, DestroyOrder, Workers

\* What is not a truth value.
Places ==
    /\ main \in {"init", "spin", "gone"} \cup Workers
    /\ started \in 0 .. 3
    /\ running \in [Workers -> BOOLEAN]
    /\ thread \in [Workers -> {"none", "live", "ended"}]
    /\ pc \in [Workers -> Sections]
    /\ lock \in Workers \cup {"free"}
    /\ order \in INIT .. OPERATIONAL /\ slave \in INIT .. OPERATIONAL
    /\ count \in 0 .. Decimation + 1
    /\ sig \in [Threads -> {"none", "waiting", "running", "stuck"}]
    /\ hpc \in {"idle", "shutdown", "publishers"} \cup Workers
    /\ sent \in 0 .. MaxSignals

Flags ==
    /\ cable \in BOOLEAN
    /\ busIsOk \in BOOLEAN
    /\ shut \in BOOLEAN
    /\ down \in BOOLEAN
    /\ early \in BOOLEAN
    /\ byWorker \in BOOLEAN
    /\ reconnecting \in BOOLEAN
    /\ tangled \in BOOLEAN

\* init() leaves the places as typed ...
LEMMA InitPlaces == Init => Places
<1> SUFFICES ASSUME Init PROVE Places
  OBVIOUS
<1>1. pc \in [Workers -> Sections]
  BY DEF Init, First, Workers, Sections
<1>2. /\ started = 0 /\ slave = OPERATIONAL /\ order = OPERATIONAL /\ count = 0 /\ sent = 0
      /\ main = "init" /\ lock = "free" /\ hpc = "idle"
  BY DEF Init
<1>3. /\ started \in 0 .. 3 /\ slave \in INIT .. OPERATIONAL
      /\ order \in INIT .. OPERATIONAL
      /\ count \in 0 .. Decimation + 1 /\ sent \in 0 .. MaxSignals
  BY <1>2, DecimationAssumption, MaxSignalsAssumption DEF INIT, OPERATIONAL
<1>4. /\ running \in [Workers -> BOOLEAN]
      /\ thread \in [Workers -> {"none", "live", "ended"}]
      /\ sig \in [Threads -> {"none", "waiting", "running", "stuck"}]
  BY DEF Init
<1> QED
  BY <1>1, <1>2, <1>3, <1>4 DEF Places

\* A section leaves all but the lock and its thread's place alone.
LEMMA SectionPlaces ==
    ASSUME Places, NEW w \in Workers, NEW from,
           NEW to \in Sections, Section(w, from, to),
           (order \in INIT .. OPERATIONAL)', (slave \in INIT .. OPERATIONAL)',
           (count \in 0 .. Decimation + 1)'
    PROVE  Places'
  BY DEF Places, Section, signalVars

\* The slaves are told to take a state.
LEMMA SetStateType ==
    ASSUME order \in INIT .. OPERATIONAL, NEW s \in INIT .. OPERATIONAL, SetState(s)
    PROVE  order' \in INIT .. OPERATIONAL
  BY DEF SetState

\* ... every step keeps them so ...
LEMMA NextPlaces == Places /\ [Next]_vars => Places'
<1> SUFFICES ASSUME Places, [Next]_vars PROVE Places'
  OBVIOUS
<1> USE DEF Places, workerVars, busVars, signalVars
<1>1. CASE StartWorker
  <2> DEFINE w == StartOrder[started + 1]
  <2>1. w \in Workers /\ First[w] \in {"exchange", "stage", "send"}
    BY <1>1, StartOrderWorkers, FirstSections DEF StartWorker
  <2>2. /\ running' = [running EXCEPT ![w] = TRUE]
        /\ thread' = [thread EXCEPT ![w] = "live"]
        /\ pc' = [pc EXCEPT ![w] = First[w]]
    BY <1>1 DEF StartWorker
  <2> HIDE DEF w
  <2>3. /\ running' \in [Workers -> BOOLEAN]
        /\ thread' \in [Workers -> {"none", "live", "ended"}]
        /\ pc' \in [Workers -> Sections]
    BY <2>1, <2>2 DEF Sections
  <2> QED
    BY <1>1, <2>3 DEF StartWorker
<1>2. CASE InitFails \/ Exit
  BY <1>2 DEF InitFails, Exit, Workers
<1>3. CASE DestroyWorker
  BY <1>3 DEF DestroyWorker
<1>4. CASE DestroyJoins
  BY <1>4, OrdersLeadOut DEF DestroyJoins
<1>5. CASE UpdateWorkerCb
  BY <1>5, SectionPlaces DEF UpdateWorkerCb, Workers, Sections
<1>6. CASE PublishWorkerCb
  BY <1>6, SectionPlaces DEF PublishWorkerCb, Workers, Sections
<1>7. CASE ControlWorkerCb
  <2>1. CASE count > Decimation
    <3>1. PICK to \in {"monitor", "INIT"} : Section("control", "stage", to)
      BY <1>7, <2>1 DEF ControlWorkerCb
    <3> QED
      BY <1>7, <2>1, <3>1, SectionPlaces DEF ControlWorkerCb, Workers, Sections
  <2>2. CASE ~(count > Decimation)
    <3>1. count' \in 0 .. Decimation + 1
      BY <1>7, <2>2, DecimationAssumption DEF ControlWorkerCb
    <3> QED
      BY <1>7, <2>2, <3>1, SectionPlaces DEF ControlWorkerCb, Workers, Sections
  <2> QED
    BY <2>1, <2>2
<1>8. CASE Activate
  <2>1. ASSUME NEW s \in INIT .. OPERATIONAL, NEW ask,
               NEW wait \in Sections, NEW next \in Sections,
               OnActivate(s, ask, wait, next)
        PROVE  Places'
    <3>1. order' \in INIT .. OPERATIONAL /\ UNCHANGED <<slave, count>>
      BY <2>1, SetStateType DEF OnActivate
    <3>2. "monitor" \in Sections
      BY DEF Sections
    <3>3. PICK to \in {wait, next, "monitor"} : \E from : Section("control", from, to)
      BY <2>1, Zenon DEF OnActivate
    <3> QED
      BY <3>1, <3>2, <3>3, SectionPlaces DEF Workers
  <2> QED
    BY <1>8, <2>1 DEF Activate, INIT, PRE_OP, SAFE_OP, OPERATIONAL, Sections
<1>9. CASE BusMonitoring
  <2>1. PICK to \in {"deactivate", "again"} : Section("control", "monitor", to)
    BY <1>9 DEF BusMonitoring
  <2>2. UNCHANGED <<order, slave>> /\ count' \in 0 .. Decimation + 1
    BY <1>9, DecimationAssumption DEF BusMonitoring
  <2> QED
    BY <2>1, <2>2, SectionPlaces DEF Workers, Sections
<1>10. CASE OnDeactivate
  <2>1. order' \in INIT .. OPERATIONAL /\ UNCHANGED <<slave, count>>
    BY <1>10, SetStateType DEF OnDeactivate, INIT, SAFE_OP, OPERATIONAL
  <2>2. PICK to \in {"deactivate?", "again"} : \E from : Section("control", from, to)
    BY <1>10, Zenon DEF OnDeactivate
  <2> QED
    BY <2>1, <2>2, SectionPlaces DEF Workers, Sections
<1>11. ASSUME NEW w \in Workers, Again(w) PROVE Places'
  BY <1>11, FirstSections DEF Again, Sections
<1>12. ASSUME NEW t \in Threads, Signal(t) PROVE Places'
  <2>1. /\ sig' \in [Threads -> {"none", "waiting", "running", "stuck"}]
        /\ sent' \in 0 .. MaxSignals
    BY <1>12, MaxSignalsAssumption DEF Signal
  <2>2. lock' \in Workers \cup {"free"}
    BY <1>12 DEF Signal
  <2> QED
    BY <1>12, <2>1, <2>2 DEF Signal
<1>13. ASSUME NEW t \in Threads, SignaledBegins(t) PROVE Places'
  BY <1>13 DEF SignaledBegins, Workers
<1>14. ASSUME NEW t \in Threads, HandlerStops(t) PROVE Places'
  BY <1>14, OrdersLeadOut DEF HandlerStops
<1>15. ASSUME NEW t \in Threads, HandlerShutsDown(t) PROVE Places'
  <2>1. order' \in INIT .. OPERATIONAL
    BY <1>15, SetStateType DEF HandlerShutsDown, INIT, OPERATIONAL
  <2> QED
    BY <1>15, <2>1 DEF HandlerShutsDown
<1>16. ASSUME NEW t \in Threads, HandlerEnds(t) PROVE Places'
  BY <1>16 DEF HandlerEnds
<1>17. CASE Plug \/ Reach
  BY <1>17 DEF Plug, Reach
<1>18. CASE Watchdog
  BY <1>18 DEF Watchdog, INIT, SAFE_OP, OPERATIONAL
<1>19. CASE UNCHANGED vars
  BY <1>19 DEF vars
<1> QED
  BY <1>1, <1>2, <1>3, <1>4, <1>5, <1>6, <1>7, <1>8, <1>9, <1>10, <1>11, <1>12, <1>13,
     <1>14, <1>15, <1>16, <1>17, <1>18, <1>19
  DEF Next, WorkerRuns, WorkerCb, HandlerRuns

\* ... and so are the truth values, ...
LEMMA InitFlags == Init => Flags
  BY DEF Init, Flags

\* ... in every step.
LEMMA NextFlags == Flags /\ [Next]_vars => Flags'
<1> SUFFICES ASSUME Flags, [Next]_vars PROVE Flags'
  OBVIOUS
<1> USE DEF Flags, busVars, signalVars, histories
<1>1. CASE StartWorker
  BY <1>1, Zenon DEF StartWorker
<1>2. CASE InitFails \/ Exit
  BY <1>2, Zenon DEF InitFails, Exit
<1>3. CASE DestroyWorker \/ DestroyJoins
  BY <1>3, Zenon DEF DestroyWorker, DestroyJoins
<1>4. CASE UpdateWorkerCb \/ PublishWorkerCb
  BY <1>4, Zenon DEF UpdateWorkerCb, PublishWorkerCb, Section
<1>5. CASE ControlWorkerCb
  BY <1>5, Zenon DEF ControlWorkerCb, Section
<1>6. ASSUME NEW s, NEW ask, NEW wait, NEW next, OnActivate(s, ask, wait, next)
      PROVE  Flags'
  <2>1. busIsOk' \in BOOLEAN
    BY <1>6, Zenon DEF OnActivate
  <2> QED
    BY <1>6, <2>1, Zenon DEF OnActivate, Section
<1>7. CASE Activate
  BY <1>6, <1>7, Zenon DEF Activate
<1>8. CASE BusMonitoring
  BY <1>8, Zenon DEF BusMonitoring, Section
<1>9. CASE OnDeactivate
  BY <1>9, Zenon DEF OnDeactivate, Section
<1>10. ASSUME NEW w \in Workers, Again(w) PROVE Flags'
  BY <1>10, Zenon DEF Again
<1>11. ASSUME NEW t \in Threads, Signal(t) PROVE Flags'
  <2>1. /\ early' \in BOOLEAN
        /\ byWorker' \in BOOLEAN
        /\ reconnecting' \in BOOLEAN
        /\ tangled' \in BOOLEAN
    BY <1>11, Zenon DEF Signal
  <2> QED
    BY <1>11, <2>1, Zenon DEF Signal
<1>12. ASSUME NEW t \in Threads, HandlerRuns(t) PROVE Flags'
  <2>1. CASE SignaledBegins(t)
    BY <2>1, Zenon DEF SignaledBegins
  <2>2. CASE HandlerStops(t)
    BY <2>2, Zenon DEF HandlerStops
  <2>3. CASE HandlerShutsDown(t)
    BY <2>3, Zenon DEF HandlerShutsDown
  <2>4. CASE HandlerEnds(t)
    BY <2>4, Zenon DEF HandlerEnds
  <2> QED
    BY <1>12, <2>1, <2>2, <2>3, <2>4 DEF HandlerRuns
<1>13. CASE Plug \/ Reach
  BY <1>13, Zenon DEF Plug, Reach
<1>14. CASE Watchdog
  BY <1>14, Zenon DEF Watchdog
<1>15. CASE UNCHANGED vars
  BY <1>15, Zenon DEF vars
<1> QED
  BY <1>1, <1>2, <1>3, <1>4, <1>5, <1>7, <1>8, <1>9, <1>10, <1>11, <1>12, <1>13, <1>14,
     <1>15
  DEF Next, WorkerRuns, WorkerCb

\* Type correctness: whichever threads the signals interrupt, every variable of
\* the hardware interface, its workers, its bus and its handler keeps its type.
THEOREM TypeCorrect == Safety => []TypeOK
<1>1. Init => Places /\ Flags
  BY InitPlaces, InitFlags
<1>2. Places /\ Flags /\ [Next]_vars => Places' /\ Flags'
  BY NextPlaces, NextFlags
<1>3. Places /\ Flags => TypeOK
  BY Zenon DEF Places, Flags, TypeOK
<1> QED
  BY <1>1, <1>2, <1>3, PTL DEF Safety

-----------------------------------------------------------------------------
(* The signals. *)

\* handleSignal() runs, has run, or is about to.
Called == down \/ hpc # "idle" \/ \E t \in Threads : sig[t] # "none"

\* A signal that is not early finds the workers started, and main() past init().
AllStarted ==
    /\ ~early /\ Called => started = 3
    /\ started = 3 => main # "init"

\* Without a signal to a worker, none of them is interrupted.
OnMain == ~byWorker => \A w \in Workers : sig[w] = "none"

\* The workers that handleSignal() has stopped when its next step is h.
StoppedBefore(h) ==
    {w \in Workers : \/ h \in {"shutdown", "publishers"}
                     \/ h = "control" /\ w # "control"
                     \/ h = "publish" /\ w = "update"}

\* What main() has stopped is joined, and stays so.
Joined ==
    ~early /\ ~byWorker =>
        /\ \A w \in StoppedBefore(hpc) : thread[w] # "live"
        /\ down => \A w \in Workers : thread[w] # "live"

\* The last of them is followed by the slaves' shutdown.
LEMMA StopOrderStops ==
    ASSUME NEW h \in Workers
    PROVE  StoppedBefore(StopOrder[h]) = StoppedBefore(h) \cup {h}
  BY DEF StoppedBefore, StopOrder, Workers

\* What a signal records, when nothing is recorded.
LEMMA SignalRecords ==
    ASSUME NEW t \in Threads, Signal(t)
    PROVE  /\ ~early' => ~early /\ ~(started < 3)
           /\ ~byWorker' => ~byWorker /\ t \notin Workers
           /\ ~reconnecting' => ~reconnecting /\ (t # "control" \/ busIsOk)
  BY Zenon DEF Signal

\* A section takes no part in signals.
LEMMA SectionSignals ==
    ASSUME NEW w, NEW from, NEW to, Section(w, from, to)
    PROVE  /\ UNCHANGED <<main, started, running, thread, sig, hpc, down, early>>
           /\ UNCHANGED <<byWorker, reconnecting>>
           /\ pc[w] = from /\ pc' = [pc EXCEPT ![w] = to]
           /\ thread[w] = "live" /\ sig[w] = "none"
  BY DEF Section, InSection, Awake, signalVars, histories

\* Each of the workers' callbacks is a section of its worker, and those of the
\* control worker alone touch the bus.
LEMMA WorkerSections ==
    ASSUME NEW w \in Workers, WorkerCb(w)
    PROVE  \E from, to : Section(w, from, to)
<1>1. CASE w = "update" /\ UpdateWorkerCb
  BY <1>1, Zenon DEF UpdateWorkerCb
<1>2. CASE w = "publish" /\ PublishWorkerCb
  BY <1>2, Zenon DEF PublishWorkerCb
<1>3. CASE w = "control" /\ ControlWorkerCb
  BY <1>3, Zenon DEF ControlWorkerCb
<1>4. CASE w = "control" /\ Activate
  BY <1>4, Zenon DEF Activate, OnActivate
<1>5. CASE w = "control" /\ (BusMonitoring \/ OnDeactivate)
  BY <1>5, Zenon DEF BusMonitoring, OnDeactivate
<1> QED
  BY <1>1, <1>2, <1>3, <1>4, <1>5 DEF WorkerCb

\* The steps keep AllStarted ...
LEMMA NextAllStarted == Places /\ AllStarted /\ [Next]_vars => AllStarted'
<1> SUFFICES ASSUME Places, AllStarted, [Next]_vars PROVE AllStarted'
  OBVIOUS
<1> USE DEF AllStarted, Called, signalVars, histories
<1>1. CASE StartWorker
  BY <1>1 DEF StartWorker, Places
<1>2. CASE InitFails \/ Exit
  BY <1>2 DEF InitFails, Exit
<1>3. CASE DestroyWorker \/ DestroyJoins
  BY <1>3, OrdersLeadOut DEF DestroyWorker, DestroyJoins, Workers
<1>4. ASSUME NEW w \in Workers, WorkerCb(w) PROVE AllStarted'
  BY <1>4, WorkerSections, SectionSignals
<1>5. ASSUME NEW w \in Workers, Again(w) PROVE AllStarted'
  BY <1>5 DEF Again
<1>6. ASSUME NEW t \in Threads, Signal(t) PROVE AllStarted'
  <2>1. ~early' => started = 3
    BY <1>6, SignalRecords DEF Places
  <2> QED
    BY <1>6, <2>1 DEF Signal
<1>7. ASSUME NEW t \in Threads, SignaledBegins(t) \/ HandlerStops(t) PROVE AllStarted'
  BY <1>7 DEF SignaledBegins, HandlerStops
<1>8. ASSUME NEW t \in Threads, HandlerShutsDown(t) \/ HandlerEnds(t) PROVE AllStarted'
  BY <1>8 DEF HandlerShutsDown, HandlerEnds
<1>9. CASE Reach \/ Plug \/ Watchdog
  BY <1>9 DEF Reach, Plug, Watchdog
<1>10. CASE UNCHANGED vars
  BY <1>10 DEF vars
<1> QED
  BY <1>1, <1>2, <1>3, <1>4, <1>5, <1>6, <1>7, <1>8, <1>9, <1>10
  DEF Next, WorkerRuns, HandlerRuns

\* ... and OnMain ...
LEMMA NextOnMain == Places /\ OnMain /\ [Next]_vars => OnMain'
<1> SUFFICES ASSUME Places, OnMain, [Next]_vars PROVE OnMain'
  OBVIOUS
<1> USE DEF OnMain, signalVars, histories
<1>1. CASE StartWorker \/ InitFails \/ Exit
  BY <1>1 DEF StartWorker, InitFails, Exit
<1>2. CASE DestroyWorker \/ DestroyJoins
  BY <1>2 DEF DestroyWorker, DestroyJoins
<1>3. ASSUME NEW w \in Workers, WorkerCb(w) PROVE OnMain'
  BY <1>3, WorkerSections, SectionSignals
<1>4. ASSUME NEW w \in Workers, Again(w) PROVE OnMain'
  BY <1>4 DEF Again
<1>5. ASSUME NEW t \in Threads, Signal(t) PROVE OnMain'
  BY <1>5, SignalRecords DEF Signal, Places, Threads, Workers
<1>6. ASSUME NEW t \in Threads, SignaledBegins(t) PROVE OnMain'
  BY <1>6 DEF SignaledBegins, Places, Threads
<1>7. ASSUME NEW t \in Threads, HandlerStops(t) \/ HandlerShutsDown(t) PROVE OnMain'
  BY <1>7 DEF HandlerStops, HandlerShutsDown
<1>8. ASSUME NEW t \in Threads, HandlerEnds(t) PROVE OnMain'
  BY <1>8 DEF HandlerEnds, Places, Threads
<1>9. CASE Reach \/ Plug \/ Watchdog
  BY <1>9 DEF Reach, Plug, Watchdog
<1>10. CASE UNCHANGED vars
  BY <1>10 DEF vars
<1> QED
  BY <1>1, <1>2, <1>3, <1>4, <1>5, <1>6, <1>7, <1>8, <1>9, <1>10
  DEF Next, WorkerRuns, HandlerRuns

\* ... and what is joined.
LEMMA NextJoined ==
    Places /\ AllStarted /\ OnMain /\ Joined /\ [Next]_vars => Joined'
<1> SUFFICES ASSUME Places, AllStarted, OnMain, Joined, [Next]_vars, ~early', ~byWorker'
             PROVE  /\ \A w \in StoppedBefore(hpc') : thread'[w] # "live"
                    /\ down' => \A w \in Workers : thread'[w] # "live"
  BY DEF Joined, StoppedBefore
<1> DEFINE Goal == /\ \A w \in StoppedBefore(hpc') : thread'[w] # "live"
                   /\ down' => \A w \in Workers : thread'[w] # "live"
<1> USE DEF Joined, signalVars, histories
<1>1. CASE StartWorker
  <2>1. ~early /\ started # 3
    BY <1>1 DEF StartWorker
  <2>2. hpc = "idle" /\ ~down /\ UNCHANGED <<hpc, down>>
    BY <1>1, <2>1 DEF StartWorker, AllStarted, Called
  <2> QED
    BY <2>2 DEF StoppedBefore
<1>2. CASE InitFails \/ Exit
  BY <1>2 DEF InitFails, Exit, workerVars
<1>3. CASE DestroyWorker \/ DestroyJoins
  BY <1>3 DEF DestroyWorker, DestroyJoins, Places, StoppedBefore
<1>4. ASSUME NEW w \in Workers, WorkerCb(w) PROVE Goal
  BY <1>4, WorkerSections, SectionSignals
<1>5. ASSUME NEW w \in Workers, Again(w) PROVE Goal
  BY <1>5 DEF Again, Places, StoppedBefore
<1>6. ASSUME NEW t \in Threads, Signal(t) PROVE Goal
  BY <1>6, SignalRecords DEF Signal, workerVars
<1>7. ASSUME NEW t \in Threads, SignaledBegins(t) PROVE Goal
  BY <1>7 DEF SignaledBegins, workerVars, StoppedBefore
<1>8. ASSUME NEW t \in Threads, HandlerStops(t) PROVE Goal
  <2>1. hpc \in Workers /\ t \notin Workers /\ UNCHANGED <<down, early, byWorker>>
    BY <1>8 DEF HandlerStops, OnMain
  <2>2. CASE UNCHANGED <<thread, hpc>>
    BY <2>1, <2>2
  <2>3. CASE /\ thread[hpc] # "live"
             /\ thread' = [thread EXCEPT ![hpc] = "none"]
             /\ hpc' = StopOrder[hpc]
    BY <2>1, <2>3, StopOrderStops DEF Places, StoppedBefore
  <2> QED
    BY <1>8, <2>1, <2>2, <2>3 DEF HandlerStops
<1>9. ASSUME NEW t \in Threads, HandlerShutsDown(t) PROVE Goal
  BY <1>9 DEF HandlerShutsDown, workerVars, StoppedBefore
<1>10. ASSUME NEW t \in Threads, HandlerEnds(t) PROVE Goal
  BY <1>10 DEF HandlerEnds, workerVars, StoppedBefore
<1>11. CASE Reach \/ Plug \/ Watchdog
  BY <1>11 DEF Reach, Plug, Watchdog, workerVars
<1>12. CASE UNCHANGED vars
  BY <1>12 DEF vars, workerVars
<1> QED
  BY <1>1, <1>2, <1>3, <1>4, <1>5, <1>6, <1>7, <1>8, <1>9, <1>10, <1>11, <1>12
  DEF Next, WorkerRuns, HandlerRuns

\* DestroyedWithoutThreads: after a signal that main() has handled in time, the
\* destructor destroys the slave managers and publishers under no running worker.
THEOREM DestructorFindsNoThread == Safety => []DestroyedWithoutThreads
<1>1. Init => Places /\ AllStarted /\ OnMain /\ Joined
  <2>1. Init => AllStarted /\ OnMain
    BY DEF Init, AllStarted, Called, OnMain, Threads
  <2>2. Init => Joined
    BY DEF Init, Joined, StoppedBefore
  <2> QED
    BY <2>1, <2>2, InitPlaces
<1>2. Places /\ AllStarted /\ OnMain /\ Joined /\ [Next]_vars
        => (Places /\ AllStarted /\ OnMain /\ Joined)'
  BY NextPlaces, NextAllStarted, NextOnMain, NextJoined
<1>3. Joined => DestroyedWithoutThreads
  BY DEF Joined, DestroyedWithoutThreads
<1> QED
  BY <1>1, <1>2, <1>3, PTL DEF Safety

-----------------------------------------------------------------------------
(* The slaves after a shutdown. *)

\* The sections of onActivate().
Ups == {"INIT", "INIT?", "PRE_OP", "PRE_OP?", "SAFE_OP", "SAFE_OP?", "OPERATIONAL",
        "OPERATIONAL?"}

\* The slaves go up state by state, and only onActivate() takes them to PRE_OP.
Climb ==
    /\ order <= slave + 1
    /\ pc["control"] = "PRE_OP" => slave <= PRE_OP /\ order <= PRE_OP
    /\ order = PRE_OP => slave <= PRE_OP

\* How busIsOk_ goes with the place of the control worker, with the slaves, and
\* with a signal that interrupts the control worker.
Phases ==
    /\ pc["control"] \in {"deactivate", "deactivate?"} => busIsOk
    /\ pc["control"] \in Ups => ~busIsOk
    /\ busIsOk => slave # PRE_OP /\ order # PRE_OP
    /\ ~reconnecting /\ sig["control"] # "none" => busIsOk

\* A control worker that is not going to activate the bus again: it has ended, or
\* ends after this cycle, in which it may deactivate the bus but not activate it.
Harmless ==
    \/ thread["control"] # "live"
    \/ /\ ~running["control"]
       /\ pc["control"] \notin Ups
       /\ busIsOk \/ pc["control"] = "again"

\* handleSignal() has stopped the control worker.
ControlStopped == down \/ hpc \in {"shutdown", "publishers"}

Quiet == ~early /\ ~reconnecting /\ ControlStopped => Harmless

\* The control worker alone knows of the bus.
LEMMA OtherSections ==
    ASSUME Places, NEW w \in Workers \ {"control"}, WorkerCb(w)
    PROVE  /\ UNCHANGED <<order, slave, busIsOk>> /\ pc'["control"] = pc["control"]
           /\ UNCHANGED <<main, started, running, thread, sig, hpc, down, early>>
           /\ UNCHANGED <<byWorker, reconnecting>>
<1>1. UpdateWorkerCb \/ PublishWorkerCb
  BY DEF WorkerCb
<1>2. UNCHANGED <<order, slave, busIsOk>> /\ pc'["control"] = pc["control"]
  BY <1>1, SectionSignals DEF UpdateWorkerCb, PublishWorkerCb, busVars, Places, Workers
<1> QED
  BY <1>2, WorkerSections, SectionSignals

\* What a step of onActivate() does to the bus: it asks for a state and waits, or
\* finds it reached and goes on, or gives up.
LEMMA ActivateSteps ==
    ASSUME Places, Activate
    PROVE  /\ pc["control"] \in Ups
           /\ UNCHANGED <<slave, thread, running, sig, hpc, down, early, reconnecting>>
           /\ \/ /\ pc'["control"] \in Ups \ {"PRE_OP"}
                 /\ UNCHANGED busIsOk
                 /\ \/ UNCHANGED order
                    \/ \E s \in {INIT, SAFE_OP, OPERATIONAL} : SetState(s)
                    \/ pc["control"] = "PRE_OP" /\ SetState(PRE_OP)
              \/ /\ pc'["control"] \in Ups
                 /\ (pc'["control"] = "PRE_OP" => slave = INIT)
                 /\ ~busIsOk' /\ UNCHANGED order
              \/ /\ pc'["control"] = "monitor"
                 /\ UNCHANGED order
                 /\ (UNCHANGED busIsOk \/ slave = OPERATIONAL)
<1> DEFINE Asks == \/ UNCHANGED order
                   \/ \E s \in {INIT, SAFE_OP, OPERATIONAL} : SetState(s)
                   \/ pc["control"] = "PRE_OP" /\ SetState(PRE_OP)
<1> USE DEF Places, Workers
<1>1. ASSUME NEW s \in INIT .. OPERATIONAL, NEW ask \in Ups, NEW wait \in Ups \ {"PRE_OP"},
             NEW next \in Ups \cup {"monitor"}, OnActivate(s, ask, wait, next),
             s = PRE_OP => ask = "PRE_OP", next = "PRE_OP" => s = INIT,
             (next = "monitor") = (s = OPERATIONAL)
      PROVE  /\ pc["control"] \in Ups
             /\ UNCHANGED <<slave, thread, running, sig, hpc, down, early, reconnecting>>
             /\ \/ pc'["control"] \in Ups \ {"PRE_OP"} /\ UNCHANGED busIsOk /\ Asks
                \/ /\ pc'["control"] \in Ups
                   /\ (pc'["control"] = "PRE_OP" => slave = INIT)
                   /\ ~busIsOk' /\ UNCHANGED order
                \/ /\ pc'["control"] = "monitor"
                   /\ UNCHANGED order
                   /\ (UNCHANGED busIsOk \/ slave = OPERATIONAL)
  <2>1. UNCHANGED slave
    BY <1>1, Zenon DEF OnActivate
  <2>2. CASE Section("control", ask, wait) /\ SetState(s) /\ UNCHANGED busIsOk
    <3>1. s \in {INIT, SAFE_OP, OPERATIONAL} \/ (pc["control"] = "PRE_OP" /\ s = PRE_OP)
      BY <1>1, <2>2, SectionSignals DEF INIT, PRE_OP, SAFE_OP, OPERATIONAL
    <3>2. Asks
      BY <2>2, <3>1, Zenon
    <3> HIDE DEF Asks
    <3> QED
      BY <2>1, <2>2, <3>2, SectionSignals
  <2>3. CASE /\ Section("control", wait, next) /\ Reached(s) /\ busIsOk' = (s = OPERATIONAL)
             /\ UNCHANGED order
    <3>1. slave = s
      BY <2>3 DEF Reached
    <3>2. CASE s = OPERATIONAL
      BY <1>1, <2>1, <2>3, <3>1, <3>2, SectionSignals
    <3>3. CASE s # OPERATIONAL
      <4>1. ~busIsOk'
        BY <2>3, <3>3, Zenon
      <4> QED
        BY <1>1, <2>1, <2>3, <3>1, <3>3, <4>1, SectionSignals
    <3> QED
      BY <3>2, <3>3
  <2>4. CASE /\ Section("control", wait, "monitor") /\ TimesOut(s)
             /\ UNCHANGED <<order, busIsOk>>
    BY <2>1, <2>4, SectionSignals
  <2> HIDE DEF Asks
  <2> QED
    BY <1>1, <2>2, <2>3, <2>4, Zenon DEF OnActivate
<1>2. CASE OnActivate(INIT, "INIT", "INIT?", "PRE_OP")
  BY <1>1, <1>2 DEF Ups, INIT, PRE_OP, SAFE_OP, OPERATIONAL
<1>3. CASE OnActivate(PRE_OP, "PRE_OP", "PRE_OP?", "SAFE_OP")
  BY <1>1, <1>3 DEF Ups, INIT, PRE_OP, SAFE_OP, OPERATIONAL
<1>4. CASE OnActivate(SAFE_OP, "SAFE_OP", "SAFE_OP?", "OPERATIONAL")
  BY <1>1, <1>4 DEF Ups, INIT, PRE_OP, SAFE_OP, OPERATIONAL
<1>5. CASE OnActivate(OPERATIONAL, "OPERATIONAL", "OPERATIONAL?", "monitor")
  BY <1>1, <1>5 DEF Ups, INIT, PRE_OP, SAFE_OP, OPERATIONAL
<1> QED
  BY <1>2, <1>3, <1>4, <1>5 DEF Activate

\* What a step of onDeactivate() does to it.
LEMMA DeactivateSteps ==
    ASSUME Places, OnDeactivate
    PROVE  /\ pc["control"] \in {"deactivate", "deactivate?"}
           /\ UNCHANGED <<slave, thread, running, sig, hpc, down, early, reconnecting>>
           /\ \/ pc'["control"] = "deactivate?" /\ UNCHANGED busIsOk /\ SetState(SAFE_OP)
              \/ pc'["control"] = "again" /\ ~busIsOk' /\ UNCHANGED order
<1> USE DEF Places, Workers
<1>1. UNCHANGED slave
  BY DEF OnDeactivate
<1>2. CASE /\ Section("control", "deactivate", "deactivate?") /\ SetState(SAFE_OP)
           /\ UNCHANGED busIsOk
  BY <1>1, <1>2, SectionSignals
<1>3. CASE /\ Section("control", "deactivate?", "again") /\ busIsOk' = FALSE
           /\ UNCHANGED order
  BY <1>1, <1>3, SectionSignals
<1> QED
  BY <1>2, <1>3, Zenon DEF OnDeactivate

\* Where a section of the control worker that is not within them may lead.
LEMMA MonitorSteps ==
    ASSUME Places, ControlWorkerCb \/ BusMonitoring
    PROVE  /\ pc["control"] \notin Ups
           /\ UNCHANGED <<order, slave, busIsOk, thread, running, sig, hpc, down, early>>
           /\ UNCHANGED reconnecting
           /\ pc'["control"] \in {"monitor", "INIT", "again", "deactivate"}
           /\ (pc'["control"] = "INIT" => ~busIsOk)
           /\ (pc'["control"] = "deactivate" => busIsOk)
<1> USE DEF Places, Workers
<1>1. CASE ControlWorkerCb
  <2>1. PICK to \in {"monitor", "INIT", "again"} :
            Section("control", "stage", to) /\ (to = "INIT" => ~busIsOk)
    BY <1>1 DEF ControlWorkerCb
  <2> QED
    BY <1>1, <2>1, SectionSignals DEF ControlWorkerCb, Ups
<1>2. CASE BusMonitoring
  <2>1. PICK to \in {"deactivate", "again"} :
            Section("control", "monitor", to) /\ (to = "deactivate" => busIsOk)
    BY <1>2 DEF BusMonitoring
  <2> QED
    BY <1>2, <2>1, SectionSignals DEF BusMonitoring, Ups
<1> QED
  BY <1>1, <1>2

\* The other steps leave the control worker where it is, or at its beginning.
LEMMA OtherSteps ==
    ASSUME Places, [Next]_vars, ~WorkerCb("control")
    PROVE  pc'["control"] \in {pc["control"], "exchange", "stage", "send"}
<1> USE DEF workerVars
<1>1. CASE StartWorker
  <2> DEFINE w == StartOrder[started + 1]
  <2>1. w \in Workers /\ First[w] \in {"exchange", "stage", "send"}
    BY <1>1, StartOrderWorkers, FirstSections DEF StartWorker, Places
  <2>2. pc' = [pc EXCEPT ![w] = First[w]]
    BY <1>1 DEF StartWorker
  <2> HIDE DEF w
  <2> QED
    BY <2>1, <2>2 DEF Places, Workers
<1>2. ASSUME NEW w \in Workers, Again(w)
      PROVE  pc'["control"] \in {pc["control"], "exchange", "stage", "send"}
  BY <1>2, FirstSections DEF Again, Places, Workers
<1>3. ASSUME NEW w \in Workers \ {"control"}, WorkerCb(w)
      PROVE  pc'["control"] = pc["control"]
  BY <1>3, OtherSections
<1>4. CASE InitFails \/ Exit \/ DestroyWorker \/ DestroyJoins \/ Reach \/ Plug \/ Watchdog
  BY <1>4 DEF InitFails, Exit, DestroyWorker, DestroyJoins, Reach, Plug, Watchdog
<1>5. ASSUME NEW t \in Threads, Signal(t) \/ HandlerRuns(t)
      PROVE  pc'["control"] = pc["control"]
  BY <1>5 DEF Signal, HandlerRuns, SignaledBegins, HandlerStops, HandlerShutsDown,
              HandlerEnds
<1>6. CASE UNCHANGED vars
  BY <1>6 DEF vars
<1> QED
  BY <1>1, <1>2, <1>3, <1>4, <1>5, <1>6 DEF Next, WorkerRuns

\* What the steps other than the control worker's do to the bus.
LEMMA OtherBusSteps ==
    ASSUME Places, [Next]_vars, ~WorkerCb("control")
    PROVE  /\ UNCHANGED busIsOk
           /\ \/ UNCHANGED <<order, slave>>
              \/ SetState(INIT) /\ UNCHANGED slave
              \/ slave' = order /\ UNCHANGED order
              \/ /\ slave = OPERATIONAL /\ slave' = SAFE_OP
                 /\ (UNCHANGED order \/ order' = SAFE_OP)
<1> USE DEF busVars
<1>1. CASE StartWorker \/ InitFails \/ Exit \/ DestroyWorker \/ DestroyJoins
  BY <1>1 DEF StartWorker, InitFails, Exit, DestroyWorker, DestroyJoins
<1>2. ASSUME NEW w \in Workers, Again(w) PROVE UNCHANGED <<busIsOk, order, slave>>
  BY <1>2 DEF Again
<1>3. ASSUME NEW w \in Workers \ {"control"}, WorkerCb(w)
      PROVE  UNCHANGED <<busIsOk, order, slave>>
  BY <1>3, OtherSections
<1>4. CASE Reach \/ Plug \/ Watchdog
  BY <1>4 DEF Reach, Plug, Watchdog
<1>5. ASSUME NEW t \in Threads,
             Signal(t) \/ SignaledBegins(t) \/ HandlerStops(t) \/ HandlerEnds(t)
      PROVE  UNCHANGED <<busIsOk, order, slave>>
  BY <1>5 DEF Signal, SignaledBegins, HandlerStops, HandlerEnds
<1>6. ASSUME NEW t \in Threads, HandlerShutsDown(t)
      PROVE  UNCHANGED <<busIsOk, slave>> /\ (UNCHANGED order \/ SetState(INIT))
  BY <1>6 DEF HandlerShutsDown
<1>7. CASE UNCHANGED vars
  BY <1>7 DEF vars
<1> QED
  BY <1>1, <1>2, <1>3, <1>4, <1>5, <1>6, <1>7 DEF Next, WorkerRuns, HandlerRuns

\* The slaves climb as they should, ...
LEMMA NextClimb == Places /\ Climb /\ [Next]_vars => Climb'
<1> SUFFICES ASSUME Places, Climb, [Next]_vars PROVE Climb'
  OBVIOUS
<1> USE DEF Climb, SetState, INIT, PRE_OP, SAFE_OP, OPERATIONAL
<1>1. order \in 0 .. 3 /\ slave \in 0 .. 3
  BY DEF Places
<1>2. CASE Activate
  BY <1>1, <1>2, ActivateSteps
<1>3. CASE OnDeactivate
  BY <1>1, <1>3, DeactivateSteps
<1>4. CASE ControlWorkerCb \/ BusMonitoring
  BY <1>1, <1>4, MonitorSteps
<1>5. CASE ~WorkerCb("control")
  <2>1. pc'["control"] = "PRE_OP" => pc["control"] = "PRE_OP"
    BY <1>5, OtherSteps
  <2> QED
    BY <1>1, <1>5, <2>1, OtherBusSteps
<1> QED
  BY <1>2, <1>3, <1>4, <1>5 DEF WorkerCb

\* ... every step keeps the phases ...
LEMMA NextPhases == Places /\ Climb /\ Phases /\ [Next]_vars => Phases'
<1> SUFFICES ASSUME Places, Climb, Phases, [Next]_vars PROVE Phases'
  OBVIOUS
<1>1. ~reconnecting' /\ sig'["control"] # "none" => busIsOk'
  <2>1. CASE WorkerCb("control")
    <3>1. PICK from, to : Section("control", from, to)
      BY <2>1, WorkerSections DEF Workers
    <3> QED
      BY <3>1, SectionSignals
  <2>2. CASE ~WorkerCb("control")
    <3>1. UNCHANGED busIsOk
      BY <2>2, OtherBusSteps
    <3>2. CASE UNCHANGED <<sig, reconnecting>>
      BY <3>1, <3>2 DEF Phases
    <3>3. ASSUME NEW t \in Threads, Signal(t)
          PROVE  ~reconnecting' /\ sig'["control"] # "none" => busIsOk'
      <4>1. t # "control" => sig'["control"] = sig["control"]
        BY <3>3 DEF Signal, Places, Threads, Workers
      <4> QED
        BY <3>1, <3>3, <4>1, SignalRecords DEF Phases
    <3>4. ASSUME NEW t \in Threads, SignaledBegins(t) \/ HandlerEnds(t)
          PROVE  ~reconnecting' /\ sig'["control"] # "none" => busIsOk'
      <4>1. UNCHANGED reconnecting
        BY <3>4 DEF SignaledBegins, HandlerEnds, histories
      <4>2. sig'["control"] # "none" => sig["control"] # "none"
        BY <3>4 DEF SignaledBegins, HandlerEnds, Places, Threads, Workers
      <4> QED
        BY <3>1, <4>1, <4>2 DEF Phases
    <3>5. ASSUME NEW t \in Threads, HandlerStops(t) \/ HandlerShutsDown(t)
          PROVE  UNCHANGED <<sig, reconnecting>>
      BY <3>5 DEF HandlerStops, HandlerShutsDown, histories
    <3>6. ASSUME NEW w \in Workers \ {"control"}, WorkerCb(w)
          PROVE  UNCHANGED <<sig, reconnecting>>
      BY <3>6, OtherSections
    <3>7. ASSUME NEW w \in Workers, Again(w) PROVE UNCHANGED <<sig, reconnecting>>
      BY <3>7 DEF Again, signalVars, histories
    <3>8. CASE StartWorker \/ InitFails \/ Exit \/ DestroyWorker \/ DestroyJoins
      BY <3>2, <3>8 DEF StartWorker, InitFails, Exit, DestroyWorker, DestroyJoins,
                        signalVars, histories
    <3>9. CASE Reach \/ Plug \/ Watchdog
      BY <3>2, <3>9 DEF Reach, Plug, Watchdog, signalVars, histories
    <3>10. CASE UNCHANGED vars
      BY <3>2, <3>10 DEF vars, signalVars, histories
    <3> QED
      BY <2>2, <3>2, <3>3, <3>4, <3>5, <3>6, <3>7, <3>8, <3>9, <3>10
      DEF Next, WorkerRuns, HandlerRuns
  <2> QED
    BY <2>1, <2>2
<1>2. order \in 0 .. 3 /\ slave \in 0 .. 3
  BY DEF Places, INIT, OPERATIONAL
<1> DEFINE Rest == /\ pc'["control"] \in {"deactivate", "deactivate?"} => busIsOk'
                   /\ pc'["control"] \in Ups => ~busIsOk'
                   /\ busIsOk' => slave' # PRE_OP /\ order' # PRE_OP
<1>3. ASSUME Activate PROVE Rest
  BY <1>2, <1>3, ActivateSteps DEF Phases, Climb, Ups, PRE_OP, OPERATIONAL
<1>4. ASSUME OnDeactivate PROVE Rest
  BY <1>2, <1>4, DeactivateSteps DEF Phases, Ups, SetState, PRE_OP, SAFE_OP
<1>5. ASSUME ControlWorkerCb \/ BusMonitoring PROVE Rest
  BY <1>5, MonitorSteps DEF Phases, Ups
<1>6. ASSUME ~WorkerCb("control") PROVE Rest
  <2>1. /\ pc'["control"] \in {"deactivate", "deactivate?"} => pc["control"] = pc'["control"]
        /\ pc'["control"] \in Ups => pc["control"] \in Ups
    BY <1>6, OtherSteps DEF Ups
  <2> QED
    BY <1>2, <1>6, <2>1, OtherBusSteps DEF Phases, SetState, INIT, PRE_OP, SAFE_OP
<1>7. Rest
  BY <1>3, <1>4, <1>5, <1>6 DEF WorkerCb
<1> QED
  BY <1>1, <1>7 DEF Phases

\* ... and a control worker that was stopped stays harmless.
LEMMA NextQuiet == Places /\ AllStarted /\ Phases /\ Quiet /\ [Next]_vars => Quiet'
<1> SUFFICES ASSUME Places, AllStarted, Phases, Quiet, [Next]_vars,
                    ~early', ~reconnecting', ControlStopped'
             PROVE  Harmless'
  BY DEF Quiet
<1> USE DEF workerVars, busVars, signalVars, histories
<1>1. CASE StartWorker
  BY <1>1 DEF StartWorker, AllStarted, Called, ControlStopped
<1>2. CASE InitFails \/ Exit
  BY <1>2 DEF InitFails, Exit, Quiet, Harmless, ControlStopped
<1>3. CASE DestroyWorker \/ DestroyJoins
  BY <1>3 DEF DestroyWorker, DestroyJoins, Quiet, Harmless, ControlStopped, Places, Workers
<1>4. ASSUME NEW w \in Workers \ {"control"}, WorkerCb(w) PROVE Harmless'
  BY <1>4, OtherSections DEF Quiet, Harmless, ControlStopped
<1>5. ASSUME WorkerCb("control") PROVE Harmless'
  <2>1. PICK from, to : Section("control", from, to)
    BY <1>5, WorkerSections DEF Workers
  <2>2. /\ Harmless /\ thread["control"] = "live" /\ ~running["control"]
        /\ UNCHANGED <<running, thread>>
    BY <2>1, SectionSignals DEF Quiet, Harmless, ControlStopped
  <2>3. pc["control"] # "again" /\ pc["control"] \notin Ups /\ busIsOk
    BY <2>1, <2>2 DEF Harmless, Section, InSection
  <2>4. CASE ControlWorkerCb \/ BusMonitoring
    BY <2>2, <2>3, <2>4, MonitorSteps DEF Harmless, Ups
  <2>5. CASE Activate
    BY <2>3, <2>5, ActivateSteps
  <2>6. CASE OnDeactivate
    BY <2>2, <2>3, <2>6, DeactivateSteps DEF Harmless, Ups
  <2> QED
    BY <1>5, <2>4, <2>5, <2>6 DEF WorkerCb
<1>6. ASSUME NEW w \in Workers, Again(w) PROVE Harmless'
  BY <1>6 DEF Again, Quiet, Harmless, ControlStopped, Places, Workers
<1>7. ASSUME NEW t \in Threads, Signal(t) PROVE Harmless'
  BY <1>7, SignalRecords DEF Signal, Quiet, Harmless, ControlStopped
<1>8. ASSUME NEW t \in Threads, SignaledBegins(t) PROVE Harmless'
  BY <1>8 DEF SignaledBegins, Quiet, Harmless, ControlStopped, Workers
<1>9. ASSUME NEW t \in Threads, HandlerStops(t) PROVE Harmless'
  <2>1. UNCHANGED <<pc, busIsOk, sig, down, early, reconnecting>> /\ hpc \in Workers
    BY <1>9 DEF HandlerStops
  <2>2. CASE ControlStopped
    BY <1>9, <2>1, <2>2 DEF HandlerStops, Quiet, Harmless, Places, Workers
  <2>3. CASE ~ControlStopped
    <3>1. /\ hpc = "control" /\ ~running["control"] /\ UNCHANGED running
          /\ \/ t = "control" /\ UNCHANGED thread
             \/ thread' = [thread EXCEPT !["control"] = "none"]
      BY <1>9, <2>1, <2>3 DEF HandlerStops, ControlStopped, StopOrder, Workers
    <3>2. CASE t = "control" /\ UNCHANGED thread
      <4>1. sig["control"] # "none"
        BY <1>9, <3>2 DEF HandlerStops
      <4>2. busIsOk /\ pc["control"] \notin Ups
        BY <2>1, <4>1 DEF Phases
      <4> QED
        BY <2>1, <3>1, <4>2 DEF Harmless
    <3>3. CASE thread' = [thread EXCEPT !["control"] = "none"]
      BY <3>3 DEF Harmless, Places, Workers
    <3> QED
      BY <3>1, <3>2, <3>3
  <2> QED
    BY <2>2, <2>3
<1>10. ASSUME NEW t \in Threads, HandlerShutsDown(t) \/ HandlerEnds(t) PROVE Harmless'
  BY <1>10 DEF HandlerShutsDown, HandlerEnds, Quiet, Harmless, ControlStopped
<1>11. CASE Reach \/ Plug \/ Watchdog
  BY <1>11 DEF Reach, Plug, Watchdog, Quiet, Harmless, ControlStopped
<1>12. CASE UNCHANGED vars
  BY <1>12 DEF vars, Quiet, Harmless, ControlStopped
<1> QED
  BY <1>1, <1>2, <1>3, <1>4, <1>5, <1>6, <1>7, <1>8, <1>9, <1>10, <1>11, <1>12
  DEF Next, WorkerRuns, HandlerRuns

\* What brings the slaves up is the control worker, and only by activating.
LEMMA OnlyActivates ==
    ASSUME Places, Climb, Phases, Quiet, down, ~early, ~reconnecting, [Next]_vars
    PROVE  Height' <= Height
<1>1. order \in 0 .. 3 /\ slave \in 0 .. 3
  BY DEF Places, INIT, OPERATIONAL
<1>2. Harmless
  BY DEF Quiet, ControlStopped
<1>3. CASE WorkerCb("control")
  <2>1. PICK from, to : Section("control", from, to)
    BY <1>3, WorkerSections DEF Workers
  <2>2. pc["control"] \notin Ups
    BY <1>2, <2>1, SectionSignals DEF Harmless
  <2>3. CASE Activate
    BY <2>2, <2>3, ActivateSteps
  <2>4. CASE OnDeactivate
    <3>1. slave # PRE_OP /\ UNCHANGED slave /\ (UNCHANGED order \/ SetState(SAFE_OP))
      BY <2>4, DeactivateSteps DEF Phases
    <3> QED
      BY <1>1, <3>1 DEF Height, SetState, PRE_OP, SAFE_OP
  <2>5. CASE ControlWorkerCb \/ BusMonitoring
    <3>1. UNCHANGED <<order, slave>>
      BY <2>5, MonitorSteps
    <3> QED
      BY <1>1, <3>1 DEF Height
  <2> QED
    BY <1>3, <2>3, <2>4, <2>5 DEF WorkerCb
<1>4. CASE ~WorkerCb("control")
  BY <1>1, <1>4, OtherBusSteps DEF Height, SetState, INIT, SAFE_OP, OPERATIONAL
<1> QED
  BY <1>3, <1>4

\* StaysDown: once handleSignal() has run to its end, no interleaving of the
\* control worker's last cycle, the reconnection and further signals brings the
\* slaves up again, unless the signal came too early or amid a reconnection.
THEOREM SlavesStayDown == Safety => StaysDown
<1>1. Init => Places /\ AllStarted /\ Climb /\ Phases /\ Quiet
  <2>1. Init => AllStarted
    BY DEF Init, AllStarted, Called, Threads
  <2>2. Init => Climb /\ Phases
    BY DEF Init, Climb, Phases, First, Ups, OPERATIONAL, PRE_OP, Threads, Workers
  <2>3. Init => Quiet
    BY DEF Init, Quiet, ControlStopped
  <2> QED
    BY <2>1, <2>2, <2>3, InitPlaces
<1>2. Places /\ AllStarted /\ Climb /\ Phases /\ Quiet /\ [Next]_vars
        => (Places /\ AllStarted /\ Climb /\ Phases /\ Quiet)'
  BY NextPlaces, NextAllStarted, NextClimb, NextPhases, NextQuiet
<1>3. Places /\ Climb /\ Phases /\ Quiet /\ [Next]_vars
        => [down /\ ~early /\ ~reconnecting => Height' <= Height]_vars
  BY OnlyActivates
<1> QED
  BY <1>1, <1>2, <1>3, PTL DEF Safety, StaysDown
=============================================================================
