----------------------------- MODULE EcatHardware -----------------------------
(***************************************************************************)
(* The hardware interface of the EtherCAT robots                           *)
(* (RmEcatHardwareInterface.cpp): three worker threads (Worker.cpp) that   *)
(* exchange process data with the slaves, run the controllers and publish; *)
(* the monitoring and the reconnection of the bus; the signal handler that *)
(* shuts the robot down (SignalHandler.cpp), and the destructor.           *)
(*                                                                         *)
(* A signal is delivered to any thread, one of roscpp's included, and      *)
(* interrupts what that does until the handler has returned.  The workers' *)
(* sections under a lock (contextMutex_, stagedCommandMutex_,              *)
(* readingMutex_, the publishers' buffers) exclude one another through one *)
(* lock; a section is one step, unless a signal interrupts it, in which    *)
(* case its thread keeps the lock.                                         *)
(* There is one bus; its slaves change state together, and take their time *)
(* for it.                                                                 *)
(***************************************************************************)
EXTENDS Naturals

CONSTANTS
    Decimation,  \* cycles between two looks at the bus (100 in the code)
    MaxSignals,  \* bound: the signals that are sent
    LaterTo      \* bound: the threads that signals after the first one interrupt

ASSUME DecimationAssumption == Decimation \in Nat
ASSUME MaxSignalsAssumption == MaxSignals \in Nat

Workers == {"update", "control", "publish"}
Threads == Workers \cup {"main", "other"}  \* "other": roscpp's own threads

\* init() starts them in this order.
StartOrder == <<"update", "control", "publish">>

\* handleSignal() stops them in this order.
StopOrder == [update |-> "publish", publish |-> "control", control |-> "shutdown"]

\* The members' destructors run in this order.
DestroyOrder == [publish |-> "control", control |-> "update", update |-> "gone"]

\* The states of an EtherCAT slave.
INIT == 0
PRE_OP == 1
SAFE_OP == 2
OPERATIONAL == 3

VARIABLES
    main,        \* where main() is; from Exit on, the worker being destroyed
    started,     \* how many workers init() has started
    \* the workers
    running,     \* running_
    thread,      \* thread_: none or joined, live, ended
    pc,          \* the section of the callback that is next or under way
    lock,        \* the thread that was interrupted within its section
    \* the bus
    cable,       \* the slaves answer, and in time
    order,       \* the state that the slaves were told last to take
    slave,       \* their state
    busIsOk,     \* busIsOk_
    count,       \* busDiagDecimationCount_
    \* the signals
    sig,         \* for each thread: is it within SignalHandler::signaled()
    hpc,         \* the next step of handleSignal()
    shut,        \* shutdownRequested_ of the slave managers
    sent,        \* the number of signals sent
    \* histories
    down,        \* handleSignal() has run to its end
    early,       \* a signal came before the workers were started
    byWorker,    \* one was delivered to a worker
    reconnecting,\* one was delivered to the control worker with the bus down
    tangled      \* one was delivered within a section, or during another

workerVars == <<running, thread, pc>>
busVars == <<cable, order, slave, busIsOk, count>>
signalVars == <<sig, hpc, shut, sent>>
histories == <<down, early, byWorker, reconnecting, tangled>>
vars == <<main, started, workerVars, lock, busVars, signalVars, histories>>

Sections ==
    {"exchange", "stage", "INIT", "INIT?", "PRE_OP", "PRE_OP?", "SAFE_OP",
     "SAFE_OP?", "OPERATIONAL", "OPERATIONAL?", "monitor", "deactivate",
     "deactivate?", "send", "again"}

First == [update |-> "exchange", control |-> "stage", publish |-> "send"]

TypeOK ==
    /\ main \in {"init", "spin", "gone"} \cup Workers
    /\ started \in 0 .. 3
    /\ running \in [Workers -> BOOLEAN]
    /\ thread \in [Workers -> {"none", "live", "ended"}]
    /\ pc \in [Workers -> Sections]
    /\ lock \in Workers \cup {"free"}
    /\ cable \in BOOLEAN
    /\ order \in INIT .. OPERATIONAL /\ slave \in INIT .. OPERATIONAL
    /\ busIsOk \in BOOLEAN
    /\ count \in 0 .. Decimation + 1
    /\ sig \in [Threads -> {"none", "waiting", "running", "stuck"}]
    /\ hpc \in {"idle", "shutdown", "publishers"} \cup Workers
    /\ shut \in BOOLEAN
    /\ sent \in 0 .. MaxSignals
    /\ down \in BOOLEAN /\ early \in BOOLEAN /\ byWorker \in BOOLEAN
    /\ reconnecting \in BOOLEAN /\ tangled \in BOOLEAN

\* init() has brought the slaves up and bound the signals.
Init ==
    /\ main = "init"
    /\ started = 0
    /\ running = [w \in Workers |-> FALSE]
    /\ thread = [w \in Workers |-> "none"]
    /\ pc = First
    /\ lock = "free"
    /\ cable = TRUE /\ order = OPERATIONAL /\ slave = OPERATIONAL
    /\ busIsOk = TRUE /\ count = 0
    /\ sig = [t \in Threads |-> "none"]
    /\ hpc = "idle"
    /\ shut = FALSE
    /\ sent = 0
    /\ down = FALSE /\ early = FALSE /\ byWorker = FALSE
    /\ reconnecting = FALSE /\ tangled = FALSE

-----------------------------------------------------------------------------
(* The bus (external). *)

\* setState(): the slaves are told to take a state, and obey if it is at most one
\* above theirs.
SetState(s) == order' = IF cable /\ s <= slave + 1 THEN s ELSE order

\* They do so in their time.  (Slaves that take longer than a wait are those whose
\* cable is out as it ends, and in again afterwards.)
Reach ==
    /\ slave # order
    /\ slave' = order
    /\ UNCHANGED <<main, started, workerVars, lock, cable, order, busIsOk, count,
                   signalVars, histories>>

\* waitForState() sees them in the state, or gives up: with the cable in, only if
\* they do not obey.
Reached(s) == cable /\ slave = s
TimesOut(s) == ~cable \/ (slave # s /\ order # s)

Plug ==
    /\ main # "gone"
    /\ cable' = ~cable
    /\ UNCHANGED <<main, started, workerVars, lock, order, slave, busIsOk, count,
                   signalVars, histories>>

\* Slaves that get no process data leave OPERATIONAL.
Watchdog ==
    /\ slave = OPERATIONAL
    /\ ~cable \/ thread["update"] # "live" \/ main = "gone"
    /\ slave' = SAFE_OP
    /\ order' = IF order = OPERATIONAL THEN SAFE_OP ELSE order
    /\ UNCHANGED <<main, started, workerVars, lock, cable, busIsOk, count, signalVars,
                   histories>>

-----------------------------------------------------------------------------
(* main(). *)

\* Worker::start(), in init().
StartWorker ==
    /\ main = "init" /\ sig["main"] = "none"
    /\ started < 3
    /\ LET w == StartOrder[started + 1] IN
        /\ running' = [running EXCEPT ![w] = TRUE]
        /\ thread' = [thread EXCEPT ![w] = "live"]
        /\ pc' = [pc EXCEPT ![w] = First[w]]
    /\ started' = started + 1
    /\ main' = IF started + 1 = 3 THEN "spin" ELSE "init"
    /\ UNCHANGED <<lock, busVars, signalVars, histories>>

\* init() fails before the workers are started, and main() spins all the same.
InitFails ==
    /\ main = "init" /\ sig["main"] = "none"
    /\ started = 0
    /\ main' = "spin"
    /\ UNCHANGED <<started, workerVars, lock, busVars, signalVars, histories>>

\* ros::spin() returns without a signal, when the node is killed through ROS:
\* the members that the callbacks use are destroyed before the workers are.
Exit ==
    /\ main = "spin" /\ sig["main"] = "none"
    /\ main' = "publish"
    /\ UNCHANGED <<started, workerVars, lock, busVars, signalVars, histories>>

\* Worker::stop(true), in the destructor, ...
DestroyWorker ==
    /\ main \in Workers /\ sig["main"] = "none"
    /\ running[main]
    /\ running' = [running EXCEPT ![main] = FALSE]
    /\ UNCHANGED <<main, started, thread, pc, lock, busVars, signalVars, histories>>

\* ... which joins.
DestroyJoins ==
    /\ main \in Workers /\ sig["main"] = "none"
    /\ ~running[main] /\ thread[main] # "live"
    /\ thread' = [thread EXCEPT ![main] = "none"]
    /\ main' = DestroyOrder[main]
    /\ UNCHANGED <<started, running, pc, lock, busVars, signalVars, histories>>

-----------------------------------------------------------------------------
(* The workers. *)

\* The thread runs, and no signal interrupts it.
Awake(w) == main # "gone" /\ thread[w] = "live" /\ sig[w] = "none"

\* It may be within its next section.
InSection(w) == Awake(w) /\ lock \in {"free", w} /\ pc[w] # "again"

\* It does the work of a section, under its lock, and goes on to another.
Section(w, from, to) ==
    /\ InSection(w) /\ pc[w] = from
    /\ lock' = "free"
    /\ pc' = [pc EXCEPT ![w] = to]
    /\ UNCHANGED <<main, started, running, thread, signalVars, histories>>

\* Worker::run() that never looks at running_.
AgainForever(w) ==
    /\ Awake(w) /\ pc[w] = "again"
    /\ pc' = [pc EXCEPT ![w] = First[w]]
    /\ UNCHANGED <<main, started, running, thread, lock, busVars, signalVars, histories>>

\* The end of the loop of Worker::run(), after rate_.sleep().
Again(w) ==
    /\ Awake(w) /\ pc[w] = "again"
    /\ IF running[w]
       THEN pc' = [pc EXCEPT ![w] = First[w]] /\ UNCHANGED thread
       ELSE thread' = [thread EXCEPT ![w] = "ended"] /\ UNCHANGED pc
    /\ UNCHANGED <<main, started, running, lock, busVars, signalVars, histories>>

\* updateWorkerCb(): the process data are read and written, which are two sections
\* with nothing between them.
UpdateWorkerCb ==
    /\ Section("update", "exchange", "again")
    /\ UNCHANGED busVars

PublishWorkerCb ==
    /\ Section("publish", "send", "again")
    /\ UNCHANGED busVars

\* controlWorkerCb(): read(), the controllers, and the commands that write()
\* stages; now and then write() looks at the bus.
ControlWorkerCb ==
    /\ IF count > Decimation
       THEN /\ Section("control", "stage", IF busIsOk THEN "monitor" ELSE "INIT")
            /\ UNCHANGED count
       ELSE /\ Section("control", "stage", "again")
            /\ count' = count + 1
    /\ UNCHANGED <<cable, order, slave, busIsOk>>

\* onActivate() goes up state by state: it asks for one and waits, each under the
\* lock of its own; a state that is not reached in time ends it.
OnActivate(s, ask, wait, next) ==
    /\ \/ /\ Section("control", ask, wait)
          /\ SetState(s)
          /\ UNCHANGED busIsOk
       \/ /\ Section("control", wait, next)
          /\ Reached(s)
          /\ busIsOk' = (s = OPERATIONAL)
          /\ UNCHANGED order
       \/ /\ Section("control", wait, "monitor")
          /\ TimesOut(s)
          /\ UNCHANGED <<order, busIsOk>>
    /\ UNCHANGED <<cable, slave, count>>

\* onActivate() without its last state.
ActivateToSafeOp ==
    \/ OnActivate(INIT, "INIT", "INIT?", "PRE_OP")
    \/ OnActivate(PRE_OP, "PRE_OP", "PRE_OP?", "SAFE_OP")
    \/ OnActivate(SAFE_OP, "SAFE_OP", "SAFE_OP?", "monitor")

Activate ==
    \/ OnActivate(INIT, "INIT", "INIT?", "PRE_OP")
    \/ OnActivate(PRE_OP, "PRE_OP", "PRE_OP?", "SAFE_OP")
    \/ OnActivate(SAFE_OP, "SAFE_OP", "SAFE_OP?", "OPERATIONAL")
    \/ OnActivate(OPERATIONAL, "OPERATIONAL", "OPERATIONAL?", "monitor")

\* doBusMonitoring(): all slaves answer and are operational.
AllFine == cable /\ slave = OPERATIONAL

\* The decimation counter that is not set back.
BusMonitoringNoReset ==
    /\ Section("control", "monitor", IF ~AllFine /\ busIsOk THEN "deactivate" ELSE "again")
    /\ count' = count + 1
    /\ UNCHANGED <<cable, order, slave, busIsOk>>

\* The end of write(): a bus that is not fine any more is deactivated.
BusMonitoring ==
    /\ Section("control", "monitor", IF ~AllFine /\ busIsOk THEN "deactivate" ELSE "again")
    /\ count' = 1
    /\ UNCHANGED <<cable, order, slave, busIsOk>>

\* onDeactivate(), which waits in vain or not.
OnDeactivate ==
    /\ \/ /\ Section("control", "deactivate", "deactivate?")
          /\ SetState(SAFE_OP)
          /\ UNCHANGED busIsOk
       \/ /\ Section("control", "deactivate?", "again")
          /\ Reached(SAFE_OP) \/ TimesOut(SAFE_OP)
          /\ busIsOk' = FALSE
          /\ UNCHANGED order
    /\ UNCHANGED <<cable, slave, count>>

-----------------------------------------------------------------------------
(* Signals. *)

Handling == {t \in Threads : sig[t] # "none"}

\* A signal interrupts a thread; one that is within the handler already waits for
\* a lock that it holds itself.
Signal(t) ==
    /\ main \in {"init", "spin"}
    /\ sent < MaxSignals /\ (sent > 0 => t \in LaterTo)
    /\ t \in Workers => thread[t] = "live"
    /\ sig[t] \in {"none", "running"}
    /\ sig' = [sig EXCEPT ![t] = IF @ = "none" THEN "waiting" ELSE "stuck"]
    /\ sent' = sent + 1
    /\ early' = (early \/ started < 3)
    /\ byWorker' = (byWorker \/ t \in Workers)
    /\ reconnecting' = (reconnecting \/ (t = "control" /\ ~busIsOk))
    /\ \E inside \in BOOLEAN :
        /\ inside => t \in Workers /\ InSection(t)
        /\ lock' = IF inside THEN t ELSE lock
        /\ tangled' = (tangled \/ Handling # {} \/ inside)
    /\ UNCHANGED <<main, started, workerVars, busVars, hpc, shut, down>>

\* SignalHandler::signaled() gets its mutex and calls handleSignal().
SignaledBegins(t) ==
    /\ main # "gone"
    /\ sig[t] = "waiting"
    /\ \A u \in Threads : sig[u] \notin {"running", "stuck"}
    /\ sig' = [sig EXCEPT ![t] = "running"]
    /\ hpc' = "update"
    /\ UNCHANGED <<main, started, workerVars, lock, busVars, shut, sent, histories>>

\* handleSignal() that does not wait for the control worker.
HandlerStopsUnjoined(t) ==
    /\ main # "gone"
    /\ sig[t] = "running" /\ hpc \in Workers
    /\ \/ /\ running[hpc]
          /\ running' = [running EXCEPT ![hpc] = FALSE]
          /\ UNCHANGED <<thread, hpc>>
       \/ /\ ~running[hpc] /\ (t = hpc \/ hpc = "control" \/ thread[hpc] # "live")
          /\ thread' = IF t = hpc \/ hpc = "control" THEN thread
                       ELSE [thread EXCEPT ![hpc] = "none"]
          /\ hpc' = StopOrder[hpc]
          /\ UNCHANGED running
    /\ UNCHANGED <<main, started, pc, lock, busVars, sig, shut, sent, histories>>

\* Worker::stop() of the next worker: running_ is cleared, and the thread is
\* joined unless it is the one that runs the handler.
HandlerStops(t) ==
    /\ main # "gone"
    /\ sig[t] = "running" /\ hpc \in Workers
    /\ \/ /\ running[hpc]
          /\ running' = [running EXCEPT ![hpc] = FALSE]
          /\ UNCHANGED <<thread, hpc>>
       \/ /\ ~running[hpc] /\ (t = hpc \/ thread[hpc] # "live")
          /\ thread' = IF t = hpc THEN thread ELSE [thread EXCEPT ![hpc] = "none"]
          /\ hpc' = StopOrder[hpc]
          /\ UNCHANGED running
    /\ UNCHANGED <<main, started, pc, lock, busVars, sig, shut, sent, histories>>

\* shutdown() of the slave managers: their slaves are sent to INIT, once.
HandlerShutsDown(t) ==
    /\ main # "gone"
    /\ sig[t] = "running" /\ hpc = "shutdown"
    /\ lock = "free"
    /\ IF shut THEN UNCHANGED order ELSE SetState(INIT)
    /\ shut' = TRUE
    /\ hpc' = "publishers"
    /\ UNCHANGED <<main, started, workerVars, lock, cable, slave, busIsOk, count, sig,
                   sent, histories>>

\* The publishers' shutdown(): where a kind of slaves has no digital outputs, its
\* publisher was never made, and the null pointer ends the process.
HandlerEnds(t) ==
    /\ main # "gone"
    /\ sig[t] = "running" /\ hpc = "publishers"
    /\ main' \in {main, "gone"}
    /\ hpc' = "idle"
    /\ sig' = [sig EXCEPT ![t] = "none"]
    /\ down' = TRUE
    /\ UNCHANGED <<started, workerVars, lock, busVars, shut, sent, early, byWorker,
                   reconnecting, tangled>>

-----------------------------------------------------------------------------
WorkerCb(w) ==
    \/ w = "update" /\ UpdateWorkerCb
    \/ w = "publish" /\ PublishWorkerCb
    \/ w = "control" /\ (ControlWorkerCb \/ Activate \/ BusMonitoring \/ OnDeactivate)

WorkerRuns(w) == WorkerCb(w) \/ Again(w)

HandlerRuns(t) ==
    SignaledBegins(t) \/ HandlerStops(t) \/ HandlerShutsDown(t) \/ HandlerEnds(t)

Next ==
    \/ StartWorker \/ InitFails \/ Exit \/ DestroyWorker \/ DestroyJoins
    \/ \E w \in Workers : WorkerRuns(w)
    \/ \E t \in Threads : Signal(t) \/ HandlerRuns(t)
    \/ Reach \/ Plug \/ Watchdog

Safety == Init /\ [][Next]_vars

\* Every thread runs when it can: a lock is free while the others sleep between
\* their cycles, unless a handler runs.  The slaves get to the state they obey.
Fairness ==
    /\ WF_vars(StartWorker)
    /\ \A w \in Workers : WF_vars(WorkerRuns(w))
    /\ \A t \in Threads : WF_vars(HandlerRuns(t))
    /\ WF_vars(Reach)

Spec == Safety /\ Fairness

-----------------------------------------------------------------------------
(* Properties. *)

\* The highest state that the slaves are in or on their way to.
Height == IF order > slave THEN order ELSE slave

\* Once handleSignal() has run to its end, nothing brings the slaves up again,
\* neither a worker nor the reconnection of the bus - unless the signal came while
\* init() was still to start the workers, or interrupted the control worker while
\* the bus was down.
StaysDown ==
    [][down /\ ~early /\ ~reconnecting => Height' <= Height]_vars

\* The destructor, which destroys what the callbacks use before it stops the
\* workers, finds no thread running after a signal that no worker handled, when
\* they were all started.
DestroyedWithoutThreads ==
    main \in Workers /\ down /\ ~early /\ ~byWorker => \A w \in Workers : thread[w] # "live"

\* handleSignal() gets to its end, on whatever thread it runs: the joins never
\* wait for one another, unless the signal interrupted a worker within a section
\* that others wait for, or came during another signal.
ShutdownCompletes ==
    []<>(Handling = {} \/ down \/ tangled \/ main \in Workers \cup {"gone"})

\* README: "EtherCAT bus reconnected".  A bus whose cable is back for good, and
\* whose slaves are quick enough, is operational again, whenever it was lost and
\* however often meanwhile.
BusReconnects ==
    <>[](cable /\ sent = 0 /\ started = 3 /\ main = "spin") =>
        <>[](slave = OPERATIONAL /\ busIsOk)
=============================================================================
