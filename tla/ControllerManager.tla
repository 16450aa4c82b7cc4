-------------------------- MODULE ControllerManager --------------------------
(***************************************************************************)
(* rm_common::ControllerManager and the SwitchControllersServiceCaller it  *)
(* owns (controller_manager.h, service_caller.h).                          *)
(*                                                                         *)
(* The main thread of the manual node fills start_buffer_ and stop_buffer_ *)
(* and calls update() once per loop.  update() copies the buffers into the *)
(* shared service_.request, spawns a detached thread and clears the        *)
(* buffers.  The thread locks mutex_, serialises the request as it is then *)
(* and waits for the answer.  isCalling() is a try_lock of mutex_, so it   *)
(* is FALSE from the spawn until the thread gets the mutex.                *)
(***************************************************************************)
EXTENDS Naturals

CONSTANTS
    Controllers,    \* the loaded controllers
    MaxSpawned,     \* bound of the model, not of the code: threads that wait
                    \* for mutex_ at one time
    PromptSpawn,    \* TRUE: a spawned thread has the mutex before the next
                    \* update() of the 100 Hz loop
    CallMayFail     \* TRUE: client_.call() may fail

ASSUME MaxSpawnedAssumption == MaxSpawned \in Nat \ {0}
ASSUME PromptSpawnAssumption == PromptSpawn \in BOOLEAN

VARIABLES
    pc,         \* where the main thread is in update()
    buffer,     \* [start, stop]: start_buffer_ and stop_buffer_
    request,    \* [start, stop]: the lists of service_.request
    spawned,    \* detached threads that have not locked mutex_ yet
    mutex,      \* "free", or how far the thread that holds it is
    wire,       \* the request as serialised by that thread
    running,    \* external: the controllers that run
    target,     \* history: the controllers whose last command was a start
    lost        \* history: a call has failed

vars == <<pc, buffer, request, spawned, mutex, wire, running, target, lost>>

\* The request the robot's controller manager has still to apply.
outstanding ==
    CASE mutex = "sent" -> wire
      [] mutex = "locked" \/ spawned > 0 -> request
      [] OTHER -> [start |-> {}, stop |-> {}]

\* Once callService() has returned the buffered commands are on their way.
unsent == IF pc = "clear" THEN [start |-> {}, stop |-> {}] ELSE buffer

Port == INSTANCE SwitchPort WITH buffer <- unsent, call <- outstanding

Empty == Port!Nothing

Init ==
    /\ pc = "idle"
    /\ buffer = Empty
    /\ request = Empty
    /\ spawned = 0
    /\ mutex = "free"
    /\ wire = Empty
    /\ running = {}
    /\ target = {}
    /\ lost = FALSE

-----------------------------------------------------------------------------
(* The main thread. *)

\* startController() that leaves the name in stop_buffer_.
StartControllersKeepStop(S) ==
    /\ pc = "idle"
    /\ buffer' = [buffer EXCEPT !.start = @ \cup S]
    /\ target' = target \cup S
    /\ UNCHANGED <<pc, request, spawned, mutex, wire, running, lost>>

StartControllers(S) ==
    /\ pc = "idle"
    /\ buffer' = Port!WithStart(buffer, S)
    /\ target' = target \cup S
    /\ UNCHANGED <<pc, request, spawned, mutex, wire, running, lost>>

StopControllers(S) ==
    /\ pc = "idle"
    /\ buffer' = Port!WithStop(buffer, S)
    /\ target' = target \ S
    /\ UNCHANGED <<pc, request, spawned, mutex, wire, running, lost>>

\* update() that does not ask isCalling().
UpdateUnguarded ==
    /\ pc = "idle"
    /\ pc' = "setStart"
    /\ UNCHANGED <<buffer, request, spawned, mutex, wire, running, target, lost>>

\* update() gets past its isCalling(); when it does not, it returns at once.
Update ==
    /\ pc = "idle"
    /\ mutex = "free"
    /\ PromptSpawn => spawned = 0
    /\ pc' = "setStart"
    /\ UNCHANGED <<buffer, request, spawned, mutex, wire, running, target, lost>>

SetStart ==
    /\ pc = "setStart"
    /\ request' = [request EXCEPT !.start = buffer.start]
    /\ pc' = "setStop"
    /\ UNCHANGED <<buffer, spawned, mutex, wire, running, target, lost>>

\* update() that forgets the stop list.
SetStopForgotten ==
    /\ pc = "setStop"
    /\ pc' = IF buffer = Empty THEN "idle" ELSE "call"
    /\ UNCHANGED <<buffer, request, spawned, mutex, wire, running, target, lost>>

SetStop ==
    /\ pc = "setStop"
    /\ request' = [request EXCEPT !.stop = buffer.stop]
    /\ pc' = IF buffer = Empty THEN "idle" ELSE "call"
    /\ UNCHANGED <<buffer, spawned, mutex, wire, running, target, lost>>

\* update() that calls the service once for each list.
CallServiceTwice ==
    /\ pc = "call"
    /\ spawned' = spawned + 2
    /\ pc' = "clear"
    /\ UNCHANGED <<buffer, request, mutex, wire, running, target, lost>>

\* callService(): a second isCalling(), then the thread.  The code spawns without
\* limit; the model spawns up to MaxSpawned threads.
CallService ==
    /\ pc = "call"
    /\ mutex = "free" => spawned < MaxSpawned
    /\ spawned' = IF mutex = "free" THEN spawned + 1 ELSE spawned
    /\ pc' = "clear"
    /\ UNCHANGED <<buffer, request, mutex, wire, running, target, lost>>

Clear ==
    /\ pc = "clear"
    /\ buffer' = Empty
    /\ pc' = "idle"
    /\ UNCHANGED <<request, spawned, mutex, wire, running, target, lost>>

-----------------------------------------------------------------------------
(* callingThread(). *)

Lock ==
    /\ spawned > 0
    /\ mutex = "free"
    /\ mutex' = "locked"
    /\ spawned' = spawned - 1
    /\ UNCHANGED <<pc, buffer, request, wire, running, target, lost>>

\* client_.call(service_) serialises the request it finds in service_ ...
Send ==
    /\ mutex = "locked"
    /\ wire' = request
    /\ mutex' = "sent"
    /\ UNCHANGED <<pc, buffer, request, spawned, running, target, lost>>

\* ... the robot's controller manager applies it ...
Serve ==
    /\ mutex = "sent"
    /\ running' = Port!Switched(running, wire)
    /\ mutex' = "answered"
    /\ UNCHANGED <<pc, buffer, request, spawned, wire, target, lost>>

\* ... or the call fails, which is logged and otherwise ignored.
Fail ==
    /\ CallMayFail
    /\ mutex = "sent"
    /\ mutex' = "answered"
    /\ lost' = TRUE
    /\ UNCHANGED <<pc, buffer, request, spawned, wire, running, target>>

Unlock ==
    /\ mutex = "answered"
    /\ mutex' = "free"
    /\ UNCHANGED <<pc, buffer, request, spawned, wire, running, target, lost>>

-----------------------------------------------------------------------------
Main ==
    \/ Update
    \/ SetStart
    \/ SetStop
    \/ CallService
    \/ Clear

Thread ==
    \/ Lock
    \/ Send
    \/ Serve
    \/ Fail
    \/ Unlock

Next ==
    \/ \E S \in SUBSET Controllers : StartControllers(S) \/ StopControllers(S)
    \/ Main
    \/ Thread

Safety == Init /\ [][Next]_vars

\* The main loop keeps calling update(); a thread that exists is scheduled,
\* and a call returns.
Fairness == WF_vars(Main) /\ WF_vars(Thread)

Spec == Safety /\ Fairness

-----------------------------------------------------------------------------
(* Properties. *)

\* Every variable holds a value of its type, and when threads are prompt one at
\* most waits for mutex_: the code's isCalling() sees to that, not MaxSpawned.
TypeOK ==
    /\ pc \in {"idle", "setStart", "setStop", "call", "clear"}
    /\ buffer \in Port!Batch
    /\ request \in Port!Batch
    /\ spawned \in Nat
    /\ PromptSpawn => spawned <= 1
    /\ mutex \in {"free", "locked", "sent", "answered"}
    /\ wire \in Port!Batch
    /\ running \subseteq Controllers
    /\ target \subseteq Controllers
    /\ lost \in BOOLEAN

\* startController() and stopController() erase the name from the other buffer,
\* whatever the calling threads do meanwhile: no controller is buffered both
\* to be started and to be stopped.
BuffersDisjoint == buffer.start \cap buffer.stop = {}

\* "AVoid setting controller to start and stop in the same time"
\* (controller_manager.h:108): no request on its way to the robot names a
\* controller in both lists.
RequestUnambiguous == mutex = "sent" => wire.start \cap wire.stop = {}

\* As long as no call has failed, no command is lost, reordered or overwritten
\* on its way through the buffers, the shared request and the calling thread:
\* applying what is outstanding and then what is still buffered to the running
\* controllers gives exactly the controllers whose last command was a start.
CommandNotLost ==
    ~lost => Port!Switched(Port!Switched(running, outstanding), buffer) = target

\* The switch request is written by the main thread and read by the calling
\* thread without a lock: no write falls between the spawn of a thread and
\* the serialisation it makes.
RequestNotTorn ==
    [][spawned > 0 \/ mutex = "locked" => request' = request]_vars

\* A controller whose last command was a start comes to run, unless it is
\* commanded to stop meanwhile or a call fails, which nobody repeats; and the
\* other way round.
EventuallySwitched ==
    \A c \in Controllers :
        /\ (c \in target) ~> (c \in running \/ c \notin target \/ lost)
        /\ (c \notin target) ~> (c \notin running \/ c \in target \/ lost)

\* The threads, the shared request and the mutex implement the port: commands
\* are buffered, leave as one batch, and are applied one batch at a time.
ImplementsPort == Port!PortSpec
=============================================================================
