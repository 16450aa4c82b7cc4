----------------------------- MODULE SwitchPort -----------------------------
(***************************************************************************)
(* What rm_common's ControllerManager promises to the manual node: start   *)
(* and stop commands collect in a buffer, the buffer leaves as one switch  *)
(* request, at most one request is under way, and the controller manager   *)
(* of the robot applies a request as a whole, in the order in which the    *)
(* requests left.  ControllerManager.tla refines this specification;       *)
(* ManualCalibration.tla is built on it.                                   *)
(***************************************************************************)

CONSTANTS
    Controllers,    \* the loaded controllers
    CallMayFail     \* TRUE: a switch_controller call may be lost

ASSUME CallMayFailAssumption == CallMayFail \in BOOLEAN

VARIABLES
    buffer,         \* [start, stop]: start_buffer_ and stop_buffer_
    call,           \* the request under way, or Nothing
    running         \* the controllers the controller manager is running

portVars == <<buffer, call, running>>

Batch == [start : SUBSET Controllers, stop : SUBSET Controllers]

\* A batch that switches nothing.
Nothing == [start |-> {}, stop |-> {}]

\* startController() and stopController() add a name to one buffer unless it
\* is there already and erase it from the other.
WithStart(b, S) == [start |-> b.start \cup S, stop |-> b.stop \ S]
WithStop(b, S)  == [start |-> b.start \ S, stop |-> b.stop \cup S]

\* What controller_manager's switchController() does to the set of running
\* controllers under BEST_EFFORT: names that need no change are dropped, a
\* name in both lists is restarted.
Switched(r, b) == (r \ b.stop) \cup b.start

PortTypeOK ==
    /\ buffer \in Batch
    /\ call \in Batch
    /\ running \subseteq Controllers

PortInit ==
    /\ buffer = Nothing
    /\ call = Nothing
    /\ running = {}

Start(S) ==
    /\ buffer' = WithStart(buffer, S)
    /\ UNCHANGED <<call, running>>

Stop(S) ==
    /\ buffer' = WithStop(buffer, S)
    /\ UNCHANGED <<call, running>>

\* update(): the buffer becomes the request under way.
Flush ==
    /\ call = Nothing
    /\ buffer # Nothing
    /\ call' = buffer
    /\ buffer' = Nothing
    /\ UNCHANGED running

Apply ==
    /\ call # Nothing
    /\ running' = Switched(running, call)
    /\ call' = Nothing
    /\ UNCHANGED buffer

\* A call that returns false, or that the controller manager answers with
\* ok = false: nothing is switched and nobody sends the request again.
Lose ==
    /\ CallMayFail
    /\ call # Nothing
    /\ call' = Nothing
    /\ UNCHANGED <<buffer, running>>

PortNext ==
    \/ \E S \in SUBSET Controllers : Start(S) \/ Stop(S)
    \/ Flush
    \/ Apply
    \/ Lose

PortSafety == PortInit /\ [][PortNext]_portVars

PortFairness == WF_portVars(Flush) /\ WF_portVars(Apply \/ Lose)

PortSpec == PortSafety /\ PortFairness
=============================================================================
