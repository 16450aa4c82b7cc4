----------------------- MODULE ControllerManager_proofs -----------------------
(***************************************************************************)
(* Proofs about ControllerManager, for every set of controllers and every  *)
(* bound on the waiting threads.  Type correctness and the separation of   *)
(* the buffers need no assumption.  What is said of the request needs the  *)
(* calling thread to be prompt (PromptSpawn).                              *)
(***************************************************************************)
EXTENDS ControllerManager, TLAPS

-----------------------------------------------------------------------------
(* Batches. *)

\* startController() and stopController() keep the two lists apart.
LEMMA WithDisjoint ==
    ASSUME NEW b \in Port!Batch, NEW S \in SUBSET Controllers,
           b.start \cap b.stop = {}
    PROVE  /\ Port!WithStart(b, S) \in Port!Batch
           /\ Port!WithStart(b, S).start \cap Port!WithStart(b, S).stop = {}
           /\ Port!WithStop(b, S) \in Port!Batch
           /\ Port!WithStop(b, S).start \cap Port!WithStop(b, S).stop = {}
  BY DEF Port!Batch, Port!WithStart, Port!WithStop

\* Switching with no lists switches nothing, and a batch that is applied a
\* second time switches nothing any more.
LEMMA SwitchTwice ==
    ASSUME NEW r \in SUBSET Controllers, NEW b \in Port!Batch
    PROVE  /\ Port!Switched(r, b) \in SUBSET Controllers
           /\ Port!Switched(r, Empty) = r
           /\ Port!Switched(Port!Switched(r, b), b) = Port!Switched(r, b)
  BY DEF Port!Batch, Port!Switched, Empty, Port!Nothing

\* The batch that switches nothing is a batch.
LEMMA EmptyBatch == Empty \in Port!Batch
  BY DEF Empty, Port!Nothing, Port!Batch

-----------------------------------------------------------------------------
(* What holds however late the calling thread locks the mutex. *)

\* The values that the variables hold.
Types ==
    /\ pc \in {"idle", "setStart", "setStop", "call", "clear"}
    /\ buffer \in Port!Batch
    /\ request \in Port!Batch
    /\ spawned \in Nat
    /\ mutex \in {"free", "locked", "sent", "answered"}
    /\ wire \in Port!Batch
    /\ running \subseteq Controllers
    /\ target \subseteq Controllers
    /\ lost \in BOOLEAN

\* Types and separate buffers go together: the buffers' types are what keeps
\* the lists apart.
SafeBuffers == Types /\ BuffersDisjoint

\* Start-up establishes it ...
LEMMA InitSafeBuffers == Init => SafeBuffers
<1> SUFFICES ASSUME Init PROVE SafeBuffers
  OBVIOUS
<1>1. lost \in BOOLEAN
  BY Zenon DEF Init
<1> QED
  BY <1>1, EmptyBatch
  DEF Init, SafeBuffers, Types, BuffersDisjoint, Empty, Port!Nothing

\* ... and every step of the main thread and of the calling threads keeps it.
LEMMA NextSafeBuffers == SafeBuffers /\ [Next]_vars => SafeBuffers'
<1> SUFFICES ASSUME SafeBuffers, [Next]_vars PROVE SafeBuffers'
  OBVIOUS
<1> USE DEF SafeBuffers, Types, BuffersDisjoint
<1>1. ASSUME NEW S \in SUBSET Controllers, StartControllers(S)
      PROVE  SafeBuffers'
  BY <1>1, WithDisjoint DEF StartControllers
<1>2. ASSUME NEW S \in SUBSET Controllers, StopControllers(S)
      PROVE  SafeBuffers'
  BY <1>2, WithDisjoint DEF StopControllers
<1>3. CASE Update
  BY <1>3 DEF Update
<1>4. CASE SetStart
  BY <1>4 DEF SetStart, Port!Batch
<1>5. CASE SetStop
  BY <1>5 DEF SetStop, Port!Batch
<1>6. CASE CallService
  BY <1>6 DEF CallService
<1>7. CASE Clear
  BY <1>7, EmptyBatch DEF Clear, Empty, Port!Nothing
<1>8. CASE Lock
  BY <1>8 DEF Lock
<1>9. CASE Send
  BY <1>9 DEF Send
<1>10. CASE Serve
  BY <1>10, SwitchTwice DEF Serve
<1>11. CASE Fail
  BY <1>11 DEF Fail
<1>12. CASE Unlock
  BY <1>12 DEF Unlock
<1>13. CASE UNCHANGED vars
  BY <1>13 DEF vars
<1> QED
  BY <1>1, <1>2, <1>3, <1>4, <1>5, <1>6, <1>7, <1>8, <1>9, <1>10, <1>11, <1>12,
     <1>13
  DEF Next, Main, Thread

\* startController() and stopController() never leave a name in both buffers,
\* however late the calling thread is and whichever calls fail.
THEOREM BuffersStayDisjoint == Safety => []BuffersDisjoint
<1>1. SafeBuffers => BuffersDisjoint
  BY DEF SafeBuffers
<1> QED
  BY InitSafeBuffers, NextSafeBuffers, <1>1, PTL DEF Safety

-----------------------------------------------------------------------------
(* What a prompt calling thread adds. *)

\* A request is under way and not yet applied or lost.
InFlight == spawned > 0 \/ mutex \in {"locked", "sent"}

\* While update() writes the request no thread is there to read it.
Exclusive ==
    /\ pc \in {"setStart", "setStop", "call"} => spawned = 0 /\ mutex = "free"
    /\ spawned > 0 => spawned = 1 /\ mutex = "free"

\* How much of the buffers update() has copied.
Copied ==
    /\ pc = "setStop" => request.start = buffer.start
    /\ pc \in {"call", "clear"} => request = buffer /\ buffer # Empty

\* A request under way names no controller twice and is not empty, and the
\* thread has serialised the request as update() wrote it.
Whole ==
    /\ InFlight => request.start \cap request.stop = {} /\ request # Empty
    /\ mutex = "sent" => wire = request

PromptInv == SafeBuffers /\ Exclusive /\ Copied /\ Whole

\* Start-up establishes the prompt thread's invariant ...
LEMMA InitPromptInv == Init => PromptInv
  BY InitSafeBuffers
  DEF Init, PromptInv, Exclusive, Copied, Whole, InFlight

\* ... every step keeps it ...
LEMMA NextPromptInv ==
    ASSUME PromptSpawn
    PROVE  PromptInv /\ [Next]_vars => PromptInv'
<1> SUFFICES ASSUME PromptInv, [Next]_vars PROVE PromptInv'
  OBVIOUS
<1>0. SafeBuffers'
  BY NextSafeBuffers DEF PromptInv
<1> USE <1>0 DEF PromptInv, SafeBuffers, Types, BuffersDisjoint, Exclusive, Copied,
                 Whole, InFlight
<1>1. ASSUME NEW S \in SUBSET Controllers, StartControllers(S)
      PROVE  PromptInv'
  BY <1>1 DEF StartControllers
<1>2. ASSUME NEW S \in SUBSET Controllers, StopControllers(S)
      PROVE  PromptInv'
  BY <1>2 DEF StopControllers
<1>3. CASE Update
  BY <1>3, PromptSpawn DEF Update
<1>4. CASE SetStart
  BY <1>4 DEF SetStart, Port!Batch
<1>5. CASE SetStop
  BY <1>5 DEF SetStop, Port!Batch
<1>6. CASE CallService
  BY <1>6 DEF CallService
<1>7. CASE Clear
  BY <1>7 DEF Clear
<1>8. CASE Lock
  BY <1>8 DEF Lock
<1>9. CASE Send
  BY <1>9 DEF Send
<1>10. CASE Serve
  BY <1>10 DEF Serve
<1>11. CASE Fail
  BY <1>11 DEF Fail
<1>12. CASE Unlock
  BY <1>12 DEF Unlock
<1>13. CASE UNCHANGED vars
  BY <1>13 DEF vars
<1> QED
  BY <1>1, <1>2, <1>3, <1>4, <1>5, <1>6, <1>7, <1>8, <1>9, <1>10, <1>11, <1>12,
     <1>13
  DEF Next, Main, Thread

\* ... so it always holds.
LEMMA AlwaysPromptInv ==
    ASSUME PromptSpawn
    PROVE  Safety => []PromptInv
  BY InitPromptInv, NextPromptInv, PTL DEF Safety

\* Every reachable state of update() and of the calling threads is well typed,
\* and with a prompt thread isCalling() keeps update() from spawning a second one.
THEOREM TypeCorrect == Safety => []TypeOK
<1>1. Safety => []SafeBuffers
  BY InitSafeBuffers, NextSafeBuffers, PTL DEF Safety
<1>2. CASE PromptSpawn
  <2>1. PromptInv => TypeOK
    BY DEF PromptInv, SafeBuffers, Types, TypeOK, Exclusive
  <2> QED
    BY <1>2, <2>1, AlwaysPromptInv, PTL
<1>3. CASE ~PromptSpawn
  <2>1. SafeBuffers => TypeOK
    BY <1>3 DEF SafeBuffers, Types, TypeOK
  <2> QED
    BY <1>1, <2>1, PTL
<1> QED
  BY <1>2, <1>3

\* With a prompt thread no request on its way to the robot names a controller
\* both to be started and to be stopped.
THEOREM RequestsAreUnambiguous ==
    ASSUME PromptSpawn
    PROVE  Safety => []RequestUnambiguous
<1>1. PromptInv => RequestUnambiguous
  BY DEF PromptInv, Whole, InFlight, RequestUnambiguous
<1> QED
  BY AlwaysPromptInv, <1>1, PTL

\* With a prompt thread update() never writes the request that a thread is
\* about to serialise.
THEOREM RequestsAreNotTorn ==
    ASSUME PromptSpawn
    PROVE  Safety => RequestNotTorn
<1>1. ASSUME PromptInv, [Next]_vars
      PROVE  [spawned > 0 \/ mutex = "locked" => request' = request]_vars
  <2> SUFFICES ASSUME Next, spawned > 0 \/ mutex = "locked"
               PROVE  request' = request
    BY <1>1
  <2>1. pc \notin {"setStart", "setStop"}
    BY <1>1 DEF PromptInv, Exclusive, SafeBuffers, Types
  <2> QED
    BY <2>1
    DEF Next, Main, Thread, StartControllers, StopControllers, Update, SetStart,
        SetStop, CallService, Clear, Lock, Send, Serve, Fail, Unlock
<1> QED
  BY AlwaysPromptInv, <1>1, PTL DEF Safety, RequestNotTorn

-----------------------------------------------------------------------------
(* No command is lost. *)

\* Between callService() and the end of update() the buffers are still full;
\* when the request is no longer under way they have nothing left to switch.
Applied ==
    pc = "clear" /\ ~InFlight /\ ~lost => Port!Switched(running, buffer) = running

LosslessInv == PromptInv /\ Applied /\ CommandNotLost

\* What the port's request is in terms of the threads.
OutstandingIs ==
    /\ InFlight => outstanding = request
    /\ ~InFlight => outstanding = Empty
    /\ outstanding \in Port!Batch

\* The prompt thread's invariant settles what is under way.
LEMMA Outstanding == PromptInv => OutstandingIs
  BY EmptyBatch
  DEF PromptInv, Exclusive, Whole, SafeBuffers, Types, InFlight, OutstandingIs,
      outstanding, Empty, Port!Nothing

\* At start-up nothing is running, under way, buffered or commanded.
LEMMA InitLosslessInv == Init => LosslessInv
<1> SUFFICES ASSUME Init PROVE LosslessInv
  OBVIOUS
<1>1. PromptInv
  BY InitPromptInv
<1>2. outstanding = Empty
  BY <1>1, Outstanding DEF Init, InFlight, OutstandingIs
<1>3. CommandNotLost
  BY <1>2 DEF Init, CommandNotLost, Port!Switched, Empty, Port!Nothing
<1> QED
  BY <1>1, <1>3 DEF Init, LosslessInv, Applied

\* No step of a lossless system loses a command: each command has its effect on
\* the target and on the buffer alike, update() moves the buffer, and the robot
\* applies what was moved.
LEMMA NextLosslessInv ==
    ASSUME PromptSpawn
    PROVE  LosslessInv /\ [Next]_vars => LosslessInv'
<1> SUFFICES ASSUME LosslessInv, [Next]_vars PROVE LosslessInv'
  OBVIOUS
<1>0. PromptInv /\ PromptInv'
  BY NextPromptInv DEF LosslessInv
<1>o. OutstandingIs
  BY <1>0, Outstanding
<1>p. OutstandingIs'
  BY <1>0, Outstanding, PTL
<1>e. Empty' = Empty
  BY DEF Empty, Port!Nothing
<1>t. /\ running \in SUBSET Controllers
      /\ buffer \in Port!Batch
      /\ request \in Port!Batch
      /\ Port!Switched(running, outstanding) \in SUBSET Controllers
  BY <1>0, <1>o, SwitchTwice DEF PromptInv, SafeBuffers, Types, OutstandingIs
<1>l. lost => lost'
  BY DEF Next, Main, Thread, StartControllers, StopControllers, Update, SetStart,
         SetStop, CallService, Clear, Lock, Send, Serve, Fail, Unlock, vars
<1> SUFFICES ASSUME ~lost' PROVE Applied' /\ CommandNotLost'
  BY <1>0 DEF LosslessInv, Applied, CommandNotLost
<1>c. /\ Port!Switched(Port!Switched(running, outstanding), buffer) = target
      /\ Applied /\ ~lost
  BY <1>l DEF LosslessInv, CommandNotLost
<1>1. ASSUME NEW S \in SUBSET Controllers, StartControllers(S)
      PROVE  Applied' /\ CommandNotLost'
  <2>1. outstanding' = outstanding /\ running' = running
    BY <1>1 DEF StartControllers, outstanding
  <2>2. Port!Switched(Port!Switched(running, outstanding), Port!WithStart(buffer, S))
        = Port!Switched(Port!Switched(running, outstanding), buffer) \cup S
    BY <1>t DEF Port!Switched, Port!WithStart, Port!Batch
  <2>3. CommandNotLost'
    BY <1>1, <1>c, <2>1, <2>2 DEF StartControllers, CommandNotLost, Port!Switched
  <2> QED
    BY <1>1, <2>3 DEF StartControllers, Applied
<1>2. ASSUME NEW S \in SUBSET Controllers, StopControllers(S)
      PROVE  Applied' /\ CommandNotLost'
  <2>1. outstanding' = outstanding /\ running' = running
    BY <1>2 DEF StopControllers, outstanding
  <2>2. Port!Switched(Port!Switched(running, outstanding), Port!WithStop(buffer, S))
        = Port!Switched(Port!Switched(running, outstanding), buffer) \ S
    BY <1>t DEF Port!Switched, Port!WithStop, Port!Batch
  <2>3. CommandNotLost'
    BY <1>2, <1>c, <2>1, <2>2 DEF StopControllers, CommandNotLost, Port!Switched
  <2> QED
    BY <1>2, <2>3 DEF StopControllers, Applied
<1>3. CASE Update
  <2>1. outstanding' = outstanding
    BY <1>3 DEF Update, outstanding
  <2> QED
    BY <1>3, <1>c, <2>1 DEF Update, Applied, CommandNotLost, Port!Switched
<1>4. CASE SetStart
  <2>1. ~InFlight /\ ~InFlight'
    BY <1>4, <1>0 DEF SetStart, PromptInv, Exclusive, InFlight
  <2>2. outstanding' = outstanding
    BY <2>1, <1>o, <1>p, <1>e DEF OutstandingIs
  <2> QED
    BY <1>4, <1>c, <2>2 DEF SetStart, Applied, CommandNotLost, Port!Switched
<1>5. CASE SetStop
  <2>1. ~InFlight /\ ~InFlight'
    BY <1>5, <1>0 DEF SetStop, PromptInv, Exclusive, InFlight
  <2>2. outstanding' = outstanding
    BY <2>1, <1>o, <1>p, <1>e DEF OutstandingIs
  <2> QED
    BY <1>5, <1>c, <2>2 DEF SetStop, Applied, CommandNotLost, Port!Switched
<1>6. CASE CallService
  <2>1. ~InFlight /\ InFlight'
    BY <1>6, <1>0
    DEF CallService, PromptInv, Exclusive, InFlight, SafeBuffers, Types
  <2>2. outstanding = Empty /\ outstanding' = buffer
    BY <1>6, <1>0, <1>o, <1>p, <2>1
    DEF CallService, OutstandingIs, PromptInv, Copied
  <2>3. Port!Switched(Port!Switched(running, buffer), buffer) = target
    BY <1>t, <1>c, <2>2, SwitchTwice
  <2> QED
    BY <1>6, <2>1, <2>2, <2>3 DEF CallService, Applied, CommandNotLost, Port!Switched
<1>7. CASE Clear
  <2>1. outstanding' = outstanding
    BY <1>7 DEF Clear, outstanding
  <2>2. Port!Switched(running, outstanding) = target
    <3>1. CASE InFlight
      <4>1. outstanding = buffer
        BY <1>7, <1>0, <1>o, <3>1 DEF Clear, OutstandingIs, PromptInv, Copied
      <4> QED
        BY <4>1, <1>t, <1>c, SwitchTwice
    <3>2. CASE ~InFlight
      <4>1. outstanding = Empty
        BY <1>o, <3>2 DEF OutstandingIs
      <4>2. Port!Switched(running, buffer) = running
        BY <1>7, <1>c, <3>2 DEF Clear, Applied
      <4> QED
        BY <4>1, <4>2, <1>t, <1>c, SwitchTwice
    <3> QED
      BY <3>1, <3>2
  <2>3. Port!Switched(Port!Switched(running, outstanding), Empty) = target
    BY <1>t, <2>2, SwitchTwice, EmptyBatch
  <2> QED
    BY <1>7, <2>1, <2>3 DEF Clear, Applied, CommandNotLost, Port!Switched
<1>8. CASE Lock
  <2>1. InFlight /\ InFlight'
    BY <1>8 DEF Lock, InFlight
  <2>2. outstanding' = outstanding
    BY <1>8, <1>o, <1>p, <2>1 DEF Lock, OutstandingIs
  <2> QED
    BY <1>8, <1>c, <2>1, <2>2 DEF Lock, Applied, CommandNotLost, Port!Switched
<1>9. CASE Send
  <2>1. InFlight /\ InFlight'
    BY <1>9 DEF Send, InFlight
  <2>2. outstanding' = outstanding
    BY <1>9, <1>o, <1>p, <2>1 DEF Send, OutstandingIs
  <2> QED
    BY <1>9, <1>c, <2>1, <2>2 DEF Send, Applied, CommandNotLost, Port!Switched
<1>10. CASE Serve
  <2>1. InFlight /\ ~InFlight' /\ wire = request
    BY <1>10, <1>0
    DEF Serve, InFlight, PromptInv, Exclusive, Whole, SafeBuffers, Types
  <2>2. outstanding = request /\ outstanding' = Empty
    BY <2>1, <1>o, <1>p, <1>e DEF OutstandingIs
  <2>3. running' = Port!Switched(running, request)
    BY <1>10, <2>1 DEF Serve
  <2>4. Port!Switched(running', Empty) = running'
    BY <2>3, <1>t, SwitchTwice
  <2>5. Port!Switched(Port!Switched(running', Empty), buffer) = target
    BY <2>2, <2>3, <2>4, <1>c
  <2>6. pc = "clear" => Port!Switched(running', buffer) = running'
    BY <1>0, <1>t, <2>3, SwitchTwice DEF PromptInv, Copied
  <2> QED
    BY <1>10, <2>2, <2>5, <2>6 DEF Serve, Applied, CommandNotLost, Port!Switched
<1>11. CASE Fail
  BY <1>11 DEF Fail
<1>12. CASE Unlock
  <2>1. ~InFlight /\ ~InFlight'
    BY <1>12, <1>0
    DEF Unlock, InFlight, PromptInv, Exclusive, SafeBuffers, Types
  <2>2. outstanding' = outstanding
    BY <2>1, <1>o, <1>p, <1>e DEF OutstandingIs
  <2> QED
    BY <1>12, <1>c, <2>1, <2>2 DEF Unlock, Applied, CommandNotLost, Port!Switched
<1>13. CASE UNCHANGED vars
  <2>1. outstanding' = outstanding
    BY <1>13 DEF vars, outstanding
  <2> QED
    BY <1>13, <1>c, <2>1 DEF vars, Applied, InFlight, CommandNotLost, Port!Switched
<1> QED
  BY <1>1, <1>2, <1>3, <1>4, <1>5, <1>6, <1>7, <1>8, <1>9, <1>10, <1>11, <1>12,
     <1>13
  DEF Next, Main, Thread

\* With a prompt thread and until a call fails, what is running, what is under
\* way and what is buffered add up, at every moment, to the controllers
\* whose last command was a start.
THEOREM NoCommandIsLost ==
    ASSUME PromptSpawn
    PROVE  Safety => []CommandNotLost
<1>1. LosslessInv => CommandNotLost
  BY DEF LosslessInv
<1> QED
  BY InitLosslessInv, NextLosslessInv, <1>1, PTL DEF Safety

-----------------------------------------------------------------------------
(* The threads implement the port. *)

\* With a prompt thread, and whether or not calls fail, the buffers, the shared
\* request and the mutex behave like the port: a batch leaves whole, one at a
\* time, and is applied or lost as a whole.
THEOREM PortIsImplemented ==
    ASSUME PromptSpawn
    PROVE  Safety => Port!PortSafety
<1>1. Init => Port!PortInit
  <2> SUFFICES ASSUME Init PROVE Port!PortInit
    OBVIOUS
  <2>1. outstanding = Empty
    BY DEF Init, outstanding, Empty, Port!Nothing
  <2>2. unsent = Empty
    BY DEF Init, unsent
  <2> QED
    BY <2>1, <2>2 DEF Port!PortInit, Init, Empty
<1>2. ASSUME PromptInv, PromptInv', [Next]_vars
      PROVE  [Port!PortNext]_(Port!portVars)
  <2>o. OutstandingIs
    BY <1>2, Outstanding
  <2>p. OutstandingIs'
    BY <1>2, Outstanding, PTL
  <2>e. Empty' = Empty /\ Empty = Port!Nothing
    BY DEF Empty, Port!Nothing
  <2>s. ASSUME unsent' = unsent, outstanding' = outstanding, running' = running
        PROVE  [Port!PortNext]_(Port!portVars)
    BY <2>s DEF Port!portVars
  <2>1. ASSUME NEW S \in SUBSET Controllers, StartControllers(S)
        PROVE  [Port!PortNext]_(Port!portVars)
    <3>1. outstanding' = outstanding /\ running' = running
      BY <2>1 DEF StartControllers, outstanding
    <3>2. unsent = buffer /\ unsent' = Port!WithStart(buffer, S)
      BY <2>1 DEF StartControllers, unsent
    <3> QED
      BY <3>1, <3>2 DEF Port!PortNext, Port!Start, Port!WithStart
  <2>2. ASSUME NEW S \in SUBSET Controllers, StopControllers(S)
        PROVE  [Port!PortNext]_(Port!portVars)
    <3>1. outstanding' = outstanding /\ running' = running
      BY <2>2 DEF StopControllers, outstanding
    <3>2. unsent = buffer /\ unsent' = Port!WithStop(buffer, S)
      BY <2>2 DEF StopControllers, unsent
    <3> QED
      BY <3>1, <3>2 DEF Port!PortNext, Port!Stop, Port!WithStop
  <2>3. CASE Update
    BY <2>3, <2>s DEF Update, unsent, outstanding
  <2>4. CASE SetStart
    <3>1. ~InFlight /\ ~InFlight'
      BY <2>4, <1>2 DEF SetStart, PromptInv, Exclusive, InFlight
    <3> QED
      BY <2>4, <2>s, <2>o, <2>p, <2>e, <3>1 DEF SetStart, OutstandingIs, unsent
  <2>5. CASE SetStop
    <3>1. ~InFlight /\ ~InFlight'
      BY <2>5, <1>2 DEF SetStop, PromptInv, Exclusive, InFlight
    <3> QED
      BY <2>5, <2>s, <2>o, <2>p, <2>e, <3>1 DEF SetStop, OutstandingIs, unsent
  <2>6. CASE CallService
    <3>1. ~InFlight /\ InFlight'
      BY <2>6, <1>2
      DEF CallService, PromptInv, Exclusive, InFlight, SafeBuffers, Types
    <3>2. outstanding = Empty /\ outstanding' = buffer /\ buffer # Empty
      BY <2>6, <1>2, <2>o, <2>p, <3>1
      DEF CallService, OutstandingIs, PromptInv, Copied
    <3>3. unsent = buffer /\ unsent' = Empty /\ running' = running
      BY <2>6 DEF CallService, unsent, Empty, Port!Nothing
    <3> QED
      BY <3>2, <3>3, <2>e DEF Port!PortNext, Port!Flush
  <2>7. CASE Clear
    BY <2>7, <2>s DEF Clear, unsent, outstanding, Empty, Port!Nothing
  <2>8. CASE Lock
    <3>1. InFlight /\ InFlight'
      BY <2>8 DEF Lock, InFlight
    <3> QED
      BY <2>8, <2>s, <2>o, <2>p, <3>1 DEF Lock, OutstandingIs, unsent
  <2>9. CASE Send
    <3>1. InFlight /\ InFlight'
      BY <2>9 DEF Send, InFlight
    <3> QED
      BY <2>9, <2>s, <2>o, <2>p, <3>1 DEF Send, OutstandingIs, unsent
  <2>10. CASE Serve
    <3>1. InFlight /\ ~InFlight' /\ wire = request /\ request # Empty
      BY <2>10, <1>2
      DEF Serve, InFlight, PromptInv, Exclusive, Whole, SafeBuffers, Types
    <3>2. outstanding = request /\ outstanding' = Empty
      BY <3>1, <2>o, <2>p, <2>e DEF OutstandingIs
    <3>3. running' = Port!Switched(running, outstanding) /\ unsent' = unsent
      BY <2>10, <3>1, <3>2 DEF Serve, unsent
    <3> QED
      BY <3>1, <3>2, <3>3, <2>e DEF Port!PortNext, Port!Apply, Port!Switched
  <2>11. CASE Fail
    <3>1. InFlight /\ ~InFlight' /\ request # Empty
      BY <2>11, <1>2
      DEF Fail, InFlight, PromptInv, Exclusive, Whole, SafeBuffers, Types
    <3>2. outstanding = request /\ outstanding' = Empty
      BY <3>1, <2>o, <2>p, <2>e DEF OutstandingIs
    <3>3. running' = running /\ unsent' = unsent /\ CallMayFail
      BY <2>11 DEF Fail, unsent
    <3> QED
      BY <3>1, <3>2, <3>3, <2>e DEF Port!PortNext, Port!Lose
  <2>12. CASE Unlock
    <3>1. ~InFlight /\ ~InFlight'
      BY <2>12, <1>2
      DEF Unlock, InFlight, PromptInv, Exclusive, SafeBuffers, Types
    <3> QED
      BY <2>12, <2>s, <2>o, <2>p, <2>e, <3>1 DEF Unlock, OutstandingIs, unsent
  <2>13. CASE UNCHANGED vars
    BY <2>13, <2>s DEF vars, unsent, outstanding
  <2> QED
    BY <1>2, <2>1, <2>2, <2>3, <2>4, <2>5, <2>6, <2>7, <2>8, <2>9, <2>10, <2>11,
       <2>12, <2>13
    DEF Next, Main, Thread
<1> QED
  BY AlwaysPromptInv, <1>1, <1>2, PTL DEF Safety, Port!PortSafety
=============================================================================
