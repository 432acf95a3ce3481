----------------------------- MODULE WorkerProofs -----------------------------
(***************************************************************************)
(* What WorkerProcess guarantees for every set of requests and calls: its  *)
(* types, and that nothing waits for an app-server that is not there.      *)
(***************************************************************************)
EXTENDS WorkerProcess, SequenceTheorems, TLAPS

-----------------------------------------------------------------------------
(* Types *)

LEMMA InitTypeOK == Init => TypeOK
<1> SUFFICES ASSUME Init PROVE TypeOK
    OBVIOUS
<1>1. pipe \in Seq(Id \cup called \cup {Junk}) /\ junk \in 0..MaxJunk
    BY WorkerAssumption DEF Init
<1>2. /\ asked \subseteq Id /\ pending \subseteq Id
      /\ outcome \in [Id -> {"none", "waits", "answered", "failed", "timeout"}]
    BY DEF Init, Id
<1> QED
    BY <1>1, <1>2 DEF Init, TypeOK

LEMMA SeqMonotone ==
    ASSUME NEW S, NEW T, S \subseteq T, NEW s \in Seq(S)
    PROVE  s \in Seq(T)
BY SeqDef

\* What is left of the output when one line has been read.
LEMMA PipeTail ==
    ASSUME TypeOK, pipe # <<>>
    PROVE  /\ Head(pipe) \in Id \cup called \cup {Junk}
           /\ Tail(pipe) \in Seq(Id \cup called \cup {Junk})
BY DEF TypeOK

LEMMA ServerTypeOK == TypeOK /\ Server => TypeOK'
<1> SUFFICES ASSUME TypeOK, Server PROVE TypeOK'
    OBVIOUS
<1>1. ASSUME NEW r \in Id, ServerAnswers(r) PROVE TypeOK'
  <2>1. pipe' \in Seq(Id \cup called \cup {Junk}) /\ asked' \subseteq Id
      BY <1>1 DEF TypeOK, ServerAnswers
  <2> QED
      BY <1>1, <2>1 DEF TypeOK, ServerAnswers, ClientOnly
<1>2. ASSUME NEW c \in Call, ServerCalls(c) PROVE TypeOK'
  <2>1. called' \subseteq Call /\ open \subseteq called' /\ called' = called \cup {c}
      BY <1>2 DEF TypeOK, ServerCalls
  <2>2. pipe \in Seq(Id \cup called' \cup {Junk})
      BY <2>1, SeqMonotone DEF TypeOK
  <2>3. pipe' \in Seq(Id \cup called' \cup {Junk})
      BY <1>2, <2>1, <2>2 DEF ServerCalls
  <2> QED
      BY <1>2, <2>1, <2>3 DEF TypeOK, ServerCalls, ClientOnly
<1>3. ASSUME ServerWritesJunk PROVE TypeOK'
  <2>1. pipe' \in Seq(Id \cup called \cup {Junk})
      BY <1>3 DEF TypeOK, ServerWritesJunk
  <2>2. junk' \in 0..MaxJunk
      BY <1>3, WorkerAssumption DEF TypeOK, ServerWritesJunk
  <2> QED
      BY <1>3, <2>1, <2>2 DEF TypeOK, ServerWritesJunk, ClientOnly
<1>4. ASSUME ServerExits PROVE TypeOK'
    BY <1>4 DEF TypeOK, ServerExits, ClientOnly
<1> QED
    BY <1>1, <1>2, <1>3, <1>4 DEF Server

LEMMA Rejections ==
    ASSUME TypeOK, RejectAllPending
    PROVE  /\ pending' = {}
           /\ outcome' \in [Id -> {"none", "waits", "answered", "failed", "timeout"}]
BY DEF TypeOK, RejectAllPending, Rejected

LEMMA Terminations == TypeOK => Terminated \in {"running", "terminating", "exited", "reaped"}
BY DEF TypeOK, Terminated

\* The end of the process, by an error that nobody handles.
LEMMA CrashTypes ==
    ASSUME TypeOK, Crash, pipe' \in Seq(Id \cup called \cup {Junk}), open' \subseteq open
    PROVE  TypeOK'
BY Terminations DEF TypeOK, Crash

\* A line that is no failure: the calls and the requests keep their types.
LEMMA LineTypes ==
    ASSUME TypeOK, pipe' \in Seq(Id \cup called \cup {Junk}), open' \subseteq called,
           UNCHANGED <<phase, state, child, stopping, os, asked, called, junk, pending, outcome,
                       missed, exchanges>>
    PROVE  TypeOK'
BY DEF TypeOK

LEMMA ClientTypeOK == TypeOK /\ Client => TypeOK'
<1> SUFFICES ASSUME TypeOK, Client PROVE TypeOK'
    OBVIOUS
<1>0. Req \subseteq Id
    BY DEF Id
<1>1. ASSUME NEW r \in Req, Send(r) PROVE TypeOK'
    BY <1>0, <1>1 DEF TypeOK, Send
<1>2. ASSUME NEW r \in Req, SendRefused(r) PROVE TypeOK'
    BY <1>0, <1>2 DEF TypeOK, SendRefused, osVars
<1>3. ASSUME NEW r \in Req, SendBreaks(r) PROVE TypeOK'
  <2>1. pipe' \in Seq(Id \cup called \cup {Junk}) /\ open' \subseteq open
      BY <1>3 DEF TypeOK, SendBreaks
  <2> QED
      BY <1>3, <2>1, CrashTypes DEF SendBreaks
<1>4. ASSUME NEW r \in Id, RequestTimeout(r) PROVE TypeOK'
    BY <1>4 DEF TypeOK, RequestTimeout, osVars
<1>5. ASSUME HandleResponse PROVE TypeOK'
  <2>1. pipe' \in Seq(Id \cup called \cup {Junk})
      BY <1>5, PipeTail DEF HandleResponse
  <2>2. outcome' \in [Id -> {"none", "waits", "answered", "failed", "timeout"}]
      BY <1>5 DEF TypeOK, HandleResponse
  <2> QED
      BY <1>5, <2>1, <2>2 DEF TypeOK, HandleResponse
<1>6. ASSUME FailProtocol PROVE TypeOK'
  <2>1. pipe' \in Seq(Id \cup called \cup {Junk})
      BY <1>6, PipeTail DEF FailProtocol
  <2> QED
      BY <1>6, <2>1, Rejections, Terminations DEF TypeOK, FailProtocol
<1>7. ASSUME HandleServerRequest PROVE TypeOK'
  <2>1. pipe' \in Seq(Id \cup called \cup {Junk})
      BY <1>7, PipeTail DEF HandleServerRequest
  <2>2. Head(pipe) \in called
      BY <1>7, PipeTail, WorkerAssumption DEF HandleServerRequest, Id, Junk
  <2>3. open' \subseteq called
      BY <1>7, <2>2 DEF TypeOK, HandleServerRequest
  <2> QED
      BY <1>7, <2>1, <2>3, LineTypes DEF HandleServerRequest
<1>8. ASSUME RefuseServerRequest PROVE TypeOK'
  <2>1. pipe' \in Seq(Id \cup called \cup {Junk}) /\ open' = open
      BY <1>8, PipeTail DEF RefuseServerRequest
  <2>2. open' \subseteq called
      BY <2>1 DEF TypeOK
  <2> QED
      BY <1>8, <2>1, <2>2, LineTypes, CrashTypes DEF RefuseServerRequest
<1>9. ASSUME NEW c \in Call, CallSettles(c) PROVE TypeOK'
  <2>1. pipe' \in Seq(Id \cup called \cup {Junk}) /\ open' \subseteq open
      BY <1>9 DEF TypeOK, CallSettles
  <2>2. open' \subseteq called
      BY <2>1 DEF TypeOK
  <2> QED
      BY <1>9, <2>1, <2>2, LineTypes, CrashTypes DEF CallSettles
<1>10. ASSUME ChildFailure PROVE TypeOK'
  <2>1. pipe' \in Seq(Id \cup called \cup {Junk})
    <3>1. CASE pipe' = pipe
        BY <3>1 DEF TypeOK
    <3>2. CASE pipe # <<>> /\ pipe' = <<Junk>> \o Tail(pipe)
      <4>1. <<Junk>> \in Seq(Id \cup called \cup {Junk})
          OBVIOUS
      <4> QED
          BY <3>2, <4>1, PipeTail, ConcatProperties
    <3> QED
        BY <1>10, <3>1, <3>2 DEF ChildFailure, Torn
  <2>2. /\ phase' \in {"starting", "started", "opening", "serving", "closing", "stopped", "exited"}
        /\ open' \subseteq called
      BY <1>10 DEF TypeOK, ChildFailure
  <2> QED
      BY <1>10, <2>1, <2>2, Rejections DEF TypeOK, ChildFailure
<1> QED
    BY <1>1, <1>2, <1>3, <1>4, <1>5, <1>6, <1>7, <1>8, <1>9, <1>10 DEF Client

LEMMA MainTypeOK == TypeOK /\ Main => TypeOK'
<1> SUFFICES ASSUME TypeOK, Main PROVE TypeOK'
    OBVIOUS
<1>1. CASE StartReturns
    BY <1>1 DEF TypeOK, StartReturns, osVars
<1>2. CASE StartFails
    BY <1>2, Rejections, Terminations DEF TypeOK, StartFails, Stop
<1>3. CASE Serve
    BY <1>3 DEF TypeOK, Serve, osVars
<1>4. CASE Terminate
    BY <1>4, Terminations DEF TypeOK, Terminate
<1>5. CASE Close
    BY <1>5, Rejections, Terminations DEF TypeOK, Close, Stop
<1>6. CASE ProcessEnds
    BY <1>6 DEF TypeOK, ProcessEnds, osVars
<1> QED
    BY <1>1, <1>2, <1>3, <1>4, <1>5, <1>6 DEF Main

LEMMA HttpTypeOK == TypeOK /\ Http => TypeOK'
<1> SUFFICES ASSUME TypeOK, NEW e \in Exchange, Accept(e) \/ Answer(e) PROVE TypeOK'
    BY DEF Http
<1>1. exchanges' \subseteq Exchange
    BY DEF TypeOK, Accept, Answer
<1> QED
    BY <1>1 DEF TypeOK, Accept, Answer, osVars

LEMMA StepTypeOK == TypeOK /\ [Next]_vars => TypeOK'
<1> SUFFICES ASSUME TypeOK, [Next]_vars PROVE TypeOK'
    OBVIOUS
<1>1. CASE Next
    BY <1>1, ServerTypeOK, ClientTypeOK, HttpTypeOK, MainTypeOK DEF Next
<1>2. CASE UNCHANGED vars
    BY <1>2 DEF TypeOK, vars, osVars
<1> QED
    BY <1>1, <1>2

\* Every variable of a worker keeps its type, whatever app-server writes and whenever it
\* exits: the calls whose handler waits were made, the requests that wait were sent
\* (client.ts 131-413, main.ts 49-72).
THEOREM TypeCorrect == Spec => []TypeOK
<1>1. Init => TypeOK
    BY InitTypeOK
<1>2. TypeOK /\ [Next]_vars => TypeOK'
    BY StepTypeOK
<1> QED
    BY <1>1, <1>2, PTL DEF Spec

-----------------------------------------------------------------------------
(* Nothing waits without a child *)

\* A request waits exactly while its entry is in #pending: none is settled twice, and none
\* is dropped from the map unsettled.
WaitsPending == \A r \in Id : outcome[r] = "waits" <=> r \in pending

Settling == NothingWithoutChild /\ WaitsPending

LEMMA ServerSettling == Settling /\ Server => Settling'
BY DEF Settling, NothingWithoutChild, WaitsPending, Server, ServerAnswers, ServerCalls,
       ServerWritesJunk, ServerExits, ClientOnly

\* A failure settles every request that waits.
LEMMA RejectSettles ==
    ASSUME TypeOK, WaitsPending, RejectAllPending
    PROVE  pending' = {} /\ WaitsPending'
BY DEF TypeOK, WaitsPending, RejectAllPending, Rejected

LEMMA ClientSettling == TypeOK /\ Settling /\ Client => Settling'
<1> SUFFICES ASSUME TypeOK, Settling, Client PROVE Settling'
    OBVIOUS
<1> USE DEF Settling, NothingWithoutChild
<1>0. Req \subseteq Id
    BY DEF Id
<1>1. ASSUME NEW r \in Req, Send(r) PROVE Settling'
    BY <1>0, <1>1 DEF TypeOK, WaitsPending, Send
<1>2. ASSUME NEW r \in Req, SendRefused(r) PROVE Settling'
  <2>1. r \notin pending
      BY <1>0, <1>2 DEF WaitsPending, SendRefused
  <2> QED
      BY <1>0, <1>2, <2>1 DEF TypeOK, WaitsPending, SendRefused
<1>3. ASSUME NEW r \in Req, SendBreaks(r) PROVE Settling'
    BY <1>3 DEF WaitsPending, SendBreaks, Crash
<1>4. ASSUME NEW r \in Id, RequestTimeout(r) PROVE Settling'
    BY <1>4 DEF TypeOK, WaitsPending, RequestTimeout
<1>5. ASSUME HandleResponse PROVE Settling'
    BY <1>5 DEF TypeOK, WaitsPending, HandleResponse
<1>6. ASSUME FailProtocol PROVE Settling'
    BY <1>6, RejectSettles DEF FailProtocol
<1>7. ASSUME HandleServerRequest PROVE Settling'
    BY <1>7 DEF WaitsPending, HandleServerRequest
<1>8. ASSUME RefuseServerRequest PROVE Settling'
    BY <1>8 DEF WaitsPending, RefuseServerRequest, Crash
<1>9. ASSUME NEW c \in Call, CallSettles(c) PROVE Settling'
    BY <1>9 DEF WaitsPending, CallSettles, Crash
<1>10. ASSUME ChildFailure PROVE Settling'
    BY <1>10, RejectSettles DEF ChildFailure
<1> QED
    BY <1>1, <1>2, <1>3, <1>4, <1>5, <1>6, <1>7, <1>8, <1>9, <1>10 DEF Client

LEMMA MainSettling == TypeOK /\ Settling /\ Main => Settling'
<1> SUFFICES ASSUME TypeOK, Settling, Main PROVE Settling'
    OBVIOUS
<1> USE DEF Settling, NothingWithoutChild
<1>1. CASE StartReturns
    BY <1>1 DEF WaitsPending, StartReturns
<1>2. CASE StartFails
    BY <1>2, RejectSettles DEF StartFails, Stop
<1>3. CASE Serve
    BY <1>3 DEF WaitsPending, Serve
<1>4. CASE Terminate
    BY <1>4 DEF WaitsPending, Terminate
<1>5. CASE Close
    BY <1>5, RejectSettles DEF Close, Stop
<1>6. CASE ProcessEnds
    BY <1>6 DEF WaitsPending, ProcessEnds
<1> QED
    BY <1>1, <1>2, <1>3, <1>4, <1>5, <1>6 DEF Main

LEMMA HttpSettling == Settling /\ Http => Settling'
BY DEF Settling, NothingWithoutChild, WaitsPending, Http, Accept, Answer

\* The requests that wait are those in #pending, and they wait only while there is a child
\* to answer them; the health that the API asks for is ready only then
\* (client.ts 189-249, 389-413).
THEOREM WaitingNeedsChild == Spec => []NothingWithoutChild /\ []WaitsPending
<1>1. Init => Settling
    BY DEF Init, Settling, NothingWithoutChild, WaitsPending, Id
<1>2. TypeOK /\ Settling /\ [Next]_vars => Settling'
  <2>1. ASSUME Settling, UNCHANGED vars PROVE Settling'
      BY <2>1 DEF Settling, NothingWithoutChild, WaitsPending, vars
  <2> QED
      BY <2>1, ServerSettling, ClientSettling, HttpSettling, MainSettling DEF Next
<1>3. Settling => NothingWithoutChild /\ WaitsPending
    BY DEF Settling
<1> QED
    BY <1>1, <1>2, <1>3, TypeCorrect, PTL DEF Spec
=============================================================================
