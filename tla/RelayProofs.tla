----------------------------- MODULE RelayProofs -----------------------------
(***************************************************************************)
(* What StreamRelay guarantees for a response of any length: its types,    *)
(* and that what the client has is a prefix of what the worker wrote, all  *)
(* of it where the row is completed. The argument follows the events: when *)
(* the backend has read r of them, the wire begins with r + 1, and the     *)
(* chain of emits ends with r.                                             *)
(***************************************************************************)
EXTENDS StreamRelay, Integers, SequenceTheorems, TLAPS

Closing == {Line("error"), Line("other"), Line("bad"), Line("end"), Line("torn"), Line("cut")}

-----------------------------------------------------------------------------
(* Lines *)

LEMMA EventsDiffer == \A m, n : Event(m) = Event(n) => m = n
BY DEF Event

LEMMA EventIsNoLine == \A n : Event(n) \notin Closing /\ Event(n).type = "event"
BY DEF Event, Line, Closing

LEMMA LinesDiffer ==
    /\ Line("error") \notin {Line("other"), Line("bad"), Line("end"), Line("torn"), Line("cut")}
    /\ Line("other") \notin {Line("bad"), Line("end"), Line("torn"), Line("cut")}
    /\ Line("cut") \notin {Line("bad"), Line("end"), Line("torn")}
    /\ Line("bad") \notin {Line("end"), Line("torn")}
BY DEF Line

LEMMA EmittedEvent ==
    ASSUME NEW e \in Emitted, e # Line("error")
    PROVE  e.n \in 1..MaxEvents /\ e = Event(e.n)
BY DEF Emitted, Event

LEMMA EmittedClosing ==
    ASSUME NEW e \in Closing
    PROVE  e \in Emitted <=> e = Line("error")
BY EventIsNoLine, LinesDiffer DEF Emitted, Closing

LEMMA SeqMonotone ==
    ASSUME NEW S, NEW T, S \subseteq T, NEW s \in Seq(S)
    PROVE  s \in Seq(T)
BY SeqDef

LEMMA TailOf ==
    ASSUME NEW S, NEW s \in Seq(S), s # <<>>
    PROVE  /\ Head(s) = s[1] /\ Head(s) \in S /\ 1 \in 1..Len(s)
           /\ Tail(s) \in Seq(S) /\ Len(Tail(s)) = Len(s) - 1
           /\ \A i \in 1..Len(s) - 1 : Tail(s)[i] = s[i + 1]
OBVIOUS

LEMMA AppendOf ==
    ASSUME NEW S, NEW s \in Seq(S), NEW e \in S
    PROVE  /\ Append(s, e) \in Seq(S) /\ Len(Append(s, e)) = Len(s) + 1
           /\ \A i \in 1..Len(s) : Append(s, e)[i] = s[i]
           /\ Append(s, e)[Len(s) + 1] = e
OBVIOUS

-----------------------------------------------------------------------------
(* Types *)

\* The client is told of an error once by the chain and once by the handler: the chain has
\* told it when its emit waits, or when it has thrown.
ToldOnce ==
    /\ errors \in 0..2
    /\ row = "in_progress" =>
           \/ errors = 0
           \/ /\ errors = 1
              /\ \/ chain = <<>> /\ promise = "rejected"
                 \/ blocked /\ chain # <<>> /\ Head(chain) = Line("error")

\* What the handler has settled, the promise has settled before.
Settled ==
    /\ row = "completed" => promise = "resolved"
    /\ row = "failed" => promise = "rejected"
    /\ promise = "resolved" => conn = "ended" /\ chain = <<>> /\ errors = 0
    /\ conn = "ended" => worker = "ended"
    /\ blocked => chain # <<>>

Lines == Emitted \cup {Line("other"), Line("bad"), Line("end"), Line("torn"), Line("cut")}

\* What is on the wire when the backend has read r events: the events that follow, then
\* what the end of the worker has left.
WireHolds(r) ==
    /\ Len(wire) >= sent - r
    /\ \A i \in 1..Len(wire) :
           \/ i <= sent - r /\ wire[i] = Event(r + i)
           \/ /\ i > sent - r /\ wire[i] \in Closing
              /\ worker # "writing"
              /\ worker = "dead" => wire[i] = Line("cut")
              /\ wire[i] = Line("error") => i = sent - r + 1

\* The events whose emit is over: one that waits has written its event.
Done == IF blocked /\ Head(chain) # Line("error") THEN Len(written) - 1 ELSE Len(written)

\* The chain holds the events that follow those, up to r while the promise is not rejected,
\* and at its end the error after which the worker has nothing more to emit.
ChainHolds(r) ==
    /\ \A i \in 1..Len(chain) :
           \/ chain[i] = Event(Done + i) /\ Done + i <= r
           \/ /\ chain[i] = Line("error") /\ i = Len(chain)
              /\ worker # "writing"
              /\ \A j \in 1..Len(wire) : wire[j] \notin Emitted
    /\ promise # "rejected" =>
           \/ Done + Len(chain) = r
           \/ /\ Done + Len(chain) = r + 1
              /\ Len(chain) > 0 /\ chain[Len(chain)] = Line("error")

Holds(r) ==
    /\ WireHolds(r) /\ ChainHolds(r)
    /\ conn = "ended" => r = sent

\* The client has a prefix.
Prefix == \A i \in 1..Len(written) : written[i] = i
Whole == promise = "resolved" => Len(written) = sent

Relayed == ToldOnce /\ Settled /\ Prefix /\ Whole /\ \E r \in 0..sent : Holds(r)
RInv == TypeOK /\ Relayed

LEMMA InitRInv == Init => RInv
<1> SUFFICES ASSUME Init PROVE RInv
    OBVIOUS
<1>1. TypeOK
  <2>1. wire \in Seq(Lines) /\ chain \in Seq(Emitted) /\ written \in Seq(1..MaxEvents)
      BY EmptySeq DEF Init
  <2>2. sent \in 0..MaxEvents
      BY RelayAssumption DEF Init
  <2>3. /\ worker = "writing" /\ conn = "open" /\ promise = "pending" /\ client = "here"
        /\ row = "in_progress" /\ errors = 0
        /\ headers \in BOOLEAN /\ blocked \in BOOLEAN /\ aborted \in BOOLEAN
      BY DEF Init
  <2> QED
      BY <2>1, <2>2, <2>3 DEF TypeOK, Lines
<1>2. Holds(0) /\ 0 \in 0..sent
    BY DEF Init, Holds, WireHolds, ChainHolds, Done
<1> QED
    BY <1>1, <1>2 DEF Init, RInv, Relayed, ToldOnce, Settled, Prefix, Whole

LEMMA NextTypeOK == TypeOK /\ Settled /\ ToldOnce' /\ [Next]_vars => TypeOK'
<1> SUFFICES ASSUME TypeOK, Settled, ToldOnce', [Next]_vars PROVE TypeOK'
    OBVIOUS
<1> errors' \in 0..2
    BY DEF ToldOnce
<1>1. ASSUME WorkerWrites PROVE TypeOK'
  <2>1. sent' \in 0..MaxEvents /\ Event(sent') \in Emitted
      BY <1>1, RelayAssumption DEF WorkerWrites, TypeOK, Emitted
  <2>2. wire' \in Seq(Lines)
      BY <1>1, <2>1 DEF WorkerWrites, TypeOK, Lines
  <2> QED
      BY <1>1, <2>1, <2>2 DEF WorkerWrites, WorkerOnly, TypeOK, Lines, emitVars, clientVars
<1>2. ASSUME WorkerEnds PROVE TypeOK'
  <2>1. PICK last \in {<<>>, <<Line("error")>>, <<Line("other")>>, <<Line("bad")>>, <<Line("torn")>>} :
            wire' = wire \o last \o <<Line("end")>>
      BY <1>2 DEF WorkerEnds
  <2>2. Line("error") \in Lines /\ Line("other") \in Lines /\ Line("bad") \in Lines /\ Line("torn") \in Lines
        /\ Line("end") \in Lines
      BY DEF Lines, Emitted
  <2> HIDE DEF Lines
  <2>3. <<>> \in Seq(Lines) /\ \A e \in Lines : <<e>> \in Seq(Lines)
      BY EmptySeq
  <2>5. wire \in Seq(Lines)
      BY DEF TypeOK, Lines
  <2>6. last \in Seq(Lines) /\ <<Line("end")>> \in Seq(Lines)
      BY <2>1, <2>2, <2>3
  <2>4. wire' \in Seq(Lines)
      BY <2>1, <2>5, <2>6
  <2> QED
      BY <1>2, <2>4 DEF WorkerEnds, WorkerOnly, TypeOK, Lines, emitVars, clientVars
<1>3. ASSUME WorkerDies PROVE TypeOK'
  <2>1. wire' \in Seq(Lines)
      BY <1>3 DEF WorkerDies, TypeOK, Lines
  <2> QED
      BY <1>3, <2>1 DEF WorkerDies, WorkerOnly, TypeOK, Lines, emitVars, clientVars
<1>4. ASSUME ReceiveEvent PROVE TypeOK'
  <2>1. wire' \in Seq(Lines) /\ chain' \in Seq(Emitted)
      BY <1>4 DEF ReceiveEvent, TypeOK, Lines
  <2> QED
      BY <1>4, <2>1 DEF ReceiveEvent, BackendOnly, TypeOK, Lines, workerVars, clientVars
<1>9. ASSUME SkipLine PROVE TypeOK'
  <2>1. wire' \in Seq(Lines)
      BY <1>9 DEF SkipLine, TypeOK, Lines
  <2> QED
      BY <1>9, <2>1 DEF SkipLine, BackendOnly, TypeOK, Lines, workerVars, emitVars, clientVars
<1>5. ASSUME ReceiveHead \/ ReceiveBad \/ ReceiveEnd \/ ReceiveCut \/ WorkerTimeout
             \/ RequestError \/ ResolveStream
      PROVE  TypeOK'
  <2>1. UNCHANGED <<wire, chain, blocked, workerVars, written, clientVars, row>>
      BY <1>5 DEF ReceiveHead, ReceiveBad, ReceiveEnd, ReceiveCut, WorkerTimeout,
                  RequestError, ResolveStream, BackendOnly, backendVars, emitVars
  <2>2. /\ conn' \in {"open", "failing", "ended", "closed", "severed"}
        /\ headers' \in BOOLEAN /\ promise' \in {"pending", "resolved", "rejected"}
      BY <1>5 DEF ReceiveHead, ReceiveBad, ReceiveEnd, ReceiveCut, WorkerTimeout,
                  RequestError, ResolveStream, Reject, backendVars, TypeOK
  <2> QED
      BY <2>1, <2>2 DEF TypeOK, workerVars, clientVars
<1>6. ASSUME Emit \/ EmitFails \/ Drain \/ ClientLeaves PROVE TypeOK'
  <2>1. chain' \in Seq(Emitted)
    <3>1. chain' = chain \/ chain' = <<>> \/ (chain # <<>> /\ chain' = Tail(chain))
      <4>1. ASSUME EmitOver, chain # <<>>
            PROVE  chain' = <<>> \/ chain' = Tail(chain)
          BY <4>1 DEF EmitOver
      <4>2. CASE Emit
          BY <4>1, <4>2 DEF Emit
      <4>3. CASE Drain
          BY <4>1, <4>3 DEF Drain, Settled
      <4>4. CASE EmitFails
          BY <4>4 DEF EmitFails
      <4>5. CASE ClientLeaves
          BY <4>5 DEF ClientLeaves, emitVars
      <4> QED
          BY <1>6, <4>2, <4>3, <4>4, <4>5
    <3>2. chain \in Seq(Emitted)
        BY DEF TypeOK
    <3>3. CASE chain' = chain
        BY <3>2, <3>3
    <3>4. CASE chain' = <<>>
        BY <3>4, EmptySeq
    <3>5. CASE chain # <<>> /\ chain' = Tail(chain)
      <4>1. Tail(chain) \in Seq(Emitted)
          BY <3>2, <3>5, TailOf
      <4> QED
          BY <3>5, <4>1
    <3> QED
        BY <3>1, <3>3, <3>4, <3>5
  <2>2. written' \in Seq(1..MaxEvents)
    <3>1. ASSUME chain # <<>>, Head(chain) # Line("error") PROVE Head(chain).n \in 1..MaxEvents
        BY <3>1, EmittedEvent DEF TypeOK
    <3>2. \/ written' = written
          \/ /\ chain # <<>> /\ Head(chain) # Line("error")
             /\ written' = Append(written, Head(chain).n)
        BY <1>6 DEF Emit, EmitFails, Drain, ClientLeaves, LeaveOnly
    <3>3. written \in Seq(1..MaxEvents)
        BY DEF TypeOK
    <3>4. CASE written' = written
        BY <3>3, <3>4
    <3>5. CASE chain # <<>> /\ Head(chain) # Line("error")
      <4>1. Append(written, Head(chain).n) \in Seq(1..MaxEvents)
          BY <3>1, <3>3, <3>5, AppendOf
      <4> QED
          BY <3>2, <3>3, <4>1
    <3> QED
        BY <3>2, <3>4, <3>5
  <2>3. /\ UNCHANGED <<sent, worker, wire, headers, row>>
        /\ conn' \in {"open", "failing", "ended", "closed", "severed"}
        /\ client' \in {"here", "gone"} /\ aborted' \in BOOLEAN
      BY <1>6 DEF Emit, EmitFails, Drain, ClientLeaves, EmitOnly, LeaveOnly, Disconnected,
                  Ended, workerVars, backendVars, clientVars, TypeOK
  <2>4. blocked' \in BOOLEAN /\ promise' \in {"pending", "resolved", "rejected"}
      BY <1>6 DEF Emit, EmitFails, Drain, ClientLeaves, EmitOver, Reject, emitVars, TypeOK
  <2> QED
      BY <2>1, <2>2, <2>3, <2>4 DEF TypeOK
<1>7. ASSUME Complete \/ Fail PROVE TypeOK'
    BY <1>7 DEF Complete, Fail, HandlerOnly, TypeOK, workerVars, backendVars, emitVars, clientVars
<1>8. ASSUME UNCHANGED vars PROVE TypeOK'
    BY <1>8 DEF vars, TypeOK, workerVars, backendVars, emitVars, clientVars
<1> QED
    BY <1>1, <1>2, <1>3, <1>4, <1>5, <1>6, <1>7, <1>8, <1>9 DEF Next, Worker, Backend, Emits

-----------------------------------------------------------------------------
(* What is told and settled *)

LEMMA NextToldOnce == TypeOK /\ ToldOnce /\ Settled /\ [Next]_vars => ToldOnce'
<1> SUFFICES ASSUME TypeOK, ToldOnce, Settled, [Next]_vars PROVE ToldOnce'
    OBVIOUS
<1>1. ASSUME Worker PROVE ToldOnce'
    BY <1>1 DEF Worker, WorkerWrites, WorkerEnds, WorkerDies, WorkerOnly, emitVars, ToldOnce
<1>2. ASSUME ReceiveEvent PROVE ToldOnce'
  <2>1. UNCHANGED <<errors, row, promise, blocked>>
      BY <1>2 DEF ReceiveEvent, BackendOnly
  <2>2. CASE promise = "rejected"
      BY <1>2, <2>1, <2>2 DEF ReceiveEvent, ToldOnce
  <2>3. CASE promise # "rejected"
    <3>1. chain' = Append(chain, Head(wire)) /\ Head(wire) \in Emitted /\ chain \in Seq(Emitted)
        BY <1>2, <2>3 DEF ReceiveEvent, TypeOK
    <3>2. chain # <<>> => chain' # <<>> /\ Head(chain') = Head(chain)
        BY <3>1
    <3> QED
        BY <2>1, <2>3, <3>2 DEF ToldOnce
  <2> QED
      BY <2>2, <2>3
<1>3. ASSUME ReceiveHead \/ ReceiveBad \/ ReceiveEnd \/ ReceiveCut \/ WorkerTimeout
             \/ RequestError \/ ResolveStream
      PROVE  ToldOnce'
  <2>1. UNCHANGED <<chain, blocked, errors, row>>
      BY <1>3 DEF ReceiveHead, ReceiveBad, ReceiveEnd, ReceiveCut, WorkerTimeout,
                  RequestError, ResolveStream, BackendOnly, emitVars
  <2>2. promise = "rejected" => promise' = "rejected"
      BY <1>3 DEF ReceiveHead, ReceiveBad, ReceiveEnd, ReceiveCut, WorkerTimeout,
                  RequestError, ResolveStream, Reject
  <2> QED
      BY <2>1, <2>2 DEF ToldOnce
<1>4. ASSUME Emit PROVE ToldOnce'
  <2>1. row = "in_progress" /\ UNCHANGED row /\ chain # <<>> /\ ~blocked /\ errors = 0
      BY <1>4 DEF Emit, EmitOnly, Ended, ToldOnce
  <2>2. CASE Head(chain) = Line("error")
    <3>1. errors' = 1
        BY <1>4, <2>1, <2>2 DEF Emit
    <3>2. CASE EmitOver
        BY <2>1, <2>2, <3>1, <3>2 DEF EmitOver, Reject, ToldOnce, Settled, TypeOK
    <3>3. CASE blocked' /\ UNCHANGED <<chain, promise>>
        BY <2>1, <2>2, <3>1, <3>3 DEF ToldOnce
    <3> QED
        BY <1>4, <3>2, <3>3 DEF Emit
  <2>3. CASE Head(chain) # Line("error")
      BY <1>4, <2>1, <2>3 DEF Emit, ToldOnce
  <2> QED
      BY <2>2, <2>3
<1>5. ASSUME EmitFails PROVE ToldOnce'
  <2>1. chain' = <<>> /\ promise' = "rejected" /\ UNCHANGED <<errors, row>>
      BY <1>5 DEF EmitFails, EmitOnly, Reject, Settled, TypeOK
  <2> QED
      BY <2>1 DEF ToldOnce
<1>6. ASSUME Drain PROVE ToldOnce'
  <2>1. chain # <<>> /\ UNCHANGED <<errors, row>>
      BY <1>6 DEF Drain, EmitOnly, Settled
  <2>2. CASE Head(chain) = Line("error")
      BY <1>6, <2>1, <2>2 DEF Drain, EmitOver, Reject, ToldOnce, Settled, TypeOK
  <2>3. CASE Head(chain) # Line("error")
      BY <2>1, <2>3 DEF ToldOnce
  <2> QED
      BY <2>2, <2>3
<1>7. ASSUME ClientLeaves PROVE ToldOnce'
  <2>1. UNCHANGED <<errors, row>>
      BY <1>7 DEF ClientLeaves, LeaveOnly
  <2>2. CASE blocked
      BY <1>7, <2>1, <2>2 DEF ClientLeaves, Reject, ToldOnce, Settled, TypeOK
  <2>3. CASE ~blocked
      BY <1>7, <2>1, <2>3 DEF ClientLeaves, emitVars, ToldOnce
  <2> QED
      BY <2>2, <2>3
<1>8. ASSUME Complete \/ Fail PROVE ToldOnce'
    BY <1>8 DEF Complete, Fail, ToldOnce
<1>10. ASSUME SkipLine PROVE ToldOnce'
    BY <1>10 DEF SkipLine, BackendOnly, workerVars, emitVars, ToldOnce
<1>9. ASSUME UNCHANGED vars PROVE ToldOnce'
    BY <1>9 DEF vars, emitVars, ToldOnce
<1> QED
    BY <1>1, <1>2, <1>3, <1>4, <1>5, <1>6, <1>7, <1>8, <1>9, <1>10 DEF Next, Backend, Emits

\* The end of the response is read after every event, and only a worker that ended has sent it.
LEMMA EndIsLast ==
    ASSUME TypeOK, NEW r \in 0..sent, WireHolds(r), wire # <<>>,
           Head(wire) \in {Line("end"), Line("torn")}
    PROVE  r = sent /\ worker = "ended"
<1>1. Head(wire) = wire[1] /\ 1 \in 1..Len(wire)
    BY TailOf DEF TypeOK
<1>2. Head(wire) # Event(r + 1) /\ Head(wire) # Line("cut")
    BY EventIsNoLine, LinesDiffer DEF Closing
<1> QED
    BY <1>1, <1>2 DEF WireHolds, TypeOK

LEMMA NextSettled ==
    TypeOK /\ ToldOnce /\ Settled /\ (\E r \in 0..sent : Holds(r)) /\ [Next]_vars => Settled'
<1> SUFFICES ASSUME TypeOK, ToldOnce, Settled, NEW r \in 0..sent, Holds(r), [Next]_vars
             PROVE  Settled'
    OBVIOUS
<1>1. ASSUME Worker PROVE Settled'
    BY <1>1 DEF Worker, WorkerWrites, WorkerEnds, WorkerDies, WorkerOnly, emitVars, Settled
<1>2. ASSUME ReceiveEvent PROVE Settled'
  <2>1. UNCHANGED <<errors, row, promise, blocked, conn, worker>> /\ conn = "open"
      BY <1>2 DEF ReceiveEvent, BackendOnly, workerVars
  <2>2. chain # <<>> => chain' # <<>>
    <3>1. chain \in Seq(Emitted) /\ Head(wire) \in Emitted
        BY <1>2 DEF ReceiveEvent, TypeOK
    <3>2. chain' = chain \/ chain' = Append(chain, Head(wire))
        BY <1>2 DEF ReceiveEvent
    <3>3. Append(chain, Head(wire)) # <<>>
      <4>1. Len(Append(chain, Head(wire))) = Len(chain) + 1 /\ Len(chain) \in Nat
          BY <3>1, AppendOf
      <4> QED
          BY <4>1
    <3> QED
        BY <3>2, <3>3
  <2> QED
      BY <2>1, <2>2 DEF Settled
<1>3. ASSUME ReceiveEnd PROVE Settled'
  <2>1. worker = "ended"
      BY <1>3, EndIsLast DEF ReceiveEnd, Holds
  <2>2. /\ UNCHANGED <<chain, blocked, errors, row, worker>>
        /\ promise' = promise \/ (promise = "pending" /\ promise' = "rejected")
      BY <1>3 DEF ReceiveEnd, BackendOnly, emitVars, workerVars, Reject
  <2> QED
      BY <1>3, <2>1, <2>2 DEF ReceiveEnd, Settled
<1>4. ASSUME ReceiveHead \/ ReceiveBad \/ ReceiveCut \/ WorkerTimeout \/ RequestError
      PROVE  Settled'
  <2>1. UNCHANGED <<chain, blocked, errors, row, worker>>
      BY <1>4 DEF ReceiveHead, ReceiveBad, ReceiveCut, WorkerTimeout, RequestError,
                  BackendOnly, emitVars, workerVars
  <2>2. /\ conn' = conn \/ (conn # "ended" /\ conn' # "ended")
        /\ promise' = promise \/ (promise = "pending" /\ promise' = "rejected")
      BY <1>4 DEF ReceiveHead, ReceiveBad, ReceiveCut, WorkerTimeout, RequestError, Reject
  <2> QED
      BY <2>1, <2>2 DEF Settled
<1>5. ASSUME ResolveStream PROVE Settled'
  <2>1. row = "in_progress" /\ errors = 0
      BY <1>5 DEF ResolveStream, Settled, ToldOnce, TypeOK
  <2> QED
      BY <1>5, <2>1 DEF ResolveStream, BackendOnly, backendVars, emitVars, workerVars, Settled
<1>6. ASSUME Emit \/ EmitFails \/ Drain PROVE Settled'
  <2>1. chain # <<>> /\ promise # "resolved" /\ UNCHANGED <<conn, worker, row>>
      BY <1>6 DEF Emit, EmitFails, Drain, EmitOnly, backendVars, workerVars, Settled
  <2>2. promise' = promise \/ promise' = "rejected"
      BY <1>6, <2>1 DEF Emit, EmitFails, Drain, EmitOver, Reject, TypeOK
  <2>3. blocked' => chain' # <<>>
    <3>1. CASE Emit
        BY <2>1, <3>1 DEF Emit
    <3>2. CASE EmitFails
        BY <3>2 DEF EmitFails
    <3>3. CASE Drain
        BY <3>3 DEF Drain
    <3> QED
        BY <1>6, <3>1, <3>2, <3>3
  <2>4. promise = "rejected" => promise' = "rejected"
      BY <1>6 DEF Emit, EmitFails, Drain, EmitOver, Reject
  <2> QED
      BY <2>1, <2>2, <2>3, <2>4 DEF Settled
<1>7. ASSUME ClientLeaves PROVE Settled'
  <2>1. UNCHANGED <<errors, row, worker>> /\ (conn' = conn \/ (conn = "open" /\ conn' = "failing"))
      BY <1>7 DEF ClientLeaves, Disconnected, LeaveOnly, workerVars
  <2>2. CASE blocked
      BY <1>7, <2>1, <2>2 DEF ClientLeaves, Reject, Settled, TypeOK
  <2>3. CASE ~blocked
      BY <1>7, <2>1, <2>3 DEF ClientLeaves, emitVars, Settled
  <2> QED
      BY <2>2, <2>3
<1>8. ASSUME Complete \/ Fail PROVE Settled'
    BY <1>8 DEF Complete, Fail, HandlerOnly, backendVars, emitVars, workerVars, Settled
<1>10. ASSUME SkipLine PROVE Settled'
    BY <1>10 DEF SkipLine, BackendOnly, workerVars, emitVars, Settled
<1>9. ASSUME UNCHANGED vars PROVE Settled'
    BY <1>9 DEF vars, emitVars, workerVars, backendVars, Settled
<1> QED
    BY <1>1, <1>2, <1>3, <1>4, <1>5, <1>6, <1>7, <1>8, <1>9, <1>10 DEF Next, Backend, Emits

-----------------------------------------------------------------------------
(* What is read and relayed *)

\* While the worker writes, the wire holds events only, and the chain no error.
LEMMA WritingHolds ==
    ASSUME TypeOK, NEW r \in 0..sent, Holds(r), worker = "writing"
    PROVE  /\ Len(wire) = sent - r
           /\ \A i \in 1..Len(wire) : wire[i] = Event(r + i)
           /\ \A i \in 1..Len(chain) : chain[i] = Event(Done + i) /\ Done + i <= r
           /\ promise # "rejected" => Done + Len(chain) = r
<1>1. \A i \in 1..Len(wire) : i <= sent - r /\ wire[i] = Event(r + i)
    BY DEF Holds, WireHolds
<1>2. Len(wire) \in Nat /\ Len(chain) \in Nat /\ sent \in Nat
    BY DEF TypeOK
<1>3. Len(wire) = sent - r
    BY <1>1, <1>2 DEF Holds, WireHolds
<1>4. \A i \in 1..Len(chain) : chain[i] = Event(Done + i) /\ Done + i <= r
    BY DEF Holds, ChainHolds
<1>5. Len(chain) > 0 => chain[Len(chain)] # Line("error")
    BY <1>2, <1>4, EventIsNoLine DEF Closing
<1> QED
    BY <1>1, <1>3, <1>4, <1>5 DEF Holds, ChainHolds

LEMMA WorkerHolds ==
    ASSUME TypeOK, Settled, NEW r \in 0..sent, Holds(r), Worker
    PROVE  r \in 0..sent' /\ Holds(r)' /\ (Whole => Whole')
<1>1. /\ worker = "writing" /\ conn # "ended"
      /\ UNCHANGED <<conn, chain, blocked, promise, written>>
    BY DEF Worker, WorkerWrites, WorkerEnds, WorkerDies, WorkerOnly, Settled, emitVars
<1>2. /\ wire \in Seq(Lines) /\ Len(wire) = sent - r /\ sent \in Nat /\ r \in Nat
      /\ \A i \in 1..Len(wire) : wire[i] = Event(r + i)
  <2>1. wire \in Seq(Lines) /\ sent \in Nat /\ r \in Nat
      BY DEF TypeOK, Lines
  <2> QED
      BY <1>1, <2>1, WritingHolds
<1>3. r \in 0..sent' /\ WireHolds(r)'
  <2>1. CASE WorkerWrites
    <3>1. Event(sent + 1) \in Lines
      <4>1. sent + 1 \in 1..MaxEvents
          BY <2>1, RelayAssumption DEF WorkerWrites, TypeOK
      <4> QED
          BY <4>1 DEF Lines, Emitted
    <3>2. /\ Len(wire') = Len(wire) + 1 /\ wire'[Len(wire) + 1] = Event(sent + 1)
          /\ \A i \in 1..Len(wire) : wire'[i] = wire[i]
        BY <1>2, <2>1, <3>1, AppendOf DEF WorkerWrites
    <3>3. sent' = sent + 1
        BY <2>1 DEF WorkerWrites
    <3>4. \A i \in 1..Len(wire') : i <= sent' - r /\ wire'[i] = Event(r + i)
        BY <1>2, <3>2, <3>3
    <3> QED
        BY <1>2, <3>2, <3>3, <3>4 DEF WireHolds
  <2>2. CASE WorkerEnds
    <3>1. PICK last \in {<<>>, <<Line("error")>>, <<Line("other")>>, <<Line("bad")>>, <<Line("torn")>>} :
              wire' = wire \o last \o <<Line("end")>>
        BY <2>2 DEF WorkerEnds
    <3>2. worker' = "ended" /\ sent' = sent
        BY <2>2 DEF WorkerEnds
    <3>3. Line("end") \in Lines
        BY DEF Lines
    <3>4. wire \in Seq(Lines)
        BY <1>2
    <3>5. /\ Len(wire') >= sent - r
          /\ \A i \in 1..Len(wire) : wire'[i] = wire[i]
          /\ \A i \in 1..Len(wire') : i > Len(wire) =>
                 /\ wire'[i] \in Closing
                 /\ wire'[i] = Line("error") => i = Len(wire) + 1
      <4>1. CASE last = <<>>
        <5>1. wire' = Append(wire, Line("end"))
            BY <1>2, <3>1, <4>1, <3>3, ConcatEmptySeq, AppendIsConcat
        <5>2. /\ Len(wire') = Len(wire) + 1 /\ wire'[Len(wire) + 1] = Line("end")
              /\ \A i \in 1..Len(wire) : wire'[i] = wire[i]
            BY <3>4, <5>1, <3>3, AppendOf
        <5> QED
            BY <1>2, <5>2 DEF Closing
      <4>2. CASE last # <<>>
        <5>1. PICK e \in Closing : last = <<e>>
            BY <3>1, <4>2 DEF Closing
        <5> DEFINE w == Append(wire, e)
        <5>2. e \in Lines
            BY LinesDiffer DEF Closing, Lines, Emitted
        <5>3. /\ w \in Seq(Lines) /\ Len(w) = Len(wire) + 1 /\ w[Len(wire) + 1] = e
              /\ \A i \in 1..Len(wire) : w[i] = wire[i]
            BY <1>2, <5>2, AppendOf
        <5>4. wire \o last = w
            BY <1>2, <5>1, <5>2, AppendIsConcat
        <5>5. wire' = Append(w, Line("end"))
            BY <3>1, <3>3, <5>3, <5>4, AppendIsConcat
        <5> HIDE DEF w
        <5>6. /\ Len(wire') = Len(w) + 1 /\ wire'[Len(w) + 1] = Line("end")
              /\ \A i \in 1..Len(w) : wire'[i] = w[i]
            BY <3>3, <5>3, <5>5, AppendOf
        <5>7. /\ Len(wire') = Len(wire) + 2
              /\ wire'[Len(wire) + 1] = e /\ wire'[Len(wire) + 2] = Line("end")
              /\ \A i \in 1..Len(wire) : wire'[i] = wire[i]
            BY <1>2, <5>3, <5>6
        <5> QED
            BY <1>2, <5>1, <5>7, LinesDiffer DEF Closing
      <4> QED
          BY <4>1, <4>2
    <3> QED
        BY <1>2, <3>2, <3>5 DEF WireHolds
  <2>3. CASE WorkerDies
    <3>1. /\ Len(wire') = Len(wire) + 1 /\ wire'[Len(wire) + 1] = Line("cut")
          /\ \A i \in 1..Len(wire) : wire'[i] = wire[i]
        BY <1>2, <2>3, AppendOf DEF WorkerDies, Lines
    <3>2. sent' = sent /\ worker' = "dead"
        BY <2>3 DEF WorkerDies
    <3> QED
        BY <1>2, <3>1, <3>2, LinesDiffer DEF WireHolds, Closing
  <2> QED
      BY <2>1, <2>2, <2>3 DEF Worker
<1>4. ChainHolds(r)'
    BY <1>1, WritingHolds DEF ChainHolds, Done
<1>5. Whole => Whole'
    BY <1>1 DEF Whole, Settled
<1> QED
    BY <1>1, <1>3, <1>4, <1>5 DEF Holds

\* The backend reads a line: the next event, or what follows the last one.
LEMMA WireAdvances ==
    ASSUME TypeOK, NEW r \in 0..sent, WireHolds(r), wire # <<>>, wire' = Tail(wire),
           UNCHANGED <<sent, worker>>
    PROVE  /\ r < sent => WireHolds(r + 1)' /\ wire[1] = Event(r + 1)
           /\ r = sent => /\ WireHolds(r)' /\ wire[1] \in Closing /\ worker # "writing"
                         /\ \A j \in 1..Len(wire') : wire'[j] \in Closing /\ wire'[j] # Line("error")
<1>1. /\ Len(wire) \in Nat /\ sent \in Nat /\ r \in Nat /\ 1 \in 1..Len(wire)
      /\ Len(wire') = Len(wire) - 1
      /\ \A i \in 1..Len(wire) - 1 : wire'[i] = wire[i + 1]
    BY TailOf DEF TypeOK
<1>2. ASSUME NEW i \in 1..Len(wire')
      PROVE  /\ i \in Nat /\ i + 1 \in 1..Len(wire) /\ wire'[i] = wire[i + 1]
             /\ (r + 1) + i = r + (i + 1)
             /\ i <= sent - (r + 1) <=> i + 1 <= sent - r
             /\ i > sent - (r + 1) <=> i + 1 > sent - r
             /\ i = sent - (r + 1) + 1 <=> i + 1 = sent - r + 1
    BY <1>1
<1>3. ASSUME r < sent PROVE WireHolds(r + 1)' /\ wire[1] = Event(r + 1)
  <2>1. wire[1] = Event(r + 1)
      BY <1>1, <1>3 DEF WireHolds
  <2>2. Len(wire') >= sent' - (r + 1)
      BY <1>1, <1>3 DEF WireHolds
  <2>3. ASSUME NEW i \in 1..Len(wire')
        PROVE  \/ i <= sent' - (r + 1) /\ wire'[i] = Event((r + 1) + i)
               \/ /\ i > sent' - (r + 1) /\ wire'[i] \in Closing
                  /\ worker' # "writing"
                  /\ worker' = "dead" => wire'[i] = Line("cut")
                  /\ wire'[i] = Line("error") => i = sent' - (r + 1) + 1
      BY <1>2 DEF WireHolds
  <2> QED
      BY <2>1, <2>2, <2>3 DEF WireHolds
<1>4. ASSUME r = sent
      PROVE  /\ WireHolds(r)' /\ wire[1] \in Closing /\ worker # "writing"
             /\ \A j \in 1..Len(wire') : wire'[j] \in Closing /\ wire'[j] # Line("error")
  <2>1. wire[1] \in Closing /\ worker # "writing"
      BY <1>1, <1>4 DEF WireHolds
  <2>2. ASSUME NEW i \in 1..Len(wire')
        PROVE  /\ i > sent' - r /\ wire'[i] \in Closing
               /\ worker' # "writing"
               /\ worker' = "dead" => wire'[i] = Line("cut")
               /\ wire'[i] # Line("error")
    <3>1. ~(i + 1 <= sent - r) /\ i + 1 # sent - r + 1 /\ i > sent - r
        BY <1>1, <1>2, <1>4
    <3> QED
        BY <1>2, <3>1 DEF WireHolds
  <2>3. Len(wire') >= sent' - r
      BY <1>1, <1>4
  <2> QED
      BY <2>1, <2>2, <2>3 DEF WireHolds
<1> QED
    BY <1>3, <1>4

LEMMA ReceiveHolds ==
    ASSUME TypeOK, Settled, Whole, NEW r \in 0..sent, Holds(r), ReceiveEvent
    PROVE  (\E q \in 0..sent' : Holds(q)') /\ Whole'
<1>1. /\ wire \in Seq(Lines) /\ chain \in Seq(Emitted) /\ wire # <<>> /\ sent \in Nat
      /\ Head(wire) \in Emitted /\ wire' = Tail(wire)
      /\ chain' = IF promise = "rejected" THEN chain ELSE Append(chain, Head(wire))
    BY DEF ReceiveEvent, TypeOK, Lines
<1>2. /\ UNCHANGED <<sent, worker, conn, blocked, promise, written>>
      /\ conn = "open" /\ promise # "resolved" /\ Done' = Done
  <2>1. /\ UNCHANGED <<sent, worker, conn, blocked, promise, written>>
        /\ conn = "open" /\ promise # "resolved"
      BY DEF ReceiveEvent, BackendOnly, workerVars, Settled
  <2>2. chain # <<>> => Head(chain') = Head(chain)
      BY <1>1
  <2> QED
      BY <2>1, <2>2 DEF Settled, Done
<1>3. /\ Head(wire) = wire[1] /\ 1 \in 1..Len(wire) /\ Len(wire') = Len(wire) - 1
      /\ \A i \in 1..Len(wire) - 1 : wire'[i] = wire[i + 1]
    BY <1>1, TailOf
<1>4. Done \in Int /\ Len(chain) \in Nat /\ Len(wire) \in Nat /\ sent \in Nat /\ r \in Nat
    BY DEF TypeOK, Done
\* An event on the wire: no error is in the chain.
<1>5. /\ \A i \in 1..Len(chain) : chain[i] = Event(Done + i) /\ Done + i <= r
      /\ promise # "rejected" => Done + Len(chain) = r
  <2>1. \A i \in 1..Len(chain) : chain[i] = Event(Done + i) /\ Done + i <= r
      BY <1>1, <1>3 DEF Holds, ChainHolds
  <2>2. Len(chain) > 0 => chain[Len(chain)] # Line("error")
      BY <1>4, <2>1, EventIsNoLine DEF Closing
  <2> QED
      BY <2>1, <2>2 DEF Holds, ChainHolds
<1>6. CASE promise = "rejected"
  <2>1. chain' = chain
      BY <1>1, <1>6
  <2>2. \A q \in Nat : q >= r => ChainHolds(q)'
      BY <1>2, <1>4, <1>5, <1>6, <2>1 DEF ChainHolds
  <2>3. CASE r < sent
    <3>1. WireHolds(r + 1)'
        BY <1>1, <1>2, <2>3, WireAdvances DEF Holds
    <3> QED
        BY <1>1, <1>2, <2>2, <2>3, <3>1 DEF Holds, Whole
  <2>4. CASE r = sent
    <3>1. WireHolds(r)'
        BY <1>1, <1>2, <2>4, WireAdvances DEF Holds
    <3> QED
        BY <1>1, <1>2, <2>2, <2>4, <3>1 DEF Holds, Whole
  <2> QED
      BY <1>1, <2>3, <2>4
<1>7. CASE promise # "rejected"
  <2>1. /\ Len(chain') = Len(chain) + 1 /\ chain'[Len(chain) + 1] = wire[1]
        /\ \A i \in 1..Len(chain) : chain'[i] = chain[i]
      BY <1>1, <1>3, <1>7, AppendOf
  <2>2. Done + Len(chain) = r
      BY <1>5, <1>7
  <2>3. CASE r < sent
    <3>1. WireHolds(r + 1)' /\ wire[1] = Event(r + 1)
        BY <1>1, <1>2, <2>3, WireAdvances DEF Holds
    <3>2. ASSUME NEW i \in 1..Len(chain')
          PROVE  chain'[i] = Event(Done' + i) /\ Done' + i <= r + 1
      <4>1. CASE i \in 1..Len(chain)
          BY <1>2, <1>4, <1>5, <2>1, <4>1
      <4>2. CASE i = Len(chain) + 1
        <5>1. Done' + i = r + 1
            BY <1>2, <1>4, <2>2, <4>2
        <5> QED
            BY <1>4, <2>1, <3>1, <4>2, <5>1
      <4> QED
          BY <1>4, <2>1, <4>1, <4>2
    <3>3. ChainHolds(r + 1)'
        BY <1>2, <1>4, <2>1, <2>2, <3>2 DEF ChainHolds
    <3> QED
        BY <1>1, <1>2, <2>3, <3>1, <3>3 DEF Holds, Whole
  <2>4. CASE r = sent
    <3>1. /\ WireHolds(r)' /\ wire[1] \in Closing /\ worker # "writing"
          /\ \A j \in 1..Len(wire') : wire'[j] \in Closing /\ wire'[j] # Line("error")
        BY <1>1, <1>2, <2>4, WireAdvances DEF Holds
    <3>2. wire[1] = Line("error")
        BY <1>1, <1>3, <3>1, EmittedClosing
    <3>3. \A j \in 1..Len(wire') : wire'[j] \notin Emitted
        BY <3>1, EmittedClosing
    <3>4. ChainHolds(r)'
        BY <1>2, <1>4, <1>5, <2>1, <2>2, <3>1, <3>2, <3>3 DEF ChainHolds
    <3> QED
        BY <1>1, <1>2, <2>4, <3>1, <3>4 DEF Holds, Whole
  <2> QED
      BY <1>1, <2>3, <2>4
<1> QED
    BY <1>6, <1>7

\* What is no event comes after the last one: nothing that is relayed is passed over.
LEMMA SkipHolds ==
    ASSUME TypeOK, Settled, Whole, NEW r \in 0..sent, Holds(r), SkipLine
    PROVE  Holds(r)' /\ Whole'
<1>1. /\ UNCHANGED <<sent, worker, conn, chain, blocked, promise, written>>
      /\ wire # <<>> /\ wire' = Tail(wire) /\ Head(wire) = Line("other") /\ Head(wire) = wire[1]
    BY TailOf DEF SkipLine, BackendOnly, workerVars, emitVars, TypeOK
<1>2. r = sent
  <2>1. wire[1] # Event(r + 1)
      BY <1>1, EventIsNoLine DEF Closing
  <2>2. ~(r < sent)
      BY <1>1, <2>1, WireAdvances DEF Holds
  <2> QED
      BY <2>2 DEF TypeOK
<1>3. /\ WireHolds(r)'
      /\ \A j \in 1..Len(wire') : wire'[j] \in Closing /\ wire'[j] # Line("error")
    BY <1>1, <1>2, WireAdvances DEF Holds
<1>4. \A j \in 1..Len(wire') : wire'[j] \notin Emitted
    BY <1>3, EmittedClosing
<1>5. ChainHolds(r)' /\ Done' = Done
    BY <1>1, <1>4 DEF Holds, ChainHolds, Done
<1> QED
    BY <1>1, <1>2, <1>3, <1>5 DEF Holds, Whole

LEMMA BackendHolds ==
    ASSUME TypeOK, Settled, Whole, NEW r \in 0..sent, Holds(r),
           ReceiveHead \/ ReceiveBad \/ ReceiveEnd \/ ReceiveCut \/ WorkerTimeout
           \/ RequestError \/ ResolveStream
    PROVE  Holds(r)' /\ Whole'
<1>1. UNCHANGED <<sent, worker, wire, chain, blocked, written>>
    BY DEF ReceiveHead, ReceiveBad, ReceiveEnd, ReceiveCut, WorkerTimeout, RequestError,
           ResolveStream, BackendOnly, backendVars, emitVars, workerVars
<1>2. promise = "rejected" => promise' = "rejected"
    BY DEF ReceiveHead, ReceiveBad, ReceiveEnd, ReceiveCut, WorkerTimeout, RequestError,
           ResolveStream, Reject
<1>3. conn' = "ended" => r = sent
  <2>1. CASE ReceiveEnd
      BY <2>1, EndIsLast DEF ReceiveEnd, Holds
  <2>2. CASE ~ReceiveEnd
      BY <2>2 DEF ReceiveHead, ReceiveBad, ReceiveCut, WorkerTimeout, RequestError,
                  ResolveStream, backendVars, Holds
  <2> QED
      BY <2>1, <2>2
<1>4. Holds(r)'
    BY <1>1, <1>2, <1>3 DEF Holds, WireHolds, ChainHolds, Done
<1>5. Whole'
  <2>1. CASE ResolveStream
    <3>1. ~blocked /\ Len(chain) = 0 /\ r = sent /\ promise = "pending"
        BY <2>1 DEF ResolveStream, Settled, Holds
    <3>2. Done + 0 = r /\ Done = Len(written)
        BY <3>1 DEF Holds, ChainHolds, Done
    <3> QED
        BY <1>1, <3>1, <3>2 DEF Whole, TypeOK
  <2>2. CASE ~ResolveStream
    <3>1. promise' = "resolved" => promise = "resolved"
        BY <2>2 DEF ReceiveHead, ReceiveBad, ReceiveEnd, ReceiveCut, WorkerTimeout,
                    RequestError, Reject
    <3> QED
        BY <1>1, <3>1 DEF Whole
  <2> QED
      BY <2>1, <2>2
<1> QED
    BY <1>4, <1>5

\* Where the chain breaks, the promise is rejected and nothing waits any more.
LEMMA BrokenHolds ==
    ASSUME TypeOK, NEW r \in 0..sent, Holds(r), UNCHANGED <<sent, worker, wire, written>>,
           chain' = <<>>, promise' = "rejected", conn' = "ended" => conn = "ended"
    PROVE  Holds(r)' /\ Whole'
BY DEF Holds, WireHolds, ChainHolds, Whole

\* What runs the first emit to its end, or breaks the chain.
LEMMA OverHolds ==
    ASSUME TypeOK, Settled, NEW r \in 0..sent, Holds(r), chain # <<>>, EmitOver, ~blocked',
           UNCHANGED <<sent, worker, wire, conn>>,
           \/ blocked /\ UNCHANGED written
           \/ /\ ~blocked
              /\ IF Head(chain) = Line("error") THEN UNCHANGED written
                 ELSE Len(written') = Len(written) + 1
    PROVE  Holds(r)' /\ Whole'
<1>1. /\ chain \in Seq(Emitted) /\ Len(chain) \in Nat /\ Len(written) \in Nat
      /\ Head(chain) = chain[1] /\ 1 \in 1..Len(chain) /\ promise # "resolved"
    BY TailOf DEF TypeOK, Settled
<1>2. CASE Head(chain) = Line("error")
  <2>1. chain' = <<>> /\ promise' = "rejected"
      BY <1>1, <1>2 DEF EmitOver, Reject, TypeOK
  <2> QED
      BY <2>1 DEF Holds, WireHolds, ChainHolds, Whole
<1>3. CASE Head(chain) # Line("error")
  <2>1. /\ Len(chain') = Len(chain) - 1 /\ UNCHANGED promise
        /\ \A i \in 1..Len(chain) - 1 : chain'[i] = chain[i + 1]
      BY <1>1, <1>3, TailOf DEF EmitOver
  <2>2. Done' = Done + 1 /\ Done \in Int
      BY <1>1, <1>3 DEF Done
  <2>3. \A i \in 1..Len(chain') :
            \/ chain'[i] = Event(Done' + i) /\ Done' + i <= r
            \/ /\ chain'[i] = Line("error") /\ i = Len(chain')
               /\ worker' # "writing"
               /\ \A j \in 1..Len(wire') : wire'[j] \notin Emitted
    <3>1. ASSUME NEW i \in 1..Len(chain')
          PROVE  /\ i + 1 \in 1..Len(chain) /\ chain'[i] = chain[i + 1]
                 /\ Done' + i = Done + (i + 1)
                 /\ i + 1 = Len(chain) <=> i = Len(chain')
        BY <1>1, <2>1, <2>2
    <3> QED
        BY <3>1 DEF Holds, ChainHolds
  <2>4. promise' # "rejected" =>
            \/ Done' + Len(chain') = r
            \/ /\ Done' + Len(chain') = r + 1
               /\ Len(chain') > 0 /\ chain'[Len(chain')] = Line("error")
    <3>1. Done' + Len(chain') = Done + Len(chain)
        BY <1>1, <2>1, <2>2
    <3>2. Len(chain) > 1 => chain'[Len(chain')] = chain[Len(chain)] /\ Len(chain') > 0
        BY <1>1, <2>1
    <3>3. Len(chain) = 1 => chain[Len(chain)] # Line("error")
        BY <1>1, <1>3
    <3> QED
        BY <1>1, <2>1, <3>1, <3>2, <3>3 DEF Holds, ChainHolds
  <2>5. ChainHolds(r)'
      BY <2>3, <2>4 DEF ChainHolds
  <2> QED
      BY <1>1, <2>1, <2>5 DEF Holds, WireHolds, Whole
<1> QED
    BY <1>2, <1>3

LEMMA EmitHolds ==
    ASSUME TypeOK, Settled, Prefix, NEW r \in 0..sent, Holds(r), Emit
    PROVE  Prefix' /\ Holds(r)' /\ Whole'
<1>1. /\ chain \in Seq(Emitted) /\ written \in Seq(1..MaxEvents) /\ chain # <<>> /\ ~blocked
      /\ Len(chain) \in Nat /\ Len(written) \in Nat /\ promise # "resolved"
      /\ UNCHANGED <<sent, worker, wire, conn>>
    BY DEF Emit, EmitOnly, workerVars, backendVars, Settled, TypeOK
<1>2. Head(chain) = chain[1] /\ 1 \in 1..Len(chain) /\ Head(chain) \in Emitted
    BY <1>1, TailOf
<1>3. Done = Len(written)
    BY <1>1 DEF Done
<1>4. CASE Head(chain) = Line("error")
  <2>1. UNCHANGED written
      BY <1>4 DEF Emit
  <2>2. CASE EmitOver /\ UNCHANGED blocked
      BY <1>1, <1>4, <2>1, <2>2, OverHolds DEF Prefix
  <2>3. CASE blocked' = TRUE /\ UNCHANGED <<chain, promise>>
    <3>1. Done' = Done
        BY <1>3, <1>4, <2>1, <2>3 DEF Done
    <3> QED
        BY <1>1, <2>1, <2>3, <3>1 DEF Holds, WireHolds, ChainHolds, Whole, Prefix
  <2> QED
      BY <2>2, <2>3 DEF Emit
<1>5. CASE Head(chain) # Line("error")
  <2>1. Head(chain) = Event(Len(written) + 1)
      BY <1>2, <1>3, <1>5 DEF Holds, ChainHolds
  <2>2. Head(chain).n = Len(written) + 1 /\ Head(chain).n \in 1..MaxEvents
      BY <1>2, <1>5, <2>1, EmittedEvent DEF Event
  <2>3. /\ Len(written') = Len(written) + 1 /\ written'[Len(written) + 1] = Len(written) + 1
        /\ \A i \in 1..Len(written) : written'[i] = written[i]
    <3>1. written' = Append(written, Head(chain).n)
        BY <1>5 DEF Emit
    <3> QED
        BY <1>1, <2>2, <3>1, AppendOf
  <2>4. Prefix'
      BY <1>1, <2>3 DEF Prefix
  <2>5. CASE EmitOver /\ UNCHANGED blocked
      BY <1>1, <1>5, <2>3, <2>4, <2>5, OverHolds
  <2>6. CASE blocked' = TRUE /\ UNCHANGED <<chain, promise>>
    <3>1. Done' = Done
        BY <1>1, <1>3, <1>5, <2>3, <2>6 DEF Done
    <3> QED
        BY <1>1, <2>4, <2>6, <3>1 DEF Holds, WireHolds, ChainHolds, Whole
  <2> QED
      BY <2>5, <2>6 DEF Emit
<1> QED
    BY <1>4, <1>5

LEMMA NextRelayed == TypeOK /\ Relayed /\ [Next]_vars => Relayed'
<1> SUFFICES ASSUME TypeOK, Relayed, [Next]_vars
             PROVE  Prefix' /\ Whole' /\ \E q \in 0..sent' : Holds(q)'
    BY NextToldOnce, NextSettled DEF Relayed
<1> Settled /\ Prefix /\ Whole
    BY DEF Relayed
<1> PICK r \in 0..sent : Holds(r)
    BY DEF Relayed
<1>1. ASSUME Worker PROVE Prefix' /\ Whole' /\ \E q \in 0..sent' : Holds(q)'
  <2>1. Prefix'
      BY <1>1 DEF Worker, WorkerWrites, WorkerEnds, WorkerDies, WorkerOnly, Prefix
  <2> QED
      BY <1>1, <2>1, WorkerHolds
<1>2. ASSUME ReceiveEvent PROVE Prefix' /\ Whole' /\ \E q \in 0..sent' : Holds(q)'
  <2>1. Prefix'
      BY <1>2 DEF ReceiveEvent, BackendOnly, Prefix
  <2> QED
      BY <1>2, <2>1, ReceiveHolds
<1>3. ASSUME ReceiveHead \/ ReceiveBad \/ ReceiveEnd \/ ReceiveCut \/ WorkerTimeout
             \/ RequestError \/ ResolveStream
      PROVE  Prefix' /\ Whole' /\ \E q \in 0..sent' : Holds(q)'
  <2>1. UNCHANGED <<sent, written>>
      BY <1>3 DEF ReceiveHead, ReceiveBad, ReceiveEnd, ReceiveCut, WorkerTimeout, RequestError,
                  ResolveStream, BackendOnly, workerVars
  <2>2. Holds(r)' /\ Whole'
      BY <1>3, BackendHolds
  <2> QED
      BY <2>1, <2>2 DEF Prefix
<1>4. ASSUME Emit PROVE Prefix' /\ Whole' /\ \E q \in 0..sent' : Holds(q)'
  <2>1. UNCHANGED sent
      BY <1>4 DEF Emit, EmitOnly, workerVars
  <2> QED
      BY <1>4, <2>1, EmitHolds
<1>5. ASSUME EmitFails PROVE Prefix' /\ Whole' /\ \E q \in 0..sent' : Holds(q)'
  <2>1. UNCHANGED <<sent, worker, wire, written, conn>> /\ chain' = <<>>
      BY <1>5 DEF EmitFails, EmitOnly, workerVars, backendVars
  <2>2. promise' = "rejected"
      BY <1>5 DEF EmitFails, Reject, Settled, TypeOK
  <2> QED
      BY <2>1, <2>2, BrokenHolds DEF Prefix
<1>6. ASSUME Drain PROVE Prefix' /\ Whole' /\ \E q \in 0..sent' : Holds(q)'
  <2>1. /\ UNCHANGED <<sent, worker, wire, written, conn>> /\ blocked /\ ~blocked' /\ EmitOver
        /\ chain # <<>>
      BY <1>6 DEF Drain, EmitOnly, workerVars, backendVars, Settled
  <2> QED
      BY <2>1, OverHolds DEF Prefix
<1>7. ASSUME ClientLeaves PROVE Prefix' /\ Whole' /\ \E q \in 0..sent' : Holds(q)'
  <2>1. UNCHANGED <<sent, worker, wire, written>> /\ (conn' = "ended" => conn = "ended")
      BY <1>7 DEF ClientLeaves, LeaveOnly, Disconnected, workerVars
  <2>2. CASE blocked
    <3>1. chain' = <<>> /\ promise' = "rejected"
        BY <1>7, <2>2 DEF ClientLeaves, Reject, Settled, TypeOK
    <3> QED
        BY <2>1, <3>1, BrokenHolds DEF Prefix
  <2>3. CASE ~blocked
    <3>1. UNCHANGED <<chain, blocked, promise>>
        BY <1>7, <2>3 DEF ClientLeaves, emitVars
    <3> QED
        BY <2>1, <3>1 DEF Prefix, Whole, Holds, WireHolds, ChainHolds, Done
  <2> QED
      BY <2>2, <2>3
<1>8. ASSUME Complete \/ Fail PROVE Prefix' /\ Whole' /\ \E q \in 0..sent' : Holds(q)'
  <2>1. UNCHANGED <<sent, worker, wire, conn, chain, blocked, promise, written>>
      BY <1>8 DEF Complete, Fail, HandlerOnly, workerVars, backendVars, emitVars
  <2> QED
      BY <2>1 DEF Prefix, Whole, Holds, WireHolds, ChainHolds, Done
<1>10. ASSUME SkipLine PROVE Prefix' /\ Whole' /\ \E q \in 0..sent' : Holds(q)'
  <2>1. UNCHANGED <<sent, written>>
      BY <1>10 DEF SkipLine, BackendOnly, workerVars
  <2>2. Holds(r)' /\ Whole'
      BY <1>10, SkipHolds
  <2> QED
      BY <2>1, <2>2 DEF Prefix
<1>9. ASSUME UNCHANGED vars PROVE Prefix' /\ Whole' /\ \E q \in 0..sent' : Holds(q)'
  <2>1. UNCHANGED <<sent, worker, wire, conn, chain, blocked, promise, written>>
      BY <1>9 DEF vars, workerVars, backendVars, emitVars
  <2> QED
      BY <2>1 DEF Prefix, Whole, Holds, WireHolds, ChainHolds, Done
<1> QED
    BY <1>1, <1>2, <1>3, <1>4, <1>5, <1>6, <1>7, <1>8, <1>9, <1>10 DEF Next, Backend, Emits

LEMMA AlwaysRInv == Spec => []RInv
<1>1. RInv /\ [Next]_vars => RInv'
    BY NextTypeOK, NextRelayed DEF RInv, Relayed
<1> QED
    BY InitRInv, <1>1, PTL DEF Spec

\* What is on the wire and in the chain of emits stays what the worker has written, and the
\* client hears of an error at most twice: from the chain, and from the handler
\* (worker-socket-backend.ts 219-231; app.ts 548-581).
THEOREM TypeCorrect == Spec => []TypeOK
<1>1. RInv => TypeOK
    BY DEF RInv
<1> QED
    BY <1>1, AlwaysRInv, PTL

\* However long the response is, and however the reads, the emits, the client and the worker
\* interleave: the client has a prefix of what the worker wrote, and all of it, without an
\* error, where the row is completed
\* (worker-socket-backend.ts 219-231, 263; app.ts 548-566).
THEOREM RelayIsWhole == Spec => []RelayedWhole
<1>1. ASSUME RInv PROVE RelayedWhole
  <2>1. DOMAIN written = 1..Len(written)
      BY <1>1 DEF RInv, TypeOK
  <2> QED
      BY <1>1, <2>1 DEF RInv, Relayed, Prefix, Whole, Settled, RelayedWhole
<1> QED
    BY <1>1, AlwaysRInv, PTL
=============================================================================
