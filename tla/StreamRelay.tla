----------------------------- MODULE StreamRelay -----------------------------
(***************************************************************************)
(* The API side of one streamed response: WorkerSocketBackend reads the    *)
(* lines of the worker, queues an emit for each on a chain of promises,    *)
(* and the emit writes to the client, waiting for it to drain.             *)
(* executeLoggedStream waits for the promise of the whole, settles the row *)
(* and ends the response. Reading, emitting and the fate of the promise    *)
(* are three things that go on at once.                                    *)
(***************************************************************************)
EXTENDS Naturals, Sequences

CONSTANT MaxEvents  \* bound: events of a response

ASSUME RelayAssumption == MaxEvents \in Nat

VARIABLES
    sent,     \* events the worker has written
    worker,   \* "writing", "ended" its response, or "dead"
    wire,     \* what the worker wrote and the backend has not read
    conn,     \* the request to the worker
    headers,  \* the head of its response has arrived
    chain,    \* emitChain: events whose emit has not ended, the first one runs
    blocked,  \* that one waits for drain or close
    promise,  \* of #streamRequest
    written,  \* events written to the client
    errors,   \* response.error events written to the client
    client,   \* "here" or "gone"
    aborted,  \* the disconnect signal: the client left before end()
    row       \* the log row, settled just before the lease is released and the response ends

workerVars == <<sent, worker>>
backendVars == <<wire, conn, headers>>
emitVars == <<chain, blocked>>
clientVars == <<client, aborted>>
vars == <<workerVars, backendVars, emitVars, promise, written, errors, clientVars, row>>

Line(type) == [type |-> type, n |-> 0]
Event(n) == [type |-> "event", n |-> n]
Emitted == {Event(n) : n \in 1..MaxEvents} \cup {Line("error")}

TypeOK ==
    /\ sent \in 0..MaxEvents /\ worker \in {"writing", "ended", "dead"}
    /\ wire \in Seq(Emitted \cup {Line("other"), Line("bad"), Line("end"), Line("torn"), Line("cut")})
    /\ conn \in {"open", "failing", "ended", "closed", "severed"}
    /\ headers \in BOOLEAN /\ blocked \in BOOLEAN /\ aborted \in BOOLEAN
    /\ chain \in Seq(Emitted) /\ written \in Seq(1..MaxEvents) /\ errors \in 0..2
    /\ promise \in {"pending", "resolved", "rejected"}
    /\ client \in {"here", "gone"}
    /\ row \in {"in_progress", "completed", "failed"}

\* The row is begun and the response hijacked; the request is on its way.
Init ==
    /\ sent = 0 /\ worker = "writing"
    /\ wire = <<>> /\ conn = "open" /\ headers = FALSE
    /\ chain = <<>> /\ blocked = FALSE
    /\ promise = "pending"
    /\ written = <<>> /\ errors = 0
    /\ client = "here" /\ aborted = FALSE
    /\ row = "in_progress"

Ended == row # "in_progress" /\ ~aborted
Reject == promise' = IF promise = "pending" THEN "rejected" ELSE promise

(***************************************************************************)
(* The worker.                                                             *)
(***************************************************************************)

WorkerOnly == UNCHANGED <<conn, headers, emitVars, promise, written, errors, clientVars, row>>

WorkerWrites ==
    /\ worker = "writing" /\ sent < MaxEvents
    /\ sent' = sent + 1
    /\ wire' = Append(wire, Event(sent + 1))
    /\ UNCHANGED worker /\ WorkerOnly

\* The handler of the worker ends its response, after a response.error if it failed, with a
\* line of JSON that is no event, one that is too long or no JSON, or with an error of
\* Fastify, a body without a newline.
WorkerEnds ==
    /\ worker = "writing"
    /\ worker' = "ended"
    /\ \E last \in {<<>>, <<Line("error")>>, <<Line("other")>>, <<Line("bad")>>, <<Line("torn")>>} :
           wire' = wire \o last \o <<Line("end")>>
    /\ UNCHANGED sent /\ WorkerOnly

\* The connection closes without the end of the response.
WorkerDies ==
    /\ worker = "writing"
    /\ worker' = "dead"
    /\ wire' = Append(wire, Line("cut"))
    /\ UNCHANGED sent /\ WorkerOnly

(***************************************************************************)
(* The backend.                                                            *)
(***************************************************************************)

BackendOnly == UNCHANGED <<workerVars, written, errors, clientVars, row>>

ReceiveHead ==
    /\ conn = "open" /\ ~headers
    /\ headers' = TRUE
    /\ BackendOnly /\ UNCHANGED <<wire, conn, emitVars, promise>>

\* A line that is an event is queued.
ReceiveEvent ==
    /\ conn = "open" /\ headers /\ wire # <<>> /\ Head(wire) \in Emitted
    /\ wire' = Tail(wire)
    /\ chain' = IF promise = "rejected" THEN chain ELSE Append(chain, Head(wire))
    /\ BackendOnly /\ UNCHANGED <<conn, headers, blocked, promise>>

\* JSON that is no event is passed over.
SkipLine ==
    /\ conn = "open" /\ headers /\ wire # <<>> /\ Head(wire) = Line("other")
    /\ wire' = Tail(wire)
    /\ BackendOnly /\ UNCHANGED <<conn, headers, emitVars, promise>>

\* request.destroy(error): what follows is not read.
ReceiveBad ==
    /\ conn = "open" /\ headers /\ wire # <<>> /\ Head(wire) = Line("bad")
    /\ conn' = "failing"
    /\ BackendOnly /\ UNCHANGED <<wire, headers, emitVars, promise>>

\* The end, after whole lines or in the middle of one.
ReceiveEnd ==
    /\ conn = "open" /\ headers /\ wire # <<>> /\ Head(wire) \in {Line("end"), Line("torn")}
    /\ conn' = "ended"
    /\ IF Head(wire) = Line("torn") THEN Reject ELSE UNCHANGED promise
    /\ BackendOnly /\ UNCHANGED <<wire, headers, emitVars>>

\* No end: an error of the request before the head of the response; after it the promise
\* hears nothing more, and neither the timeout nor the signal reaches a closed request.
ReceiveCut ==
    /\ conn = "open" /\ wire # <<>> /\ Head(wire) = Line("cut")
    /\ conn' = IF headers THEN "severed" ELSE "failing"
    /\ BackendOnly /\ UNCHANGED <<wire, headers, emitVars, promise>>

\* setTimeout: the socket was idle for requestTimeoutMs.
WorkerTimeout ==
    /\ conn = "open" /\ wire = <<>>
    /\ conn' = "failing"
    /\ BackendOnly /\ UNCHANGED <<wire, headers, emitVars, promise>>

\* The error event of the request.
RequestError ==
    /\ conn = "failing"
    /\ conn' = "closed"
    /\ Reject
    /\ BackendOnly /\ UNCHANGED <<wire, headers, emitVars>>

\* Seeded fault: the end of the response resolves, without the chain.
ResolveAtEnd ==
    /\ conn = "ended" /\ promise = "pending"
    /\ promise' = "resolved"
    /\ BackendOnly /\ UNCHANGED <<backendVars, emitVars>>

\* emitChain.then(resolve, reject)
ResolveStream ==
    /\ conn = "ended" /\ promise = "pending" /\ chain = <<>>
    /\ promise' = "resolved"
    /\ BackendOnly /\ UNCHANGED <<backendVars, emitVars>>

Backend ==
    \/ ReceiveHead \/ ReceiveEvent \/ SkipLine \/ ReceiveBad \/ ReceiveEnd \/ ReceiveCut
    \/ WorkerTimeout \/ RequestError \/ ResolveStream

(***************************************************************************)
(* The emits, and the client they write to.                                *)
(***************************************************************************)

EmitOnly == UNCHANGED <<workerVars, backendVars, clientVars, row>>

\* The emit of an event is over; response.error is thrown once it was written, and a chain
\* that has thrown runs nothing more.
EmitOver ==
    IF Head(chain) = Line("error")
    THEN chain' = <<>> /\ Reject
    ELSE chain' = Tail(chain) /\ UNCHANGED promise

\* The write is taken at once, or has to wait.
Emit ==
    /\ chain # <<>> /\ ~blocked /\ ~aborted /\ ~Ended
    /\ IF Head(chain) = Line("error")
       THEN errors' = errors + 1 /\ UNCHANGED written
       ELSE written' = Append(written, Head(chain).n) /\ UNCHANGED errors
    /\ \/ EmitOver /\ UNCHANGED blocked
       \/ blocked' = TRUE /\ UNCHANGED <<chain, promise>>
    /\ EmitOnly

\* Nothing is written any more: the client has gone, or the failure of the request has ended
\* the response while events still waited their turn.
EmitFails ==
    /\ chain # <<>> /\ ~blocked /\ (aborted \/ Ended)
    /\ chain' = <<>> /\ Reject
    /\ EmitOnly /\ UNCHANGED <<blocked, written, errors>>

Drain ==
    /\ blocked /\ client = "here"
    /\ blocked' = FALSE
    /\ EmitOver
    /\ EmitOnly /\ UNCHANGED <<written, errors>>

LeaveOnly == UNCHANGED <<workerVars, wire, headers, written, errors, row>>
Disconnected ==
    /\ client = "here" /\ client' = "gone"
    /\ aborted' = ~Ended
    /\ conn' = IF conn = "open" /\ ~Ended THEN "failing" ELSE conn

\* Seeded fault: a write that waits is not told of the close.
LeaveUnnoticed ==
    /\ Disconnected
    /\ UNCHANGED <<emitVars, promise>>
    /\ LeaveOnly

\* The close event: a write that waits throws, the signal destroys the request.
ClientLeaves ==
    /\ Disconnected
    /\ IF blocked
       THEN blocked' = FALSE /\ chain' = <<>> /\ Reject
       ELSE UNCHANGED <<emitVars, promise>>
    /\ LeaveOnly

Emits == Emit \/ EmitFails \/ Drain \/ ClientLeaves

(***************************************************************************)
(* executeLoggedStream.                                                    *)
(***************************************************************************)

HandlerOnly == UNCHANGED <<workerVars, backendVars, emitVars, promise, written, clientVars>>

Complete ==
    /\ row = "in_progress" /\ promise = "resolved"
    /\ row' = "completed"
    /\ HandlerOnly /\ UNCHANGED errors

\* The client is told, also of an error that the chain has already told it.
Fail ==
    /\ row = "in_progress" /\ promise = "rejected"
    /\ row' = "failed"
    /\ errors' = IF aborted THEN errors ELSE errors + 1
    /\ HandlerOnly

Worker == WorkerWrites \/ WorkerEnds \/ WorkerDies
Next == Worker \/ Backend \/ Emits \/ Complete \/ Fail

Spec == Init /\ [][Next]_vars

\* The worker need neither write nor end; what was written is read, a silent socket times
\* out, and a client that is waited for drains or leaves.
Fairness ==
    /\ WF_vars(Backend)
    /\ WF_vars(Emit) /\ WF_vars(EmitFails)
    /\ WF_vars(Drain \/ (blocked /\ ClientLeaves))
    /\ WF_vars(Complete) /\ WF_vars(Fail)

FairSpec == Spec /\ Fairness

(***************************************************************************)
(* Properties.                                                             *)
(***************************************************************************)

\* The client receives the events of the worker in their order and without a gap, whatever
\* waits or fails meanwhile, and a row is completed only for a response that was relayed to
\* its last event (worker-socket-backend.ts 219-231, 263; app.ts 548-566).
RelayedWhole ==
    /\ \A i \in DOMAIN written : written[i] = i
    /\ row = "completed" => Len(written) = sent /\ worker = "ended" /\ errors = 0

\* The row of a stream is settled and its lease released, though the worker may be silent
\* or fail and the client may be slow or leave. Not so when the worker dies after the head
\* of its response: nothing ever settles that promise
\* (worker-socket-backend.ts 180-281; app.ts 522-539).
StreamSettles == conn # "severed" ~> row # "in_progress" \/ conn = "severed"

\* The duration of every request is bounded, says docs/THREAT_MODEL.md:41: the row of every
\* stream is settled and its lease released, also when the connection of the worker is
\* severed after the head of its response (worker-socket-backend.ts 180-281).
EveryStreamSettles == <>(row # "in_progress")
=============================================================================
