--------------------------- MODULE CoordinatorProofs ---------------------------
(***************************************************************************)
(* What ResponseCoordinator guarantees for any finite sets of requests and *)
(* calls, any keys and any bounds.                                         *)
(***************************************************************************)
EXTENDS ResponseCoordinator, FiniteSetTheorems, SequenceTheorems, TLAPS

-----------------------------------------------------------------------------
(* The inductive invariant *)

\* Before its session begins a request has no session; Working ones have or had one.
Unbegun == {"idle", "starting", "begun"}
Working == {"waiting", "woken", "interrupting", "aborting", "rejecting"}

\* Each request is where its kind may be, and what works on a session knows its turn.
OnTurn ==
    /\ \A r \in Starter : turnOf[r] = IF pc[r] = "idle" THEN None ELSE r
    /\ \A r \in Req : pc[r] \in {"starting", "begun"} => r \in Starter
    /\ \A r \in Req : pc[r] \in {"created", "reading", "relaying"} => r \in Relayed
    /\ \A r \in Req : pc[r] \in {"emitting", "hung"} => r \in streams
    /\ \A r \in Req : pc[r] \in Working \/ detached[r] # "none" \/ r \in known => turnOf[r] \in Starter

Typed == TypeOK /\ OnTurn

\* Whoever works on a session, and whatever names it, does so after it has begun.
Begun ==
    /\ \A t \in mapped : pc[t] \notin Unbegun
    /\ \A r \in Req : turnOf[r] \in Starter \ {r} => pc[turnOf[r]] \notin Unbegun
    /\ \A r \in known : pc[turnOf[r]] \notin Unbegun

\* A request that waits is the one its session will wake, and a session wakes only such a one.
WaitsIn(sessions) ==
    /\ \A r \in Req : pc[r] = "waiting" =>
          sessions[turnOf[r]].waiter = r /\ sessions[turnOf[r]].signals = <<>>
    /\ \A r \in Req : pc[r] = "reading" => sessions[r].reading /\ sessions[r].queue = <<>>
    /\ \A t \in Starter : sessions[t].waiter # None =>
          pc[sessions[t].waiter] = "waiting" /\ turnOf[sessions[t].waiter] = t
    /\ \A t \in Starter : sessions[t].reading => pc[t] = "reading"
Waits == WaitsIn(session)

\* Deltas are for the reader of a stream; a session keeps none for later.
Kept == Signal \ {"delta"}
DeltasRelayed ==
    /\ \A r \in Req : pc[r] = "woken" /\ hand[r] = "delta" => r \in Relayed
    /\ \A t \in Starter : session[t].signals \in Seq(Kept) /\ orphan[t] \in Seq(Kept)

Placed == Typed /\ Begun /\ Waits /\ DeltasRelayed

\* A call is pending from when its turn makes it until it is answered; who answers it for a
\* client was shown it, and has the key of the client that started its turn.
CallsInOrder ==
    /\ \A c \in Call : callTurn[c] = None => answer[c] = "none"
    /\ \A c \in Call : c \in pending <=> callTurn[c] # None /\ answer[c] = "none"
    /\ \A r \in Req : pc[r] = "idle" => listed[r] = {}
    /\ \A r \in Req : \A c \in listed[r] :
          callTurn[c] = turnOf[r] /\ callTurn[c] \in Starter /\ c \notin Undeclared
    /\ \A c \in Call : answer[c] = "client" =>
          /\ c \notin Undeclared
          /\ giver[c] \in Req /\ callTurn[c] \in Starter /\ key[giver[c]] = key[callTurn[c]]

\* Where nobody streams the deltas, a session is held by its starter: that one works on it, or
\* has returned the calls of a tool response.
Owned == \A t \in mapped \ Relayed : Live(t) \/ result[t] \in {"tool", "empty"}

\* How a request ends its turn; where it may stand when it has a result.
Ends == {"error", "failed", "message"}
Final == {"emitting", "hung", "done", "aborting"}
Outcomes ==
    /\ \A q \in Req : result[q] # "none" => pc[q] \in Final
    /\ \A q \in Req : pc[q] = "emitting" => result[q] # "none"
    /\ \A q \in Req : pc[q] = "idle" => turnOf[q] = None
    /\ \A q \in Req : detached[q] # "none" => pc[q] = "aborting" \/ result[q] \in Ends

\* A session goes when a request of its turn ends, and with that one only, unless the worker ends.
Stopped == ~up /\ \A q \in Req : pc[q] \in {"idle", "done"}
Accounted ==
    /\ \A t \in Starter : pc[t] \notin Unbegun => t \in mapped \/ Ended(t) \/ Stopped
    /\ \A t \in mapped \ Relayed : \A q \in Req : turnOf[q] = t => result[q] \notin Ends
Answered == Outcomes /\ Accounted

\* The end of a turn is kept until a request takes it: by the orphans of a session that has not
\* begun, by the session, or by the woken request, beside which none waits.
EndSignal == {"completed", "failed"}
HasEnd(signals) == \E i \in 1..Len(signals) : signals[i] \in EndSignal
Ending(q, t) == pc[q] = "woken" /\ turnOf[q] = t /\ hand[q] \in EndSignal
EndNoted ==
    /\ \A t \in Starter : t \in mapped \/ pc[t] = "begun" => turn[t] # "none"
    /\ \A t \in Starter \ Relayed : up /\ turn[t] = "ended" =>
          /\ pc[t] \in Unbegun => HasEnd(orphan[t])
          /\ t \in mapped => HasEnd(session[t].signals) \/ \E q \in Req : Ending(q, t)
    /\ \A t \in mapped \ Relayed : \A q \in Req : Ending(q, t) => session[t].waiter = None

\* The signals a turn has sent and nobody has dealt with: one for each pending call, one for the
\* dangerous item. They outnumber those its session queues by the one whose response is built,
\* and while a request waits there are none.
Owed(t) == Cardinality(ListForTurn(t)) + (IF t \in dangerous THEN 1 ELSE 0)
Counted ==
    /\ \A t \in Starter : pc[t] \in Unbegun => Owed(t) <= Len(orphan[t]) /\ detached[t] = "none"
    /\ \A t \in mapped \ Relayed :
          /\ Owed(t) <= Len(session[t].signals) + 1
          /\ session[t].waiter # None => Owed(t) = 0

\* app-server has no turn of a request that has not started one.
Fresh == \A t \in Starter : pc[t] = "idle" => turn[t] = "none" /\ t \notin dangerous

\* A turn that has completed has no calls left, so nobody takes its last signal from the queue
\* by continuing it; and what was completed has run no dangerous item.
Open == Signal \ {"completed"}
Closed(t) == turn[t] = "ended" /\ ListForTurn(t) = {}
Harmless(t) == turn[t] = "ended" /\ t \notin dangerous
Settled ==
    /\ \A t \in Starter : Closed(t) \/ (session[t].signals \in Seq(Open) /\ orphan[t] \in Seq(Open))
    /\ \A t \in Starter : pc[t] \in Unbegun /\ t \in dangerous => Head(orphan[t]) # "completed"
    /\ \A r \in Req : pc[r] = "woken" /\ hand[r] = "completed" =>
          turnOf[r] \in Relayed \/ Harmless(turnOf[r])
    /\ \A r \in Req : result[r] = "message" =>
          turnOf[r] \in Starter /\ (turnOf[r] \in Relayed \/ Harmless(turnOf[r]))
    /\ \A r \in Req : pc[r] = "idle" => result[r] = "none"

-----------------------------------------------------------------------------
(* Types, by the part of the state *)

RequestsTyped ==
    /\ pc \in [Req -> PcValues] /\ hand \in [Req -> Signal \cup {"none"}]
    /\ result \in [Req -> Results]
    /\ listed \in [Req -> SUBSET Call]
ClientsTyped ==
    /\ key \in [Req -> Key] /\ streams \subseteq Streamable /\ gone \subseteq Req
    /\ turnOf \in [Req -> Starter \cup {None}]
    /\ detached \in [Req -> {"none", "security", "undeclared"}]
SessionsOk(sessions) ==
    /\ sessions \in [Starter -> Session]
    /\ \A t \in Starter : Len(sessions[t].queue) <= QueueCap
SessionsTyped ==
    /\ known \subseteq Req /\ mapped \subseteq Starter
    /\ SessionsOk(session) /\ orphan \in [Starter -> Seq(Signal)]
CallsTyped ==
    /\ pending \subseteq Call /\ Cardinality(pending) <= MaxPending
    /\ callTurn \in [Call -> Starter \cup {None}]
    /\ answer \in [Call -> {"none", "client", "failed", "expired", "rejected"}]
    /\ giver \in [Call -> Req \cup {None}]
TurnsTyped ==
    /\ up \in BOOLEAN /\ chunk \in BOOLEAN
    /\ turn \in [Starter -> {"none", "running", "ended"}] /\ said \in [Starter -> 0..MaxDeltas]
    /\ dangerous \subseteq Starter /\ unread \in [Starter -> Int]

LEMMA TypesAreParts ==
    TypeOK <=> RequestsTyped /\ ClientsTyped /\ SessionsTyped /\ CallsTyped /\ TurnsTyped
BY DEF TypeOK, RequestsTyped, ClientsTyped, SessionsOk, SessionsTyped, CallsTyped, TurnsTyped

LEMMA TypesArePartsNext ==
    TypeOK' <=> RequestsTyped' /\ ClientsTyped' /\ SessionsTyped' /\ CallsTyped' /\ TurnsTyped'
BY DEF TypeOK, RequestsTyped, ClientsTyped, SessionsOk, SessionsTyped, CallsTyped, TurnsTyped

\* The stations of a request, for the leaves that compare them.
LEMMA Stations ==
    /\ {"idle", "starting", "begun", "waiting", "woken", "interrupting", "aborting", "rejecting",
        "created", "reading", "relaying", "emitting", "hung", "done"} \subseteq PcValues
    /\ Unbegun \cup Working \subseteq PcValues
BY DEF PcValues, Unbegun, Working

LEMMA StartersAre ==
    /\ Starter \subseteq Req /\ Continuer \subseteq Req /\ None \notin Req /\ None \notin Starter
    /\ \A r \in Req : r \in Starter \/ r \in Continuer
    /\ \A r \in Continuer : r \notin Starter
BY CoordinatorAssumption DEF Req

-----------------------------------------------------------------------------
(* What the operators of the model do *)

LEMMA SignalledTyped ==
    ASSUME NEW q \in Session, NEW s \in Signal, NEW large \in BOOLEAN, Len(q.queue) <= QueueCap
    PROVE  /\ Signalled(q, s, large) \in Session
           /\ Len(Signalled(q, s, large).queue) <= QueueCap
<1>1. /\ q.signals \in Seq(Signal) /\ q.queue \in Seq(Signal) /\ q.waiter \in Req \cup {None}
      /\ q.reading \in BOOLEAN /\ q.streaming \in BOOLEAN
    BY DEF Session
<1>2. Append(q.signals, s) \in Seq(Signal)
    BY <1>1
<1>3. QueueCap \in Nat \ {0} /\ "overflow" \in Signal
    BY CoordinatorAssumption DEF Signal
<1>4. Enqueue(q.queue, s, large) \in Seq(Signal) /\ Len(Enqueue(q.queue, s, large)) <= QueueCap
  <2>1. CASE Len(q.queue) >= QueueCap \/ large
    <3>1. Enqueue(q.queue, s, large) = <<"overflow">>
        BY <2>1 DEF Enqueue
    <3> QED
        BY <1>3, <3>1
  <2>2. CASE ~(Len(q.queue) >= QueueCap \/ large)
    <3>1. Enqueue(q.queue, s, large) = Append(q.queue, s)
        BY <2>2 DEF Enqueue
    <3>2. Len(Append(q.queue, s)) = Len(q.queue) + 1 /\ Append(q.queue, s) \in Seq(Signal)
        BY <1>1, AppendProperties
    <3> QED
        BY <1>1, <1>3, <2>2, <3>1, <3>2, LenProperties
  <2> QED
      BY <2>1, <2>2
<1>5. /\ Signalled(q, s, large) =
            [signals |-> Signalled(q, s, large).signals, waiter |-> Signalled(q, s, large).waiter,
             queue |-> Signalled(q, s, large).queue, reading |-> Signalled(q, s, large).reading,
             streaming |-> Signalled(q, s, large).streaming]
      /\ Signalled(q, s, large).signals \in {q.signals, Append(q.signals, s)}
      /\ Signalled(q, s, large).waiter \in {q.waiter, None}
      /\ Signalled(q, s, large).queue \in {q.queue, Enqueue(q.queue, s, large)}
      /\ Signalled(q, s, large).reading \in BOOLEAN /\ Signalled(q, s, large).streaming \in BOOLEAN
    BY <1>1 DEF Signalled
<1> QED
    BY <1>1, <1>2, <1>4, <1>5 DEF Session

LEMMA SignalledBy ==
    ASSUME NEW t, t \in mapped, NEW s, SignalTurn(t, s)
    PROVE  \E large \in BOOLEAN : session' = [session EXCEPT ![t] = Signalled(@, s, large)]
<1>1. Large(session[t].queue, s) \in BOOLEAN
    BY DEF Large
<1> QED
    BY <1>1 DEF SignalTurn

\* What changes of the requests and of the sessions for an operation on the session of one turn.
LEMMA SignalTurnTyped ==
    ASSUME NEW t \in Starter, NEW s \in Signal, RequestsTyped, SessionsTyped, SignalTurn(t, s)
    PROVE  /\ pc' \in [Req -> PcValues] /\ hand' \in [Req -> Signal \cup {"none"}]
           /\ SessionsOk(session') /\ orphan' \in [Starter -> Seq(Signal)]
<1>1. CASE t \in mapped
  <2>0. PICK large \in BOOLEAN : session' = [session EXCEPT ![t] = Signalled(@, s, large)]
      BY <1>1, SignalledBy
  <2>1. /\ session' = [session EXCEPT ![t] = Signalled(@, s, large)] /\ orphan' = orphan
        /\ pc' = [r \in Req |-> IF r \in Woken(t, s) THEN "woken" ELSE pc[r]]
        /\ hand' = [r \in Req |-> IF r \in Woken(t, s) THEN s ELSE hand[r]]
      BY <1>1, <2>0 DEF SignalTurn
  <2>2. Signalled(session[t], s, large) \in Session /\ Len(Signalled(session[t], s, large).queue) <= QueueCap
      BY SignalledTyped DEF SessionsTyped, SessionsOk
  <2>3. SessionsOk(session')
      BY <2>1, <2>2 DEF SessionsTyped, SessionsOk
  <2>4. pc' \in [Req -> PcValues]
      BY <2>1, Stations DEF RequestsTyped
  <2>5. hand' \in [Req -> Signal \cup {"none"}]
      BY <2>1 DEF RequestsTyped
  <2> QED
      BY <2>1, <2>3, <2>4, <2>5 DEF SessionsTyped
<1>2. CASE t \notin mapped
  <2>1. /\ UNCHANGED <<session, pc, hand>>
        /\ orphan' = IF s = "delta" THEN orphan ELSE [orphan EXCEPT ![t] = Append(@, s)]
      BY <1>2 DEF SignalTurn
  <2>2. Append(orphan[t], s) \in Seq(Signal)
      BY DEF SessionsTyped
  <2> QED
      BY <2>1, <2>2 DEF RequestsTyped, SessionsTyped
<1> QED
    BY <1>1, <1>2

\* The updates of one session, and what they leave of its fields and of the other sessions.
Freed(sessions, t) == [sessions EXCEPT ![t].waiter = None, ![t].reading = FALSE]
Waited(sessions, t, r) == [sessions EXCEPT ![t].waiter = r]
Taken(sessions, t) == [sessions EXCEPT ![t].signals = Tail(@)]
Reads(sessions, t) == [sessions EXCEPT ![t].reading = TRUE]
Left(sessions, t) ==
    [sessions EXCEPT ![t].streaming = FALSE, ![t].queue = <<>>, ![t].signals = <<>>]
OthersSame(after, sessions, t) == \A x \in Starter \ {t} : after[x] = sessions[x]

LEMMA FreedIs ==
    ASSUME NEW sessions, SessionsOk(sessions), NEW t \in Starter
    PROVE  /\ SessionsOk(Freed(sessions, t)) /\ OthersSame(Freed(sessions, t), sessions, t)
           /\ Freed(sessions, t)[t].waiter = None /\ Freed(sessions, t)[t].reading = FALSE
           /\ Freed(sessions, t)[t].signals = sessions[t].signals
           /\ Freed(sessions, t)[t].queue = sessions[t].queue
BY DEF SessionsOk, Session, Freed, OthersSame

LEMMA WaitedIs ==
    ASSUME NEW sessions, SessionsOk(sessions), NEW t \in Starter, NEW r \in Req
    PROVE  /\ SessionsOk(Waited(sessions, t, r)) /\ OthersSame(Waited(sessions, t, r), sessions, t)
           /\ Waited(sessions, t, r)[t].waiter = r
           /\ Waited(sessions, t, r)[t].reading = sessions[t].reading
           /\ Waited(sessions, t, r)[t].signals = sessions[t].signals
           /\ Waited(sessions, t, r)[t].queue = sessions[t].queue
BY DEF SessionsOk, Session, Waited, OthersSame

LEMMA TakenIs ==
    ASSUME NEW sessions, SessionsOk(sessions), NEW t \in Starter, sessions[t].signals # <<>>
    PROVE  /\ SessionsOk(Taken(sessions, t)) /\ OthersSame(Taken(sessions, t), sessions, t)
           /\ Taken(sessions, t)[t].waiter = sessions[t].waiter
           /\ Taken(sessions, t)[t].reading = sessions[t].reading
           /\ Taken(sessions, t)[t].signals = Tail(sessions[t].signals)
           /\ Taken(sessions, t)[t].queue = sessions[t].queue
           /\ Head(sessions[t].signals) \in Signal
<1>1. sessions[t].signals \in Seq(Signal)
    BY DEF SessionsOk, Session
<1>2. Head(sessions[t].signals) \in Signal /\ Tail(sessions[t].signals) \in Seq(Signal)
    BY <1>1, HeadTailProperties
<1> QED
    BY <1>2 DEF SessionsOk, Session, Taken, OthersSame

LEMMA ReadsIs ==
    ASSUME NEW sessions, SessionsOk(sessions), NEW t \in Starter
    PROVE  /\ SessionsOk(Reads(sessions, t)) /\ OthersSame(Reads(sessions, t), sessions, t)
           /\ Reads(sessions, t)[t].waiter = sessions[t].waiter
           /\ Reads(sessions, t)[t].reading = TRUE
           /\ Reads(sessions, t)[t].signals = sessions[t].signals
           /\ Reads(sessions, t)[t].queue = sessions[t].queue
BY DEF SessionsOk, Session, Reads, OthersSame

LEMMA LeftIs ==
    ASSUME NEW sessions, SessionsOk(sessions), NEW t \in Starter
    PROVE  /\ SessionsOk(Left(sessions, t)) /\ OthersSame(Left(sessions, t), sessions, t)
           /\ Left(sessions, t)[t].waiter = sessions[t].waiter
           /\ Left(sessions, t)[t].reading = sessions[t].reading
           /\ Left(sessions, t)[t].signals = <<>> /\ Left(sessions, t)[t].queue = <<>>
<1>1. <<>> \in Seq(Signal) /\ Len(<<>>) = 0 /\ QueueCap \in Nat
    BY CoordinatorAssumption
<1>2. /\ OthersSame(Left(sessions, t), sessions, t)
      /\ Left(sessions, t)[t].waiter = sessions[t].waiter
      /\ Left(sessions, t)[t].reading = sessions[t].reading
      /\ Left(sessions, t)[t].signals = <<>> /\ Left(sessions, t)[t].queue = <<>>
    BY DEF SessionsOk, Session, Left, OthersSame
<1>3. Left(sessions, t) \in [Starter -> Session]
  <2> DEFINE m == [sessions[t] EXCEPT !.streaming = FALSE, !.queue = <<>>, !.signals = <<>>]
  <2>1. sessions \in [Starter -> Session] /\ m \in Session
      BY <1>1 DEF SessionsOk, Session
  <2>2. Left(sessions, t) = [sessions EXCEPT ![t] = m]
      BY <2>1 DEF Left
  <2> QED
      BY <2>1, <2>2
<1>4. \A x \in Starter : Len(Left(sessions, t)[x].queue) <= QueueCap
    BY <1>1, <1>2 DEF SessionsOk, OthersSame
<1> QED
    BY <1>2, <1>3, <1>4 DEF SessionsOk

LEMMA AbortTyped ==
    ASSUME NEW r \in Req, NEW t \in Starter, NEW sessions, SessionsOk(sessions),
           pc \in [Req -> PcValues], hand \in [Req -> Signal \cup {"none"}], Abort(r, t, sessions)
    PROVE  /\ pc' \in [Req -> PcValues] /\ hand' \in [Req -> Signal \cup {"none"}]
           /\ SessionsOk(session')
<1> DEFINE rejected == {r} \cup {q \in Req : q = sessions[t].waiter}
                           \cup {q \in {t} : sessions[t].reading}
<1>1. /\ pc' = [q \in Req |-> IF q \in rejected THEN "aborting" ELSE pc[q]]
      /\ session' = Freed(sessions, t)
      /\ hand' = hand
    BY DEF Abort, Freed
<1>2. pc' \in [Req -> PcValues]
  <2> HIDE DEF rejected
  <2> QED
      BY <1>1, Stations
<1>3. SessionsOk(session')
    BY <1>1, FreedIs
<1> QED
    BY <1>1, <1>2, <1>3

LEMMA NextSignalTyped ==
    ASSUME NEW r \in Req, NEW t \in Starter, NEW sessions, SessionsOk(sessions),
           pc \in [Req -> PcValues], hand \in [Req -> Signal \cup {"none"}],
           NextSignal(r, t, sessions)
    PROVE  /\ pc' \in [Req -> PcValues] /\ hand' \in [Req -> Signal \cup {"none"}]
           /\ SessionsOk(session')
<1>1. CASE /\ sessions[t].signals # <<>>
           /\ session' = Taken(sessions, t)
           /\ hand' = [hand EXCEPT ![r] = Head(sessions[t].signals)]
           /\ pc' = [pc EXCEPT ![r] = "woken"]
  <2>1. Head(sessions[t].signals) \in Signal /\ SessionsOk(session')
      BY <1>1, TakenIs
  <2> QED
      BY <1>1, <2>1, Stations
<1>2. CASE /\ session' = Waited(sessions, t, r)
           /\ pc' = [pc EXCEPT ![r] = "waiting"]
           /\ UNCHANGED hand
  <2>1. SessionsOk(session')
      BY <1>2, WaitedIs
  <2> QED
      BY <1>2, <2>1, Stations
<1>3. CASE Abort(r, t, sessions)
    BY <1>3, AbortTyped
<1> QED
    BY <1>1, <1>2, <1>3 DEF NextSignal, Taken, Waited
LEMMA ResolveTyped ==
    ASSUME NEW cs \in SUBSET Call, NEW how \in {"client", "failed", "expired"}, NEW by \in Req \cup {None},
           CallsTyped, Resolve(cs, how, by)
    PROVE  CallsTyped'
<1>1. IsFiniteSet(pending)
    BY CoordinatorAssumption, FS_Subset DEF CallsTyped
<1>2. pending' \in SUBSET pending
    BY DEF Resolve
<1>3. Cardinality(pending') <= Cardinality(pending)
    BY <1>1, <1>2, FS_Subset
<1>4. Cardinality(pending') \in Nat /\ Cardinality(pending) \in Nat /\ MaxPending \in Nat
    BY <1>1, <1>2, FS_Subset, FS_CardinalityType, CoordinatorAssumption
<1> QED
    BY <1>2, <1>3, <1>4 DEF CallsTyped, Resolve

LEMMA RemoveSessionTyped ==
    ASSUME NEW t, SessionsTyped, RemoveSession(t)
    PROVE  SessionsTyped'
<1>1. <<>> \in Seq(Signal) /\ Len(<<>>) = 0 /\ QueueCap \in Nat
    BY CoordinatorAssumption
<1>2. session' = [session EXCEPT ![t].queue = <<>>]
    BY DEF RemoveSession
<1>3. SessionsOk(session)
    BY DEF SessionsTyped
<1>4. session' \in [Starter -> Session]
    BY <1>1, <1>2, <1>3 DEF SessionsOk, Session
<1>5. ASSUME NEW x \in Starter PROVE session'[x].queue \in {<<>>, session[x].queue}
    BY <1>2, <1>3 DEF SessionsOk, Session
<1>6. SessionsOk(session')
    BY <1>1, <1>3, <1>4, <1>5 DEF SessionsOk
<1> QED
    BY <1>1, <1>6 DEF RemoveSession, SessionsTyped

LEMMA NewSessionTyped ==
    NewSession \in Session /\ NewSession.queue = <<>> /\ NewSession.waiter = None /\ ~NewSession.reading
BY DEF NewSession, Session

\* The session that begins: the signals that waited for it are its own.
Beginning(r) == [session EXCEPT ![r] = [NewSession EXCEPT !.signals = orphan[r],
                                                         !.streaming = r \in streams]]

LEMMA BeginningIs ==
    ASSUME NEW r \in Starter, SessionsTyped
    PROVE  /\ SessionsOk(Beginning(r))
           /\ Beginning(r)[r].signals = orphan[r] /\ Beginning(r)[r].waiter = None
           /\ Beginning(r)[r].queue = <<>> /\ Beginning(r)[r].reading = FALSE
           /\ \A t \in Starter \ {r} : Beginning(r)[t] = session[t]
<1>0. \E b \in BOOLEAN : b = (r \in streams)
  <2> WITNESS (r \in streams) \in BOOLEAN
  <2> QED
      OBVIOUS
<1>1. PICK b \in BOOLEAN : b = (r \in streams)
    BY <1>0
<1>2. orphan[r] \in Seq(Signal)
    BY DEF SessionsTyped
<1>3. Beginning(r)[r] = [NewSession EXCEPT !.signals = orphan[r], !.streaming = b]
    BY <1>1 DEF Beginning, SessionsTyped, SessionsOk
<1>4. /\ Beginning(r)[r].signals = orphan[r] /\ Beginning(r)[r].waiter = None
      /\ Beginning(r)[r].queue = <<>> /\ Beginning(r)[r].reading = FALSE
      /\ Beginning(r)[r] \in Session
    BY <1>1, <1>2, <1>3, NewSessionTyped DEF Session
<1>6. Beginning(r) \in [Starter -> Session] /\ \A t \in Starter \ {r} : Beginning(r)[t] = session[t]
    BY <1>4 DEF Beginning, SessionsTyped, SessionsOk
<1>8. Len(Beginning(r)[r].queue) <= QueueCap
    BY <1>4, CoordinatorAssumption
<1>9. \A t \in Starter \ {r} : Len(Beginning(r)[t].queue) <= QueueCap
    BY <1>6 DEF SessionsTyped, SessionsOk
<1> QED
    BY <1>4, <1>6, <1>8, <1>9 DEF SessionsOk

LEMMA BeginSessionIs ==
    ASSUME NEW r \in Starter, BeginSession(r)
    PROVE  /\ pc[r] = "begun" /\ mapped' = mapped \cup {r} /\ orphan' = [orphan EXCEPT ![r] = <<>>]
           /\ \/ /\ r \notin streams /\ r \in gone
                 /\ Abort(r, r, Beginning(r)) /\ known' = known
              \/ /\ r \notin streams /\ r \notin gone
                 /\ NextSignal(r, r, Beginning(r)) /\ known' = known
              \/ /\ r \in streams /\ session' = Beginning(r) /\ known' = known \cup {r}
                 /\ pc' = [pc EXCEPT ![r] = IF r \in gone THEN "hung" ELSE "created"]
                 /\ hand' = hand
           /\ UNCHANGED <<up, result, listed, clientVars, callVars, turnVars>>
BY DEF BeginSession, Beginning

LEMMA CleanUpTyped ==
    ASSUME NEW t, SessionsTyped, CallsTyped, CleanUp(t) PROVE SessionsTyped' /\ CallsTyped'
<1>1. ListForTurn(t) \in SUBSET Call /\ RemoveSession(t) /\ Resolve(ListForTurn(t), "failed", None)
    BY DEF CleanUp, ListForTurn, CallsTyped
<1>2. SessionsTyped'
    BY <1>1, RemoveSessionTyped
<1>3. CallsTyped'
    BY <1>1, ResolveTyped
<1> QED
    BY <1>2, <1>3

LEMMA LoopTyped == (Line \/ Event \/ \E r \in Req : Continuation(r)) => chunk' \in BOOLEAN
BY DEF Line, Event, Continuation

LEMMA ClientsKept == ASSUME ClientsTyped, OnTurn, Next PROVE ClientsTyped'
<1> USE StartersAre
<1>1. ASSUME NEW r \in Starter, Start(r) PROVE ClientsTyped'
    BY <1>1 DEF Start, ClientsTyped, clientVars
<1>2. ASSUME NEW r \in Starter, TurnStarts(r) PROVE ClientsTyped'
    BY <1>2 DEF TurnStarts, ClientsTyped, clientVars
<1>3. ASSUME NEW r \in Starter, TurnStartAnswered(r) PROVE ClientsTyped'
    BY <1>3 DEF TurnStartAnswered, ClientsTyped, clientVars
<1>4. ASSUME NEW r \in Starter, StartFails(r) PROVE ClientsTyped'
    BY <1>4 DEF StartFails, ClientsTyped, clientVars
<1>5. ASSUME NEW r \in Starter, BeginSession(r) PROVE ClientsTyped'
    BY <1>5 DEF BeginSession, ClientsTyped, clientVars
<1>6. ASSUME NEW r \in Continuer, NEW p \in Req, NEW outputs \in SUBSET Shown, Continue(r, p, outputs) PROVE ClientsTyped'
  <2>1. turnOf[p] \in Starter
      BY <1>6 DEF Continue, MayContinue, OnTurn
  <2> QED
      BY <1>6, <2>1 DEF Continue, ClientsTyped
<1>7. ASSUME NEW r \in Continuer, NEW p \in Req, NEW outputs \in SUBSET Shown,
            NEW answered \in SUBSET outputs, ContinueTooLarge(r, p, outputs, answered) PROVE ClientsTyped'
    BY <1>7 DEF ContinueTooLarge, ClientsTyped, clientVars
<1>8. ASSUME NEW r \in Continuer, ContinueRefused(r) PROVE ClientsTyped'
    BY <1>8 DEF ContinueRefused, ClientsTyped, clientVars
<1>9. ASSUME NEW r \in Req, RelayDelta(r) PROVE ClientsTyped'
    BY <1>9 DEF RelayDelta, ClientsTyped, clientVars
<1>10. ASSUME NEW r \in Req, RespondToSecurity(r) PROVE ClientsTyped'
    BY <1>10 DEF RespondToSecurity, ClientsTyped, clientVars
<1>11. ASSUME NEW r \in Req, RespondToTool(r) PROVE ClientsTyped'
    BY <1>11 DEF RespondToTool, ClientsTyped, clientVars
<1>12. ASSUME NEW r \in Req, RejectUndeclared(r) PROVE ClientsTyped'
    BY <1>12 DEF RejectUndeclared, ClientsTyped, clientVars
<1>13. ASSUME NEW r \in Req, RespondToEnd(r) PROVE ClientsTyped'
    BY <1>13 DEF RespondToEnd, ClientsTyped, clientVars
<1>14. ASSUME NEW r \in Req, Interrupted(r) PROVE ClientsTyped'
    BY <1>14 DEF Interrupted, ClientsTyped, clientVars
<1>15. ASSUME NEW r \in Req, Aborted(r) PROVE ClientsTyped'
    BY <1>15 DEF Aborted, ClientsTyped, clientVars
<1>16. ASSUME NEW r \in Req, Rejected(r) PROVE ClientsTyped'
    BY <1>16 DEF Rejected, ClientsTyped, clientVars
<1>17. ASSUME NEW r \in Req, DetachedEnds(r) PROVE ClientsTyped'
    BY <1>17 DEF DetachedEnds, ClientsTyped
<1>18. ASSUME NEW r \in Req, Drained(r) PROVE ClientsTyped'
    BY <1>18 DEF Drained, ClientsTyped, clientVars
<1>19. ASSUME NEW r \in Req, Disconnect(r) PROVE ClientsTyped'
    BY <1>19 DEF Disconnect, ClientsTyped, clientVars
<1>20. ASSUME NEW r \in Starter, EmitTooLarge(r) PROVE ClientsTyped'
    BY <1>20 DEF EmitTooLarge, ClientsTyped, clientVars
<1>21. ASSUME NEW r \in Continuer, ContinuationTooLarge(r) PROVE ClientsTyped'
    BY <1>21 DEF ContinuationTooLarge, ClientsTyped, clientVars
<1>22. ASSUME NEW r \in Req, ResponseTimeout(r) PROVE ClientsTyped'
    BY <1>22 DEF ResponseTimeout, ClientsTyped, clientVars
<1>23. ASSUME NEW c \in Call, CallExpires(c) PROVE ClientsTyped'
    BY <1>23 DEF CallExpires, ClientsTyped, clientVars
<1>24. ASSUME NEW t \in Starter, NEW c \in Call, ToolCalled(t, c) PROVE ClientsTyped'
    BY <1>24 DEF ToolCalled, ClientsTyped, clientVars
<1>25. ASSUME NEW t \in Starter, Delta(t) PROVE ClientsTyped'
    BY <1>25 DEF Delta, ClientsTyped, clientVars
<1>26. ASSUME NEW t \in Starter, DangerousItem(t) PROVE ClientsTyped'
    BY <1>26 DEF DangerousItem, ClientsTyped, clientVars
<1>27. ASSUME NEW t \in Starter, NEW status \in {"completed", "failed"}, TurnCompleted(t, status) PROVE ClientsTyped'
    BY <1>27 DEF TurnCompleted, ClientsTyped, clientVars
<1>28. ASSUME ChildFailure PROVE ClientsTyped'
  <2>1. detached' = [r \in Req |-> "none"] \/ detached' = detached
      BY <1>28 DEF ChildFailure
  <2> QED
      BY <1>28, <2>1 DEF ChildFailure, ClientsTyped
<1> QED
    BY <1>1, <1>2, <1>3, <1>4, <1>5, <1>6, <1>7, <1>8, <1>9, <1>10, <1>11, <1>12,
       <1>13, <1>14, <1>15, <1>16, <1>17, <1>18, <1>19, <1>20, <1>21, <1>22, <1>23,
       <1>24, <1>25, <1>26, <1>27, <1>28 DEF Next

LEMMA TurnsKept == ASSUME TurnsTyped, Next PROVE TurnsTyped'
<1>0. MaxDeltas \in Nat
    BY CoordinatorAssumption
<1> USE LoopTyped
<1>1. ASSUME NEW r \in Starter, Start(r) PROVE TurnsTyped'
    BY <1>1 DEF Start, TurnsTyped, turnVars
<1>2. ASSUME NEW r \in Starter, TurnStarts(r) PROVE TurnsTyped'
    BY <1>2 DEF TurnStarts, TurnsTyped, turnVars
<1>3. ASSUME NEW r \in Starter, TurnStartAnswered(r) PROVE TurnsTyped'
    BY <1>3 DEF TurnStartAnswered, TurnsTyped, turnVars
<1>4. ASSUME NEW r \in Starter, StartFails(r) PROVE TurnsTyped'
    BY <1>4 DEF StartFails, TurnsTyped, turnVars
<1>5. ASSUME NEW r \in Starter, BeginSession(r) PROVE TurnsTyped'
  <2>0. Continuation(r)
      BY <1>5 DEF BeginSession
  <2>1. chunk' \in BOOLEAN /\ UNCHANGED <<up, turnVars>>
      BY <1>5, <2>0, BeginSessionIs DEF Continuation
  <2> QED
      BY <2>1 DEF TurnsTyped, turnVars
<1>6. ASSUME NEW r \in Continuer, NEW p \in Req, NEW outputs \in SUBSET Shown, Continue(r, p, outputs) PROVE TurnsTyped'
    BY <1>6 DEF Continue, TurnsTyped, turnVars
<1>7. ASSUME NEW r \in Continuer, NEW p \in Req, NEW outputs \in SUBSET Shown,
            NEW answered \in SUBSET outputs, ContinueTooLarge(r, p, outputs, answered) PROVE TurnsTyped'
    BY <1>7 DEF ContinueTooLarge, TurnsTyped, turnVars
<1>8. ASSUME NEW r \in Continuer, ContinueRefused(r) PROVE TurnsTyped'
    BY <1>8 DEF ContinueRefused, TurnsTyped, turnVars
<1>9. ASSUME NEW r \in Req, RelayDelta(r) PROVE TurnsTyped'
  <2>1. UNCHANGED <<up, turn, said, dangerous>> /\ unread' = [unread EXCEPT ![r] = @ - 1] /\ Continuation(r)
      BY <1>9 DEF RelayDelta
  <2>2. unread \in [Starter -> Int]
      BY DEF TurnsTyped
  <2>3. unread' \in [Starter -> Int]
    <3>1. CASE r \in Starter
      <4>1. unread[r] - 1 \in Int
          BY <2>2, <3>1
      <4> QED
          BY <2>1, <2>2, <3>1, <4>1
    <3>2. CASE r \notin Starter
        BY <2>1, <2>2, <3>2
    <3> QED
        BY <3>1, <3>2
  <2> QED
      BY <2>1, <2>3 DEF TurnsTyped, Continuation
<1>10. ASSUME NEW r \in Req, RespondToSecurity(r) PROVE TurnsTyped'
    BY <1>10 DEF RespondToSecurity, TurnsTyped, turnVars
<1>11. ASSUME NEW r \in Req, RespondToTool(r) PROVE TurnsTyped'
    BY <1>11 DEF RespondToTool, TurnsTyped, turnVars
<1>12. ASSUME NEW r \in Req, RejectUndeclared(r) PROVE TurnsTyped'
    BY <1>12 DEF RejectUndeclared, TurnsTyped, turnVars
<1>13. ASSUME NEW r \in Req, RespondToEnd(r) PROVE TurnsTyped'
    BY <1>13 DEF RespondToEnd, TurnsTyped, turnVars
<1>14. ASSUME NEW r \in Req, Interrupted(r) PROVE TurnsTyped'
    BY <1>14 DEF Interrupted, TurnsTyped, turnVars
<1>15. ASSUME NEW r \in Req, Aborted(r) PROVE TurnsTyped'
    BY <1>15 DEF Aborted, TurnsTyped, turnVars
<1>16. ASSUME NEW r \in Req, Rejected(r) PROVE TurnsTyped'
    BY <1>16 DEF Rejected, TurnsTyped, turnVars
<1>17. ASSUME NEW r \in Req, DetachedEnds(r) PROVE TurnsTyped'
    BY <1>17 DEF DetachedEnds, TurnsTyped, turnVars
<1>18. ASSUME NEW r \in Req, Drained(r) PROVE TurnsTyped'
    BY <1>18 DEF Drained, TurnsTyped, turnVars
<1>19. ASSUME NEW r \in Req, Disconnect(r) PROVE TurnsTyped'
    BY <1>19 DEF Disconnect, TurnsTyped, turnVars
<1>20. ASSUME NEW r \in Starter, EmitTooLarge(r) PROVE TurnsTyped'
    BY <1>20 DEF EmitTooLarge, TurnsTyped, turnVars
<1>21. ASSUME NEW r \in Continuer, ContinuationTooLarge(r) PROVE TurnsTyped'
    BY <1>21 DEF ContinuationTooLarge, TurnsTyped, turnVars
<1>22. ASSUME NEW r \in Req, ResponseTimeout(r) PROVE TurnsTyped'
    BY <1>22 DEF ResponseTimeout, TurnsTyped, turnVars
<1>23. ASSUME NEW c \in Call, CallExpires(c) PROVE TurnsTyped'
    BY <1>23 DEF CallExpires, TurnsTyped, turnVars
<1>24. ASSUME NEW t \in Starter, NEW c \in Call, ToolCalled(t, c) PROVE TurnsTyped'
    BY <1>24 DEF ToolCalled, TurnsTyped, turnVars
<1>25. ASSUME NEW t \in Starter, Delta(t) PROVE TurnsTyped'
  <2>1. /\ said' = [said EXCEPT ![t] = @ + 1] /\ said[t] < MaxDeltas /\ Line
        /\ UNCHANGED <<up, turn, dangerous>> /\ unread' \in {unread, [unread EXCEPT ![t] = @ + 1]}
      BY <1>25 DEF Delta
  <2> QED
      BY <1>0, <2>1 DEF TurnsTyped
<1>26. ASSUME NEW t \in Starter, DangerousItem(t) PROVE TurnsTyped'
    BY <1>26 DEF DangerousItem, TurnsTyped, turnVars
<1>27. ASSUME NEW t \in Starter, NEW status \in {"completed", "failed"}, TurnCompleted(t, status) PROVE TurnsTyped'
    BY <1>27 DEF TurnCompleted, TurnsTyped, turnVars
<1>28. ASSUME ChildFailure PROVE TurnsTyped'
    BY <1>28 DEF ChildFailure, TurnsTyped, turnVars
<1> QED
    BY <1>1, <1>2, <1>3, <1>4, <1>5, <1>6, <1>7, <1>8, <1>9, <1>10, <1>11, <1>12,
       <1>13, <1>14, <1>15, <1>16, <1>17, <1>18, <1>19, <1>20, <1>21, <1>22, <1>23,
       <1>24, <1>25, <1>26, <1>27, <1>28 DEF Next

LEMMA CallsStayTyped == ASSUME CallsTyped, SessionsTyped, Next PROVE CallsTyped'
<1>0. \A t : ListForTurn(t) \in SUBSET Call /\ ListForTurn(t) \subseteq pending
    BY DEF ListForTurn, CallsTyped
<1>1. ASSUME NEW r \in Starter, Start(r) PROVE CallsTyped'
    BY <1>1 DEF Start, CallsTyped, callVars
<1>2. ASSUME NEW r \in Starter, TurnStarts(r) PROVE CallsTyped'
    BY <1>2 DEF TurnStarts, CallsTyped, callVars
<1>3. ASSUME NEW r \in Starter, TurnStartAnswered(r) PROVE CallsTyped'
    BY <1>3 DEF TurnStartAnswered, CallsTyped, callVars
<1>4. ASSUME NEW r \in Starter, StartFails(r) PROVE CallsTyped'
    BY <1>4 DEF StartFails, CallsTyped, callVars
<1>5. ASSUME NEW r \in Starter, BeginSession(r) PROVE CallsTyped'
    BY <1>5, BeginSessionIs DEF CallsTyped, callVars
<1>6. ASSUME NEW r \in Continuer, NEW p \in Req, NEW outputs \in SUBSET Shown, Continue(r, p, outputs) PROVE CallsTyped'
  <2>1. outputs \in SUBSET Call /\ r \in Req /\ Resolve(outputs, "client", r)
      BY <1>0, <1>6, StartersAre DEF Continue, MayContinue
  <2> QED
      BY <2>1, ResolveTyped
<1>7. ASSUME NEW r \in Continuer, NEW p \in Req, NEW outputs \in SUBSET Shown,
            NEW answered \in SUBSET outputs, ContinueTooLarge(r, p, outputs, answered) PROVE CallsTyped'
  <2>1. answered \in SUBSET Call /\ r \in Req /\ Resolve(answered, "client", r)
      BY <1>0, <1>7, StartersAre DEF ContinueTooLarge, MayContinue
  <2> QED
      BY <2>1, ResolveTyped
<1>8. ASSUME NEW r \in Continuer, ContinueRefused(r) PROVE CallsTyped'
    BY <1>8 DEF ContinueRefused, CallsTyped, callVars
<1>9. ASSUME NEW r \in Req, RelayDelta(r) PROVE CallsTyped'
    BY <1>9 DEF RelayDelta, CallsTyped, callVars
<1>10. ASSUME NEW r \in Req, RespondToSecurity(r) PROVE CallsTyped'
    BY <1>10 DEF RespondToSecurity, CallsTyped, callVars
<1>11. ASSUME NEW r \in Req, RespondToTool(r) PROVE CallsTyped'
    BY <1>11 DEF RespondToTool, CallsTyped, callVars
<1>12. ASSUME NEW r \in Req, RejectUndeclared(r) PROVE CallsTyped'
    BY <1>12 DEF RejectUndeclared, CallsTyped, callVars
<1>13. ASSUME NEW r \in Req, RespondToEnd(r) PROVE CallsTyped'
    BY <1>13 DEF RespondToEnd, CallsTyped, callVars
<1>14. ASSUME NEW r \in Req, Interrupted(r) PROVE CallsTyped'
    BY <1>14 DEF Interrupted, CallsTyped, callVars
<1>15. ASSUME NEW r \in Req, Aborted(r) PROVE CallsTyped'
    BY <1>15, CleanUpTyped DEF Aborted
<1>16. ASSUME NEW r \in Req, Rejected(r) PROVE CallsTyped'
    BY <1>16, CleanUpTyped DEF Rejected
<1>17. ASSUME NEW r \in Req, DetachedEnds(r) PROVE CallsTyped'
  <2>1. CleanUp(turnOf[r]) \/ UNCHANGED callVars
      BY <1>17 DEF DetachedEnds
  <2> QED
      BY <2>1, CleanUpTyped DEF CallsTyped, callVars
<1>18. ASSUME NEW r \in Req, Drained(r) PROVE CallsTyped'
    BY <1>18 DEF Drained, CallsTyped, callVars
<1>19. ASSUME NEW r \in Req, Disconnect(r) PROVE CallsTyped'
    BY <1>19 DEF Disconnect, CallsTyped, callVars
<1>20. ASSUME NEW r \in Starter, EmitTooLarge(r) PROVE CallsTyped'
    BY <1>20 DEF EmitTooLarge, CallsTyped, callVars
<1>21. ASSUME NEW r \in Continuer, ContinuationTooLarge(r) PROVE CallsTyped'
    BY <1>21 DEF ContinuationTooLarge, CallsTyped, callVars
<1>22. ASSUME NEW r \in Req, ResponseTimeout(r) PROVE CallsTyped'
    BY <1>22 DEF ResponseTimeout, CallsTyped, callVars
<1>23. ASSUME NEW c \in Call, CallExpires(c) PROVE CallsTyped'
  <2>1. {c} \in SUBSET Call /\ Resolve({c}, "expired", None)
      BY <1>23 DEF CallExpires
  <2> QED
      BY <2>1, ResolveTyped
<1>24. ASSUME NEW t \in Starter, NEW c \in Call, ToolCalled(t, c) PROVE CallsTyped'
  <2>1. /\ callTurn' = [callTurn EXCEPT ![c] = t] /\ giver' = giver
        /\ answer' \in {answer, [answer EXCEPT ![c] = "rejected"], [answer EXCEPT ![c] = "failed"]}
        /\ pending' = pending \/ (pending' = pending \cup {c} /\ ~BrokerFull)
      BY <1>24 DEF ToolCalled
  <2>2. IsFiniteSet(pending) /\ Cardinality(pending) \in Nat
      BY CoordinatorAssumption, FS_Subset, FS_CardinalityType DEF CallsTyped
  <2>3. Cardinality(pending \cup {c}) \in {Cardinality(pending), Cardinality(pending) + 1}
    <3>1. Cardinality(pending \cup {c})
            = IF c \in pending THEN Cardinality(pending) ELSE Cardinality(pending) + 1
        BY <2>2, FS_AddElement
    <3> QED
        BY <3>1
  <2>4. Cardinality(pending \cup {c}) \in Nat /\ MaxPending \in Nat
      BY <2>2, FS_AddElement, FS_CardinalityType, CoordinatorAssumption
  <2>5. ~BrokerFull => Cardinality(pending \cup {c}) <= MaxPending
      BY <2>2, <2>3, <2>4 DEF BrokerFull
  <2> QED
      BY <1>24, <2>1, <2>5 DEF CallsTyped
<1>25. ASSUME NEW t \in Starter, Delta(t) PROVE CallsTyped'
    BY <1>25 DEF Delta, CallsTyped, callVars
<1>26. ASSUME NEW t \in Starter, DangerousItem(t) PROVE CallsTyped'
    BY <1>26 DEF DangerousItem, CallsTyped, callVars
<1>27. ASSUME NEW t \in Starter, NEW status \in {"completed", "failed"}, TurnCompleted(t, status) PROVE CallsTyped'
    BY <1>27 DEF TurnCompleted, CallsTyped, callVars
<1>28. ASSUME ChildFailure PROVE CallsTyped'
  <2>1. pending \in SUBSET Call /\ Resolve(pending, "failed", None)
      BY <1>28 DEF ChildFailure, CallsTyped
  <2> QED
      BY <2>1, ResolveTyped
<1> QED
    BY <1>1, <1>2, <1>3, <1>4, <1>5, <1>6, <1>7, <1>8, <1>9, <1>10, <1>11, <1>12,
       <1>13, <1>14, <1>15, <1>16, <1>17, <1>18, <1>19, <1>20, <1>21, <1>22, <1>23,
       <1>24, <1>25, <1>26, <1>27, <1>28 DEF Next

LEMMA RequestsStayTyped == ASSUME Typed, Next PROVE RequestsTyped'
<1>0. RequestsTyped /\ ClientsTyped /\ SessionsTyped /\ CallsTyped
    BY TypesAreParts DEF Typed
<1>a. \A r \in Req : pc[r] \in Working => turnOf[r] \in Starter
    BY DEF Typed, OnTurn
<1>b. \A r \in Starter : pc[r] # "idle" => turnOf[r] = r
    BY DEF Typed, OnTurn
<1>c. \A t : ListForTurn(t) \in SUBSET Call
    BY <1>0 DEF ListForTurn, CallsTyped
<1>d. SessionsOk(session) /\ pc \in [Req -> PcValues] /\ hand \in [Req -> Signal \cup {"none"}]
    BY <1>0 DEF RequestsTyped, SessionsTyped
<1>e. \A r : AfterError(r) \in PcValues
    BY Stations DEF AfterError
<1>f. {"tool", "security", "delta", "completed", "failed"} \subseteq Signal
    BY DEF Signal
<1>r. {"none", "error", "failed", "message", "tool", "empty", "lost"} \subseteq Results
    BY DEF Results
<1> USE <1>0, <1>e, <1>r, StartersAre, Stations
<1>1. ASSUME NEW r \in Starter, Start(r) PROVE RequestsTyped'
    BY <1>1 DEF Start, RequestsTyped, requestVars
<1>2. ASSUME NEW r \in Starter, TurnStarts(r) PROVE RequestsTyped'
    BY <1>2 DEF TurnStarts, RequestsTyped, requestVars
<1>3. ASSUME NEW r \in Starter, TurnStartAnswered(r) PROVE RequestsTyped'
    BY <1>3 DEF TurnStartAnswered, RequestsTyped, requestVars
<1>4. ASSUME NEW r \in Starter, StartFails(r) PROVE RequestsTyped'
    BY <1>4 DEF StartFails, RequestsTyped, requestVars
<1>5. ASSUME NEW r \in Starter, BeginSession(r) PROVE RequestsTyped'
  <2>1. pc' \in [Req -> PcValues] /\ hand' \in [Req -> Signal \cup {"none"}]
    <3>1. CASE Abort(r, r, Beginning(r))
        BY <1>d, <3>1, BeginningIs, AbortTyped
    <3>2. CASE NextSignal(r, r, Beginning(r))
        BY <1>d, <3>2, BeginningIs, NextSignalTyped
    <3>3. CASE pc' = [pc EXCEPT ![r] = IF r \in gone THEN "hung" ELSE "created"] /\ hand' = hand
        BY <1>d, <3>3
    <3> QED
        BY <1>5, <3>1, <3>2, <3>3, BeginSessionIs
  <2> QED
      BY <1>5, <2>1, BeginSessionIs DEF RequestsTyped
<1>6. ASSUME NEW r \in Continuer, NEW p \in Req, NEW outputs \in SUBSET Shown, Continue(r, p, outputs) PROVE RequestsTyped'
  <2>1. turnOf[p] \in Starter /\ NextSignal(r, turnOf[p], session) /\ UNCHANGED <<result, listed>>
      BY <1>6 DEF Continue, MayContinue, Typed, OnTurn
  <2>2. pc' \in [Req -> PcValues] /\ hand' \in [Req -> Signal \cup {"none"}]
      BY <1>d, <2>1, NextSignalTyped
  <2> QED
      BY <2>1, <2>2 DEF RequestsTyped
<1>7. ASSUME NEW r \in Continuer, NEW p \in Req, NEW outputs \in SUBSET Shown,
            NEW answered \in SUBSET outputs, ContinueTooLarge(r, p, outputs, answered) PROVE RequestsTyped'
    BY <1>7 DEF ContinueTooLarge, RequestsTyped, requestVars
<1>8. ASSUME NEW r \in Continuer, ContinueRefused(r) PROVE RequestsTyped'
    BY <1>8 DEF ContinueRefused, RequestsTyped, requestVars
<1>9. ASSUME NEW r \in Req, RelayDelta(r) PROVE RequestsTyped'
    BY <1>9 DEF RelayDelta, RequestsTyped, requestVars
<1>10. ASSUME NEW r \in Req, RespondToSecurity(r) PROVE RequestsTyped'
    BY <1>10 DEF RespondToSecurity, RequestsTyped, requestVars
<1>11. ASSUME NEW r \in Req, RespondToTool(r) PROVE RequestsTyped'
    BY <1>c, <1>11 DEF RespondToTool, Return, RequestsTyped
<1>12. ASSUME NEW r \in Req, RejectUndeclared(r) PROVE RequestsTyped'
  <2> DEFINE others == {q \in Req : q = session[turnOf[r]].waiter}
                        \cup {q \in {turnOf[r]} : session[turnOf[r]].reading}
  <2>1. /\ pc' = [q \in Req |-> IF q = r THEN "rejecting" ELSE IF q \in others THEN "aborting" ELSE pc[q]]
        /\ UNCHANGED <<hand, result, listed>>
      BY <1>12 DEF RejectUndeclared
  <2> HIDE DEF others
  <2> QED
      BY <1>d, <2>1 DEF RequestsTyped
<1>13. ASSUME NEW r \in Req, RespondToEnd(r) PROVE RequestsTyped'
    BY <1>13 DEF RespondToEnd, Return, RequestsTyped
<1>14. ASSUME NEW r \in Req, Interrupted(r) PROVE RequestsTyped'
    BY <1>14 DEF Interrupted, Return, RequestsTyped
<1>15. ASSUME NEW r \in Req, Aborted(r) PROVE RequestsTyped'
    BY <1>15 DEF Aborted, RequestsTyped, requestVars
<1>16. ASSUME NEW r \in Req, Rejected(r) PROVE RequestsTyped'
    BY <1>16 DEF Rejected, Return, RequestsTyped
<1>17. ASSUME NEW r \in Req, DetachedEnds(r) PROVE RequestsTyped'
    BY <1>17 DEF DetachedEnds, RequestsTyped, requestVars
<1>18. ASSUME NEW r \in Req, Drained(r) PROVE RequestsTyped'
  <2>1. /\ UNCHANGED <<result, listed>>
        /\ \/ /\ pc[r] \in {"created", "relaying"} /\ session[r].queue # <<>>
              /\ hand' = [hand EXCEPT ![r] = Head(session[r].queue)]
              /\ pc' = [pc EXCEPT ![r] = "woken"]
           \/ pc' \in {[pc EXCEPT ![r] = "reading"], [pc EXCEPT ![r] = "done"]} /\ hand' = hand
      BY <1>18 DEF Drained
  <2>2. ASSUME pc[r] \in {"created", "relaying"}, session[r].queue # <<>>
        PROVE  Head(session[r].queue) \in Signal
    <3>1. r \in Starter
        BY <2>2 DEF Typed, OnTurn, Relayed
    <3>2. session[r].queue \in Seq(Signal)
        BY <1>d, <3>1 DEF SessionsOk, Session
    <3> QED
        BY <2>2, <3>2, HeadTailProperties
  <2> QED
      BY <1>d, <2>1, <2>2 DEF RequestsTyped
<1>19. ASSUME NEW r \in Req, Disconnect(r) PROVE RequestsTyped'
  <2>1. /\ result' \in {result, [result EXCEPT ![r] = Undelivered(r)]} /\ listed' = listed
        /\ \/ /\ \/ pc[r] \in {"waiting", "reading", "relaying", "interrupting", "rejecting"}
                 \/ pc[r] = "emitting" /\ r \in Relayed
              /\ Abort(r, turnOf[r], session)
           \/ pc' \in {pc, [pc EXCEPT ![r] = "done"]} /\ hand' = hand
      BY <1>19 DEF Disconnect
  <2>2. ASSUME pc[r] \in {"waiting", "reading", "relaying", "interrupting", "rejecting"}
               \/ (pc[r] = "emitting" /\ r \in Relayed)
        PROVE  turnOf[r] \in Starter
      BY <1>a, <1>b, <2>2 DEF Typed, OnTurn, Working, Relayed
  <2>3. pc' \in [Req -> PcValues] /\ hand' \in [Req -> Signal \cup {"none"}]
      BY <1>d, <2>1, <2>2, AbortTyped
  <2>4. result' \in [Req -> Results]
      BY <2>1 DEF RequestsTyped, Undelivered
  <2> QED
      BY <2>1, <2>3, <2>4 DEF RequestsTyped
<1>20. ASSUME NEW r \in Starter, EmitTooLarge(r) PROVE RequestsTyped'
  <2>1. turnOf[r] \in Starter /\ Abort(r, turnOf[r], session) /\ UNCHANGED <<result, listed>>
      BY <1>b, <1>20 DEF EmitTooLarge
  <2> QED
      BY <1>d, <2>1, AbortTyped DEF RequestsTyped
<1>21. ASSUME NEW r \in Continuer, ContinuationTooLarge(r) PROVE RequestsTyped'
    BY <1>21 DEF ContinuationTooLarge, Undelivered, RequestsTyped, requestVars
<1>22. ASSUME NEW r \in Req, ResponseTimeout(r) PROVE RequestsTyped'
  <2>1. turnOf[r] \in Starter
      BY <1>a, <1>b, <1>22 DEF ResponseTimeout, Typed, OnTurn, Working, Relayed
  <2>2. Abort(r, turnOf[r], session) /\ UNCHANGED <<result, listed>>
      BY <1>22 DEF ResponseTimeout
  <2> QED
      BY <1>d, <2>1, <2>2, AbortTyped DEF RequestsTyped
<1>23. ASSUME NEW c \in Call, CallExpires(c) PROVE RequestsTyped'
    BY <1>23 DEF CallExpires, RequestsTyped, requestVars
<1>24. ASSUME NEW t \in Starter, NEW c \in Call, ToolCalled(t, c) PROVE RequestsTyped'
  <2>1. /\ UNCHANGED <<result, listed>>
        /\ SignalTurn(t, "security") \/ SignalTurn(t, "tool") \/ UNCHANGED <<pc, hand>>
      BY <1>24 DEF ToolCalled
  <2> QED
      BY <1>f, <2>1, SignalTurnTyped DEF RequestsTyped
<1>25. ASSUME NEW t \in Starter, Delta(t) PROVE RequestsTyped'
  <2>1. SignalTurn(t, "delta") /\ UNCHANGED <<result, listed>>
      BY <1>25 DEF Delta
  <2> QED
      BY <1>f, <2>1, SignalTurnTyped DEF RequestsTyped
<1>26. ASSUME NEW t \in Starter, DangerousItem(t) PROVE RequestsTyped'
  <2>1. SignalTurn(t, "security") /\ UNCHANGED <<result, listed>>
      BY <1>26 DEF DangerousItem
  <2> QED
      BY <1>f, <2>1, SignalTurnTyped DEF RequestsTyped
<1>27. ASSUME NEW t \in Starter, NEW status \in {"completed", "failed"}, TurnCompleted(t, status) PROVE RequestsTyped'
  <2>1. SignalTurn(t, status) /\ status \in Signal /\ UNCHANGED <<result, listed>>
      BY <1>f, <1>27 DEF TurnCompleted
  <2> QED
      BY <2>1, SignalTurnTyped DEF RequestsTyped
<1>28. ASSUME ChildFailure PROVE RequestsTyped'
    BY <1>28 DEF ChildFailure, RequestsTyped, requestVars
<1> QED
    BY <1>1, <1>2, <1>3, <1>4, <1>5, <1>6, <1>7, <1>8, <1>9, <1>10, <1>11, <1>12,
       <1>13, <1>14, <1>15, <1>16, <1>17, <1>18, <1>19, <1>20, <1>21, <1>22, <1>23,
       <1>24, <1>25, <1>26, <1>27, <1>28 DEF Next

LEMMA SessionsStayTyped == ASSUME Typed, Next PROVE SessionsTyped'
<1>0. RequestsTyped /\ ClientsTyped /\ SessionsTyped /\ CallsTyped
    BY TypesAreParts DEF Typed
<1>a. \A r \in Req : pc[r] \in Working => turnOf[r] \in Starter
    BY DEF Typed, OnTurn
<1>b. \A r \in Starter : pc[r] # "idle" => turnOf[r] = r
    BY DEF Typed, OnTurn
<1>d. SessionsOk(session) /\ pc \in [Req -> PcValues] /\ hand \in [Req -> Signal \cup {"none"}]
    BY <1>0 DEF RequestsTyped, SessionsTyped
<1>e. <<>> \in Seq(Signal) /\ Len(<<>>) = 0 /\ QueueCap \in Nat
    BY CoordinatorAssumption
<1>f. {"tool", "security", "delta", "completed", "failed"} \subseteq Signal
    BY DEF Signal
<1> USE <1>0, StartersAre
<1>1. ASSUME NEW r \in Starter, Start(r) PROVE SessionsTyped'
    BY <1>1 DEF Start, SessionsTyped, SessionsOk, sessionVars
<1>2. ASSUME NEW r \in Starter, TurnStarts(r) PROVE SessionsTyped'
    BY <1>2 DEF TurnStarts, SessionsTyped, SessionsOk, sessionVars
<1>3. ASSUME NEW r \in Starter, TurnStartAnswered(r) PROVE SessionsTyped'
    BY <1>3 DEF TurnStartAnswered, SessionsTyped, SessionsOk, sessionVars
<1>4. ASSUME NEW r \in Starter, StartFails(r) PROVE SessionsTyped'
    BY <1>4 DEF StartFails, SessionsTyped, SessionsOk, sessionVars
<1>5. ASSUME NEW r \in Starter, BeginSession(r) PROVE SessionsTyped'
  <2>1. SessionsOk(session')
    <3>1. CASE Abort(r, r, Beginning(r))
        BY <1>d, <3>1, BeginningIs, AbortTyped
    <3>2. CASE NextSignal(r, r, Beginning(r))
        BY <1>d, <3>2, BeginningIs, NextSignalTyped
    <3>3. CASE session' = Beginning(r)
        BY <3>3, BeginningIs
    <3> QED
        BY <1>5, <3>1, <3>2, <3>3, BeginSessionIs
  <2>2. /\ known' \in {known, known \cup {r}} /\ mapped' = mapped \cup {r}
        /\ orphan' = [orphan EXCEPT ![r] = <<>>]
      BY <1>5, BeginSessionIs
  <2> QED
      BY <1>e, <2>1, <2>2 DEF SessionsTyped
<1>6. ASSUME NEW r \in Continuer, NEW p \in Req, NEW outputs \in SUBSET Shown, Continue(r, p, outputs) PROVE SessionsTyped'
  <2>1. turnOf[p] \in Starter /\ NextSignal(r, turnOf[p], session) /\ UNCHANGED <<known, mapped, orphan>>
      BY <1>6 DEF Continue, MayContinue, Typed, OnTurn
  <2>2. SessionsOk(session')
      BY <1>d, <2>1, NextSignalTyped
  <2> QED
      BY <2>1, <2>2 DEF SessionsTyped
<1>7. ASSUME NEW r \in Continuer, NEW p \in Req, NEW outputs \in SUBSET Shown,
            NEW answered \in SUBSET outputs, ContinueTooLarge(r, p, outputs, answered) PROVE SessionsTyped'
    BY <1>7 DEF ContinueTooLarge, SessionsTyped, SessionsOk, sessionVars
<1>8. ASSUME NEW r \in Continuer, ContinueRefused(r) PROVE SessionsTyped'
    BY <1>8 DEF ContinueRefused, SessionsTyped, SessionsOk, sessionVars
<1>9. ASSUME NEW r \in Req, RelayDelta(r) PROVE SessionsTyped'
    BY <1>9 DEF RelayDelta, SessionsTyped, SessionsOk, sessionVars
<1>10. ASSUME NEW r \in Req, RespondToSecurity(r) PROVE SessionsTyped'
    BY <1>10 DEF RespondToSecurity, Identify, SessionsTyped, SessionsOk
<1>11. ASSUME NEW r \in Req, RespondToTool(r) PROVE SessionsTyped'
    BY <1>11 DEF RespondToTool, Identify, SessionsTyped, SessionsOk
<1>12. ASSUME NEW r \in Req, RejectUndeclared(r) PROVE SessionsTyped'
  <2>1. /\ session' = Freed(session, turnOf[r])
        /\ UNCHANGED <<mapped, orphan>> /\ known' \subseteq Req
      BY <1>12 DEF RejectUndeclared, Identify, SessionsTyped, Freed
  <2>2. turnOf[r] \in Starter
      BY <1>a, <1>12 DEF RejectUndeclared, Working
  <2>3. SessionsOk(session')
      BY <1>d, <2>1, <2>2, FreedIs
  <2> QED
      BY <2>1, <2>3 DEF SessionsTyped
<1>13. ASSUME NEW r \in Req, RespondToEnd(r) PROVE SessionsTyped'
    BY <1>13, RemoveSessionTyped DEF RespondToEnd
<1>14. ASSUME NEW r \in Req, Interrupted(r) PROVE SessionsTyped'
    BY <1>14, RemoveSessionTyped DEF Interrupted
<1>15. ASSUME NEW r \in Req, Aborted(r) PROVE SessionsTyped'
    BY <1>15, CleanUpTyped DEF Aborted
<1>16. ASSUME NEW r \in Req, Rejected(r) PROVE SessionsTyped'
    BY <1>16, CleanUpTyped DEF Rejected
<1>17. ASSUME NEW r \in Req, DetachedEnds(r) PROVE SessionsTyped'
  <2>1. CleanUp(turnOf[r]) \/ RemoveSession(turnOf[r])
      BY <1>17 DEF DetachedEnds
  <2> QED
      BY <2>1, CleanUpTyped, RemoveSessionTyped
<1>18. ASSUME NEW r \in Req, Drained(r) PROVE SessionsTyped'
  <2>1. UNCHANGED <<known, mapped, orphan>>
      BY <1>18 DEF Drained
  <2>2. CASE /\ session[r].queue # <<>> /\ pc[r] \in {"created", "relaying"}
             /\ session' = [session EXCEPT ![r].queue = Tail(@)]
    <3>1. r \in Starter
        BY <2>2 DEF Typed, OnTurn, Relayed
    <3>2. session[r].queue \in Seq(Signal) /\ Len(session[r].queue) <= QueueCap
        BY <1>d, <3>1 DEF SessionsOk, Session
    <3>3. Tail(session[r].queue) \in Seq(Signal) /\ Len(Tail(session[r].queue)) = Len(session[r].queue) - 1
        BY <2>2, <3>2, HeadTailProperties
    <3>4. Len(Tail(session[r].queue)) <= QueueCap
        BY <1>e, <3>2, <3>3, LenProperties
    <3>5. /\ session[r] \in Session /\ DOMAIN session = Starter
          /\ \A x \in Starter : session[x] \in Session /\ Len(session[x].queue) <= QueueCap
        BY <1>d, <3>1 DEF SessionsOk
    <3>6. /\ [session[r] EXCEPT !.queue = Tail(session[r].queue)] \in Session
          /\ [session[r] EXCEPT !.queue = Tail(session[r].queue)].queue = Tail(session[r].queue)
        BY <3>3, <3>5 DEF Session
    <3>7. session' = [session EXCEPT ![r] = [session[r] EXCEPT !.queue = Tail(session[r].queue)]]
        BY <2>2
    <3>8. SessionsOk(session')
        BY <3>4, <3>5, <3>6, <3>7 DEF SessionsOk
    <3> QED
        BY <2>1, <3>8 DEF SessionsTyped
  <2>3. CASE /\ pc[r] \in {"created", "relaying"}
             /\ session' = Reads(session, r)
    <3>0. r \in Starter
        BY <2>3 DEF Typed, OnTurn, Relayed
    <3>1. SessionsOk(session')
        BY <1>d, <2>3, <3>0, ReadsIs
    <3> QED
        BY <2>1, <3>1 DEF SessionsTyped
  <2>4. CASE /\ r \in Relayed
             /\ session' = Left(session, r)
    <3>0. r \in Starter
        BY <2>4 DEF Relayed
    <3>1. SessionsOk(session')
        BY <1>d, <2>4, <3>0, LeftIs
    <3> QED
        BY <2>1, <3>1 DEF SessionsTyped
  <2>5. CASE session' = session
      BY <2>1, <2>5 DEF SessionsTyped, SessionsOk
  <2> QED
      BY <1>18, <2>2, <2>3, <2>4, <2>5 DEF Drained, Reads, Left
<1>19. ASSUME NEW r \in Req, Disconnect(r) PROVE SessionsTyped'
  <2>1. /\ UNCHANGED <<known, mapped, orphan>>
        /\ \/ /\ \/ pc[r] \in {"waiting", "reading", "relaying", "interrupting", "rejecting"}
                 \/ pc[r] = "emitting" /\ r \in Relayed
              /\ Abort(r, turnOf[r], session)
           \/ session' = session
      BY <1>19 DEF Disconnect
  <2>2. ASSUME pc[r] \in {"waiting", "reading", "relaying", "interrupting", "rejecting"}
               \/ (pc[r] = "emitting" /\ r \in Relayed)
        PROVE  turnOf[r] \in Starter
      BY <1>a, <1>b, <2>2 DEF Typed, OnTurn, Working, Relayed
  <2>3. SessionsOk(session')
      BY <1>d, <2>1, <2>2, AbortTyped
  <2> QED
      BY <2>1, <2>3 DEF SessionsTyped
<1>20. ASSUME NEW r \in Starter, EmitTooLarge(r) PROVE SessionsTyped'
  <2>1. turnOf[r] \in Starter /\ Abort(r, turnOf[r], session) /\ UNCHANGED <<known, mapped, orphan>>
      BY <1>b, <1>20 DEF EmitTooLarge
  <2> QED
      BY <1>d, <2>1, AbortTyped DEF SessionsTyped
<1>21. ASSUME NEW r \in Continuer, ContinuationTooLarge(r) PROVE SessionsTyped'
    BY <1>21 DEF ContinuationTooLarge, SessionsTyped, SessionsOk, sessionVars
<1>22. ASSUME NEW r \in Req, ResponseTimeout(r) PROVE SessionsTyped'
  <2>1. turnOf[r] \in Starter
      BY <1>a, <1>b, <1>22 DEF ResponseTimeout, Typed, OnTurn, Working, Relayed
  <2>2. Abort(r, turnOf[r], session) /\ UNCHANGED <<known, mapped, orphan>>
      BY <1>22 DEF ResponseTimeout
  <2> QED
      BY <1>d, <2>1, <2>2, AbortTyped DEF SessionsTyped
<1>23. ASSUME NEW c \in Call, CallExpires(c) PROVE SessionsTyped'
    BY <1>23 DEF CallExpires, SessionsTyped, SessionsOk, sessionVars
<1>24. ASSUME NEW t \in Starter, NEW c \in Call, ToolCalled(t, c) PROVE SessionsTyped'
  <2>1. /\ UNCHANGED <<known, mapped>>
        /\ SignalTurn(t, "security") \/ SignalTurn(t, "tool") \/ UNCHANGED <<session, orphan>>
      BY <1>24 DEF ToolCalled
  <2>2. CASE UNCHANGED <<session, orphan>>
      BY <2>1, <2>2 DEF SessionsTyped, SessionsOk
  <2> QED
      BY <1>f, <2>1, <2>2, SignalTurnTyped DEF SessionsTyped
<1>25. ASSUME NEW t \in Starter, Delta(t) PROVE SessionsTyped'
  <2>1. SignalTurn(t, "delta") /\ UNCHANGED <<known, mapped>>
      BY <1>25 DEF Delta
  <2> QED
      BY <1>f, <2>1, SignalTurnTyped DEF SessionsTyped
<1>26. ASSUME NEW t \in Starter, DangerousItem(t) PROVE SessionsTyped'
  <2>1. SignalTurn(t, "security") /\ UNCHANGED <<known, mapped>>
      BY <1>26 DEF DangerousItem
  <2> QED
      BY <1>f, <2>1, SignalTurnTyped DEF SessionsTyped
<1>27. ASSUME NEW t \in Starter, NEW status \in {"completed", "failed"}, TurnCompleted(t, status) PROVE SessionsTyped'
  <2>1. SignalTurn(t, status) /\ status \in Signal /\ UNCHANGED <<known, mapped>>
      BY <1>f, <1>27 DEF TurnCompleted
  <2> QED
      BY <2>1, SignalTurnTyped DEF SessionsTyped
<1>28. ASSUME ChildFailure PROVE SessionsTyped'
  <2>1. CASE pending = {}
    <3>1. UNCHANGED sessionVars
        BY <1>28, <2>1 DEF ChildFailure
    <3> QED
        BY <3>1 DEF SessionsTyped, SessionsOk, sessionVars
  <2>2. CASE pending # {}
    <3>1. /\ mapped' = {} /\ known' = {}
          /\ session' = [t \in Starter |-> NewSession] /\ orphan' = [t \in Starter |-> <<>>]
        BY <1>28, <2>2 DEF ChildFailure
    <3>2. SessionsOk(session')
        BY <1>e, <3>1, NewSessionTyped DEF SessionsOk
    <3> QED
        BY <1>e, <3>1, <3>2 DEF SessionsTyped
  <2> QED
      BY <2>1, <2>2
<1> QED
    BY <1>1, <1>2, <1>3, <1>4, <1>5, <1>6, <1>7, <1>8, <1>9, <1>10, <1>11, <1>12,
       <1>13, <1>14, <1>15, <1>16, <1>17, <1>18, <1>19, <1>20, <1>21, <1>22, <1>23,
       <1>24, <1>25, <1>26, <1>27, <1>28 DEF Next

-----------------------------------------------------------------------------
(* Who moves, and who waits where *)

LEMMA WaitsFacts ==
    ASSUME Placed
    PROVE  /\ \A q \in Req : pc[q] \in Working => turnOf[q] \in Starter
           /\ \A q \in Starter : pc[q] # "idle" => turnOf[q] = q
           /\ \A q \in Req : pc[q] \in {"created", "reading", "relaying"} => q \in Starter /\ turnOf[q] = q
           /\ \A q \in Req : q \in known => turnOf[q] \in Starter
           /\ \A t \in Starter : session[t].waiter # None =>
                 /\ session[t].waiter \in Req
                 /\ pc[session[t].waiter] = "waiting" /\ turnOf[session[t].waiter] = t
           /\ \A t \in Starter : session[t].reading => pc[t] = "reading"
           /\ \A t \in Starter : pc[t] \in Unbegun => session[t].waiter = None /\ ~session[t].reading
           /\ \A t \in Starter : pc[t] \in Unbegun => \A q \in Req \ {t} : turnOf[q] # t
           /\ \A t \in Starter : pc[t] \in Unbegun => t \notin mapped
<1>1. \A t \in Starter : session[t].waiter \in Req \cup {None}
    BY TypesAreParts DEF Placed, Typed, SessionsTyped, SessionsOk, Session
<1>2. \A q \in Req : pc[q] \in {"created", "reading", "relaying"} => q \in Starter /\ turnOf[q] = q
    BY DEF Placed, Typed, OnTurn, Relayed
<1>3. \A t \in Starter : pc[t] \in Unbegun => \A q \in Req \ {t} : turnOf[q] # t
    BY DEF Placed, Begun
<1>4. \A t \in Starter : session[t].waiter # None =>
         session[t].waiter \in Req /\ pc[session[t].waiter] = "waiting" /\ turnOf[session[t].waiter] = t
    BY <1>1 DEF Placed, Waits, WaitsIn
<1>5. \A t \in Starter : session[t].reading => pc[t] = "reading"
    BY DEF Placed, Waits, WaitsIn
<1>6. \A t \in Starter : pc[t] \in Unbegun => session[t].waiter = None /\ ~session[t].reading
    BY <1>3, <1>4, <1>5 DEF Unbegun
<1>7. \A t \in Starter : pc[t] \in Unbegun => t \notin mapped
    BY DEF Placed, Begun
<1> QED
    BY <1>2, <1>3, <1>4, <1>5, <1>6, <1>7, StartersAre DEF Placed, Typed, OnTurn

LEMMA SignalledIs ==
    ASSUME NEW q, NEW s, NEW large
    PROVE  /\ Signalled(q, s, large).waiter = IF s = "delta" THEN q.waiter ELSE None
           /\ Signalled(q, s, large).signals = IF s = "delta" \/ q.waiter # None THEN q.signals
                                        ELSE Append(q.signals, s)
           /\ Signalled(q, s, large).queue = IF q.streaming /\ ~q.reading THEN Enqueue(q.queue, s, large) ELSE q.queue
           /\ Signalled(q, s, large).reading <=> q.reading /\ ~q.streaming
BY DEF Signalled

\* A signal moves nobody but those who wait for it, and they are woken with it.
LEMMA SignalMoves ==
    ASSUME Placed, NEW t \in Starter, NEW s \in Signal, SignalTurn(t, s), NEW q \in Req
    PROVE  \/ pc'[q] = pc[q] /\ hand'[q] = hand[q]
           \/ /\ pc'[q] = "woken" /\ hand'[q] = s /\ turnOf[q] = t /\ t \in mapped
              /\ \/ pc[q] = "waiting" /\ session[t].waiter = q /\ s # "delta"
                 \/ pc[q] = "reading" /\ q = t
<1>1. pc \in [Req -> PcValues] /\ hand \in [Req -> Signal \cup {"none"}]
    BY TypesAreParts DEF Placed, Typed, RequestsTyped
<1>2. CASE t \in mapped
  <2>1. /\ pc' = [r \in Req |-> IF r \in Woken(t, s) THEN "woken" ELSE pc[r]]
        /\ hand' = [r \in Req |-> IF r \in Woken(t, s) THEN s ELSE hand[r]]
      BY <1>2 DEF SignalTurn
  <2>2. q \in Woken(t, s) => \/ q = session[t].waiter /\ s # "delta"
                             \/ q = t /\ session[t].reading
      BY DEF Woken
  <2>3. q = session[t].waiter => pc[q] = "waiting" /\ turnOf[q] = t
      BY WaitsFacts, StartersAre
  <2>4. q = t /\ session[t].reading => pc[q] = "reading" /\ turnOf[q] = t
      BY WaitsFacts
  <2> QED
      BY <1>2, <2>1, <2>2, <2>3, <2>4
<1>3. CASE t \notin mapped
    BY <1>1, <1>3 DEF SignalTurn
<1> QED
    BY <1>2, <1>3

LEMMA SignalWaits ==
    ASSUME Placed, NEW t \in Starter, NEW s \in Signal, SignalTurn(t, s), turnOf' = turnOf
    PROVE  Waits'
<1>1. SessionsOk(session) /\ Waits
    BY TypesAreParts DEF Placed, Typed, SessionsTyped
<1>2. CASE t \in mapped
  <2>0. PICK large \in BOOLEAN : session' = [session EXCEPT ![t] = Signalled(@, s, large)]
      BY <1>2, SignalledBy
  <2>1. /\ session' = [session EXCEPT ![t] = Signalled(@, s, large)]
        /\ pc' = [r \in Req |-> IF r \in Woken(t, s) THEN "woken" ELSE pc[r]]
      BY <1>2, <2>0 DEF SignalTurn
  <2>2. /\ \A x \in Starter \ {t} : session'[x] = session[x]
        /\ session'[t].waiter = IF s = "delta" THEN session[t].waiter ELSE None
        /\ s = "delta" => session'[t].signals = session[t].signals
        /\ session[t].reading \/ ~session[t].streaming => session'[t].queue = session[t].queue
        /\ session'[t].reading <=> session[t].reading /\ ~session[t].streaming
      BY <1>1, <2>1, SignalledIs DEF SessionsOk
  <2>3. ASSUME NEW q \in Req
        PROVE  q \in Woken(t, s) <=> \/ q = session[t].waiter /\ s # "delta"
                                     \/ q = t /\ session[t].reading /\ session[t].streaming
      BY DEF Woken
  <2>4. ASSUME NEW q \in Req, pc'[q] = "waiting"
        PROVE  session'[turnOf[q]].waiter = q /\ session'[turnOf[q]].signals = <<>>
    <3>1. q \notin Woken(t, s) /\ pc[q] = "waiting"
        BY <2>1, <2>4
    <3>2. session[turnOf[q]].waiter = q /\ session[turnOf[q]].signals = <<>> /\ turnOf[q] \in Starter
        BY <1>1, <3>1, WaitsFacts DEF Waits, WaitsIn, Working
    <3>3. turnOf[q] = t => s = "delta"
        BY <2>3, <3>1, <3>2
    <3> QED
        BY <2>2, <3>2, <3>3
  <2>5. ASSUME NEW q \in Req, pc'[q] = "reading"
        PROVE  session'[q].reading /\ session'[q].queue = <<>>
    <3>1. q \notin Woken(t, s) /\ pc[q] = "reading"
        BY <2>1, <2>5
    <3>2. session[q].reading /\ session[q].queue = <<>> /\ q \in Starter
        BY <1>1, <3>1, WaitsFacts DEF Waits, WaitsIn
    <3>3. q = t => ~session[t].streaming
        BY <2>3, <3>1, <3>2
    <3> QED
        BY <2>2, <3>2, <3>3
  <2>6. ASSUME NEW x \in Starter, session'[x].waiter # None
        PROVE  pc'[session'[x].waiter] = "waiting" /\ turnOf[session'[x].waiter] = x
    <3>1. session'[x].waiter = session[x].waiter /\ (x = t => s = "delta")
        BY <2>2, <2>6
    <3>2. /\ session[x].waiter \in Req
          /\ pc[session[x].waiter] = "waiting" /\ turnOf[session[x].waiter] = x
        BY <2>6, <3>1, WaitsFacts
    <3>3. session[x].waiter \notin Woken(t, s)
        BY <2>3, <3>1, <3>2, WaitsFacts, StartersAre
    <3> QED
        BY <2>1, <3>1, <3>2, <3>3
  <2>7. ASSUME NEW x \in Starter, session'[x].reading PROVE pc'[x] = "reading"
    <3>1. session[x].reading /\ (x = t => ~session[t].streaming)
        BY <2>2, <2>7
    <3>2. pc[x] = "reading" /\ x \in Req
        BY <3>1, WaitsFacts, StartersAre
    <3>3. session[t].waiter # x
        BY <3>2, WaitsFacts, StartersAre
    <3>4. x \notin Woken(t, s)
        BY <2>3, <3>1, <3>2, <3>3
    <3> QED
        BY <2>1, <3>2, <3>4
  <2> QED
      BY <2>4, <2>5, <2>6, <2>7 DEF Waits, WaitsIn
<1>3. CASE t \notin mapped
  <2>1. session' = session /\ pc' = pc
      BY <1>3 DEF SignalTurn
  <2> QED
      BY <1>1, <2>1 DEF Waits, WaitsIn
<1> QED
    BY <1>2, <1>3

\* Whoever waits on a session, and who frees it: nobody waits on it afterwards.
Frees(r, t, sessions) ==
    /\ session' = Freed(sessions, t)
    /\ \A q \in Req : IF q = r \/ q = sessions[t].waiter \/ (q = t /\ sessions[t].reading)
                      THEN pc'[q] \notin {"waiting", "reading"} ELSE pc'[q] = pc[q]

LEMMA AbortFrees ==
    ASSUME NEW r \in Req, NEW t, NEW sessions, Abort(r, t, sessions)
    PROVE  Frees(r, t, sessions)
BY DEF Abort, Frees, Freed

LEMMA FreesWaits ==
    ASSUME NEW r \in Req, NEW t \in Starter, NEW sessions, SessionsOk(sessions), WaitsIn(sessions), Typed,
           \A q \in Req \ {r} : turnOf'[q] = turnOf[q], turnOf'[r] = t,
           pc[r] = "waiting" => turnOf[r] = t, pc[r] = "reading" => r = t,
           Frees(r, t, sessions)
    PROVE  Waits'
<1>0. session' = Freed(sessions, t)
    BY DEF Frees
<1>1. /\ \A x \in Starter \ {t} : session'[x] = sessions[x]
      /\ session'[t].waiter = None /\ session'[t].reading = FALSE
  <2>1. OthersSame(session', sessions, t) /\ session'[t].waiter = None /\ session'[t].reading = FALSE
      BY <1>0, FreedIs
  <2> QED
      BY <2>1 DEF OthersSame
<1>2. \A x \in Starter : sessions[x].waiter \in Req \cup {None}
    BY DEF SessionsOk, Session
<1>3. ASSUME NEW q \in Req
      PROVE  IF q = r \/ q = sessions[t].waiter \/ (q = t /\ sessions[t].reading)
             THEN pc'[q] \notin {"waiting", "reading"} ELSE pc'[q] = pc[q]
    BY DEF Frees
<1>4. ASSUME NEW q \in Req, pc'[q] = "waiting"
      PROVE  session'[turnOf'[q]].waiter = q /\ session'[turnOf'[q]].signals = <<>>
  <2>1. q # r /\ q # sessions[t].waiter /\ pc[q] = "waiting"
      BY <1>3, <1>4
  <2>2. turnOf'[q] = turnOf[q] /\ turnOf[q] \in Starter
      BY <2>1 DEF Typed, OnTurn, Working
  <2>3. sessions[turnOf[q]].waiter = q /\ sessions[turnOf[q]].signals = <<>>
      BY <2>1 DEF WaitsIn
  <2> QED
      BY <1>1, <2>1, <2>2, <2>3
<1>5. ASSUME NEW q \in Req, pc'[q] = "reading"
      PROVE  session'[q].reading /\ session'[q].queue = <<>>
  <2>1. ~(q = t /\ sessions[t].reading) /\ pc[q] = "reading"
      BY <1>3, <1>5
  <2>2. sessions[q].reading /\ sessions[q].queue = <<>> /\ q \in Starter
      BY <2>1 DEF WaitsIn, Typed, OnTurn, Relayed
  <2> QED
      BY <1>1, <2>1, <2>2
<1>6. ASSUME NEW x \in Starter, session'[x].waiter # None
      PROVE  pc'[session'[x].waiter] = "waiting" /\ turnOf'[session'[x].waiter] = x
  <2>1. x # t /\ session'[x] = sessions[x]
      BY <1>1, <1>6
  <2>2. PICK q \in Req : q = sessions[x].waiter
      BY <1>2, <1>6, <2>1
  <2>3. pc[q] = "waiting" /\ turnOf[q] = x
      BY <1>6, <2>1, <2>2 DEF WaitsIn
  <2>4. q # r
      BY <2>1, <2>3
  <2>5. q # sessions[t].waiter
      BY <2>1, <2>2, <2>3, StartersAre DEF WaitsIn
  <2>6. ~(q = t /\ sessions[t].reading)
      BY <2>3 DEF WaitsIn
  <2> QED
      BY <1>3, <2>1, <2>2, <2>3, <2>4, <2>5, <2>6
<1>7. ASSUME NEW x \in Starter, session'[x].reading PROVE pc'[x] = "reading"
  <2>1. x # t /\ sessions[x].reading
      BY <1>1, <1>7
  <2>2. pc[x] = "reading" /\ x # r /\ x \in Req
      BY <2>1, StartersAre DEF WaitsIn
  <2>3. x # sessions[t].waiter
      BY <2>2, StartersAre DEF WaitsIn
  <2> QED
      BY <1>3, <2>1, <2>2, <2>3
<1> QED
    BY <1>4, <1>5, <1>6, <1>7 DEF Waits, WaitsIn

LEMMA NextSignalWaits ==
    ASSUME NEW r \in Req, NEW t \in Starter, NEW sessions, SessionsOk(sessions), WaitsIn(sessions), Typed,
           \A q \in Req \ {r} : turnOf'[q] = turnOf[q], turnOf'[r] = t,
           pc[r] \notin {"waiting", "reading"}, NextSignal(r, t, sessions)
    PROVE  Waits'
<1>0. pc \in [Req -> PcValues]
    BY TypesAreParts DEF Typed, RequestsTyped
<1>w. \A x \in Starter : sessions[x].waiter # None => sessions[x].waiter \in Req \ {r}
    BY DEF SessionsOk, Session, WaitsIn
<1>s. \A q \in Req : pc[q] = "waiting" => turnOf[q] \in Starter /\ q # r /\ turnOf'[q] = turnOf[q]
    BY DEF Typed, OnTurn, Working
<1>r. \A q \in Req : pc[q] = "reading" => q \in Starter /\ q # r
    BY DEF Typed, OnTurn, Relayed
<1>1. CASE /\ sessions[t].signals # <<>>
           /\ session' = Taken(sessions, t)
           /\ pc' = [pc EXCEPT ![r] = "woken"]
  <2>1. /\ \A x \in Starter \ {t} : session'[x] = sessions[x]
        /\ session'[t].waiter = sessions[t].waiter /\ session'[t].reading = sessions[t].reading
        /\ session'[t].queue = sessions[t].queue
      BY <1>1, TakenIs DEF OthersSame
  <2>2. \A q \in Req : IF q = r THEN pc'[q] = "woken" ELSE pc'[q] = pc[q]
      BY <1>0, <1>1
  <2>3. \A q \in Req : pc[q] = "waiting" => turnOf[q] # t
      BY <1>1 DEF WaitsIn
  <2> QED
      BY <1>w, <1>s, <1>r, <2>1, <2>2, <2>3, StartersAre DEF Waits, WaitsIn
<1>2. CASE /\ sessions[t].signals = <<>> /\ sessions[t].waiter = None
           /\ session' = Waited(sessions, t, r)
           /\ pc' = [pc EXCEPT ![r] = "waiting"]
  <2>1. /\ \A x \in Starter \ {t} : session'[x] = sessions[x]
        /\ session'[t].waiter = r /\ session'[t].reading = sessions[t].reading
        /\ session'[t].signals = sessions[t].signals /\ session'[t].queue = sessions[t].queue
      BY <1>2, WaitedIs DEF OthersSame
  <2>2. \A q \in Req : IF q = r THEN pc'[q] = "waiting" ELSE pc'[q] = pc[q]
      BY <1>0, <1>2
  <2>3. \A q \in Req : pc[q] = "waiting" => turnOf[q] # t
      BY <1>2, StartersAre DEF WaitsIn
  <2>4. ASSUME NEW q \in Req, pc'[q] = "waiting"
        PROVE  session'[turnOf'[q]].waiter = q /\ session'[turnOf'[q]].signals = <<>>
    <3>1. CASE q = r
        BY <1>2, <2>1, <3>1
    <3>2. CASE q # r
        BY <1>s, <2>1, <2>2, <2>3, <2>4, <3>2 DEF WaitsIn
    <3> QED
        BY <3>1, <3>2
  <2>5. ASSUME NEW q \in Req, pc'[q] = "reading"
        PROVE  session'[q].reading /\ session'[q].queue = <<>>
      BY <1>r, <2>1, <2>2, <2>5 DEF WaitsIn
  <2>6. ASSUME NEW x \in Starter, session'[x].waiter # None
        PROVE  pc'[session'[x].waiter] = "waiting" /\ turnOf'[session'[x].waiter] = x
      BY <1>w, <2>1, <2>2, <2>6 DEF WaitsIn
  <2>7. ASSUME NEW x \in Starter, session'[x].reading PROVE pc'[x] = "reading"
      BY <1>r, <2>1, <2>2, <2>7, StartersAre DEF WaitsIn
  <2> QED
      BY <2>4, <2>5, <2>6, <2>7 DEF Waits, WaitsIn
<1>3. CASE Abort(r, t, sessions)
    BY <1>3, AbortFrees, FreesWaits
<1> QED
    BY <1>1, <1>2, <1>3 DEF NextSignal, Taken, Waited

LEMMA WaitsUndisturbed ==
    ASSUME NEW sessions, WaitsIn(sessions), Typed, SessionsOk(sessions),
           \A q \in Req : \/ pc'[q] = pc[q]
                          \/ pc[q] \notin {"waiting", "reading"} /\ pc'[q] \notin {"waiting", "reading"},
           \A q \in Req : pc[q] = "waiting" => turnOf'[q] = turnOf[q],
           \A t \in Starter :
              /\ session'[t].waiter = sessions[t].waiter /\ session'[t].reading = sessions[t].reading
              /\ session'[t].signals \in {sessions[t].signals, <<>>}
              /\ session'[t].queue \in {sessions[t].queue, <<>>}
    PROVE  Waits'
<1>1. \A q \in Req : pc'[q] = "waiting" <=> pc[q] = "waiting"
    OBVIOUS
<1>2. \A q \in Req : pc'[q] = "reading" <=> pc[q] = "reading"
    OBVIOUS
<1>3. \A q \in Req : (pc[q] = "waiting" => turnOf[q] \in Starter) /\ (pc[q] = "reading" => q \in Starter)
    BY DEF Typed, OnTurn, Working, Relayed
<1>4. \A t \in Starter : sessions[t].waiter # None => sessions[t].waiter \in Req
    BY DEF SessionsOk, Session
<1> QED
    BY <1>1, <1>2, <1>3, <1>4, StartersAre DEF Waits, WaitsIn

\* Who moves when a session is aborted, and when a request asks for its next signal.
LEMMA AbortMoves ==
    ASSUME Placed, NEW r \in Req, NEW t \in Starter, Abort(r, t, session), NEW q \in Req
    PROVE  /\ hand'[q] = hand[q]
           /\ \/ pc'[q] = pc[q] /\ q # r
              \/ q = r /\ pc'[q] = "aborting"
              \/ pc'[q] = "aborting" /\ turnOf[q] = t /\ pc[q] \in {"waiting", "reading"}
<1> DEFINE rejected == {r} \cup {p \in Req : p = session[t].waiter}
                           \cup {p \in {t} : session[t].reading}
<1>1. pc' = [p \in Req |-> IF p \in rejected THEN "aborting" ELSE pc[p]] /\ hand' = hand
    BY DEF Abort
<1>2. q \in rejected => \/ q = r
                        \/ q = session[t].waiter
                        \/ q = t /\ session[t].reading
    OBVIOUS
<1>3. r \in rejected
    OBVIOUS
<1>4. q = session[t].waiter => pc[q] = "waiting" /\ turnOf[q] = t
    BY WaitsFacts, StartersAre
<1>5. q = t /\ session[t].reading => pc[q] = "reading" /\ turnOf[q] = t
    BY WaitsFacts
<1> HIDE DEF rejected
<1> QED
    BY <1>1, <1>2, <1>3, <1>4, <1>5

LEMMA NextSignalMoves ==
    ASSUME Placed, NEW r \in Req, NEW t \in Starter, NextSignal(r, t, session), NEW q \in Req
    PROVE  \/ /\ q # r /\ hand'[q] = hand[q]
              /\ \/ pc'[q] = pc[q]
                 \/ pc'[q] = "aborting" /\ turnOf[q] = t /\ pc[q] \in {"waiting", "reading"}
           \/ /\ q = r /\ pc'[q] \in {"waiting", "aborting"} /\ hand'[q] = hand[q]
           \/ /\ q = r /\ pc'[q] = "woken" /\ session[t].signals # <<>>
              /\ hand'[q] = Head(session[t].signals)
<1>1. pc \in [Req -> PcValues] /\ hand \in [Req -> Signal \cup {"none"}]
    BY TypesAreParts DEF Placed, Typed, RequestsTyped
<1>2. CASE Abort(r, t, session)
    BY <1>2, AbortMoves
<1> QED
    BY <1>1, <1>2 DEF NextSignal

\* A session that begins has nobody to wake or to reject.
LEMMA BeginningMoves ==
    ASSUME Placed, NEW r \in Starter, BeginSession(r)
    PROVE  /\ pc[r] = "begun"
           /\ \A q \in Req \ {r} : pc'[q] = pc[q] /\ hand'[q] = hand[q]
           /\ \/ r \in streams /\ pc'[r] \in {"created", "hung"} /\ hand'[r] = hand[r]
              \/ r \notin streams /\ pc'[r] \in {"waiting", "aborting"} /\ hand'[r] = hand[r]
              \/ /\ r \notin streams /\ pc'[r] = "woken" /\ orphan[r] # <<>>
                 /\ hand'[r] = Head(orphan[r])
<1>1. /\ pc \in [Req -> PcValues] /\ hand \in [Req -> Signal \cup {"none"}] /\ SessionsTyped
      /\ r \in Req /\ None \notin Req
    BY TypesAreParts, StartersAre DEF Placed, Typed, RequestsTyped
<1>2. /\ Beginning(r)[r].signals = orphan[r] /\ Beginning(r)[r].waiter = None
      /\ ~Beginning(r)[r].reading
    BY <1>1, BeginningIs
<1>3. ASSUME Abort(r, r, Beginning(r))
      PROVE  pc'[r] = "aborting" /\ hand' = hand /\ \A q \in Req \ {r} : pc'[q] = pc[q]
    BY <1>1, <1>2, <1>3 DEF Abort
<1>4. ASSUME NextSignal(r, r, Beginning(r))
      PROVE  /\ \A q \in Req \ {r} : pc'[q] = pc[q] /\ hand'[q] = hand[q]
             /\ \/ pc'[r] \in {"waiting", "aborting"} /\ hand'[r] = hand[r]
                \/ pc'[r] = "woken" /\ orphan[r] # <<>> /\ hand'[r] = Head(orphan[r])
    BY <1>1, <1>2, <1>3, <1>4 DEF NextSignal
<1> QED
    BY <1>1, <1>3, <1>4, BeginSessionIs

LEMMA OnTurnKept == ASSUME Placed, Next PROVE OnTurn'
<1>0. /\ pc \in [Req -> PcValues] /\ turnOf \in [Req -> Starter \cup {None}] /\ known \subseteq Req
      /\ detached \in [Req -> {"none", "security", "undeclared"}]
    BY TypesAreParts DEF Placed, Typed, RequestsTyped, ClientsTyped, SessionsTyped
<1>a. OnTurn
    BY DEF Placed, Typed
<1>b. /\ \A q \in Req : pc[q] \in Working => turnOf[q] \in Starter
      /\ \A q \in Starter : pc[q] # "idle" => turnOf[q] = q
      /\ \A q \in Req : pc[q] \in {"created", "reading", "relaying"} => q \in Starter /\ turnOf[q] = q
      /\ \A q \in Req : q \in known => turnOf[q] \in Starter
    BY WaitsFacts
<1>f. {"tool", "security", "delta", "completed", "failed"} \subseteq Signal
    BY DEF Signal
<1>g. \A r : AfterError(r) \in {"emitting", "done"} /\ (AfterError(r) = "emitting" => r \in streams)
    BY DEF AfterError
<1> USE <1>0, <1>a, StartersAre
<1>1. ASSUME NEW r \in Starter, Start(r) PROVE OnTurn'
    BY <1>1, <1>b, <1>g DEF Start, OnTurn, clientVars, sessionVars, Relayed, Working
<1>2. ASSUME NEW r \in Starter, TurnStarts(r) PROVE OnTurn'
  <2>1. UNCHANGED <<requestVars, clientVars, sessionVars>>
      BY <1>2 DEF TurnStarts
  <2> QED
      BY <2>1 DEF OnTurn, requestVars, clientVars, sessionVars, Relayed
<1>3. ASSUME NEW r \in Starter, TurnStartAnswered(r) PROVE OnTurn'
    BY <1>3, <1>b, <1>g DEF TurnStartAnswered, OnTurn, clientVars, sessionVars, Relayed, Working
<1>4. ASSUME NEW r \in Starter, StartFails(r) PROVE OnTurn'
    BY <1>4, <1>b, <1>g DEF StartFails, OnTurn, clientVars, sessionVars, Relayed, Working
<1>5. ASSUME NEW r \in Starter, BeginSession(r) PROVE OnTurn'
  <2>1. /\ UNCHANGED clientVars /\ known' \in {known, known \cup {r}} /\ (r \notin streams => known' = known)
      BY <1>5, BeginSessionIs
  <2>2. \A q \in Req \ {r} : pc'[q] = pc[q]
      BY <1>5, BeginningMoves
  <2>3. /\ pc[r] = "begun"
        /\ \/ r \in streams /\ pc'[r] \in {"created", "hung"}
           \/ r \notin streams /\ pc'[r] \in {"waiting", "aborting", "woken"}
      BY <1>5, BeginningMoves
  <2> QED
      BY <1>b, <2>1, <2>2, <2>3 DEF OnTurn, clientVars, Relayed, Working
<1>6. ASSUME NEW r \in Continuer, NEW p \in Req, NEW outputs \in SUBSET Shown, Continue(r, p, outputs) PROVE OnTurn'
  <2>1. /\ turnOf[p] \in Starter /\ NextSignal(r, turnOf[p], session) /\ pc[r] = "idle" /\ r \in Continuer
        /\ turnOf' = [turnOf EXCEPT ![r] = turnOf[p]] /\ UNCHANGED <<streams, detached, known>>
      BY <1>b, <1>6 DEF Continue, MayContinue
  <2>2. /\ pc'[r] \in {"waiting", "aborting", "woken"}
        /\ \A q \in Req \ {r} : \/ pc'[q] = pc[q]
                                \/ pc'[q] = "aborting" /\ pc[q] \in {"waiting", "reading"}
      BY <2>1, NextSignalMoves
  <2> QED
      BY <1>b, <2>1, <2>2 DEF OnTurn, Relayed, Working
<1>7. ASSUME NEW r \in Continuer, NEW p \in Req, NEW outputs \in SUBSET Shown,
            NEW answered \in SUBSET outputs, ContinueTooLarge(r, p, outputs, answered) PROVE OnTurn'
    BY <1>7, <1>b, <1>g DEF ContinueTooLarge, OnTurn, clientVars, sessionVars, Relayed, Working
<1>8. ASSUME NEW r \in Continuer, ContinueRefused(r) PROVE OnTurn'
    BY <1>8, <1>b, <1>g DEF ContinueRefused, OnTurn, clientVars, sessionVars, Relayed, Working
<1>9. ASSUME NEW r \in Req, RelayDelta(r) PROVE OnTurn'
  <2>1. r \in Relayed
      BY <1>9 DEF RelayDelta, Placed, DeltasRelayed
  <2>2. /\ pc[r] = "woken" /\ pc' = [pc EXCEPT ![r] = IF r \in gone THEN "hung" ELSE "relaying"]
        /\ UNCHANGED <<clientVars, sessionVars>>
      BY <1>9 DEF RelayDelta
  <2> QED
      BY <2>1, <2>2 DEF OnTurn, clientVars, sessionVars, Relayed, Working
<1>10. ASSUME NEW r \in Req, RespondToSecurity(r) PROVE OnTurn'
    BY <1>b, <1>g, <1>10 DEF RespondToSecurity, Return, Identify, RemoveSession, CleanUp, OnTurn, clientVars, sessionVars, Relayed, Working
<1>11. ASSUME NEW r \in Req, RespondToTool(r) PROVE OnTurn'
    BY <1>b, <1>g, <1>11 DEF RespondToTool, Return, Identify, RemoveSession, CleanUp, OnTurn, clientVars, sessionVars, Relayed, Working
<1>12. ASSUME NEW r \in Req, RejectUndeclared(r) PROVE OnTurn'
  <2>1. /\ pc[r] = "woken" /\ UNCHANGED clientVars /\ known' \subseteq known \cup {r}
        /\ turnOf[r] \in Starter
      BY <1>b, <1>12 DEF RejectUndeclared, Identify, Working
  <2>2. /\ pc'[r] = "rejecting"
        /\ \A q \in Req \ {r} : pc'[q] = pc[q] \/ (pc'[q] = "aborting" /\ pc[q] \in {"waiting", "reading"})
    <3> DEFINE others == {q \in Req : q = session[turnOf[r]].waiter}
                          \cup {q \in {turnOf[r]} : session[turnOf[r]].reading}
    <3>1. pc' = [q \in Req |-> IF q = r THEN "rejecting" ELSE IF q \in others THEN "aborting" ELSE pc[q]]
        BY <1>12 DEF RejectUndeclared
    <3>2. \A q \in others : pc[q] \in {"waiting", "reading"}
        BY <2>1, WaitsFacts
    <3> HIDE DEF others
    <3> QED
        BY <3>1, <3>2
  <2> QED
      BY <1>b, <2>1, <2>2 DEF OnTurn, clientVars, Relayed, Working
<1>13. ASSUME NEW r \in Req, RespondToEnd(r) PROVE OnTurn'
    BY <1>b, <1>g, <1>13 DEF RespondToEnd, Return, Identify, RemoveSession, CleanUp, OnTurn, clientVars, sessionVars, Relayed, Working
<1>14. ASSUME NEW r \in Req, Interrupted(r) PROVE OnTurn'
    BY <1>b, <1>g, <1>14 DEF Interrupted, Return, Identify, RemoveSession, CleanUp, OnTurn, clientVars, sessionVars, Relayed, Working
<1>15. ASSUME NEW r \in Req, Aborted(r) PROVE OnTurn'
    BY <1>b, <1>g, <1>15 DEF Aborted, Return, Identify, RemoveSession, CleanUp, OnTurn, clientVars, sessionVars, Relayed, Working
<1>16. ASSUME NEW r \in Req, Rejected(r) PROVE OnTurn'
    BY <1>b, <1>g, <1>16 DEF Rejected, Return, Identify, RemoveSession, CleanUp, OnTurn, clientVars, sessionVars, Relayed, Working
<1>17. ASSUME NEW r \in Req, DetachedEnds(r) PROVE OnTurn'
    BY <1>b, <1>17 DEF DetachedEnds, RemoveSession, CleanUp, OnTurn, requestVars, Relayed, Working
<1>18. ASSUME NEW r \in Req, Drained(r) PROVE OnTurn'
  <2>1. /\ pc' \in {[pc EXCEPT ![r] = "woken"], [pc EXCEPT ![r] = "reading"], [pc EXCEPT ![r] = "done"]}
        /\ pc[r] \in {"created", "relaying", "emitting"} /\ (pc[r] = "emitting" => pc'[r] = "done")
        /\ UNCHANGED <<clientVars, known>>
      BY <1>18 DEF Drained
  <2> QED
      BY <1>b, <2>1 DEF OnTurn, clientVars, Relayed, Working
<1>19. ASSUME NEW r \in Req, Disconnect(r) PROVE OnTurn'
  <2>1. /\ UNCHANGED <<streams, turnOf, known>> /\ pc[r] # "idle"
        /\ \/ /\ \/ pc[r] \in {"waiting", "reading", "relaying", "interrupting", "rejecting"}
                 \/ pc[r] = "emitting" /\ r \in Relayed
              /\ Abort(r, turnOf[r], session)
           \/ pc' \in {pc, [pc EXCEPT ![r] = "done"]}
      BY <1>19 DEF Disconnect
  <2>2. ASSUME pc[r] \in {"waiting", "reading", "relaying", "interrupting", "rejecting"}
               \/ (pc[r] = "emitting" /\ r \in Relayed)
        PROVE  turnOf[r] \in Starter
      BY <1>b, <2>2 DEF Working, Relayed
  <2>3. \A q \in Req : \/ pc'[q] = pc[q]
                       \/ q = r /\ pc'[q] = "done"
                       \/ q = r /\ pc'[q] = "aborting" /\ turnOf[q] \in Starter
                       \/ pc'[q] = "aborting" /\ pc[q] \in {"waiting", "reading"}
      BY <2>1, <2>2, AbortMoves
  <2>4. \A q \in Req : \/ detached'[q] = detached[q]
                       \/ q = r /\ pc[q] \in {"interrupting", "rejecting"}
      BY <1>19 DEF Disconnect
  <2> QED
      BY <1>b, <2>1, <2>3, <2>4 DEF OnTurn, Relayed, Working
<1>20. ASSUME NEW r \in Starter, EmitTooLarge(r) PROVE OnTurn'
  <2>1. turnOf[r] = r /\ Abort(r, r, session) /\ UNCHANGED <<clientVars, known>> /\ pc[r] # "idle"
      BY <1>b, <1>20 DEF EmitTooLarge
  <2>2. \A q \in Req : \/ pc'[q] = pc[q]
                       \/ q = r /\ pc'[q] = "aborting"
                       \/ pc'[q] = "aborting" /\ pc[q] \in {"waiting", "reading"}
      BY <2>1, AbortMoves
  <2> QED
      BY <1>b, <2>1, <2>2 DEF OnTurn, clientVars, Relayed, Working
<1>21. ASSUME NEW r \in Continuer, ContinuationTooLarge(r) PROVE OnTurn'
    BY <1>21, <1>b, <1>g DEF ContinuationTooLarge, OnTurn, clientVars, sessionVars, Relayed, Working
<1>22. ASSUME NEW r \in Req, ResponseTimeout(r) PROVE OnTurn'
  <2>1. /\ turnOf[r] \in Starter /\ Abort(r, turnOf[r], session) /\ UNCHANGED <<clientVars, known>>
        /\ pc[r] # "idle"
      BY <1>b, <1>22 DEF ResponseTimeout, Working
  <2>2. \A q \in Req : \/ pc'[q] = pc[q]
                       \/ q = r /\ pc'[q] = "aborting"
                       \/ pc'[q] = "aborting" /\ pc[q] \in {"waiting", "reading"}
      BY <2>1, AbortMoves
  <2> QED
      BY <1>b, <2>1, <2>2 DEF OnTurn, clientVars, Relayed, Working
<1>23. ASSUME NEW c \in Call, CallExpires(c) PROVE OnTurn'
  <2>1. UNCHANGED <<requestVars, clientVars, sessionVars>>
      BY <1>23 DEF CallExpires
  <2> QED
      BY <2>1 DEF OnTurn, requestVars, clientVars, sessionVars, Relayed
<1>24. ASSUME NEW t \in Starter, NEW c \in Call, ToolCalled(t, c) PROVE OnTurn'
  <2>1. /\ SignalTurn(t, "security") \/ SignalTurn(t, "tool") \/ UNCHANGED <<pc, hand>>
        /\ UNCHANGED <<clientVars, known, mapped>>
      BY <1>24 DEF ToolCalled
  <2>2. \A q \in Req : \/ pc'[q] = pc[q]
                       \/ pc'[q] = "woken" /\ turnOf[q] = t /\ pc[q] \in {"waiting", "reading"}
      BY <1>f, <2>1, SignalMoves
  <2> QED
      BY <1>b, <2>1, <2>2 DEF OnTurn, clientVars, Relayed, Working
<1>25. ASSUME NEW t \in Starter, Delta(t) PROVE OnTurn'
  <2>1. SignalTurn(t, "delta") /\ "delta" \in Signal /\ UNCHANGED <<clientVars, known, mapped>>
      BY <1>f, <1>25 DEF Delta
  <2>2. \A q \in Req : \/ pc'[q] = pc[q]
                       \/ pc'[q] = "woken" /\ turnOf[q] = t /\ pc[q] \in {"waiting", "reading"}
      BY <2>1, SignalMoves
  <2> QED
      BY <1>b, <2>1, <2>2 DEF OnTurn, clientVars, Relayed, Working
<1>26. ASSUME NEW t \in Starter, DangerousItem(t) PROVE OnTurn'
  <2>1. SignalTurn(t, "security") /\ "security" \in Signal /\ UNCHANGED <<clientVars, known, mapped>>
      BY <1>f, <1>26 DEF DangerousItem
  <2>2. \A q \in Req : \/ pc'[q] = pc[q]
                       \/ pc'[q] = "woken" /\ turnOf[q] = t /\ pc[q] \in {"waiting", "reading"}
      BY <2>1, SignalMoves
  <2> QED
      BY <1>b, <2>1, <2>2 DEF OnTurn, clientVars, Relayed, Working
<1>27. ASSUME NEW t \in Starter, NEW status \in {"completed", "failed"}, TurnCompleted(t, status) PROVE OnTurn'
  <2>1. SignalTurn(t, status) /\ status \in Signal /\ UNCHANGED <<clientVars, known, mapped>>
      BY <1>f, <1>27 DEF TurnCompleted
  <2>2. \A q \in Req : \/ pc'[q] = pc[q]
                       \/ pc'[q] = "woken" /\ turnOf[q] = t /\ pc[q] \in {"waiting", "reading"}
      BY <2>1, SignalMoves
  <2> QED
      BY <1>b, <2>1, <2>2 DEF OnTurn, clientVars, Relayed, Working
<1>28. ASSUME ChildFailure PROVE OnTurn'
  <2>1. /\ \A q \in Req : pc'[q] = pc[q] \/ (pc[q] # "idle" /\ pc'[q] \in {"done", AfterError(q)})
        /\ \A q \in Req : detached'[q] \in {detached[q], "none"}
        /\ known' \subseteq known /\ UNCHANGED <<streams, turnOf>>
      BY <1>28 DEF ChildFailure, sessionVars
  <2> QED
      BY <1>b, <1>g, <2>1 DEF OnTurn, Relayed, Working
<1> QED
    BY <1>1, <1>2, <1>3, <1>4, <1>5, <1>6, <1>7, <1>8, <1>9, <1>10, <1>11, <1>12,
       <1>13, <1>14, <1>15, <1>16, <1>17, <1>18, <1>19, <1>20, <1>21, <1>22, <1>23,
       <1>24, <1>25, <1>26, <1>27, <1>28 DEF Next

-----------------------------------------------------------------------------
(* What the sessions store *)

LEMMA SignalStores ==
    ASSUME SessionsTyped, NEW t \in Starter, NEW s \in Signal, SignalTurn(t, s)
    PROVE  /\ \A x \in Starter \ {t} : session'[x] = session[x] /\ orphan'[x] = orphan[x]
           /\ t \in mapped =>
                 /\ orphan' = orphan
                 /\ session'[t].waiter = IF s = "delta" THEN session[t].waiter ELSE None
                 /\ session'[t].signals = IF s = "delta" \/ session[t].waiter # None
                                          THEN session[t].signals ELSE Append(session[t].signals, s)
           /\ t \notin mapped =>
                 /\ session' = session
                 /\ orphan'[t] = IF s = "delta" THEN orphan[t] ELSE Append(orphan[t], s)
<1>1. CASE t \in mapped
  <2>0. PICK large \in BOOLEAN : session' = [session EXCEPT ![t] = Signalled(@, s, large)]
      BY <1>1, SignalledBy
  <2>1. session' = [session EXCEPT ![t] = Signalled(@, s, large)] /\ orphan' = orphan
      BY <1>1, <2>0 DEF SignalTurn
  <2>2. session'[t] = Signalled(session[t], s, large) /\ \A x \in Starter \ {t} : session'[x] = session[x]
      BY <2>1 DEF SessionsTyped, SessionsOk
  <2> QED
      BY <1>1, <2>1, <2>2, SignalledIs
<1>2. CASE t \notin mapped
    BY <1>2 DEF SignalTurn, SessionsTyped
<1> QED
    BY <1>1, <1>2

LEMMA AbortStores ==
    ASSUME NEW r \in Req, NEW t \in Starter, NEW sessions, SessionsOk(sessions), Abort(r, t, sessions)
    PROVE  /\ OthersSame(session', sessions, t)
           /\ session'[t].waiter = None /\ session'[t].signals = sessions[t].signals
<1>1. session' = Freed(sessions, t)
    BY DEF Abort, Freed
<1> QED
    BY <1>1, FreedIs

LEMMA NextSignalStores ==
    ASSUME NEW r \in Req, NEW t \in Starter, NEW sessions, SessionsOk(sessions),
           NextSignal(r, t, sessions)
    PROVE  /\ OthersSame(session', sessions, t)
           /\ \/ /\ sessions[t].signals # <<>> /\ session'[t].signals = Tail(sessions[t].signals)
                 /\ session'[t].waiter = sessions[t].waiter
              \/ /\ sessions[t].signals = <<>> /\ sessions[t].waiter = None
                 /\ session'[t].signals = <<>> /\ session'[t].waiter = r
              \/ /\ sessions[t].signals = <<>> /\ sessions[t].waiter # None
                 /\ session'[t].signals = <<>> /\ session'[t].waiter = None
<1>1. CASE sessions[t].signals # <<>> /\ session' = Taken(sessions, t)
    BY <1>1, TakenIs
<1>2. CASE sessions[t].signals = <<>> /\ sessions[t].waiter = None /\ session' = Waited(sessions, t, r)
    BY <1>2, WaitedIs
<1>3. CASE sessions[t].signals = <<>> /\ sessions[t].waiter # None /\ Abort(r, t, sessions)
    BY <1>3, AbortStores
<1> QED
    BY <1>1, <1>2, <1>3 DEF NextSignal, Taken, Waited

LEMMA BeginningStores ==
    ASSUME Placed, NEW r \in Starter, BeginSession(r)
    PROVE  /\ \A t \in Starter \ {r} : session'[t] = session[t] /\ orphan'[t] = orphan[t]
           /\ orphan'[r] = <<>> /\ mapped' = mapped \cup {r}
           /\ \/ /\ r \in streams
                 /\ session'[r].signals = orphan[r] /\ session'[r].waiter = None
              \/ /\ r \notin streams /\ pc'[r] = "aborting"
                 /\ session'[r].signals = orphan[r] /\ session'[r].waiter = None
              \/ /\ r \notin streams /\ pc'[r] = "woken" /\ orphan[r] # <<>>
                 /\ session'[r].signals = Tail(orphan[r]) /\ session'[r].waiter = None
              \/ /\ r \notin streams /\ pc'[r] = "waiting" /\ orphan[r] = <<>>
                 /\ session'[r].signals = <<>> /\ session'[r].waiter = r
<1>1. /\ SessionsTyped /\ orphan \in [Starter -> Seq(Signal)] /\ r \in Req /\ r # None
      /\ pc \in [Req -> PcValues]
    BY TypesAreParts, StartersAre DEF Placed, Typed, SessionsTyped, RequestsTyped
<1>2. /\ SessionsOk(Beginning(r)) /\ Beginning(r)[r].signals = orphan[r] /\ Beginning(r)[r].waiter = None
      /\ \A t \in Starter \ {r} : Beginning(r)[t] = session[t]
    BY <1>1, BeginningIs
<1>3. mapped' = mapped \cup {r} /\ orphan' = [orphan EXCEPT ![r] = <<>>]
    BY BeginSessionIs
<1>4. CASE r \notin streams /\ Abort(r, r, Beginning(r))
  <2>1. pc'[r] = "aborting"
      BY <1>1, <1>4 DEF Abort
  <2> QED
      BY <1>1, <1>2, <1>3, <1>4, <2>1, AbortStores DEF OthersSame
<1>5. CASE r \notin streams /\ NextSignal(r, r, Beginning(r))
  <2>1. orphan[r] # <<>> => pc'[r] = "woken"
      BY <1>1, <1>2, <1>5 DEF NextSignal
  <2>2. orphan[r] = <<>> => pc'[r] = "waiting"
      BY <1>1, <1>2, <1>5 DEF NextSignal
  <2>3. /\ OthersSame(session', Beginning(r), r)
        /\ \/ /\ orphan[r] # <<>> /\ session'[r].signals = Tail(orphan[r])
              /\ session'[r].waiter = None
           \/ orphan[r] = <<>> /\ session'[r].signals = <<>> /\ session'[r].waiter = r
    <3>1. SessionsOk(Beginning(r)) /\ NextSignal(r, r, Beginning(r)) /\ r \in Req
        BY <1>1, <1>2, <1>5
    <3>2. /\ OthersSame(session', Beginning(r), r)
          /\ \/ /\ Beginning(r)[r].signals # <<>> /\ session'[r].signals = Tail(Beginning(r)[r].signals)
                /\ session'[r].waiter = Beginning(r)[r].waiter
             \/ /\ Beginning(r)[r].signals = <<>> /\ Beginning(r)[r].waiter = None
                /\ session'[r].signals = <<>> /\ session'[r].waiter = r
             \/ /\ Beginning(r)[r].signals = <<>> /\ Beginning(r)[r].waiter # None
                /\ session'[r].signals = <<>> /\ session'[r].waiter = None
        BY <3>1, NextSignalStores
    <3> QED
        BY <1>2, <3>2
  <2>4. /\ \A t \in Starter \ {r} : session'[t] = session[t] /\ orphan'[t] = orphan[t]
        /\ orphan'[r] = <<>>
      BY <1>1, <1>2, <1>3, <2>3 DEF OthersSame
  <2> QED
      BY <1>3, <1>5, <2>1, <2>2, <2>3, <2>4
<1>6. CASE r \in streams /\ session' = Beginning(r)
    BY <1>1, <1>2, <1>3, <1>6
<1> QED
    BY <1>4, <1>5, <1>6, BeginSessionIs

LEMMA RemoveStores ==
    ASSUME NEW t, SessionsTyped, RemoveSession(t)
    PROVE  /\ \A x \in Starter : session'[x].signals = session[x].signals
                                 /\ session'[x].waiter = session[x].waiter
                                 /\ session'[x].reading = session[x].reading
                                 /\ session'[x].queue \in {session[x].queue, <<>>}
           /\ \A x \in Starter \ {t} : orphan'[x] = orphan[x]
           /\ \A x \in Starter : orphan'[x] \in {orphan[x], <<>>}
           /\ mapped' = mapped \ {t} /\ known' \subseteq known
           /\ \A q \in known' : turnOf[q] # t
BY DEF RemoveSession, SessionsTyped, SessionsOk, Session

LEMMA DrainedStores ==
    ASSUME Placed, NEW r \in Req, Drained(r)
    PROVE  \/ /\ pc[r] \in {"created", "relaying"} /\ r \in Starter /\ OthersSame(session', session, r)
              /\ session'[r].signals = session[r].signals /\ session'[r].waiter = session[r].waiter
              /\ \/ /\ session[r].queue # <<>> /\ pc' = [pc EXCEPT ![r] = "woken"]
                    /\ hand' = [hand EXCEPT ![r] = Head(session[r].queue)]
                    /\ session'[r].reading = session[r].reading
                 \/ /\ session[r].queue = <<>> /\ pc' = [pc EXCEPT ![r] = "reading"] /\ hand' = hand
                    /\ session'[r].reading = TRUE /\ session'[r].queue = <<>>
           \/ /\ pc[r] = "emitting" /\ r \in Relayed /\ OthersSame(session', session, r)
              /\ session'[r].signals = <<>> /\ session'[r].waiter = session[r].waiter
              /\ session'[r].reading = session[r].reading /\ session'[r].queue = <<>>
              /\ pc' = [pc EXCEPT ![r] = "done"] /\ hand' = hand
           \/ /\ pc[r] = "emitting" /\ session' = session
              /\ pc' = [pc EXCEPT ![r] = "done"] /\ hand' = hand
<1>1. SessionsOk(session)
    BY TypesAreParts DEF Placed, Typed, SessionsTyped
<1>2. pc[r] \in {"created", "relaying"} => r \in Starter
    BY WaitsFacts
<1>3. ASSUME pc[r] \in {"created", "relaying"}, session' = [session EXCEPT ![r].queue = Tail(@)]
      PROVE  /\ OthersSame(session', session, r) /\ session'[r].signals = session[r].signals
             /\ session'[r].waiter = session[r].waiter /\ session'[r].reading = session[r].reading
    BY <1>1, <1>2, <1>3 DEF SessionsOk, Session, OthersSame
<1>4. ASSUME pc[r] \in {"created", "relaying"}, session' = Reads(session, r)
      PROVE  /\ OthersSame(session', session, r) /\ session'[r].signals = session[r].signals
             /\ session'[r].waiter = session[r].waiter /\ session'[r].reading = TRUE
             /\ session'[r].queue = session[r].queue
    BY <1>1, <1>2, <1>4, ReadsIs
<1>5. ASSUME r \in Relayed, session' = Left(session, r)
      PROVE  /\ OthersSame(session', session, r) /\ session'[r].signals = <<>>
             /\ session'[r].waiter = session[r].waiter /\ session'[r].reading = session[r].reading
             /\ session'[r].queue = <<>>
  <2>1. r \in Starter
      BY <1>5 DEF Relayed
  <2> QED
      BY <1>1, <1>5, <2>1, LeftIs
<1>6. \/ /\ pc[r] \in {"created", "relaying"} /\ session[r].queue # <<>>
         /\ session' = [session EXCEPT ![r].queue = Tail(@)]
         /\ hand' = [hand EXCEPT ![r] = Head(session[r].queue)] /\ pc' = [pc EXCEPT ![r] = "woken"]
      \/ /\ pc[r] \in {"created", "relaying"} /\ session[r].queue = <<>>
         /\ session' = Reads(session, r) /\ pc' = [pc EXCEPT ![r] = "reading"] /\ hand' = hand
      \/ /\ pc[r] = "emitting" /\ pc' = [pc EXCEPT ![r] = "done"] /\ hand' = hand
         /\ session' = session \/ (r \in Relayed /\ session' = Left(session, r))
    BY DEF Drained, Reads, Left
<1> QED
    BY <1>2, <1>3, <1>4, <1>5, <1>6

LEMMA DrainedMoves ==
    ASSUME Placed, NEW r \in Req, Drained(r)
    PROVE  /\ \A q \in Req \ {r} : pc'[q] = pc[q] /\ hand'[q] = hand[q]
           /\ pc'[r] \in {"woken", "reading", "done"}
           /\ \A x \in Starter : session'[x].signals \in {session[x].signals, <<>>}
<1>1. DOMAIN pc = Req /\ DOMAIN hand = Req
    BY TypesAreParts DEF Placed, Typed, RequestsTyped
<1>2. \/ pc' = [pc EXCEPT ![r] = "woken"]
      \/ pc' = [pc EXCEPT ![r] = "reading"]
      \/ pc' = [pc EXCEPT ![r] = "done"]
    BY DEF Drained
<1>3. hand' = hand \/ hand' = [hand EXCEPT ![r] = Head(session[r].queue)]
    BY DEF Drained
<1>4. \/ session' = session
      \/ OthersSame(session', session, r) /\ session'[r].signals \in {session[r].signals, <<>>}
    BY DrainedStores
<1>5. \A x \in Starter : session'[x].signals \in {session[x].signals, <<>>}
    BY <1>4 DEF OthersSame
<1>6. \A q \in Req \ {r} : pc'[q] = pc[q] /\ hand'[q] = hand[q]
    BY <1>1, <1>2, <1>3
<1>7. pc'[r] \in {"woken", "reading", "done"}
    BY <1>1, <1>2
<1> QED
    BY <1>5, <1>6, <1>7

-----------------------------------------------------------------------------
(* Deltas, waits and beginnings, step by step *)

LEMMA KeptSequences ==
    /\ \A q \in Seq(Kept), s \in Kept : Append(q, s) \in Seq(Kept)
    /\ \A q \in Seq(Kept) : q # <<>> => Tail(q) \in Seq(Kept) /\ Head(q) # "delta"
    /\ <<>> \in Seq(Kept)
    /\ \A s \in Signal : s # "delta" => s \in Kept
<1>1. ASSUME NEW q \in Seq(Kept), q # <<>> PROVE Tail(q) \in Seq(Kept) /\ Head(q) \in Kept
    BY <1>1, HeadTailProperties
<1> QED
    BY <1>1 DEF Kept

LEMMA DeltasKept == ASSUME Placed, Next PROVE DeltasRelayed'
<1>0. /\ pc \in [Req -> PcValues] /\ hand \in [Req -> Signal \cup {"none"}]
      /\ SessionsTyped /\ SessionsOk(session)
    BY TypesAreParts DEF Placed, Typed, RequestsTyped, SessionsTyped
<1>a. DeltasRelayed
    BY DEF Placed
<1>b. /\ \A q \in Req : pc[q] \in Working => turnOf[q] \in Starter
      /\ \A q \in Starter : pc[q] # "idle" => turnOf[q] = q
      /\ \A q \in Req : pc[q] \in {"created", "reading", "relaying"} => q \in Starter /\ turnOf[q] = q
      /\ \A q \in Req : q \in known => turnOf[q] \in Starter
    BY WaitsFacts
<1>f. {"tool", "security", "delta", "completed", "failed"} \subseteq Signal
    BY DEF Signal
<1>g. \A r : AfterError(r) # "woken"
    BY DEF AfterError
<1>h. ASSUME streams' = streams, hand' = hand, \A q \in Req : pc'[q] = pc[q] \/ pc'[q] # "woken",
             NEW t, RemoveSession(t)
      PROVE  DeltasRelayed'
    BY <1>0, <1>a, <1>h, KeptSequences, RemoveStores DEF DeltasRelayed, Relayed
<1>i. ASSUME streams' = streams, hand' = hand, \A q \in Req : pc'[q] = pc[q] \/ pc'[q] # "woken",
             UNCHANGED <<session, orphan>>
      PROVE  DeltasRelayed'
    BY <1>a, <1>i DEF DeltasRelayed, Relayed
<1>j. ASSUME UNCHANGED <<streams, orphan>>, NEW r \in Req, NEW t \in Starter, Abort(r, t, session)
      PROVE  DeltasRelayed'
  <2>1. \A q \in Req : hand'[q] = hand[q] /\ (pc'[q] = "woken" => pc[q] = "woken")
      BY <1>j, AbortMoves
  <2>2. \A x \in Starter : session'[x].signals = session[x].signals
      BY <1>0, <1>j, AbortStores DEF OthersSame
  <2> QED
      BY <1>a, <1>j, <2>1, <2>2 DEF DeltasRelayed, Relayed
<1>k. ASSUME UNCHANGED clientVars, NEW t \in Starter, NEW s \in Signal, SignalTurn(t, s)
      PROVE  DeltasRelayed'
  <2>1. ASSUME NEW q \in Req, pc'[q] = "woken", hand'[q] = "delta" PROVE q \in Relayed
    <3>1. \/ pc[q] = "woken" /\ hand[q] = "delta"
          \/ pc[q] = "reading"
        BY <1>k, <2>1, SignalMoves
    <3> QED
        BY <1>a, <3>1 DEF DeltasRelayed, Placed, Typed, OnTurn
  <2>2. ASSUME NEW x \in Starter PROVE session'[x].signals \in Seq(Kept) /\ orphan'[x] \in Seq(Kept)
    <3>1. session[x].signals \in Seq(Kept) /\ orphan[x] \in Seq(Kept)
        BY <1>a DEF DeltasRelayed
    <3>2. s # "delta" =>
             Append(session[x].signals, s) \in Seq(Kept) /\ Append(orphan[x], s) \in Seq(Kept)
        BY <3>1, KeptSequences
    <3>3. CASE x # t
        BY <1>0, <1>k, <3>1, <3>3, SignalStores
    <3>4. CASE x = t /\ t \in mapped
        BY <1>0, <1>k, <3>1, <3>2, <3>4, SignalStores
    <3>5. CASE x = t /\ t \notin mapped
        BY <1>0, <1>k, <3>1, <3>2, <3>5, SignalStores
    <3> QED
        BY <3>3, <3>4, <3>5
  <2> QED
      BY <1>k, <2>1, <2>2 DEF DeltasRelayed, Relayed, clientVars
<1> USE <1>0, StartersAre
<1>1. ASSUME NEW r \in Starter, Start(r) PROVE DeltasRelayed'
    BY <1>1, <1>g, <1>i DEF Start, clientVars, sessionVars, requestVars
<1>2. ASSUME NEW r \in Starter, TurnStarts(r) PROVE DeltasRelayed'
    BY <1>2, <1>g, <1>i DEF TurnStarts, clientVars, sessionVars, requestVars
<1>3. ASSUME NEW r \in Starter, TurnStartAnswered(r) PROVE DeltasRelayed'
    BY <1>3, <1>g, <1>i DEF TurnStartAnswered, clientVars, sessionVars, requestVars
<1>4. ASSUME NEW r \in Starter, StartFails(r) PROVE DeltasRelayed'
    BY <1>4, <1>g, <1>i DEF StartFails, clientVars, sessionVars, requestVars
<1>5. ASSUME NEW r \in Starter, BeginSession(r) PROVE DeltasRelayed'
  <2>1. UNCHANGED clientVars
      BY <1>5, BeginSessionIs
  <2>2. ASSUME NEW x \in Starter PROVE session'[x].signals \in Seq(Kept) /\ orphan'[x] \in Seq(Kept)
    <3>1. CASE x # r
        BY <1>a, <1>5, <3>1, BeginningStores DEF DeltasRelayed
    <3>2. CASE x = r
      <4>1. orphan[r] \in Seq(Kept) /\ <<>> \in Seq(Kept)
          BY <1>a, KeptSequences DEF DeltasRelayed
      <4>2. orphan[r] # <<>> => Tail(orphan[r]) \in Seq(Kept)
          BY <4>1, KeptSequences
      <4> QED
          BY <1>5, <3>2, <4>1, <4>2, BeginningStores
    <3> QED
        BY <3>1, <3>2
  <2>3. ASSUME NEW q \in Req, pc'[q] = "woken", hand'[q] = "delta"
        PROVE  pc[q] = "woken" /\ hand[q] = "delta"
    <3>1. orphan[r] # <<>> => Head(orphan[r]) # "delta"
        BY <1>a, KeptSequences DEF DeltasRelayed
    <3> QED
        BY <1>5, <2>3, <3>1, BeginningMoves
  <2> QED
      BY <1>a, <2>1, <2>2, <2>3 DEF DeltasRelayed, Relayed, clientVars
<1>6. ASSUME NEW r \in Continuer, NEW p \in Req, NEW outputs \in SUBSET Shown, Continue(r, p, outputs) PROVE DeltasRelayed'
  <2>1. /\ turnOf[p] \in Starter /\ NextSignal(r, turnOf[p], session) /\ pc[r] = "idle"
        /\ UNCHANGED <<streams, orphan>> /\ r \in Req
      BY <1>b, <1>6 DEF Continue, MayContinue
  <2>2. ASSUME NEW x \in Starter PROVE session'[x].signals \in Seq(Kept) /\ orphan'[x] \in Seq(Kept)
    <3>1. CASE x # turnOf[p]
        BY <1>a, <2>1, <3>1, NextSignalStores DEF DeltasRelayed, OthersSame
    <3>2. CASE x = turnOf[p]
      <4>1. session[x].signals \in Seq(Kept) /\ <<>> \in Seq(Kept) /\ orphan[x] \in Seq(Kept)
          BY <1>a, KeptSequences DEF DeltasRelayed
      <4>2. session[x].signals # <<>> => Tail(session[x].signals) \in Seq(Kept)
          BY <4>1, KeptSequences
      <4>3. \/ session[x].signals # <<>> /\ session'[x].signals = Tail(session[x].signals)
            \/ session'[x].signals = <<>>
          BY <1>0, <2>1, <3>2, NextSignalStores
      <4> QED
          BY <2>1, <4>1, <4>2, <4>3
    <3> QED
        BY <3>1, <3>2
  <2>3. ASSUME NEW q \in Req, pc'[q] = "woken", hand'[q] = "delta"
        PROVE  pc[q] = "woken" /\ hand[q] = "delta"
    <3>1. session[turnOf[p]].signals # <<>> => Head(session[turnOf[p]].signals) # "delta"
        BY <1>a, <2>1, KeptSequences DEF DeltasRelayed
    <3> QED
        BY <2>1, <2>3, <3>1, NextSignalMoves
  <2> QED
      BY <1>a, <2>1, <2>2, <2>3 DEF DeltasRelayed, Relayed
<1>7. ASSUME NEW r \in Continuer, NEW p \in Req, NEW outputs \in SUBSET Shown,
            NEW answered \in SUBSET outputs, ContinueTooLarge(r, p, outputs, answered) PROVE DeltasRelayed'
    BY <1>7, <1>g, <1>i DEF ContinueTooLarge, clientVars, sessionVars, requestVars
<1>8. ASSUME NEW r \in Continuer, ContinueRefused(r) PROVE DeltasRelayed'
    BY <1>8, <1>g, <1>i DEF ContinueRefused, clientVars, sessionVars, requestVars
<1>9. ASSUME NEW r \in Req, RelayDelta(r) PROVE DeltasRelayed'
    BY <1>9, <1>g, <1>i DEF RelayDelta, clientVars, sessionVars, requestVars
<1>10. ASSUME NEW r \in Req, RespondToSecurity(r) PROVE DeltasRelayed'
    BY <1>10, <1>g, <1>i DEF RespondToSecurity, clientVars, sessionVars, requestVars
<1>11. ASSUME NEW r \in Req, RespondToTool(r) PROVE DeltasRelayed'
    BY <1>i, <1>11 DEF RespondToTool, Return, clientVars
<1>12. ASSUME NEW r \in Req, RejectUndeclared(r) PROVE DeltasRelayed'
  <2>1. /\ session' = Freed(session, turnOf[r]) /\ turnOf[r] \in Starter /\ hand' = hand
        /\ UNCHANGED <<streams, orphan>> /\ \A q \in Req : pc'[q] = pc[q] \/ pc'[q] # "woken"
      BY <1>b, <1>12 DEF RejectUndeclared, Freed, clientVars, Working
  <2>2. /\ OthersSame(session', session, turnOf[r])
        /\ session'[turnOf[r]].signals = session[turnOf[r]].signals
      BY <2>1, FreedIs
  <2> QED
      BY <1>a, <2>1, <2>2 DEF DeltasRelayed, Relayed, OthersSame
<1>13. ASSUME NEW r \in Req, RespondToEnd(r) PROVE DeltasRelayed'
  <2>1. /\ RemoveSession(turnOf[r]) /\ streams' = streams /\ hand' = hand
        /\ \A q \in Req : pc'[q] = pc[q] \/ pc'[q] # "woken"
      BY <1>g, <1>13 DEF RespondToEnd, Return, CleanUp, clientVars, requestVars
  <2> QED
      BY <1>h, <2>1
<1>14. ASSUME NEW r \in Req, Interrupted(r) PROVE DeltasRelayed'
  <2>1. /\ RemoveSession(turnOf[r]) /\ streams' = streams /\ hand' = hand
        /\ \A q \in Req : pc'[q] = pc[q] \/ pc'[q] # "woken"
      BY <1>g, <1>14 DEF Interrupted, Return, CleanUp, clientVars, requestVars
  <2> QED
      BY <1>h, <2>1
<1>15. ASSUME NEW r \in Req, Aborted(r) PROVE DeltasRelayed'
  <2>1. /\ RemoveSession(turnOf[r]) /\ streams' = streams /\ hand' = hand
        /\ \A q \in Req : pc'[q] = pc[q] \/ pc'[q] # "woken"
      BY <1>g, <1>15 DEF Aborted, Return, CleanUp, clientVars, requestVars
  <2> QED
      BY <1>h, <2>1
<1>16. ASSUME NEW r \in Req, Rejected(r) PROVE DeltasRelayed'
  <2>1. /\ RemoveSession(turnOf[r]) /\ streams' = streams /\ hand' = hand
        /\ \A q \in Req : pc'[q] = pc[q] \/ pc'[q] # "woken"
      BY <1>g, <1>16 DEF Rejected, Return, CleanUp, clientVars, requestVars
  <2> QED
      BY <1>h, <2>1
<1>17. ASSUME NEW r \in Req, DetachedEnds(r) PROVE DeltasRelayed'
  <2>1. UNCHANGED <<streams, pc, hand>> /\ RemoveSession(turnOf[r])
      BY <1>17 DEF DetachedEnds, CleanUp, requestVars
  <2> QED
      BY <1>h, <2>1
<1>18. ASSUME NEW r \in Req, Drained(r) PROVE DeltasRelayed'
  <2>1. UNCHANGED <<streams, orphan>>
      BY <1>18 DEF Drained, clientVars
  <2>2. ASSUME NEW x \in Starter PROVE session'[x].signals \in Seq(Kept)
      BY <1>a, <1>18, DrainedStores, KeptSequences DEF OthersSame, DeltasRelayed
  <2>3. ASSUME NEW q \in Req, pc'[q] = "woken", hand'[q] = "delta" PROVE q \in Relayed
    <3>1. \/ pc[q] = "woken" /\ hand[q] = "delta"
          \/ pc[q] \in {"created", "relaying"}
        BY <1>18, <2>3, DrainedStores
    <3> QED
        BY <1>a, <3>1 DEF DeltasRelayed, Placed, Typed, OnTurn
  <2> QED
      BY <1>a, <2>1, <2>2, <2>3 DEF DeltasRelayed, Relayed
<1>19. ASSUME NEW r \in Req, Disconnect(r) PROVE DeltasRelayed'
  <2>1. /\ UNCHANGED <<streams, orphan>>
        /\ \/ /\ \/ pc[r] \in {"waiting", "reading", "relaying", "interrupting", "rejecting"}
                 \/ pc[r] = "emitting" /\ r \in Relayed
              /\ Abort(r, turnOf[r], session)
           \/ pc' \in {pc, [pc EXCEPT ![r] = "done"]} /\ UNCHANGED <<session, hand>>
      BY <1>19 DEF Disconnect
  <2>2. ASSUME pc[r] \in {"waiting", "reading", "relaying", "interrupting", "rejecting"}
               \/ (pc[r] = "emitting" /\ r \in Relayed)
        PROVE  turnOf[r] \in Starter
      BY <1>b, <2>2 DEF Working, Relayed
  <2> QED
      BY <1>i, <1>j, <2>1, <2>2
<1>20. ASSUME NEW r \in Starter, EmitTooLarge(r) PROVE DeltasRelayed'
  <2>1. turnOf[r] = r /\ Abort(r, r, session) /\ UNCHANGED <<streams, orphan>>
      BY <1>b, <1>20 DEF EmitTooLarge, clientVars
  <2> QED
      BY <1>j, <2>1
<1>21. ASSUME NEW r \in Continuer, ContinuationTooLarge(r) PROVE DeltasRelayed'
    BY <1>21, <1>g, <1>i DEF ContinuationTooLarge, clientVars, sessionVars, requestVars
<1>22. ASSUME NEW r \in Req, ResponseTimeout(r) PROVE DeltasRelayed'
  <2>1. turnOf[r] \in Starter /\ r \in Req /\ Abort(r, turnOf[r], session) /\ UNCHANGED <<streams, orphan>>
      BY <1>b, <1>22 DEF ResponseTimeout, clientVars, Working, Relayed
  <2> QED
      BY <1>j, <2>1
<1>23. ASSUME NEW c \in Call, CallExpires(c) PROVE DeltasRelayed'
    BY <1>23, <1>g, <1>i DEF CallExpires, clientVars, sessionVars, requestVars
<1>24. ASSUME NEW t \in Starter, NEW c \in Call, ToolCalled(t, c) PROVE DeltasRelayed'
  <2>1. /\ SignalTurn(t, "security") \/ SignalTurn(t, "tool") \/ UNCHANGED <<pc, hand, session, orphan>>
        /\ UNCHANGED clientVars
      BY <1>24 DEF ToolCalled
  <2> QED
      BY <1>f, <1>i, <1>k, <2>1 DEF clientVars
<1>25. ASSUME NEW t \in Starter, Delta(t) PROVE DeltasRelayed'
  <2>1. SignalTurn(t, "delta") /\ "delta" \in Signal /\ UNCHANGED clientVars
      BY <1>f, <1>25 DEF Delta
  <2> QED
      BY <1>k, <2>1
<1>26. ASSUME NEW t \in Starter, DangerousItem(t) PROVE DeltasRelayed'
  <2>1. SignalTurn(t, "security") /\ "security" \in Signal /\ UNCHANGED clientVars
      BY <1>f, <1>26 DEF DangerousItem
  <2> QED
      BY <1>k, <2>1
<1>27. ASSUME NEW t \in Starter, NEW status \in {"completed", "failed"}, TurnCompleted(t, status) PROVE DeltasRelayed'
  <2>1. SignalTurn(t, status) /\ status \in Signal /\ UNCHANGED clientVars
      BY <1>f, <1>27 DEF TurnCompleted
  <2> QED
      BY <1>k, <2>1
<1>28. ASSUME ChildFailure PROVE DeltasRelayed'
  <2>1. /\ \A q \in Req : pc'[q] = pc[q] \/ pc'[q] \in {"done", AfterError(q)}
        /\ UNCHANGED <<streams, hand>>
      BY <1>28 DEF ChildFailure
  <2>2. CASE pending = {}
    <3>1. UNCHANGED <<session, orphan>>
        BY <1>28, <2>2 DEF ChildFailure, sessionVars
    <3> QED
        BY <1>g, <1>i, <2>1, <3>1
  <2>3. CASE pending # {}
    <3>1. session' = [t \in Starter |-> NewSession] /\ orphan' = [t \in Starter |-> <<>>]
        BY <1>28, <2>3 DEF ChildFailure
    <3>2. \A t \in Starter : session'[t].signals = <<>> /\ orphan'[t] = <<>>
        BY <3>1 DEF NewSession
    <3> QED
        BY <1>a, <1>g, <2>1, <3>2, KeptSequences DEF DeltasRelayed, Relayed
  <2> QED
      BY <2>2, <2>3
<1> QED
    BY <1>1, <1>2, <1>3, <1>4, <1>5, <1>6, <1>7, <1>8, <1>9, <1>10, <1>11, <1>12,
       <1>13, <1>14, <1>15, <1>16, <1>17, <1>18, <1>19, <1>20, <1>21, <1>22, <1>23,
       <1>24, <1>25, <1>26, <1>27, <1>28 DEF Next

LEMMA WaitsKept == ASSUME Placed, Next PROVE Waits'
<1>0. /\ pc \in [Req -> PcValues] /\ turnOf \in [Req -> Starter \cup {None}]
      /\ SessionsTyped /\ SessionsOk(session) /\ Typed
    BY TypesAreParts DEF Placed, Typed, RequestsTyped, ClientsTyped, SessionsTyped
<1>a. Waits /\ WaitsIn(session)
    BY DEF Placed, Waits
<1>b. /\ \A q \in Req : pc[q] \in Working => turnOf[q] \in Starter
      /\ \A q \in Starter : pc[q] # "idle" => turnOf[q] = q
      /\ \A q \in Req : pc[q] \in {"created", "reading", "relaying"} => q \in Starter /\ turnOf[q] = q
      /\ \A q \in Req : q \in known => turnOf[q] \in Starter
    BY WaitsFacts
<1>f. {"tool", "security", "delta", "completed", "failed"} \subseteq Signal
    BY DEF Signal
<1>g. \A r : AfterError(r) \in {"emitting", "done"}
    BY DEF AfterError
<1>h. ASSUME turnOf' = turnOf, NEW t, RemoveSession(t),
             \A q \in Req : \/ pc'[q] = pc[q]
                            \/ pc[q] \notin {"waiting", "reading"} /\ pc'[q] \notin {"waiting", "reading"}
      PROVE  Waits'
  <2>1. \A x \in Starter : session'[x].signals = session[x].signals
                           /\ session'[x].waiter = session[x].waiter
                           /\ session'[x].reading = session[x].reading
                           /\ session'[x].queue \in {session[x].queue, <<>>}
      BY <1>0, <1>h, RemoveStores
  <2> QED
      BY <1>0, <1>a, <1>h, <2>1, WaitsUndisturbed
<1>i. ASSUME UNCHANGED <<session, turnOf>>,
             \A q \in Req : \/ pc'[q] = pc[q]
                            \/ pc[q] \notin {"waiting", "reading"} /\ pc'[q] \notin {"waiting", "reading"}
      PROVE  Waits'
    BY <1>0, <1>a, <1>i, WaitsUndisturbed
<1>u. ASSUME session' = session, NEW r \in Req, pc[r] = "idle", pc'[r] = "starting",
             \A q \in Req : q # r => pc'[q] = pc[q] /\ turnOf'[q] = turnOf[q]
      PROVE  Waits'
    BY <1>0, <1>a, <1>u, WaitsUndisturbed
<1>j. ASSUME NEW r \in Req, turnOf[r] \in Starter, Abort(r, turnOf[r], session), turnOf' = turnOf
      PROVE  Waits'
    BY <1>0, <1>a, <1>b, <1>j, AbortFrees, FreesWaits
<1> USE <1>0, StartersAre
<1>1. ASSUME NEW r \in Starter, Start(r) PROVE Waits'
  <2>1. /\ session' = session /\ turnOf' = [turnOf EXCEPT ![r] = r] /\ pc[r] = "idle"
        /\ pc' = [pc EXCEPT ![r] = "starting"]
      BY <1>1 DEF Start, sessionVars
  <2>2. /\ \A q \in Req : q # r => pc'[q] = pc[q] /\ turnOf'[q] = turnOf[q]
        /\ pc'[r] = "starting" /\ r \in Req
      BY <2>1
  <2> QED
      BY <1>u, <2>1, <2>2
<1>2. ASSUME NEW r \in Starter, TurnStarts(r) PROVE Waits'
  <2>1. /\ UNCHANGED <<session, turnOf>>
        /\ \A q \in Req : \/ pc'[q] = pc[q]
                          \/ pc[q] \notin {"waiting", "reading"} /\ pc'[q] \notin {"waiting", "reading"}
      BY <1>g, <1>2 DEF TurnStarts, Return, clientVars, sessionVars, requestVars
  <2> QED
      BY <1>i, <2>1
<1>3. ASSUME NEW r \in Starter, TurnStartAnswered(r) PROVE Waits'
  <2>1. /\ UNCHANGED <<session, turnOf>>
        /\ \A q \in Req : \/ pc'[q] = pc[q]
                          \/ pc[q] \notin {"waiting", "reading"} /\ pc'[q] \notin {"waiting", "reading"}
      BY <1>g, <1>3 DEF TurnStartAnswered, Return, clientVars, sessionVars, requestVars
  <2> QED
      BY <1>i, <2>1
<1>4. ASSUME NEW r \in Starter, StartFails(r) PROVE Waits'
  <2>1. /\ UNCHANGED <<session, turnOf>>
        /\ \A q \in Req : \/ pc'[q] = pc[q]
                          \/ pc[q] \notin {"waiting", "reading"} /\ pc'[q] \notin {"waiting", "reading"}
      BY <1>g, <1>4 DEF StartFails, Return, clientVars, sessionVars, requestVars
  <2> QED
      BY <1>i, <2>1
<1>5. ASSUME NEW r \in Starter, BeginSession(r) PROVE Waits'
  <2>1. /\ SessionsOk(Beginning(r)) /\ pc[r] = "begun" /\ turnOf' = turnOf /\ turnOf[r] = r
        /\ Beginning(r)[r].waiter = None /\ ~Beginning(r)[r].reading
        /\ \A t \in Starter \ {r} : Beginning(r)[t] = session[t]
      BY <1>b, <1>5, BeginSessionIs, BeginningIs DEF clientVars
  <2>2. \A q \in Req \ {r} : turnOf[q] # r
      BY <2>1, WaitsFacts DEF Unbegun
  <2>3. \A q \in Req : (pc[q] = "waiting" => turnOf[q] \in Starter \ {r}) /\ (pc[q] = "reading" => q \in Starter \ {r})
      BY <1>b, <2>1, <2>2 DEF Working
  <2>4. WaitsIn(Beginning(r))
      BY <1>a, <2>1, <2>3 DEF Waits, WaitsIn
  <2>5. CASE Abort(r, r, Beginning(r))
      BY <2>1, <2>4, <2>5, AbortFrees, FreesWaits
  <2>6. CASE NextSignal(r, r, Beginning(r))
      BY <2>1, <2>4, <2>6, NextSignalWaits
  <2>7. CASE session' = Beginning(r) /\ pc' = [pc EXCEPT ![r] = IF r \in gone THEN "hung" ELSE "created"]
    <3>1. \A q \in Req : \/ pc'[q] = pc[q]
                         \/ pc[q] \notin {"waiting", "reading"} /\ pc'[q] \notin {"waiting", "reading"}
        BY <2>1, <2>7
    <3> QED
        BY <2>1, <2>4, <2>7, <3>1, WaitsUndisturbed
  <2> QED
      BY <1>5, <2>5, <2>6, <2>7, BeginSessionIs
<1>6. ASSUME NEW r \in Continuer, NEW p \in Req, NEW outputs \in SUBSET Shown, Continue(r, p, outputs) PROVE Waits'
  <2>1. /\ turnOf[p] \in Starter /\ NextSignal(r, turnOf[p], session) /\ pc[r] = "idle"
        /\ turnOf' = [turnOf EXCEPT ![r] = turnOf[p]] /\ r \in Req
      BY <1>b, <1>6 DEF Continue, MayContinue
  <2>2. turnOf'[r] = turnOf[p] /\ \A q \in Req \ {r} : turnOf'[q] = turnOf[q]
      BY <2>1
  <2> QED
      BY <1>a, <2>1, <2>2, NextSignalWaits DEF Waits
<1>7. ASSUME NEW r \in Continuer, NEW p \in Req, NEW outputs \in SUBSET Shown,
            NEW answered \in SUBSET outputs, ContinueTooLarge(r, p, outputs, answered) PROVE Waits'
  <2>1. /\ UNCHANGED <<session, turnOf>>
        /\ \A q \in Req : \/ pc'[q] = pc[q]
                          \/ pc[q] \notin {"waiting", "reading"} /\ pc'[q] \notin {"waiting", "reading"}
      BY <1>g, <1>7 DEF ContinueTooLarge, Return, clientVars, sessionVars, requestVars
  <2> QED
      BY <1>i, <2>1
<1>8. ASSUME NEW r \in Continuer, ContinueRefused(r) PROVE Waits'
  <2>1. /\ UNCHANGED <<session, turnOf>>
        /\ \A q \in Req : \/ pc'[q] = pc[q]
                          \/ pc[q] \notin {"waiting", "reading"} /\ pc'[q] \notin {"waiting", "reading"}
      BY <1>g, <1>8 DEF ContinueRefused, Return, clientVars, sessionVars, requestVars
  <2> QED
      BY <1>i, <2>1
<1>9. ASSUME NEW r \in Req, RelayDelta(r) PROVE Waits'
  <2>1. /\ UNCHANGED <<session, turnOf>>
        /\ \A q \in Req : \/ pc'[q] = pc[q]
                          \/ pc[q] \notin {"waiting", "reading"} /\ pc'[q] \notin {"waiting", "reading"}
      BY <1>g, <1>9 DEF RelayDelta, Return, clientVars, sessionVars, requestVars
  <2> QED
      BY <1>i, <2>1
<1>10. ASSUME NEW r \in Req, RespondToSecurity(r) PROVE Waits'
  <2>1. /\ UNCHANGED <<session, turnOf>>
        /\ \A q \in Req : \/ pc'[q] = pc[q]
                          \/ pc[q] \notin {"waiting", "reading"} /\ pc'[q] \notin {"waiting", "reading"}
      BY <1>g, <1>10 DEF RespondToSecurity, Return, clientVars, sessionVars, requestVars
  <2> QED
      BY <1>i, <2>1
<1>11. ASSUME NEW r \in Req, RespondToTool(r) PROVE Waits'
  <2>1. /\ UNCHANGED <<session, turnOf>>
        /\ \A q \in Req : \/ pc'[q] = pc[q]
                          \/ pc[q] \notin {"waiting", "reading"} /\ pc'[q] \notin {"waiting", "reading"}
      BY <1>g, <1>11 DEF RespondToTool, Return, clientVars, sessionVars, requestVars
  <2> QED
      BY <1>i, <2>1
<1>12. ASSUME NEW r \in Req, RejectUndeclared(r) PROVE Waits'
  <2>1. /\ pc[r] = "woken" /\ turnOf' = turnOf /\ session' = Freed(session, turnOf[r])
        /\ turnOf[r] \in Starter
      BY <1>b, <1>12 DEF RejectUndeclared, Freed, clientVars, Working
  <2>2. Frees(r, turnOf[r], session)
    <3> DEFINE others == {q \in Req : q = session[turnOf[r]].waiter}
                          \cup {q \in {turnOf[r]} : session[turnOf[r]].reading}
    <3>1. pc' = [q \in Req |-> IF q = r THEN "rejecting" ELSE IF q \in others THEN "aborting" ELSE pc[q]]
        BY <1>12 DEF RejectUndeclared
    <3>2. \A q \in Req : q \in others <=> (q = session[turnOf[r]].waiter \/ (q = turnOf[r] /\ session[turnOf[r]].reading))
        OBVIOUS
    <3> HIDE DEF others
    <3> QED
        BY <2>1, <3>1, <3>2 DEF Frees
  <2> QED
      BY <1>a, <2>1, <2>2, FreesWaits DEF Waits
<1>13. ASSUME NEW r \in Req, RespondToEnd(r) PROVE Waits'
  <2>1. /\ RemoveSession(turnOf[r]) /\ turnOf' = turnOf
        /\ \A q \in Req : \/ pc'[q] = pc[q]
                          \/ pc[q] \notin {"waiting", "reading"} /\ pc'[q] \notin {"waiting", "reading"}
      BY <1>g, <1>13 DEF RespondToEnd, Return, CleanUp, clientVars, requestVars
  <2> QED
      BY <1>h, <2>1
<1>14. ASSUME NEW r \in Req, Interrupted(r) PROVE Waits'
  <2>1. /\ RemoveSession(turnOf[r]) /\ turnOf' = turnOf
        /\ \A q \in Req : \/ pc'[q] = pc[q]
                          \/ pc[q] \notin {"waiting", "reading"} /\ pc'[q] \notin {"waiting", "reading"}
      BY <1>g, <1>14 DEF Interrupted, Return, CleanUp, clientVars, requestVars
  <2> QED
      BY <1>h, <2>1
<1>15. ASSUME NEW r \in Req, Aborted(r) PROVE Waits'
  <2>1. /\ RemoveSession(turnOf[r]) /\ turnOf' = turnOf
        /\ \A q \in Req : \/ pc'[q] = pc[q]
                          \/ pc[q] \notin {"waiting", "reading"} /\ pc'[q] \notin {"waiting", "reading"}
      BY <1>g, <1>15 DEF Aborted, Return, CleanUp, clientVars, requestVars
  <2> QED
      BY <1>h, <2>1
<1>16. ASSUME NEW r \in Req, Rejected(r) PROVE Waits'
  <2>1. /\ RemoveSession(turnOf[r]) /\ turnOf' = turnOf
        /\ \A q \in Req : \/ pc'[q] = pc[q]
                          \/ pc[q] \notin {"waiting", "reading"} /\ pc'[q] \notin {"waiting", "reading"}
      BY <1>g, <1>16 DEF Rejected, Return, CleanUp, clientVars, requestVars
  <2> QED
      BY <1>h, <2>1
<1>17. ASSUME NEW r \in Req, DetachedEnds(r) PROVE Waits'
  <2>1. UNCHANGED <<pc, turnOf>> /\ RemoveSession(turnOf[r])
      BY <1>17 DEF DetachedEnds, CleanUp, requestVars
  <2> QED
      BY <1>h, <2>1
<1>18. ASSUME NEW r \in Req, Drained(r) PROVE Waits'
  <2>1. turnOf' = turnOf
      BY <1>18 DEF Drained, clientVars
  <2>2. CASE pc[r] = "emitting" /\ session' = session /\ pc' = [pc EXCEPT ![r] = "done"]
    <3>1. \A q \in Req : \/ pc'[q] = pc[q]
                         \/ pc[q] \notin {"waiting", "reading"} /\ pc'[q] \notin {"waiting", "reading"}
        BY <2>2
    <3> QED
        BY <1>i, <2>1, <2>2, <3>1
  <2>3. CASE /\ pc[r] = "emitting" /\ r \in Relayed /\ OthersSame(session', session, r)
             /\ session'[r].signals = <<>> /\ session'[r].waiter = session[r].waiter
             /\ session'[r].reading = session[r].reading /\ session'[r].queue = <<>>
             /\ pc' = [pc EXCEPT ![r] = "done"]
    <3>1. \A q \in Req : \/ pc'[q] = pc[q]
                         \/ pc[q] \notin {"waiting", "reading"} /\ pc'[q] \notin {"waiting", "reading"}
        BY <2>3
    <3>2. \A t \in Starter :
              /\ session'[t].waiter = session[t].waiter /\ session'[t].reading = session[t].reading
              /\ session'[t].signals \in {session[t].signals, <<>>}
              /\ session'[t].queue \in {session[t].queue, <<>>}
        BY <2>3 DEF OthersSame
    <3> QED
        BY <1>a, <2>1, <3>1, <3>2, WaitsUndisturbed DEF Waits
  <2>4. CASE /\ pc[r] \in {"created", "relaying"} /\ r \in Starter /\ OthersSame(session', session, r)
             /\ session'[r].signals = session[r].signals /\ session'[r].waiter = session[r].waiter
             /\ \/ pc' = [pc EXCEPT ![r] = "woken"] /\ session'[r].reading = session[r].reading
                \/ /\ pc' = [pc EXCEPT ![r] = "reading"]
                   /\ session'[r].reading = TRUE /\ session'[r].queue = <<>>
    <3>1. ASSUME NEW q \in Req, pc'[q] = "waiting"
          PROVE  session'[turnOf[q]].waiter = q /\ session'[turnOf[q]].signals = <<>>
      <4>1. pc[q] = "waiting" /\ turnOf[q] \in Starter
          BY <1>b, <2>4, <3>1 DEF Working
      <4>2. session[turnOf[q]].waiter = q /\ session[turnOf[q]].signals = <<>>
          BY <1>a, <4>1 DEF Waits, WaitsIn
      <4> QED
          BY <2>4, <4>1, <4>2 DEF OthersSame
    <3>2. ASSUME NEW q \in Req, pc'[q] = "reading"
          PROVE  session'[q].reading /\ session'[q].queue = <<>>
      <4>1. CASE q = r
          BY <2>4, <3>2, <4>1
      <4>2. CASE q # r
        <5>1. pc[q] = "reading" /\ q \in Starter
            BY <1>b, <2>4, <3>2, <4>2
        <5> QED
            BY <1>a, <2>4, <4>2, <5>1 DEF Waits, WaitsIn, OthersSame
      <4> QED
          BY <4>1, <4>2
    <3>3. ASSUME NEW x \in Starter, session'[x].waiter # None
          PROVE  pc'[session'[x].waiter] = "waiting" /\ turnOf[session'[x].waiter] = x
      <4>1. session'[x].waiter = session[x].waiter
          BY <2>4 DEF OthersSame
      <4>2. /\ session[x].waiter \in Req /\ pc[session[x].waiter] = "waiting"
            /\ turnOf[session[x].waiter] = x
          BY <3>3, <4>1, WaitsFacts
      <4> QED
          BY <2>4, <4>1, <4>2
    <3>4. ASSUME NEW x \in Starter, session'[x].reading PROVE pc'[x] = "reading"
      <4>1. CASE x = r
        <5>1. ~session[r].reading
            BY <2>4, WaitsFacts
        <5> QED
            BY <2>4, <3>4, <4>1, <5>1
      <4>2. CASE x # r
        <5>1. session[x].reading
            BY <2>4, <3>4, <4>2 DEF OthersSame
        <5>2. pc[x] = "reading"
            BY <5>1, WaitsFacts
        <5> QED
            BY <2>4, <4>2, <5>2
      <4> QED
          BY <4>1, <4>2
    <3> QED
        BY <2>1, <3>1, <3>2, <3>3, <3>4 DEF Waits, WaitsIn
  <2> QED
      BY <1>18, <2>2, <2>3, <2>4, DrainedStores
<1>19. ASSUME NEW r \in Req, Disconnect(r) PROVE Waits'
  <2>1. /\ turnOf' = turnOf
        /\ \/ /\ \/ pc[r] \in {"waiting", "reading", "relaying", "interrupting", "rejecting"}
                 \/ pc[r] = "emitting" /\ r \in Relayed
              /\ Abort(r, turnOf[r], session)
           \/ /\ pc' = pc \/ (pc[r] \in {"created", "emitting"} /\ pc' = [pc EXCEPT ![r] = "done"])
              /\ session' = session
      BY <1>19 DEF Disconnect
  <2>2. ASSUME pc[r] \in {"waiting", "reading", "relaying", "interrupting", "rejecting"}
               \/ (pc[r] = "emitting" /\ r \in Relayed)
        PROVE  turnOf[r] \in Starter
      BY <1>b, <2>2 DEF Working, Relayed
  <2>3. CASE session' = session /\ (pc' = pc \/ (pc[r] \in {"created", "emitting"} /\ pc' = [pc EXCEPT ![r] = "done"]))
    <3>1. \A q \in Req : \/ pc'[q] = pc[q]
                         \/ pc[q] \notin {"waiting", "reading"} /\ pc'[q] \notin {"waiting", "reading"}
        BY <2>3
    <3> QED
        BY <1>i, <2>1, <2>3, <3>1
  <2> QED
      BY <1>j, <2>1, <2>2, <2>3
<1>20. ASSUME NEW r \in Starter, EmitTooLarge(r) PROVE Waits'
  <2>1. turnOf[r] \in Starter /\ r \in Req /\ Abort(r, turnOf[r], session) /\ turnOf' = turnOf
      BY <1>b, <1>20 DEF EmitTooLarge, clientVars, Working, Relayed
  <2> QED
      BY <1>j, <2>1
<1>21. ASSUME NEW r \in Continuer, ContinuationTooLarge(r) PROVE Waits'
  <2>1. /\ UNCHANGED <<session, turnOf>>
        /\ \A q \in Req : \/ pc'[q] = pc[q]
                          \/ pc[q] \notin {"waiting", "reading"} /\ pc'[q] \notin {"waiting", "reading"}
      BY <1>g, <1>21 DEF ContinuationTooLarge, Return, clientVars, sessionVars, requestVars
  <2> QED
      BY <1>i, <2>1
<1>22. ASSUME NEW r \in Req, ResponseTimeout(r) PROVE Waits'
  <2>1. turnOf[r] \in Starter /\ r \in Req /\ Abort(r, turnOf[r], session) /\ turnOf' = turnOf
      BY <1>b, <1>22 DEF ResponseTimeout, clientVars, Working, Relayed
  <2> QED
      BY <1>j, <2>1
<1>23. ASSUME NEW c \in Call, CallExpires(c) PROVE Waits'
  <2>1. /\ UNCHANGED <<session, turnOf>>
        /\ \A q \in Req : \/ pc'[q] = pc[q]
                          \/ pc[q] \notin {"waiting", "reading"} /\ pc'[q] \notin {"waiting", "reading"}
      BY <1>g, <1>23 DEF CallExpires, Return, clientVars, sessionVars, requestVars
  <2> QED
      BY <1>i, <2>1
<1>24. ASSUME NEW t \in Starter, NEW c \in Call, ToolCalled(t, c) PROVE Waits'
  <2>1. /\ SignalTurn(t, "security") \/ SignalTurn(t, "tool") \/ UNCHANGED <<pc, session>>
        /\ turnOf' = turnOf
      BY <1>24 DEF ToolCalled, clientVars
  <2> QED
      BY <1>f, <1>i, <2>1, SignalWaits
<1>25. ASSUME NEW t \in Starter, Delta(t) PROVE Waits'
  <2>1. SignalTurn(t, "delta") /\ "delta" \in Signal /\ turnOf' = turnOf
      BY <1>f, <1>25 DEF Delta, clientVars
  <2> QED
      BY <2>1, SignalWaits
<1>26. ASSUME NEW t \in Starter, DangerousItem(t) PROVE Waits'
  <2>1. SignalTurn(t, "security") /\ "security" \in Signal /\ turnOf' = turnOf
      BY <1>f, <1>26 DEF DangerousItem, clientVars
  <2> QED
      BY <2>1, SignalWaits
<1>27. ASSUME NEW t \in Starter, NEW status \in {"completed", "failed"}, TurnCompleted(t, status) PROVE Waits'
  <2>1. SignalTurn(t, status) /\ status \in Signal /\ turnOf' = turnOf
      BY <1>f, <1>27 DEF TurnCompleted, clientVars
  <2> QED
      BY <2>1, SignalWaits
<1>28. ASSUME ChildFailure PROVE Waits'
  <2>1. turnOf' = turnOf
      BY <1>28 DEF ChildFailure
  <2>2. CASE pending = {}
    <3>1. UNCHANGED session
        BY <1>28, <2>2 DEF ChildFailure, sessionVars
    <3>2. \A q \in Req : pc'[q] = pc[q] \/ (pc[q] = "starting" /\ pc'[q] = AfterError(q))
        BY <1>28, <2>2 DEF ChildFailure
    <3> QED
        BY <1>g, <1>i, <2>1, <3>1, <3>2
  <2>3. CASE pending # {}
    <3>1. session' = [t \in Starter |-> NewSession]
        BY <1>28, <2>3 DEF ChildFailure
    <3>2. \A q \in Req : pc'[q] \in {"idle", "done"}
        BY <1>28, <2>3 DEF ChildFailure
    <3>3. \A t \in Starter : session'[t].waiter = None /\ session'[t].reading = FALSE
        BY <3>1 DEF NewSession
    <3> QED
        BY <3>2, <3>3 DEF Waits, WaitsIn
  <2> QED
      BY <2>2, <2>3
<1> QED
    BY <1>1, <1>2, <1>3, <1>4, <1>5, <1>6, <1>7, <1>8, <1>9, <1>10, <1>11, <1>12,
       <1>13, <1>14, <1>15, <1>16, <1>17, <1>18, <1>19, <1>20, <1>21, <1>22, <1>23,
       <1>24, <1>25, <1>26, <1>27, <1>28 DEF Next

LEMMA BegunKept == ASSUME Placed, Next PROVE Begun'
<1>0. /\ pc \in [Req -> PcValues] /\ turnOf \in [Req -> Starter \cup {None}]
      /\ SessionsTyped /\ known \subseteq Req /\ mapped \subseteq Starter /\ OnTurn
    BY TypesAreParts DEF Placed, Typed, RequestsTyped, ClientsTyped, SessionsTyped
<1>a. Begun
    BY DEF Placed
<1>b. /\ \A q \in Req : pc[q] \in Working => turnOf[q] \in Starter
      /\ \A q \in Starter : pc[q] # "idle" => turnOf[q] = q
      /\ \A q \in Req : pc[q] \in {"created", "reading", "relaying"} => q \in Starter /\ turnOf[q] = q
      /\ \A q \in Req : q \in known => turnOf[q] \in Starter
    BY WaitsFacts
<1>f. {"tool", "security", "delta", "completed", "failed"} \subseteq Signal
    BY DEF Signal
<1>g. \A r : AfterError(r) \in {"emitting", "done"}
    BY DEF AfterError
<1>i. ASSUME turnOf' = turnOf, mapped' \subseteq mapped,
             \A q \in known' : q \in known \/ (q \in Req /\ turnOf[q] \in Starter /\ pc'[q] \notin Unbegun),
             \A q \in Req : pc[q] \notin Unbegun => pc'[q] \notin Unbegun
      PROVE  Begun'
  <2>1. \A t \in mapped' : pc'[t] \notin Unbegun
      BY <1>0, <1>a, <1>i, StartersAre DEF Begun
  <2>2. \A q \in Req : turnOf[q] \in Starter \ {q} => pc'[turnOf[q]] \notin Unbegun
      BY <1>a, <1>i, StartersAre DEF Begun
  <2>3. ASSUME NEW q \in known' PROVE pc'[turnOf[q]] \notin Unbegun
    <3>1. CASE q \in known
        BY <1>a, <1>b, <1>i, <1>0, <3>1, StartersAre DEF Begun
    <3>2. CASE q \in Req /\ turnOf[q] \in Starter /\ pc'[q] \notin Unbegun
        BY <2>2, <3>2
    <3> QED
        BY <1>i, <3>1, <3>2
  <2> QED
      BY <1>i, <2>1, <2>2, <2>3 DEF Begun
<1>j. ASSUME NEW r \in Req, turnOf[r] \in Starter, Abort(r, turnOf[r], session),
             UNCHANGED <<turnOf, mapped, known>>
      PROVE  Begun'
  <2>1. \A q \in Req : pc'[q] = pc[q] \/ pc'[q] \notin Unbegun
      BY <1>j, AbortMoves DEF Unbegun
  <2> QED
      BY <1>i, <1>j, <2>1
<1>k. ASSUME NEW t \in Starter, NEW s \in Signal, SignalTurn(t, s), UNCHANGED <<turnOf, mapped, known>>
      PROVE  Begun'
  <2>1. \A q \in Req : pc'[q] = pc[q] \/ pc'[q] \notin Unbegun
      BY <1>k, SignalMoves DEF Unbegun
  <2> QED
      BY <1>i, <1>k, <2>1
<1> USE <1>0, StartersAre
<1>1. ASSUME NEW r \in Starter, Start(r) PROVE Begun'
  <2>1. /\ pc[r] = "idle" /\ pc' = [pc EXCEPT ![r] = "starting"] /\ UNCHANGED <<mapped, known>>
        /\ turnOf' = [turnOf EXCEPT ![r] = r]
      BY <1>1 DEF Start, sessionVars
  <2>2. /\ \A q \in Req \ {r} : pc'[q] = pc[q] /\ turnOf'[q] = turnOf[q]
        /\ turnOf'[r] = r /\ \A q \in Req : pc[q] \notin Unbegun => pc'[q] \notin Unbegun
      BY <2>1 DEF Unbegun
  <2>3. r \notin known /\ r \notin mapped
    <3>1. turnOf[r] = None
        BY <2>1 DEF OnTurn
    <3> QED
        BY <1>b, <2>1, <3>1, WaitsFacts DEF Unbegun
  <2> QED
      BY <1>a, <1>b, <2>1, <2>2, <2>3 DEF Begun
<1>2. ASSUME NEW r \in Starter, TurnStarts(r) PROVE Begun'
  <2>1. UNCHANGED <<pc, turnOf, mapped, known>>
      BY <1>2 DEF TurnStarts, clientVars, sessionVars, requestVars
  <2> QED
      BY <1>i, <2>1
<1>3. ASSUME NEW r \in Starter, TurnStartAnswered(r) PROVE Begun'
  <2>1. /\ UNCHANGED <<turnOf, mapped, known>> /\ pc[r] = "starting"
        /\ pc' = [pc EXCEPT ![r] = "begun"]
      BY <1>3 DEF TurnStartAnswered, clientVars, sessionVars
  <2> QED
      BY <1>i, <2>1 DEF Unbegun
<1>4. ASSUME NEW r \in Starter, StartFails(r) PROVE Begun'
  <2>1. /\ UNCHANGED <<turnOf, mapped, known>>
        /\ \A q \in Req : pc'[q] # pc[q] => q = r /\ pc'[q] \notin Unbegun
      BY <1>g, <1>4 DEF StartFails, Return, clientVars, sessionVars, requestVars, Unbegun
  <2> QED
      BY <1>i, <2>1
<1>5. ASSUME NEW r \in Starter, BeginSession(r) PROVE Begun'
  <2>1. /\ mapped' = mapped \cup {r} /\ known' \subseteq known \cup {r} /\ turnOf' = turnOf
      BY <1>5, BeginSessionIs DEF clientVars
  <2>2. /\ pc[r] = "begun" /\ pc'[r] \notin Unbegun /\ turnOf[r] = r
        /\ \A q \in Req : pc'[q] = pc[q] \/ pc'[q] \notin Unbegun
      BY <1>b, <1>5, BeginningMoves DEF Unbegun
  <2> QED
      BY <1>a, <1>b, <2>1, <2>2 DEF Begun
<1>6. ASSUME NEW r \in Continuer, NEW p \in Req, NEW outputs \in SUBSET Shown, Continue(r, p, outputs) PROVE Begun'
  <2>1. /\ p \in known /\ turnOf[p] \in Starter /\ NextSignal(r, turnOf[p], session) /\ pc[r] = "idle"
        /\ turnOf' = [turnOf EXCEPT ![r] = turnOf[p]] /\ UNCHANGED <<mapped, known>> /\ r \in Req
      BY <1>b, <1>6 DEF Continue, MayContinue
  <2>2. \A q \in Req : pc'[q] = pc[q] \/ pc'[q] \notin Unbegun
      BY <2>1, NextSignalMoves DEF Unbegun
  <2>3. turnOf'[r] = turnOf[p] /\ \A q \in Req \ {r} : turnOf'[q] = turnOf[q]
      BY <2>1
  <2> QED
      BY <1>a, <1>b, <2>1, <2>2, <2>3 DEF Begun
<1>7. ASSUME NEW r \in Continuer, NEW p \in Req, NEW outputs \in SUBSET Shown,
            NEW answered \in SUBSET outputs, ContinueTooLarge(r, p, outputs, answered) PROVE Begun'
  <2>1. /\ UNCHANGED <<turnOf, mapped, known>>
        /\ \A q \in Req : pc'[q] # pc[q] => q = r /\ pc'[q] \notin Unbegun
      BY <1>g, <1>7 DEF ContinueTooLarge, Return, clientVars, sessionVars, requestVars, Unbegun
  <2> QED
      BY <1>i, <2>1
<1>8. ASSUME NEW r \in Continuer, ContinueRefused(r) PROVE Begun'
  <2>1. /\ UNCHANGED <<turnOf, mapped, known>>
        /\ \A q \in Req : pc'[q] # pc[q] => q = r /\ pc'[q] \notin Unbegun
      BY <1>g, <1>8 DEF ContinueRefused, Return, clientVars, sessionVars, requestVars, Unbegun
  <2> QED
      BY <1>i, <2>1
<1>9. ASSUME NEW r \in Req, RelayDelta(r) PROVE Begun'
  <2>1. /\ UNCHANGED <<turnOf, mapped, known>>
        /\ \A q \in Req : pc'[q] # pc[q] => q = r /\ pc'[q] \notin Unbegun
      BY <1>g, <1>9 DEF RelayDelta, Return, clientVars, sessionVars, requestVars, Unbegun
  <2> QED
      BY <1>i, <2>1
<1>10. ASSUME NEW r \in Req, RespondToSecurity(r) PROVE Begun'
  <2>1. /\ UNCHANGED <<turnOf, mapped>> /\ known' \subseteq known \cup {r} /\ turnOf[r] \in Starter
        /\ pc'[r] \notin Unbegun /\ \A q \in Req : pc'[q] = pc[q] \/ pc'[q] \notin Unbegun
      BY <1>b, <1>10 DEF RespondToSecurity, Return, Identify, clientVars, sessionVars, requestVars, Unbegun, Working
  <2> QED
      BY <1>i, <2>1
<1>11. ASSUME NEW r \in Req, RespondToTool(r) PROVE Begun'
  <2>1. /\ UNCHANGED <<turnOf, mapped>> /\ known' \subseteq known \cup {r} /\ turnOf[r] \in Starter
        /\ pc'[r] \notin Unbegun /\ \A q \in Req : pc'[q] = pc[q] \/ pc'[q] \notin Unbegun
      BY <1>b, <1>11 DEF RespondToTool, Return, Identify, clientVars, sessionVars, requestVars, Unbegun, Working
  <2> QED
      BY <1>i, <2>1
<1>12. ASSUME NEW r \in Req, RejectUndeclared(r) PROVE Begun'
  <2>1. /\ UNCHANGED <<turnOf, mapped>> /\ known' \subseteq known \cup {r} /\ turnOf[r] \in Starter
        /\ pc'[r] \notin Unbegun /\ \A q \in Req : pc'[q] = pc[q] \/ pc'[q] \notin Unbegun
      BY <1>b, <1>12 DEF RejectUndeclared, Return, Identify, clientVars, sessionVars, requestVars, Unbegun, Working
  <2> QED
      BY <1>i, <2>1
<1>13. ASSUME NEW r \in Req, RespondToEnd(r) PROVE Begun'
  <2>1. /\ RemoveSession(turnOf[r]) /\ turnOf' = turnOf
        /\ \A q \in Req : pc'[q] = pc[q] \/ pc'[q] \notin Unbegun
      BY <1>g, <1>13 DEF RespondToEnd, Return, CleanUp, clientVars, requestVars, Unbegun
  <2> QED
      BY <1>i, <2>1, RemoveStores
<1>14. ASSUME NEW r \in Req, Interrupted(r) PROVE Begun'
  <2>1. /\ RemoveSession(turnOf[r]) /\ turnOf' = turnOf
        /\ \A q \in Req : pc'[q] = pc[q] \/ pc'[q] \notin Unbegun
      BY <1>g, <1>14 DEF Interrupted, Return, CleanUp, clientVars, requestVars, Unbegun
  <2> QED
      BY <1>i, <2>1, RemoveStores
<1>15. ASSUME NEW r \in Req, Aborted(r) PROVE Begun'
  <2>1. /\ RemoveSession(turnOf[r]) /\ turnOf' = turnOf
        /\ \A q \in Req : pc'[q] = pc[q] \/ pc'[q] \notin Unbegun
      BY <1>g, <1>15 DEF Aborted, Return, CleanUp, clientVars, requestVars, Unbegun
  <2> QED
      BY <1>i, <2>1, RemoveStores
<1>16. ASSUME NEW r \in Req, Rejected(r) PROVE Begun'
  <2>1. /\ RemoveSession(turnOf[r]) /\ turnOf' = turnOf
        /\ \A q \in Req : pc'[q] = pc[q] \/ pc'[q] \notin Unbegun
      BY <1>g, <1>16 DEF Rejected, Return, CleanUp, clientVars, requestVars, Unbegun
  <2> QED
      BY <1>i, <2>1, RemoveStores
<1>17. ASSUME NEW r \in Req, DetachedEnds(r) PROVE Begun'
  <2>1. UNCHANGED <<pc, turnOf>> /\ RemoveSession(turnOf[r])
      BY <1>17 DEF DetachedEnds, CleanUp, requestVars
  <2> QED
      BY <1>i, <2>1, RemoveStores
<1>18. ASSUME NEW r \in Req, Drained(r) PROVE Begun'
  <2>1. UNCHANGED <<turnOf, mapped, known>>
      BY <1>18 DEF Drained, clientVars
  <2>2. \A q \in Req : pc'[q] = pc[q] \/ pc'[q] \notin Unbegun
      BY <1>18, DrainedMoves DEF Unbegun
  <2> QED
      BY <1>i, <2>1, <2>2
<1>19. ASSUME NEW r \in Req, Disconnect(r) PROVE Begun'
  <2>1. /\ UNCHANGED <<turnOf, mapped, known>>
        /\ \/ /\ \/ pc[r] \in {"waiting", "reading", "relaying", "interrupting", "rejecting"}
                 \/ pc[r] = "emitting" /\ r \in Relayed
              /\ Abort(r, turnOf[r], session)
           \/ pc' \in {pc, [pc EXCEPT ![r] = "done"]}
      BY <1>19 DEF Disconnect
  <2>2. ASSUME pc[r] \in {"waiting", "reading", "relaying", "interrupting", "rejecting"}
               \/ (pc[r] = "emitting" /\ r \in Relayed)
        PROVE  turnOf[r] \in Starter
      BY <1>b, <2>2 DEF Working, Relayed
  <2>3. CASE pc' \in {pc, [pc EXCEPT ![r] = "done"]}
      BY <1>i, <2>1, <2>3 DEF Unbegun
  <2> QED
      BY <1>j, <2>1, <2>2, <2>3
<1>20. ASSUME NEW r \in Starter, EmitTooLarge(r) PROVE Begun'
  <2>1. /\ turnOf[r] \in Starter /\ r \in Req /\ Abort(r, turnOf[r], session)
        /\ UNCHANGED <<turnOf, mapped, known>>
      BY <1>b, <1>20 DEF EmitTooLarge, clientVars, Working, Relayed
  <2> QED
      BY <1>j, <2>1
<1>21. ASSUME NEW r \in Continuer, ContinuationTooLarge(r) PROVE Begun'
  <2>1. UNCHANGED <<pc, turnOf, mapped, known>>
      BY <1>21 DEF ContinuationTooLarge, clientVars, sessionVars, requestVars
  <2> QED
      BY <1>i, <2>1
<1>22. ASSUME NEW r \in Req, ResponseTimeout(r) PROVE Begun'
  <2>1. /\ turnOf[r] \in Starter /\ r \in Req /\ Abort(r, turnOf[r], session)
        /\ UNCHANGED <<turnOf, mapped, known>>
      BY <1>b, <1>22 DEF ResponseTimeout, clientVars, Working, Relayed
  <2> QED
      BY <1>j, <2>1
<1>23. ASSUME NEW c \in Call, CallExpires(c) PROVE Begun'
  <2>1. UNCHANGED <<pc, turnOf, mapped, known>>
      BY <1>23 DEF CallExpires, clientVars, sessionVars, requestVars
  <2> QED
      BY <1>i, <2>1
<1>24. ASSUME NEW t \in Starter, NEW c \in Call, ToolCalled(t, c) PROVE Begun'
  <2>1. /\ SignalTurn(t, "security") \/ SignalTurn(t, "tool") \/ UNCHANGED <<pc, session>>
        /\ UNCHANGED <<turnOf, mapped, known>>
      BY <1>24 DEF ToolCalled, clientVars
  <2> QED
      BY <1>f, <1>i, <1>k, <2>1
<1>25. ASSUME NEW t \in Starter, Delta(t) PROVE Begun'
  <2>1. SignalTurn(t, "delta") /\ "delta" \in Signal /\ UNCHANGED <<turnOf, mapped, known>>
      BY <1>f, <1>25 DEF Delta, clientVars
  <2> QED
      BY <1>k, <2>1
<1>26. ASSUME NEW t \in Starter, DangerousItem(t) PROVE Begun'
  <2>1. SignalTurn(t, "security") /\ "security" \in Signal /\ UNCHANGED <<turnOf, mapped, known>>
      BY <1>f, <1>26 DEF DangerousItem, clientVars
  <2> QED
      BY <1>k, <2>1
<1>27. ASSUME NEW t \in Starter, NEW status \in {"completed", "failed"}, TurnCompleted(t, status) PROVE Begun'
  <2>1. SignalTurn(t, status) /\ status \in Signal /\ UNCHANGED <<turnOf, mapped, known>>
      BY <1>f, <1>27 DEF TurnCompleted, clientVars
  <2> QED
      BY <1>k, <2>1
<1>28. ASSUME ChildFailure PROVE Begun'
  <2>1. /\ turnOf' = turnOf /\ mapped' \subseteq mapped /\ known' \subseteq known
        /\ \A q \in Req : pc'[q] \in {pc[q], "done", AfterError(q)}
      BY <1>28 DEF ChildFailure, sessionVars
  <2> QED
      BY <1>g, <1>i, <2>1 DEF Unbegun
<1> QED
    BY <1>1, <1>2, <1>3, <1>4, <1>5, <1>6, <1>7, <1>8, <1>9, <1>10, <1>11, <1>12,
       <1>13, <1>14, <1>15, <1>16, <1>17, <1>18, <1>19, <1>20, <1>21, <1>22, <1>23,
       <1>24, <1>25, <1>26, <1>27, <1>28 DEF Next

LEMMA InitPlaced == ASSUME Init PROVE Placed
<1>1. /\ \A t \in Starter : session[t] = NewSession /\ orphan[t] = <<>>
      /\ \A r \in Req : pc[r] = "idle" /\ turnOf[r] = None /\ detached[r] = "none"
      /\ known = {} /\ mapped = {}
    BY StartersAre DEF Init
<1>2. /\ NewSession.waiter = None /\ NewSession.reading = FALSE /\ NewSession.signals = <<>>
    BY DEF NewSession
<1>3. RequestsTyped /\ ClientsTyped
    BY Stations DEF Init, RequestsTyped, Results, ClientsTyped
<1>4. SessionsTyped
  <2>1. SessionsOk(session)
    <3>1. NewSession \in Session /\ Len(NewSession.queue) <= QueueCap
        BY NewSessionTyped, CoordinatorAssumption DEF NewSession
    <3> QED
        BY <1>1, <3>1 DEF Init, SessionsOk
  <2>2. <<>> \in Seq(Signal)
      OBVIOUS
  <2> QED
      BY <2>1, <2>2 DEF Init, SessionsTyped
<1>5. CallsTyped
  <2>1. Cardinality({}) = 0 /\ MaxPending \in Nat
      BY CoordinatorAssumption, FS_EmptySet
  <2> QED
      BY <2>1 DEF Init, CallsTyped
<1>6. TurnsTyped
  <2>1. 0 \in 0..MaxDeltas
      BY CoordinatorAssumption
  <2>2. 0 \in Int
      OBVIOUS
  <2> QED
      BY <2>1, <2>2 DEF Init, TurnsTyped
<1>7. OnTurn
    BY <1>1, StartersAre DEF OnTurn, Working
<1>8. Begun
    BY <1>1, StartersAre DEF Begun
<1>9. Waits
    BY <1>1, <1>2 DEF Waits, WaitsIn
<1>10. DeltasRelayed
    BY <1>1, <1>2, KeptSequences, StartersAre DEF DeltasRelayed
<1> QED
    BY <1>3, <1>4, <1>5, <1>6, <1>7, <1>8, <1>9, <1>10, TypesAreParts DEF Placed, Typed

LEMMA PlacedKept == ASSUME Placed, Next PROVE Placed'
<1>1. RequestsTyped /\ ClientsTyped /\ SessionsTyped /\ CallsTyped /\ TurnsTyped /\ Typed /\ OnTurn
    BY TypesAreParts DEF Placed, Typed
<1>2. RequestsTyped' /\ ClientsTyped' /\ SessionsTyped' /\ CallsTyped' /\ TurnsTyped'
    BY <1>1, RequestsStayTyped, ClientsKept, SessionsStayTyped, CallsStayTyped, TurnsKept
<1> QED
    BY <1>2, TypesArePartsNext, OnTurnKept, BegunKept, WaitsKept, DeltasKept DEF Placed, Typed

LEMMA StutterPlaced == ASSUME Placed, UNCHANGED vars PROVE Placed'
<1>1. /\ UNCHANGED <<up, chunk, pc, key, streams, turnOf, hand, gone, result, listed, detached>>
      /\ UNCHANGED <<known, mapped, session, orphan, pending, callTurn, answer, giver, turn, said, dangerous, unread>>
    BY DEF vars, requestVars, clientVars, sessionVars, callVars, turnVars
<1>2. TypeOK'
    BY <1>1 DEF Placed, Typed, TypeOK
<1>3. OnTurn' /\ Begun'
    BY <1>1 DEF Placed, Typed, OnTurn, Begun, Relayed
<1>4. Waits' /\ DeltasRelayed'
    BY <1>1 DEF Placed, Waits, WaitsIn, DeltasRelayed, Relayed
<1> QED
    BY <1>2, <1>3, <1>4 DEF Placed, Typed

LEMMA AlwaysPlaced == Spec => []Placed
<1>1. Placed /\ [Next]_vars => Placed'
    BY PlacedKept, StutterPlaced
<1> QED
    BY <1>1, InitPlaced, PTL DEF Spec

\* The types of the coordinator, for any requests, calls and bounds; among them that the broker
\* never holds more than maxPendingCalls and a stream's queue more than its 64 signals.
THEOREM TypeCorrect == Spec => []TypeOK
<1>1. Placed => TypeOK
    BY DEF Placed, Typed
<1> QED
    BY <1>1, AlwaysPlaced, PTL

-----------------------------------------------------------------------------
(* Calls and their answers *)

LEMMA CallsStayInOrder == ASSUME Placed, CallsInOrder, Next PROVE CallsInOrder'
<1>0. /\ pc \in [Req -> PcValues] /\ turnOf \in [Req -> Starter \cup {None}] /\ known \subseteq Req
      /\ listed \in [Req -> SUBSET Call] /\ callTurn \in [Call -> Starter \cup {None}]
      /\ pending \subseteq Call /\ giver \in [Call -> Req \cup {None}]
      /\ answer \in [Call -> {"none", "client", "failed", "expired", "rejected"}]
    BY TypesAreParts DEF Placed, Typed, RequestsTyped, ClientsTyped, SessionsTyped, CallsTyped
<1>a. CallsInOrder
    OBVIOUS
<1>b. /\ \A q \in Req : pc[q] \in Working => turnOf[q] \in Starter
      /\ \A q \in Starter : pc[q] # "idle" => turnOf[q] = q
      /\ \A q \in Req : pc[q] \in {"created", "reading", "relaying"} => q \in Starter /\ turnOf[q] = q
      /\ \A q \in Req : q \in known => turnOf[q] \in Starter
    BY WaitsFacts
<1>f. {"tool", "security", "delta", "completed", "failed"} \subseteq Signal
    BY DEF Signal
<1>g. \A r : AfterError(r) \in {"emitting", "done"}
    BY DEF AfterError
<1>i. ASSUME UNCHANGED <<key, turnOf, listed, callVars>>,
             \A q \in Req : pc'[q] = pc[q] \/ pc'[q] # "idle"
      PROVE  CallsInOrder'
    BY <1>a, <1>i DEF CallsInOrder, callVars
<1>h. ASSUME UNCHANGED <<key, turnOf, listed>>, \A q \in Req : pc'[q] = pc[q] \/ pc'[q] # "idle",
             NEW cs \in SUBSET pending, NEW how \in {"failed", "expired"}, Resolve(cs, how, None)
      PROVE  CallsInOrder'
  <2>1. /\ pending' = pending \ cs /\ callTurn' = callTurn
        /\ \A c \in Call \ cs : answer'[c] = answer[c] /\ giver'[c] = giver[c]
        /\ \A c \in cs : c \in Call /\ answer'[c] = how
      BY <1>0, <1>h DEF Resolve
  <2>2. \A c \in cs : callTurn[c] # None
      BY <1>a, <2>1 DEF CallsInOrder
  <2> QED
      BY <1>a, <1>h, <2>1, <2>2 DEF CallsInOrder
<1>l. \A t : ListForTurn(t) \in SUBSET pending
    BY DEF ListForTurn
<1>c. ASSUME UNCHANGED <<key, listed>>, \A q \in Req : pc'[q] = pc[q] \/ pc'[q] # "idle",
             \A q \in Req : turnOf'[q] = turnOf[q] \/ (listed[q] = {} /\ pc'[q] # "idle"),
             NEW t \in Starter, NEW r \in Req, key[t] = key[r],
             NEW cs \in SUBSET Shown, cs \subseteq ListForTurn(t), Resolve(cs, "client", r)
      PROVE  CallsInOrder'
  <2>1. /\ pending' = pending \ cs /\ callTurn' = callTurn
        /\ \A c \in Call \ cs : answer'[c] = answer[c] /\ giver'[c] = giver[c]
        /\ \A c \in cs : c \in Call /\ c \in pending /\ answer'[c] = "client" /\ giver'[c] = r /\ callTurn[c] = t
      BY <1>0, <1>c DEF Resolve, ListForTurn
  <2>2. \A c \in cs : c \notin Undeclared
      BY <1>a, <1>c DEF CallsInOrder, Shown
  <2>3. t # None
      BY StartersAre
  <2> QED
      BY <1>a, <1>c, <2>1, <2>2, <2>3 DEF CallsInOrder
<1>j. ASSUME NEW r \in Req, turnOf[r] \in Starter, Abort(r, turnOf[r], session), NEW q \in Req
      PROVE  pc'[q] = pc[q] \/ pc'[q] # "idle"
    BY <1>j, AbortMoves
<1>k. ASSUME NEW t \in Starter, NEW s \in Signal, SignalTurn(t, s), NEW q \in Req
      PROVE  pc'[q] = pc[q] \/ pc'[q] # "idle"
    BY <1>k, SignalMoves
<1> USE <1>0, StartersAre
<1>1. ASSUME NEW r \in Starter, Start(r) PROVE CallsInOrder'
  <2>1. /\ pc[r] = "idle" /\ pc' = [pc EXCEPT ![r] = "starting"] /\ UNCHANGED <<listed, key, callVars>>
        /\ turnOf' = [turnOf EXCEPT ![r] = r]
      BY <1>1 DEF Start
  <2>2. /\ \A q \in Req \ {r} : pc'[q] = pc[q] /\ turnOf'[q] = turnOf[q]
        /\ pc'[r] # "idle" /\ listed[r] = {}
      BY <1>a, <2>1 DEF CallsInOrder
  <2> QED
      BY <1>a, <2>1, <2>2 DEF CallsInOrder, callVars
<1>2. ASSUME NEW r \in Starter, TurnStarts(r) PROVE CallsInOrder'
  <2>1. UNCHANGED <<pc, key, turnOf, listed, callVars>>
      BY <1>2 DEF TurnStarts, clientVars, sessionVars, requestVars
  <2> QED
      BY <1>i, <2>1
<1>3. ASSUME NEW r \in Starter, TurnStartAnswered(r) PROVE CallsInOrder'
  <2>1. /\ UNCHANGED <<key, turnOf, listed, callVars>>
        /\ \A q \in Req : pc'[q] = pc[q] \/ pc'[q] # "idle"
      BY <1>g, <1>3 DEF TurnStartAnswered, Return, clientVars, sessionVars, requestVars
  <2> QED
      BY <1>i, <2>1
<1>4. ASSUME NEW r \in Starter, StartFails(r) PROVE CallsInOrder'
  <2>1. /\ UNCHANGED <<key, turnOf, listed, callVars>>
        /\ \A q \in Req : pc'[q] = pc[q] \/ pc'[q] # "idle"
      BY <1>g, <1>4 DEF StartFails, Return, clientVars, sessionVars, requestVars
  <2> QED
      BY <1>i, <2>1
<1>5. ASSUME NEW r \in Starter, BeginSession(r) PROVE CallsInOrder'
  <2>1. UNCHANGED <<key, turnOf, listed, callVars>>
      BY <1>5, BeginSessionIs DEF clientVars
  <2>2. \A q \in Req : pc'[q] = pc[q] \/ pc'[q] # "idle"
      BY <1>5, BeginningMoves
  <2> QED
      BY <1>i, <2>1, <2>2
<1>6. ASSUME NEW r \in Continuer, NEW p \in Req, NEW outputs \in SUBSET Shown, Continue(r, p, outputs) PROVE CallsInOrder'
  <2>1. /\ p \in known /\ turnOf[p] \in Starter /\ NextSignal(r, turnOf[p], session) /\ pc[r] = "idle"
        /\ turnOf' = [turnOf EXCEPT ![r] = turnOf[p]] /\ UNCHANGED <<key, listed>> /\ r \in Req
        /\ key[turnOf[p]] = key[r] /\ outputs \subseteq ListForTurn(turnOf[p])
        /\ Resolve(outputs, "client", r)
      BY <1>b, <1>6 DEF Continue, MayContinue
  <2>2. /\ \A q \in Req : pc'[q] = pc[q] \/ pc'[q] # "idle"
        /\ pc'[r] # "idle"
      BY <2>1, NextSignalMoves
  <2>3. listed[r] = {} /\ \A q \in Req \ {r} : turnOf'[q] = turnOf[q]
      BY <1>a, <2>1 DEF CallsInOrder
  <2>4. \A q \in Req : turnOf'[q] = turnOf[q] \/ (listed[q] = {} /\ pc'[q] # "idle")
      BY <2>2, <2>3
  <2> QED
      BY <1>c, <2>1, <2>2, <2>4
<1>7. ASSUME NEW r \in Continuer, NEW p \in Req, NEW outputs \in SUBSET Shown,
            NEW answered \in SUBSET outputs, ContinueTooLarge(r, p, outputs, answered) PROVE CallsInOrder'
  <2>1. /\ turnOf[p] \in Starter /\ UNCHANGED <<turnOf, key, listed>> /\ r \in Req
        /\ key[turnOf[p]] = key[r] /\ answered \subseteq ListForTurn(turnOf[p])
        /\ answered \in SUBSET Shown /\ Resolve(answered, "client", r)
      BY <1>b, <1>7 DEF ContinueTooLarge, MayContinue, clientVars
  <2>2. \A q \in Req : pc'[q] = pc[q] \/ pc'[q] # "idle"
      BY <1>g, <1>7 DEF ContinueTooLarge
  <2> QED
      BY <1>c, <2>1, <2>2
<1>8. ASSUME NEW r \in Continuer, ContinueRefused(r) PROVE CallsInOrder'
  <2>1. /\ UNCHANGED <<key, turnOf, listed, callVars>>
        /\ \A q \in Req : pc'[q] = pc[q] \/ pc'[q] # "idle"
      BY <1>g, <1>8 DEF ContinueRefused, Return, clientVars, sessionVars, requestVars
  <2> QED
      BY <1>i, <2>1
<1>9. ASSUME NEW r \in Req, RelayDelta(r) PROVE CallsInOrder'
  <2>1. /\ UNCHANGED <<key, turnOf, listed, callVars>>
        /\ \A q \in Req : pc'[q] = pc[q] \/ pc'[q] # "idle"
      BY <1>g, <1>9 DEF RelayDelta, Return, clientVars, sessionVars, requestVars
  <2> QED
      BY <1>i, <2>1
<1>10. ASSUME NEW r \in Req, RespondToSecurity(r) PROVE CallsInOrder'
  <2>1. /\ UNCHANGED <<key, turnOf, listed, callVars>>
        /\ \A q \in Req : pc'[q] = pc[q] \/ pc'[q] # "idle"
      BY <1>g, <1>10 DEF RespondToSecurity, Return, clientVars, sessionVars, requestVars
  <2> QED
      BY <1>i, <2>1
<1>11. ASSUME NEW r \in Req, RespondToTool(r) PROVE CallsInOrder'
  <2>1. /\ UNCHANGED <<key, turnOf, callVars>> /\ turnOf[r] \in Starter /\ pc'[r] # "idle"
        /\ listed' = [listed EXCEPT ![r] = ListForTurn(turnOf[r])]
        /\ ListForTurn(turnOf[r]) \cap Undeclared = {} /\ \A q \in Req : pc'[q] = pc[q] \/ pc'[q] # "idle"
      BY <1>b, <1>11 DEF RespondToTool, Return, clientVars, Working
  <2> QED
      BY <1>a, <2>1 DEF CallsInOrder, ListForTurn, callVars
<1>12. ASSUME NEW r \in Req, RejectUndeclared(r) PROVE CallsInOrder'
  <2>1. /\ UNCHANGED <<key, turnOf, listed, callVars>>
        /\ \A q \in Req : pc'[q] = pc[q] \/ pc'[q] # "idle"
      BY <1>g, <1>12 DEF RejectUndeclared, Return, clientVars, sessionVars, requestVars
  <2> QED
      BY <1>i, <2>1
<1>13. ASSUME NEW r \in Req, RespondToEnd(r) PROVE CallsInOrder'
  <2>1. /\ UNCHANGED <<key, turnOf, listed, callVars>>
        /\ \A q \in Req : pc'[q] = pc[q] \/ pc'[q] # "idle"
      BY <1>g, <1>13 DEF RespondToEnd, Return, clientVars, sessionVars, requestVars
  <2> QED
      BY <1>i, <2>1
<1>14. ASSUME NEW r \in Req, Interrupted(r) PROVE CallsInOrder'
  <2>1. /\ UNCHANGED <<key, turnOf, listed, callVars>>
        /\ \A q \in Req : pc'[q] = pc[q] \/ pc'[q] # "idle"
      BY <1>g, <1>14 DEF Interrupted, Return, clientVars, sessionVars, requestVars
  <2> QED
      BY <1>i, <2>1
<1>15. ASSUME NEW r \in Req, Aborted(r) PROVE CallsInOrder'
  <2>1. /\ Resolve(ListForTurn(turnOf[r]), "failed", None) /\ UNCHANGED <<key, turnOf, listed>>
        /\ \A q \in Req : pc'[q] = pc[q] \/ pc'[q] # "idle"
      BY <1>g, <1>15 DEF Aborted, Return, CleanUp, clientVars, sessionVars, requestVars
  <2> QED
      BY <1>h, <1>l, <2>1
<1>16. ASSUME NEW r \in Req, Rejected(r) PROVE CallsInOrder'
  <2>1. /\ Resolve(ListForTurn(turnOf[r]), "failed", None) /\ UNCHANGED <<key, turnOf, listed>>
        /\ \A q \in Req : pc'[q] = pc[q] \/ pc'[q] # "idle"
      BY <1>g, <1>16 DEF Rejected, Return, CleanUp, clientVars, sessionVars, requestVars
  <2> QED
      BY <1>h, <1>l, <2>1
<1>17. ASSUME NEW r \in Req, DetachedEnds(r) PROVE CallsInOrder'
  <2>1. UNCHANGED <<pc, key, turnOf, listed>>
      BY <1>17 DEF DetachedEnds, requestVars
  <2>2. Resolve(ListForTurn(turnOf[r]), "failed", None) \/ UNCHANGED callVars
      BY <1>17 DEF DetachedEnds, CleanUp
  <2> QED
      BY <1>h, <1>i, <1>l, <2>1, <2>2
<1>18. ASSUME NEW r \in Req, Drained(r) PROVE CallsInOrder'
  <2>1. UNCHANGED <<key, turnOf, listed, callVars>>
      BY <1>18 DEF Drained, clientVars
  <2>2. \A q \in Req : pc'[q] = pc[q] \/ pc'[q] # "idle"
      BY <1>18, DrainedMoves
  <2> QED
      BY <1>i, <2>1, <2>2
<1>19. ASSUME NEW r \in Req, Disconnect(r) PROVE CallsInOrder'
  <2>1. /\ UNCHANGED <<key, turnOf, listed, callVars>>
        /\ \/ /\ \/ pc[r] \in {"waiting", "reading", "relaying", "interrupting", "rejecting"}
                 \/ pc[r] = "emitting" /\ r \in Relayed
              /\ Abort(r, turnOf[r], session)
           \/ pc' \in {pc, [pc EXCEPT ![r] = "done"]}
      BY <1>19 DEF Disconnect
  <2>2. ASSUME pc[r] \in {"waiting", "reading", "relaying", "interrupting", "rejecting"}
               \/ (pc[r] = "emitting" /\ r \in Relayed)
        PROVE  turnOf[r] \in Starter
      BY <1>b, <2>2 DEF Working, Relayed
  <2>3. CASE pc' \in {pc, [pc EXCEPT ![r] = "done"]}
      BY <1>i, <2>1, <2>3
  <2> QED
      BY <1>i, <1>j, <2>1, <2>2, <2>3
<1>20. ASSUME NEW r \in Starter, EmitTooLarge(r) PROVE CallsInOrder'
  <2>1. /\ turnOf[r] \in Starter /\ r \in Req /\ Abort(r, turnOf[r], session)
        /\ UNCHANGED <<key, turnOf, listed, callVars>>
      BY <1>b, <1>20 DEF EmitTooLarge, clientVars, Working, Relayed
  <2> QED
      BY <1>i, <1>j, <2>1
<1>21. ASSUME NEW r \in Continuer, ContinuationTooLarge(r) PROVE CallsInOrder'
  <2>1. UNCHANGED <<key, turnOf, pc, callVars>> /\ listed' = [listed EXCEPT ![r] = {}]
      BY <1>21 DEF ContinuationTooLarge, clientVars
  <2> QED
      BY <1>a, <2>1 DEF CallsInOrder, callVars
<1>22. ASSUME NEW r \in Req, ResponseTimeout(r) PROVE CallsInOrder'
  <2>1. /\ turnOf[r] \in Starter /\ r \in Req /\ Abort(r, turnOf[r], session)
        /\ UNCHANGED <<key, turnOf, listed, callVars>>
      BY <1>b, <1>22 DEF ResponseTimeout, clientVars, Working, Relayed
  <2> QED
      BY <1>i, <1>j, <2>1
<1>23. ASSUME NEW c \in Call, CallExpires(c) PROVE CallsInOrder'
  <2>1. Resolve({c}, "expired", None) /\ {c} \subseteq pending /\ UNCHANGED <<pc, key, turnOf, listed>>
      BY <1>23 DEF CallExpires, clientVars, requestVars
  <2> QED
      BY <1>h, <2>1
<1>24. ASSUME NEW t \in Starter, NEW c \in Call, ToolCalled(t, c) PROVE CallsInOrder'
  <2>1. /\ SignalTurn(t, "security") \/ SignalTurn(t, "tool") \/ UNCHANGED pc
        /\ UNCHANGED <<key, turnOf, listed, giver>>
        /\ callTurn[c] = None /\ callTurn' = [callTurn EXCEPT ![c] = t]
        /\ \/ answer' = [answer EXCEPT ![c] = "rejected"] /\ pending' = pending
           \/ answer' = [answer EXCEPT ![c] = "failed"] /\ pending' = pending
           \/ answer' = answer /\ pending' = pending \cup {c}
      BY <1>24 DEF ToolCalled, clientVars
  <2>2. \A q \in Req : pc'[q] = pc[q] \/ pc'[q] # "idle"
      BY <1>f, <1>k, <2>1
  <2>3. /\ answer[c] = "none" /\ c \notin pending /\ t # None
        /\ \A q \in Req : c \notin listed[q]
      BY <1>a, <2>1 DEF CallsInOrder
  <2>4. /\ callTurn'[c] = t /\ \A d \in Call \ {c} : callTurn'[d] = callTurn[d] /\ answer'[d] = answer[d]
        /\ \/ answer'[c] \in {"rejected", "failed"} /\ pending' = pending
           \/ answer'[c] = "none" /\ pending' = pending \cup {c}
      BY <2>1, <2>3
  <2> QED
      BY <1>a, <2>1, <2>2, <2>3, <2>4 DEF CallsInOrder
<1>25. ASSUME NEW t \in Starter, Delta(t) PROVE CallsInOrder'
  <2>1. SignalTurn(t, "delta") /\ "delta" \in Signal /\ UNCHANGED <<key, turnOf, listed, callVars>>
      BY <1>f, <1>25 DEF Delta, clientVars
  <2> QED
      BY <1>i, <1>k, <2>1
<1>26. ASSUME NEW t \in Starter, DangerousItem(t) PROVE CallsInOrder'
  <2>1. SignalTurn(t, "security") /\ "security" \in Signal /\ UNCHANGED <<key, turnOf, listed, callVars>>
      BY <1>f, <1>26 DEF DangerousItem, clientVars
  <2> QED
      BY <1>i, <1>k, <2>1
<1>27. ASSUME NEW t \in Starter, NEW status \in {"completed", "failed"}, TurnCompleted(t, status) PROVE CallsInOrder'
  <2>1. SignalTurn(t, status) /\ status \in Signal /\ UNCHANGED <<key, turnOf, listed, callVars>>
      BY <1>f, <1>27 DEF TurnCompleted, clientVars
  <2> QED
      BY <1>i, <1>k, <2>1
<1>28. ASSUME ChildFailure PROVE CallsInOrder'
  <2>1. /\ UNCHANGED <<key, turnOf, listed>> /\ Resolve(pending, "failed", None)
        /\ \A q \in Req : pc'[q] \in {pc[q], "done", AfterError(q)}
      BY <1>28 DEF ChildFailure
  <2> QED
      BY <1>g, <1>h, <2>1
<1> QED
    BY <1>1, <1>2, <1>3, <1>4, <1>5, <1>6, <1>7, <1>8, <1>9, <1>10, <1>11, <1>12,
       <1>13, <1>14, <1>15, <1>16, <1>17, <1>18, <1>19, <1>20, <1>21, <1>22, <1>23,
       <1>24, <1>25, <1>26, <1>27, <1>28 DEF Next

-----------------------------------------------------------------------------
(* Sessions and their owners *)

LEMMA OwnedKept == ASSUME Placed, Owned, Next PROVE Owned'
<1>0. /\ pc \in [Req -> PcValues] /\ result \in [Req -> Results]
      /\ SessionsTyped /\ mapped \subseteq Starter /\ OnTurn
      /\ detached \in [Req -> {"none", "security", "undeclared"}]
    BY TypesAreParts DEF Placed, Typed, RequestsTyped, ClientsTyped, SessionsTyped
<1>a. Owned
    OBVIOUS
<1>b. /\ \A q \in Req : pc[q] \in Working => turnOf[q] \in Starter
      /\ \A q \in Starter : pc[q] # "idle" => turnOf[q] = q
      /\ \A q \in Req : pc[q] \in {"created", "reading", "relaying"} => q \in Starter /\ turnOf[q] = q
      /\ \A q \in Req : q \in known => turnOf[q] \in Starter
      /\ \A t \in Starter : pc[t] \in Unbegun => t \notin mapped
    BY WaitsFacts
<1>f. {"tool", "security", "delta", "completed", "failed"} \subseteq Signal
    BY DEF Signal
<1>i. ASSUME streams' = streams, mapped' \subseteq mapped,
             \A t \in mapped' \ Relayed :
                \/ pc'[t] \notin {"idle", "done", "hung"} \/ result'[t] \in {"tool", "empty"}
                \/ pc'[t] = pc[t] /\ result'[t] = result[t] /\ (detached'[t] = detached[t] \/ detached'[t] # "none")
      PROVE  Owned'
    BY <1>a, <1>i DEF Owned, Live, Relayed
\* Whoever removes a session removes its own: the starter that ends holds it no longer.
<1>h. ASSUME NEW r \in Req, turnOf[r] \in Starter, RemoveSession(turnOf[r]), streams' = streams,
             \A q \in Req \ {r} : pc'[q] = pc[q] /\ result'[q] = result[q] /\ detached'[q] = detached[q]
      PROVE  Owned'
  <2>1. mapped' = mapped \ {turnOf[r]}
      BY <1>h DEF RemoveSession
  <2>2. r \in mapped => turnOf[r] = r
      BY <1>0, <1>b, <1>h DEF Unbegun
  <2> QED
      BY <1>0, <1>h, <1>i, <2>1, <2>2, StartersAre
<1>j. ASSUME NEW r \in Req, turnOf[r] \in Starter, Abort(r, turnOf[r], session), NEW q \in Req
      PROVE  pc'[q] = pc[q] \/ pc'[q] = "aborting"
    BY <1>j, AbortMoves
<1>k. ASSUME NEW t \in Starter, NEW s \in Signal, SignalTurn(t, s), NEW q \in Req
      PROVE  pc'[q] = pc[q] \/ pc'[q] = "woken"
    BY <1>k, SignalMoves
<1> USE <1>0, StartersAre
<1>1. ASSUME NEW r \in Starter, Start(r) PROVE Owned'
  <2>1. /\ UNCHANGED <<streams, mapped, detached>> /\ r \notin mapped
        /\ \A q \in Req \ {r} : pc'[q] = pc[q] /\ result'[q] = result[q]
      BY <1>b, <1>1 DEF Start, Return, clientVars, sessionVars, requestVars, Unbegun
  <2> QED
      BY <1>i, <2>1
<1>2. ASSUME NEW r \in Starter, TurnStarts(r) PROVE Owned'
  <2>1. UNCHANGED <<pc, streams, mapped, detached, result>>
      BY <1>2 DEF TurnStarts, clientVars, sessionVars, requestVars
  <2> QED
      BY <1>i, <2>1
<1>3. ASSUME NEW r \in Starter, TurnStartAnswered(r) PROVE Owned'
  <2>1. /\ UNCHANGED <<streams, mapped, detached>> /\ r \notin mapped
        /\ \A q \in Req \ {r} : pc'[q] = pc[q] /\ result'[q] = result[q]
      BY <1>b, <1>3 DEF TurnStartAnswered, Return, clientVars, sessionVars, requestVars, Unbegun
  <2> QED
      BY <1>i, <2>1
<1>4. ASSUME NEW r \in Starter, StartFails(r) PROVE Owned'
  <2>1. /\ UNCHANGED <<streams, mapped, detached>> /\ r \notin mapped
        /\ \A q \in Req \ {r} : pc'[q] = pc[q] /\ result'[q] = result[q]
      BY <1>b, <1>4 DEF StartFails, Return, clientVars, sessionVars, requestVars, Unbegun
  <2> QED
      BY <1>i, <2>1
<1>5. ASSUME NEW r \in Starter, BeginSession(r) PROVE Owned'
  <2>1. UNCHANGED <<streams, detached, result>> /\ mapped' = mapped \cup {r}
      BY <1>5, BeginSessionIs DEF clientVars
  <2>2. \A q \in Req \ {r} : pc'[q] = pc[q]
      BY <1>5, BeginningMoves
  <2>3. r \in Relayed \/ pc'[r] \in {"waiting", "aborting", "woken"}
      BY <1>5, BeginningMoves DEF Relayed
  <2> QED
      BY <1>a, <2>1, <2>2, <2>3 DEF Owned, Live, Relayed
<1>6. ASSUME NEW r \in Continuer, NEW p \in Req, NEW outputs \in SUBSET Shown, Continue(r, p, outputs) PROVE Owned'
  <2>1. /\ turnOf[p] \in Starter /\ NextSignal(r, turnOf[p], session)
        /\ UNCHANGED <<streams, mapped, detached, result>>
      BY <1>b, <1>6 DEF Continue, MayContinue
  <2>2. \A q \in Req \ {r} : pc'[q] = pc[q] \/ pc'[q] = "aborting"
      BY <2>1, NextSignalMoves
  <2> QED
      BY <1>i, <2>1, <2>2
<1>7. ASSUME NEW r \in Continuer, NEW p \in Req, NEW outputs \in SUBSET Shown,
            NEW answered \in SUBSET outputs, ContinueTooLarge(r, p, outputs, answered) PROVE Owned'
  <2>1. /\ UNCHANGED <<streams, mapped, detached>> /\ r \notin mapped
        /\ \A q \in Req \ {r} : pc'[q] = pc[q] /\ result'[q] = result[q]
      BY <1>b, <1>7 DEF ContinueTooLarge, Return, clientVars, sessionVars, requestVars, Unbegun
  <2> QED
      BY <1>i, <2>1
<1>8. ASSUME NEW r \in Continuer, ContinueRefused(r) PROVE Owned'
  <2>1. /\ UNCHANGED <<streams, mapped, detached>> /\ r \notin mapped
        /\ \A q \in Req \ {r} : pc'[q] = pc[q] /\ result'[q] = result[q]
      BY <1>b, <1>8 DEF ContinueRefused, Return, clientVars, sessionVars, requestVars, Unbegun
  <2> QED
      BY <1>i, <2>1
<1>9. ASSUME NEW r \in Req, RelayDelta(r) PROVE Owned'
  <2>1. r \in Relayed
      BY <1>9 DEF RelayDelta, Placed, DeltasRelayed
  <2>2. /\ UNCHANGED <<streams, mapped, detached, result>>
        /\ \A q \in Req \ {r} : pc'[q] = pc[q]
      BY <1>9 DEF RelayDelta, clientVars, sessionVars
  <2> QED
      BY <1>i, <2>1, <2>2
<1>10. ASSUME NEW r \in Req, RespondToSecurity(r) PROVE Owned'
  <2>1. /\ UNCHANGED <<streams, mapped, detached>>
        /\ (pc'[r] \notin {"idle", "done", "hung"} \/ result'[r] \in {"tool", "empty"})
        /\ \A q \in Req \ {r} : result'[q] = result[q] /\ (pc'[q] = pc[q] \/ pc'[q] = "aborting")
      BY <1>10 DEF RespondToSecurity, Return, clientVars, sessionVars, requestVars
  <2> QED
      BY <1>i, <2>1
<1>11. ASSUME NEW r \in Req, RespondToTool(r) PROVE Owned'
  <2>1. /\ UNCHANGED <<streams, mapped, detached>>
        /\ (pc'[r] \notin {"idle", "done", "hung"} \/ result'[r] \in {"tool", "empty"})
        /\ \A q \in Req \ {r} : result'[q] = result[q] /\ (pc'[q] = pc[q] \/ pc'[q] = "aborting")
      BY <1>11 DEF RespondToTool, Return, clientVars, sessionVars, requestVars
  <2> QED
      BY <1>i, <2>1
<1>12. ASSUME NEW r \in Req, RejectUndeclared(r) PROVE Owned'
  <2>1. /\ UNCHANGED <<streams, mapped, detached>>
        /\ (pc'[r] \notin {"idle", "done", "hung"} \/ result'[r] \in {"tool", "empty"})
        /\ \A q \in Req \ {r} : result'[q] = result[q] /\ (pc'[q] = pc[q] \/ pc'[q] = "aborting")
      BY <1>12 DEF RejectUndeclared, Return, clientVars, sessionVars, requestVars
  <2> QED
      BY <1>i, <2>1
<1>13. ASSUME NEW r \in Req, RespondToEnd(r) PROVE Owned'
  <2>1. /\ RemoveSession(turnOf[r]) /\ turnOf[r] \in Starter /\ UNCHANGED <<streams, detached>>
        /\ \A q \in Req \ {r} : pc'[q] = pc[q] /\ result'[q] = result[q]
      BY <1>b, <1>13 DEF RespondToEnd, Return, CleanUp, clientVars, sessionVars, requestVars, Working
  <2> QED
      BY <1>h, <2>1
<1>14. ASSUME NEW r \in Req, Interrupted(r) PROVE Owned'
  <2>1. /\ RemoveSession(turnOf[r]) /\ turnOf[r] \in Starter /\ UNCHANGED <<streams, detached>>
        /\ \A q \in Req \ {r} : pc'[q] = pc[q] /\ result'[q] = result[q]
      BY <1>b, <1>14 DEF Interrupted, Return, CleanUp, clientVars, sessionVars, requestVars, Working
  <2> QED
      BY <1>h, <2>1
<1>15. ASSUME NEW r \in Req, Aborted(r) PROVE Owned'
  <2>1. /\ RemoveSession(turnOf[r]) /\ turnOf[r] \in Starter /\ UNCHANGED <<streams, detached>>
        /\ \A q \in Req \ {r} : pc'[q] = pc[q] /\ result'[q] = result[q]
      BY <1>b, <1>15 DEF Aborted, Return, CleanUp, clientVars, sessionVars, requestVars, Working
  <2> QED
      BY <1>h, <2>1
<1>16. ASSUME NEW r \in Req, Rejected(r) PROVE Owned'
  <2>1. /\ RemoveSession(turnOf[r]) /\ turnOf[r] \in Starter /\ UNCHANGED <<streams, detached>>
        /\ \A q \in Req \ {r} : pc'[q] = pc[q] /\ result'[q] = result[q]
      BY <1>b, <1>16 DEF Rejected, Return, CleanUp, clientVars, sessionVars, requestVars, Working
  <2> QED
      BY <1>h, <2>1
<1>17. ASSUME NEW r \in Req, DetachedEnds(r) PROVE Owned'
  <2>1. /\ RemoveSession(turnOf[r]) /\ turnOf[r] \in Starter /\ UNCHANGED <<streams, pc, result>>
        /\ \A q \in Req \ {r} : detached'[q] = detached[q]
      BY <1>17 DEF DetachedEnds, CleanUp, requestVars, OnTurn
  <2> QED
      BY <1>h, <2>1
<1>18. ASSUME NEW r \in Req, Drained(r) PROVE Owned'
  <2>1. UNCHANGED <<streams, mapped, detached, result>> /\ r \in streams
      BY <1>18 DEF Drained, clientVars, OnTurn, Relayed
  <2>2. \A q \in Req \ {r} : pc'[q] = pc[q]
      BY <1>18, DrainedMoves
  <2> QED
      BY <1>i, <2>1, <2>2 DEF Relayed
<1>19. ASSUME NEW r \in Req, Disconnect(r) PROVE Owned'
  <2>1. /\ UNCHANGED <<streams, mapped>>
        /\ \/ /\ \/ pc[r] \in {"waiting", "reading", "relaying", "interrupting", "rejecting"}
                 \/ pc[r] = "emitting" /\ r \in Relayed
              /\ Abort(r, turnOf[r], session) /\ UNCHANGED result
           \/ /\ pc[r] \in {"created", "emitting"}
              /\ pc' = [pc EXCEPT ![r] = "done"] /\ result' = [result EXCEPT ![r] = Undelivered(r)]
           \/ UNCHANGED <<pc, result>>
      BY <1>19 DEF Disconnect
  <2>2. /\ \A q \in Req \ {r} : detached'[q] = detached[q]
        /\ detached'[r] = detached[r] \/ detached'[r] # "none"
      BY <1>19 DEF Disconnect
  <2>3. CASE UNCHANGED <<pc, result>>
      BY <1>a, <2>1, <2>2, <2>3 DEF Owned, Live, Relayed
  <2>4. CASE /\ pc[r] \in {"created", "emitting"}
             /\ pc' = [pc EXCEPT ![r] = "done"] /\ result' = [result EXCEPT ![r] = Undelivered(r)]
    <3>1. r \in streams
        BY <2>4 DEF OnTurn, Relayed
    <3> QED
        BY <1>i, <2>1, <2>2, <2>4, <3>1 DEF Relayed
  <2>5. CASE /\ \/ pc[r] \in {"waiting", "reading", "relaying", "interrupting", "rejecting"}
                \/ pc[r] = "emitting" /\ r \in Relayed
             /\ Abort(r, turnOf[r], session) /\ UNCHANGED result
    <3>1. turnOf[r] \in Starter
        BY <1>b, <2>5 DEF Working, Relayed
    <3>2. pc'[r] = "aborting" /\ \A q \in Req : pc'[q] = pc[q] \/ pc'[q] = "aborting"
        BY <2>5, <3>1, AbortMoves
    <3> QED
        BY <1>i, <2>1, <2>2, <2>5, <3>2
  <2> QED
      BY <2>1, <2>3, <2>4, <2>5
<1>20. ASSUME NEW r \in Starter, EmitTooLarge(r) PROVE Owned'
  <2>1. /\ turnOf[r] \in Starter /\ r \in Req /\ Abort(r, turnOf[r], session)
        /\ UNCHANGED <<streams, mapped, detached, result>>
      BY <1>b, <1>20 DEF EmitTooLarge, clientVars, Working, Relayed
  <2> QED
      BY <1>i, <1>j, <2>1
<1>21. ASSUME NEW r \in Continuer, ContinuationTooLarge(r) PROVE Owned'
  <2>1. /\ UNCHANGED <<streams, mapped, detached, pc>>
        /\ \A q \in Req \ {r} : result'[q] = result[q]
      BY <1>21 DEF ContinuationTooLarge, clientVars, sessionVars
  <2> QED
      BY <1>i, <2>1
<1>22. ASSUME NEW r \in Req, ResponseTimeout(r) PROVE Owned'
  <2>1. /\ turnOf[r] \in Starter /\ r \in Req /\ Abort(r, turnOf[r], session)
        /\ UNCHANGED <<streams, mapped, detached, result>>
      BY <1>b, <1>22 DEF ResponseTimeout, clientVars, Working, Relayed
  <2> QED
      BY <1>i, <1>j, <2>1
<1>23. ASSUME NEW c \in Call, CallExpires(c) PROVE Owned'
  <2>1. UNCHANGED <<pc, streams, mapped, detached, result>>
      BY <1>23 DEF CallExpires, clientVars, sessionVars, requestVars
  <2> QED
      BY <1>i, <2>1
<1>24. ASSUME NEW t \in Starter, NEW c \in Call, ToolCalled(t, c) PROVE Owned'
  <2>1. /\ SignalTurn(t, "security") \/ SignalTurn(t, "tool") \/ UNCHANGED pc
        /\ UNCHANGED <<streams, mapped, detached, result>>
      BY <1>24 DEF ToolCalled, clientVars
  <2> QED
      BY <1>f, <1>i, <1>k, <2>1
<1>25. ASSUME NEW t \in Starter, Delta(t) PROVE Owned'
  <2>1. SignalTurn(t, "delta") /\ "delta" \in Signal /\ UNCHANGED <<streams, mapped, detached, result>>
      BY <1>f, <1>25 DEF Delta, clientVars
  <2> QED
      BY <1>i, <1>k, <2>1
<1>26. ASSUME NEW t \in Starter, DangerousItem(t) PROVE Owned'
  <2>1. SignalTurn(t, "security") /\ "security" \in Signal /\ UNCHANGED <<streams, mapped, detached, result>>
      BY <1>f, <1>26 DEF DangerousItem, clientVars
  <2> QED
      BY <1>i, <1>k, <2>1
<1>27. ASSUME NEW t \in Starter, NEW status \in {"completed", "failed"}, TurnCompleted(t, status) PROVE Owned'
  <2>1. SignalTurn(t, status) /\ status \in Signal /\ UNCHANGED <<streams, mapped, detached, result>>
      BY <1>f, <1>27 DEF TurnCompleted, clientVars
  <2> QED
      BY <1>i, <1>k, <2>1
<1>28. ASSUME ChildFailure PROVE Owned'
  <2>1. UNCHANGED streams
      BY <1>28 DEF ChildFailure
  <2>2. CASE pending = {}
    <3>1. UNCHANGED <<mapped, detached>>
        BY <1>28, <2>2 DEF ChildFailure, sessionVars
    <3>2. \A q \in Req : pc[q] = "starting" \/ (pc'[q] = pc[q] /\ result'[q] = result[q])
        BY <1>28, <2>2 DEF ChildFailure
    <3> QED
        BY <1>b, <1>i, <2>1, <3>1, <3>2 DEF Unbegun
  <2>3. CASE pending # {}
    <3>1. mapped' = {}
        BY <1>28, <2>3 DEF ChildFailure
    <3> QED
        BY <3>1 DEF Owned
  <2> QED
      BY <2>2, <2>3
<1> QED
    BY <1>1, <1>2, <1>3, <1>4, <1>5, <1>6, <1>7, <1>8, <1>9, <1>10, <1>11, <1>12,
       <1>13, <1>14, <1>15, <1>16, <1>17, <1>18, <1>19, <1>20, <1>21, <1>22, <1>23,
       <1>24, <1>25, <1>26, <1>27, <1>28 DEF Next

-----------------------------------------------------------------------------
(* Results and sessions *)

\* What a step does to the result and the place of a request.
Worked(q) ==
    /\ result'[q] = result[q] /\ turnOf'[q] = turnOf[q]
    /\ \/ pc'[q] = pc[q]
       \/ pc[q] \notin Final \cup {"idle"} /\ pc'[q] \notin {"idle", "emitting"}
       \/ pc[q] = "emitting" /\ pc'[q] \in {"done", "aborting"}
Began(q) ==
    /\ pc[q] = "idle" /\ up /\ pc'[q] \notin {"idle", "emitting"}
    /\ result'[q] = result[q] /\ turnOf'[q] \in Starter
Finished(q) ==
    /\ pc[q] # "done" /\ pc'[q] \in Final \ {"aborting"} /\ (pc[q] = "idle" => up)
    /\ result'[q] \in Ends /\ turnOf'[q] = turnOf[q] /\ turnOf[q] \notin mapped'
Handed(q) ==
    /\ pc[q] = "woken" /\ pc'[q] \in Final \ {"aborting"}
    /\ result'[q] \in {"tool", "empty"} /\ turnOf'[q] = turnOf[q]
Missed(q) ==
    /\ pc[q] = "emitting" \/ (pc[q] = "created" /\ q \in Relayed)
    /\ pc'[q] \in {"done", "emitting"}
    /\ result'[q] = Undelivered(q) /\ turnOf'[q] = turnOf[q]
Stepped(q) ==
    /\ Worked(q) \/ Began(q) \/ Finished(q) \/ Handed(q) \/ Missed(q)
    /\ detached'[q] = detached[q] \/ detached'[q] = "none" \/ pc'[q] = "aborting"
    /\ pc'[q] = "begun" => pc[q] = "begun" \/ turn[q] # "none"

\* Who takes a session away has ended, or had been rejected before.
Removed(t) ==
    \/ Stopped'
    \/ \E q \in Req : /\ turnOf[q] = t /\ turnOf'[q] = t
                      /\ \/ result'[q] \in Ends
                         \/ detached[q] # "none" /\ pc'[q] = pc[q] /\ result'[q] = result[q]
Moves ==
    /\ \A q \in Req : Stepped(q)
    /\ streams' = streams /\ (up' => up)
    /\ \A t \in mapped' : t \in mapped \/ (t \in Starter /\ pc[t] = "begun")
    /\ \A t \in mapped \ mapped' : Removed(t)
    /\ \A t \in Starter : pc[t] \in Unbegun /\ pc'[t] \notin Unbegun =>
          t \in mapped' \/ (turnOf'[t] = t /\ result'[t] \in Ends) \/ Stopped'

LEMMA StepsMove == ASSUME Placed, Outcomes, Next PROVE Moves
<1>0. /\ pc \in [Req -> PcValues] /\ result \in [Req -> Results] /\ turnOf \in [Req -> Starter \cup {None}]
      /\ detached \in [Req -> {"none", "security", "undeclared"}] /\ mapped \subseteq Starter
      /\ OnTurn /\ Outcomes
    BY TypesAreParts DEF Placed, Typed, RequestsTyped, ClientsTyped, SessionsTyped
<1>b. /\ \A q \in Req : pc[q] \in Working => turnOf[q] \in Starter
      /\ \A q \in Starter : pc[q] # "idle" => turnOf[q] = q
      /\ \A q \in Req : pc[q] \in {"created", "reading", "relaying"} => q \in Starter /\ turnOf[q] = q
      /\ \A q \in Req : q \in known => turnOf[q] \in Starter
      /\ \A t \in Starter : pc[t] \in Unbegun => t \notin mapped
    BY WaitsFacts
<1>f. {"tool", "security", "delta", "completed", "failed"} \subseteq Signal
    BY DEF Signal
<1>g. \A r : AfterError(r) \in {"emitting", "done"}
    BY DEF AfterError
\* A request that neither moves nor waits in the session of the one that does.
<1>s. ASSUME NEW q \in Req, UNCHANGED <<result, turnOf, detached>>,
             pc'[q] = pc[q] \/ (pc[q] \in {"waiting", "reading"} /\ pc'[q] \in {"aborting", "woken"})
      PROVE  Stepped(q)
    BY <1>s DEF Stepped, Worked, Final
\* One request moves, and may free who waits beside it.
<1>o. ASSUME NEW r \in Req, mapped' = mapped, streams' = streams, up' => up, Stepped(r),
             r \in Starter /\ pc[r] \in Unbegun /\ pc'[r] \notin Unbegun =>
                turnOf'[r] = r /\ result'[r] \in Ends,
             \A q \in Req \ {r} :
                /\ result'[q] = result[q] /\ turnOf'[q] = turnOf[q] /\ detached'[q] = detached[q]
                /\ pc'[q] = pc[q] \/ (pc[q] \in {"waiting", "reading"} /\ pc'[q] \in {"aborting", "woken"})
      PROVE  Moves
  <2>1. ASSUME NEW q \in Req \ {r} PROVE Stepped(q) /\ (pc[q] \in Unbegun => pc'[q] \in Unbegun)
      BY <1>o, <2>1 DEF Stepped, Worked, Final, Unbegun
  <2> QED
      BY <1>0, <1>o, <2>1, StartersAre DEF Moves
\* One request moves and removes the session of its turn.
<1>h. ASSUME NEW r \in Req, mapped' = mapped \ {turnOf[r]}, streams' = streams, up' => up, Stepped(r),
             pc[r] \notin Unbegun, turnOf'[r] = turnOf[r],
             \/ result'[r] \in Ends
             \/ detached[r] # "none" /\ pc'[r] = pc[r] /\ result'[r] = result[r],
             \A q \in Req \ {r} :
                result'[q] = result[q] /\ turnOf'[q] = turnOf[q] /\ detached'[q] = detached[q] /\ pc'[q] = pc[q]
      PROVE  Moves
  <2>1. ASSUME NEW q \in Req \ {r} PROVE Stepped(q)
      BY <1>h, <2>1 DEF Stepped, Worked
  <2>2. \A t \in mapped \ mapped' : Removed(t)
      BY <1>h DEF Removed
  <2> QED
      BY <1>0, <1>h, <2>1, <2>2, StartersAre DEF Moves
\* A line of app-server wakes whoever waits for it.
<1>k. ASSUME UNCHANGED <<result, turnOf, detached, mapped, streams, up>>,
             \A q \in Req : \/ pc'[q] = pc[q]
                            \/ pc[q] \in {"waiting", "reading"} /\ pc'[q] \in {"aborting", "woken"}
      PROVE  Moves
  <2>1. \A q \in Req : Stepped(q) /\ (pc[q] \in Unbegun => pc'[q] \in Unbegun)
      BY <1>k, <1>s DEF Unbegun
  <2> QED
      BY <1>k, <2>1, StartersAre DEF Moves
<1>l. ASSUME NEW t \in Starter, NEW s \in Signal, SignalTurn(t, s), NEW q \in Req
      PROVE  \/ pc'[q] = pc[q]
             \/ pc[q] \in {"waiting", "reading"} /\ pc'[q] \in {"aborting", "woken"}
    BY <1>l, SignalMoves
\* An abort by r.
<1>j. ASSUME NEW r \in Req, turnOf[r] \in Starter, Abort(r, turnOf[r], session),
             pc[r] \in {"waiting", "reading", "relaying", "interrupting", "rejecting", "emitting"},
             UNCHANGED <<result, turnOf, mapped, streams, up>>,
             \A q \in Req \ {r} : detached'[q] = detached[q]
      PROVE  Moves
  <2>1. /\ pc'[r] = "aborting"
        /\ \A q \in Req \ {r} : \/ pc'[q] = pc[q]
                                \/ pc[q] \in {"waiting", "reading"} /\ pc'[q] \in {"aborting", "woken"}
      BY <1>j, AbortMoves
  <2>2. Stepped(r)
      BY <1>j, <2>1 DEF Stepped, Worked, Final
  <2> QED
      BY <1>j, <1>o, <2>1, <2>2 DEF Unbegun
<1> USE <1>0, StartersAre
<1>1. ASSUME NEW r \in Starter, Start(r) PROVE Moves
  <2>1. /\ mapped' = mapped /\ streams' = streams /\ up' = up /\ r \in Req
        /\ pc[r] = "idle" /\ pc'[r] = "starting" /\ up /\ turnOf'[r] = r /\ result'[r] = result[r]
        /\ detached'[r] = detached[r]
        /\ \A q \in Req \ {r} : /\ result'[q] = result[q] /\ turnOf'[q] = turnOf[q]
                                /\ detached'[q] = detached[q] /\ pc'[q] = pc[q]
      BY <1>g, <1>1 DEF Start, Return, clientVars, sessionVars, requestVars
  <2>2. Stepped(r)
      BY <1>b, <2>1 DEF Stepped, Began
  <2> QED
      BY <1>b, <1>o, <2>1, <2>2 DEF Unbegun, Ends
<1>2. ASSUME NEW r \in Starter, TurnStarts(r) PROVE Moves
  <2>1. UNCHANGED <<pc, result, turnOf, detached, mapped, streams, up>>
      BY <1>2 DEF TurnStarts, clientVars, sessionVars, requestVars
  <2> QED
      BY <1>k, <2>1
<1>3. ASSUME NEW r \in Starter, TurnStartAnswered(r) PROVE Moves
  <2>1. /\ mapped' = mapped /\ streams' = streams /\ up' = up /\ r \in Req
        /\ pc[r] = "starting" /\ pc'[r] = "begun" /\ turn[r] # "none"
        /\ result'[r] = result[r] /\ turnOf'[r] = turnOf[r] /\ detached'[r] = detached[r]
        /\ \A q \in Req \ {r} : /\ result'[q] = result[q] /\ turnOf'[q] = turnOf[q]
                                /\ detached'[q] = detached[q] /\ pc'[q] = pc[q]
      BY <1>g, <1>3 DEF TurnStartAnswered, Return, clientVars, sessionVars, requestVars
  <2>2. Stepped(r)
      BY <1>b, <2>1 DEF Stepped, Worked, Final
  <2> QED
      BY <1>b, <1>o, <2>1, <2>2 DEF Unbegun, Ends
<1>4. ASSUME NEW r \in Starter, StartFails(r) PROVE Moves
  <2>1. /\ mapped' = mapped /\ streams' = streams /\ up' = up /\ r \in Req
        /\ pc[r] = "starting" /\ pc'[r] \in {"emitting", "done"} /\ result'[r] = "error"
        /\ turnOf'[r] = turnOf[r] /\ detached'[r] = detached[r]
        /\ \A q \in Req \ {r} : /\ result'[q] = result[q] /\ turnOf'[q] = turnOf[q]
                                /\ detached'[q] = detached[q] /\ pc'[q] = pc[q]
      BY <1>g, <1>4 DEF StartFails, Return, clientVars, sessionVars, requestVars
  <2>2. Stepped(r)
      BY <1>b, <2>1 DEF Stepped, Finished, Final, Ends, Unbegun
  <2> QED
      BY <1>b, <1>o, <2>1, <2>2 DEF Unbegun, Ends
<1>5. ASSUME NEW r \in Starter, BeginSession(r) PROVE Moves
  <2>1. /\ UNCHANGED <<result, turnOf, detached, streams, up>> /\ mapped' = mapped \cup {r}
        /\ pc[r] = "begun" /\ r \in Req
      BY <1>5, BeginSessionIs DEF clientVars
  <2>2. /\ \A q \in Req \ {r} : pc'[q] = pc[q]
        /\ pc'[r] \in {"created", "hung", "waiting", "aborting", "woken"}
      BY <1>5, BeginningMoves
  <2>3. Stepped(r)
      BY <2>1, <2>2 DEF Stepped, Worked, Final
  <2>4. \A q \in Req \ {r} : Stepped(q)
      BY <1>s, <2>1, <2>2
  <2> QED
      BY <2>1, <2>2, <2>3, <2>4 DEF Moves
<1>6. ASSUME NEW r \in Continuer, NEW p \in Req, NEW outputs \in SUBSET Shown, Continue(r, p, outputs) PROVE Moves
  <2>1. /\ turnOf[p] \in Starter /\ NextSignal(r, turnOf[p], session) /\ pc[r] = "idle" /\ up
        /\ turnOf' = [turnOf EXCEPT ![r] = turnOf[p]] /\ r \in Req /\ r \notin Starter
        /\ UNCHANGED <<streams, mapped, detached, result, up>>
      BY <1>b, <1>6 DEF Continue, MayContinue
  <2>2. /\ \A q \in Req \ {r} : \/ pc'[q] = pc[q]
                                \/ pc[q] \in {"waiting", "reading"} /\ pc'[q] \in {"aborting", "woken"}
        /\ pc'[r] \in {"waiting", "aborting", "woken"}
      BY <2>1, NextSignalMoves
  <2>3. Stepped(r)
      BY <2>1, <2>2 DEF Stepped, Began
  <2> QED
      BY <1>o, <2>1, <2>2, <2>3
<1>7. ASSUME NEW r \in Continuer, NEW p \in Req, NEW outputs \in SUBSET Shown,
            NEW answered \in SUBSET outputs, ContinueTooLarge(r, p, outputs, answered) PROVE Moves
  <2>1. /\ mapped' = mapped /\ streams' = streams /\ up' = up /\ r \in Req
        /\ pc[r] = "idle" /\ up /\ pc'[r] \in {"emitting", "done"} /\ result'[r] = "error"
        /\ turnOf'[r] = turnOf[r] /\ detached'[r] = detached[r] /\ r \notin Starter
        /\ \A q \in Req \ {r} : /\ result'[q] = result[q] /\ turnOf'[q] = turnOf[q]
                                /\ detached'[q] = detached[q] /\ pc'[q] = pc[q]
      BY <1>g, <1>7 DEF ContinueTooLarge, Return, clientVars, sessionVars, requestVars
  <2>2. Stepped(r)
      BY <1>b, <2>1 DEF Stepped, Finished, Final, Ends, Outcomes
  <2> QED
      BY <1>b, <1>o, <2>1, <2>2 DEF Unbegun, Ends
<1>8. ASSUME NEW r \in Continuer, ContinueRefused(r) PROVE Moves
  <2>1. /\ mapped' = mapped /\ streams' = streams /\ up' = up /\ r \in Req
        /\ pc[r] = "idle" /\ up /\ pc'[r] \in {"emitting", "done"} /\ result'[r] = "error"
        /\ turnOf'[r] = turnOf[r] /\ detached'[r] = detached[r] /\ r \notin Starter
        /\ \A q \in Req \ {r} : /\ result'[q] = result[q] /\ turnOf'[q] = turnOf[q]
                                /\ detached'[q] = detached[q] /\ pc'[q] = pc[q]
      BY <1>g, <1>8 DEF ContinueRefused, Return, clientVars, sessionVars, requestVars
  <2>2. Stepped(r)
      BY <1>b, <2>1 DEF Stepped, Finished, Final, Ends, Outcomes
  <2> QED
      BY <1>b, <1>o, <2>1, <2>2 DEF Unbegun, Ends
<1>9. ASSUME NEW r \in Req, RelayDelta(r) PROVE Moves
  <2>1. /\ mapped' = mapped /\ streams' = streams /\ up' = up /\ r \in Req
        /\ pc[r] = "woken" /\ pc'[r] \in {"hung", "relaying"}
        /\ result'[r] = result[r] /\ turnOf'[r] = turnOf[r] /\ detached'[r] = detached[r]
        /\ \A q \in Req \ {r} : /\ result'[q] = result[q] /\ turnOf'[q] = turnOf[q]
                                /\ detached'[q] = detached[q] /\ pc'[q] = pc[q]
      BY <1>g, <1>9 DEF RelayDelta, Return, clientVars, sessionVars, requestVars
  <2>2. Stepped(r)
      BY <1>b, <2>1 DEF Stepped, Worked, Final
  <2> QED
      BY <1>b, <1>o, <2>1, <2>2 DEF Unbegun, Ends
<1>10. ASSUME NEW r \in Req, RespondToSecurity(r) PROVE Moves
  <2>1. /\ mapped' = mapped /\ streams' = streams /\ up' = up /\ pc[r] = "woken" /\ pc'[r] = "interrupting"
        /\ UNCHANGED <<result, turnOf, detached>> /\ \A q \in Req \ {r} : pc'[q] = pc[q]
      BY <1>10 DEF RespondToSecurity, clientVars
  <2>2. Stepped(r)
      BY <2>1 DEF Stepped, Worked, Final
  <2> QED
      BY <1>o, <2>1, <2>2 DEF Unbegun
<1>11. ASSUME NEW r \in Req, RespondToTool(r) PROVE Moves
  <2>1. /\ mapped' = mapped /\ streams' = streams /\ up' = up /\ r \in Req
        /\ pc[r] = "woken" /\ pc'[r] \in {"hung", "done", "emitting"} /\ result'[r] \in {"tool", "empty"}
        /\ turnOf'[r] = turnOf[r] /\ detached'[r] = detached[r]
        /\ \A q \in Req \ {r} : /\ result'[q] = result[q] /\ turnOf'[q] = turnOf[q]
                                /\ detached'[q] = detached[q] /\ pc'[q] = pc[q]
      BY <1>g, <1>11 DEF RespondToTool, Return, clientVars, sessionVars, requestVars
  <2>2. Stepped(r)
      BY <1>b, <2>1 DEF Stepped, Handed, Final
  <2> QED
      BY <1>b, <1>o, <2>1, <2>2 DEF Unbegun, Ends
<1>12. ASSUME NEW r \in Req, RejectUndeclared(r) PROVE Moves
  <2>1. /\ UNCHANGED <<result, turnOf, detached, mapped, streams, up>> /\ pc[r] = "woken"
        /\ turnOf[r] \in Starter
      BY <1>b, <1>12 DEF RejectUndeclared, clientVars, Working
  <2>2. /\ pc'[r] = "rejecting"
        /\ \A q \in Req \ {r} : \/ pc'[q] = pc[q]
                                \/ pc[q] \in {"waiting", "reading"} /\ pc'[q] \in {"aborting", "woken"}
    <3> DEFINE others == {q \in Req : q = session[turnOf[r]].waiter}
                          \cup {q \in {turnOf[r]} : session[turnOf[r]].reading}
    <3>1. pc' = [q \in Req |-> IF q = r THEN "rejecting" ELSE IF q \in others THEN "aborting" ELSE pc[q]]
        BY <1>12 DEF RejectUndeclared
    <3>2. \A q \in others : pc[q] \in {"waiting", "reading"}
        BY <2>1, WaitsFacts
    <3> HIDE DEF others
    <3> QED
        BY <3>1, <3>2
  <2>3. Stepped(r)
      BY <2>1, <2>2 DEF Stepped, Worked, Final
  <2> QED
      BY <1>o, <2>1, <2>2, <2>3 DEF Unbegun
<1>13. ASSUME NEW r \in Req, RespondToEnd(r) PROVE Moves
  <2>1. /\ mapped' = mapped \ {turnOf[r]} /\ streams' = streams /\ up' = up
        /\ pc[r] = "woken" /\ pc'[r] \in {"hung", "done", "emitting"} /\ result'[r] \in {"message", "failed"}
        /\ turnOf'[r] = turnOf[r] /\ detached'[r] = detached[r]
        /\ \A q \in Req \ {r} : /\ result'[q] = result[q] /\ turnOf'[q] = turnOf[q]
                                /\ detached'[q] = detached[q] /\ pc'[q] = pc[q]
      BY <1>g, <1>13 DEF RespondToEnd, Return, CleanUp, RemoveSession, clientVars
  <2>2. Stepped(r)
      BY <2>1 DEF Stepped, Finished, Final, Ends
  <2> QED
      BY <1>h, <2>1, <2>2 DEF Unbegun, Ends
<1>14. ASSUME NEW r \in Req, Interrupted(r) PROVE Moves
  <2>1. /\ mapped' = mapped \ {turnOf[r]} /\ streams' = streams /\ up' = up
        /\ pc[r] = "interrupting" /\ pc'[r] \in {"hung", "done", "emitting"} /\ result'[r] \in {"failed"}
        /\ turnOf'[r] = turnOf[r] /\ detached'[r] = detached[r]
        /\ \A q \in Req \ {r} : /\ result'[q] = result[q] /\ turnOf'[q] = turnOf[q]
                                /\ detached'[q] = detached[q] /\ pc'[q] = pc[q]
      BY <1>g, <1>14 DEF Interrupted, Return, CleanUp, RemoveSession, clientVars
  <2>2. Stepped(r)
      BY <2>1 DEF Stepped, Finished, Final, Ends
  <2> QED
      BY <1>h, <2>1, <2>2 DEF Unbegun, Ends
<1>15. ASSUME NEW r \in Req, Aborted(r) PROVE Moves
  <2>1. /\ mapped' = mapped \ {turnOf[r]} /\ streams' = streams /\ up' = up
        /\ pc[r] = "aborting" /\ pc'[r] \in {"hung", "done", "emitting"} /\ result'[r] \in {"error"}
        /\ turnOf'[r] = turnOf[r] /\ detached'[r] = detached[r]
        /\ \A q \in Req \ {r} : /\ result'[q] = result[q] /\ turnOf'[q] = turnOf[q]
                                /\ detached'[q] = detached[q] /\ pc'[q] = pc[q]
      BY <1>g, <1>15 DEF Aborted, Return, CleanUp, RemoveSession, clientVars
  <2>2. Stepped(r)
      BY <2>1 DEF Stepped, Finished, Final, Ends
  <2> QED
      BY <1>h, <2>1, <2>2 DEF Unbegun, Ends
<1>16. ASSUME NEW r \in Req, Rejected(r) PROVE Moves
  <2>1. /\ mapped' = mapped \ {turnOf[r]} /\ streams' = streams /\ up' = up
        /\ pc[r] = "rejecting" /\ pc'[r] \in {"hung", "done", "emitting"} /\ result'[r] \in {"failed"}
        /\ turnOf'[r] = turnOf[r] /\ detached'[r] = detached[r]
        /\ \A q \in Req \ {r} : /\ result'[q] = result[q] /\ turnOf'[q] = turnOf[q]
                                /\ detached'[q] = detached[q] /\ pc'[q] = pc[q]
      BY <1>g, <1>16 DEF Rejected, Return, CleanUp, RemoveSession, clientVars
  <2>2. Stepped(r)
      BY <2>1 DEF Stepped, Finished, Final, Ends
  <2> QED
      BY <1>h, <2>1, <2>2 DEF Unbegun, Ends
<1>17. ASSUME NEW r \in Req, DetachedEnds(r) PROVE Moves
  <2>1. /\ mapped' = mapped \ {turnOf[r]} /\ UNCHANGED <<streams, up, pc, result, turnOf>>
        /\ detached[r] # "none" /\ detached'[r] = "none"
        /\ \A q \in Req \ {r} : detached'[q] = detached[q]
      BY <1>17 DEF DetachedEnds, CleanUp, RemoveSession, requestVars
  <2>2. Stepped(r) /\ pc[r] \notin Unbegun
      BY <2>1 DEF Stepped, Worked, Outcomes, Unbegun, Final, Ends
  <2> QED
      BY <1>h, <2>1, <2>2
<1>18. ASSUME NEW r \in Req, Drained(r) PROVE Moves
  <2>1. /\ UNCHANGED <<result, turnOf, detached, mapped, streams, up>>
        /\ \/ pc[r] \in {"created", "relaying"} /\ pc'[r] \in {"woken", "reading"}
           \/ pc[r] = "emitting" /\ pc'[r] = "done"
      BY <1>18 DEF Drained, clientVars
  <2>2. \A q \in Req \ {r} : pc'[q] = pc[q]
      BY <1>18, DrainedMoves
  <2>3. Stepped(r)
      BY <2>1 DEF Stepped, Worked, Final
  <2> QED
      BY <1>o, <2>1, <2>2, <2>3 DEF Unbegun
<1>19. ASSUME NEW r \in Req, Disconnect(r) PROVE Moves
  <2>1. /\ UNCHANGED <<streams, turnOf, mapped, up>> /\ \A q \in Req \ {r} : detached'[q] = detached[q]
        /\ \/ /\ \/ pc[r] \in {"waiting", "reading", "relaying", "interrupting", "rejecting"}
                 \/ pc[r] = "emitting" /\ r \in Relayed
              /\ Abort(r, turnOf[r], session) /\ result' = result
           \/ /\ pc[r] \in {"created", "emitting"} /\ detached'[r] = detached[r]
              /\ pc' = [pc EXCEPT ![r] = "done"] /\ result' = [result EXCEPT ![r] = Undelivered(r)]
           \/ /\ UNCHANGED <<pc, result>>
              /\ pc[r] \in {"starting", "aborting"} \/ r \in Relayed
              /\ detached'[r] = detached[r]
      BY <1>19 DEF Disconnect
  <2>2. CASE /\ \/ pc[r] \in {"waiting", "reading", "relaying", "interrupting", "rejecting"}
                \/ pc[r] = "emitting" /\ r \in Relayed
             /\ Abort(r, turnOf[r], session) /\ result' = result
    <3>1. turnOf[r] \in Starter
        BY <1>b, <2>2 DEF Working, Relayed
    <3> QED
        BY <1>j, <2>1, <2>2, <3>1
  <2>3. CASE /\ pc[r] \in {"created", "emitting"} /\ detached'[r] = detached[r]
             /\ pc' = [pc EXCEPT ![r] = "done"] /\ result' = [result EXCEPT ![r] = Undelivered(r)]
    <3>1. Missed(r)
        BY <2>1, <2>3 DEF Missed, OnTurn
    <3>2. Stepped(r)
        BY <2>3, <3>1 DEF Stepped
    <3> QED
        BY <1>o, <2>1, <2>3, <3>2 DEF Unbegun
  <2>4. CASE UNCHANGED <<pc, result>> /\ detached'[r] = detached[r]
    <3>1. Stepped(r)
        BY <2>1, <2>4 DEF Stepped, Worked
    <3> QED
        BY <1>o, <2>1, <2>4, <3>1
  <2> QED
      BY <2>1, <2>2, <2>3, <2>4
<1>20. ASSUME NEW r \in Starter, EmitTooLarge(r) PROVE Moves
  <2>1. /\ turnOf[r] \in Starter /\ r \in Req /\ Abort(r, turnOf[r], session) /\ pc[r] \in {"relaying", "emitting"}
        /\ UNCHANGED <<streams, mapped, detached, result, turnOf, up>>
      BY <1>b, <1>20 DEF EmitTooLarge, clientVars, Working, Relayed
  <2> QED
      BY <1>j, <2>1
<1>21. ASSUME NEW r \in Continuer, ContinuationTooLarge(r) PROVE Moves
  <2>1. /\ mapped' = mapped /\ streams' = streams /\ up' = up /\ r \in Req
        /\ pc[r] = "emitting" /\ pc'[r] = "emitting" /\ result'[r] = Undelivered(r)
        /\ turnOf'[r] = turnOf[r] /\ detached'[r] = detached[r]
        /\ \A q \in Req \ {r} : /\ result'[q] = result[q] /\ turnOf'[q] = turnOf[q]
                                /\ detached'[q] = detached[q] /\ pc'[q] = pc[q]
      BY <1>g, <1>21 DEF ContinuationTooLarge, Return, clientVars, sessionVars, requestVars
  <2>2. Stepped(r)
      BY <1>b, <2>1 DEF Stepped, Missed
  <2> QED
      BY <1>b, <1>o, <2>1, <2>2 DEF Unbegun, Ends
<1>22. ASSUME NEW r \in Req, ResponseTimeout(r) PROVE Moves
  <2>1. /\ turnOf[r] \in Starter /\ r \in Req /\ Abort(r, turnOf[r], session) /\ pc[r] \in {"waiting", "reading"}
        /\ UNCHANGED <<streams, mapped, detached, result, turnOf, up>>
      BY <1>b, <1>22 DEF ResponseTimeout, clientVars, Working, Relayed
  <2> QED
      BY <1>j, <2>1
<1>23. ASSUME NEW c \in Call, CallExpires(c) PROVE Moves
  <2>1. UNCHANGED <<pc, result, turnOf, detached, mapped, streams, up>>
      BY <1>23 DEF CallExpires, clientVars, sessionVars, requestVars
  <2> QED
      BY <1>k, <2>1
<1>24. ASSUME NEW t \in Starter, NEW c \in Call, ToolCalled(t, c) PROVE Moves
  <2>1. /\ SignalTurn(t, "security") \/ SignalTurn(t, "tool") \/ UNCHANGED pc
        /\ UNCHANGED <<streams, mapped, detached, result, turnOf, up>>
      BY <1>24 DEF ToolCalled, clientVars
  <2> QED
      BY <1>f, <1>k, <1>l, <2>1
<1>25. ASSUME NEW t \in Starter, Delta(t) PROVE Moves
  <2>1. SignalTurn(t, "delta") /\ "delta" \in Signal /\ UNCHANGED <<streams, mapped, detached, result, turnOf, up>>
      BY <1>f, <1>25 DEF Delta, clientVars
  <2> QED
      BY <1>k, <1>l, <2>1
<1>26. ASSUME NEW t \in Starter, DangerousItem(t) PROVE Moves
  <2>1. SignalTurn(t, "security") /\ "security" \in Signal /\ UNCHANGED <<streams, mapped, detached, result, turnOf, up>>
      BY <1>f, <1>26 DEF DangerousItem, clientVars
  <2> QED
      BY <1>k, <1>l, <2>1
<1>27. ASSUME NEW t \in Starter, NEW status \in {"completed", "failed"}, TurnCompleted(t, status) PROVE Moves
  <2>1. SignalTurn(t, status) /\ status \in Signal /\ UNCHANGED <<streams, mapped, detached, result, turnOf, up>>
      BY <1>f, <1>27 DEF TurnCompleted, clientVars
  <2> QED
      BY <1>k, <1>l, <2>1
<1>28. ASSUME ChildFailure PROVE Moves
  <2>1. UNCHANGED <<streams, turnOf>> /\ up' = FALSE /\ up
      BY <1>28 DEF ChildFailure
  <2>2. CASE pending = {}
    <3>1. UNCHANGED <<mapped, detached>>
        BY <1>28, <2>2 DEF ChildFailure, sessionVars
    <3>2. \A q \in Req : IF pc[q] = "starting"
                         THEN pc'[q] = AfterError(q) /\ result'[q] = "error"
                         ELSE pc'[q] = pc[q] /\ result'[q] = result[q]
        BY <1>28, <2>2 DEF ChildFailure
    <3>3. ASSUME NEW q \in Req PROVE Stepped(q)
      <4>1. CASE pc[q] = "starting"
        <5>1. turnOf[q] = q /\ q \notin mapped
            BY <1>b, <4>1 DEF OnTurn, Unbegun
        <5> QED
            BY <1>g, <2>1, <3>1, <3>2, <4>1, <5>1 DEF Stepped, Finished, Final, Ends
      <4>2. CASE pc[q] # "starting"
          BY <2>1, <3>1, <3>2, <4>2 DEF Stepped, Worked
      <4> QED
          BY <4>1, <4>2
    <3>4. ASSUME NEW t \in Starter, pc[t] \in Unbegun, pc'[t] \notin Unbegun
          PROVE  turnOf'[t] = t /\ result'[t] \in Ends
        BY <1>b, <2>1, <3>2, <3>4 DEF Ends, Unbegun
    <3> QED
        BY <2>1, <3>1, <3>3, <3>4 DEF Moves
  <2>3. CASE pending # {}
    <3>1. /\ mapped' = {} /\ detached' = [q \in Req |-> "none"]
          /\ \A q \in Req : IF pc[q] = "idle" THEN pc'[q] = pc[q] /\ result'[q] = result[q]
                            ELSE /\ pc'[q] = "done"
                                 /\ result'[q] = IF pc[q] = "done" THEN result[q] ELSE "error"
        BY <1>28, <2>3 DEF ChildFailure
    <3>2. ASSUME NEW q \in Req PROVE Stepped(q)
      <4>1. CASE pc[q] \in {"idle", "done"}
          BY <2>1, <3>1, <4>1 DEF Stepped, Worked
      <4>2. CASE pc[q] \notin {"idle", "done"}
          BY <2>1, <3>1, <4>2 DEF Stepped, Finished, Final, Ends
      <4> QED
          BY <4>1, <4>2
    <3>3. Stopped'
        BY <2>1, <3>1 DEF Stopped
    <3> QED
        BY <2>1, <3>1, <3>2, <3>3 DEF Moves, Removed
  <2> QED
      BY <2>2, <2>3
<1> QED
    BY <1>1, <1>2, <1>3, <1>4, <1>5, <1>6, <1>7, <1>8, <1>9, <1>10, <1>11, <1>12,
       <1>13, <1>14, <1>15, <1>16, <1>17, <1>18, <1>19, <1>20, <1>21, <1>22, <1>23,
       <1>24, <1>25, <1>26, <1>27, <1>28 DEF Next

LEMMA OutcomesKept == ASSUME Placed, Outcomes, Next PROVE Outcomes'
<1>1. ASSUME NEW q \in Req PROVE Stepped(q)
    BY StepsMove DEF Moves
<1>2. ASSUME NEW q \in Req
      PROVE  /\ result'[q] # "none" => pc'[q] \in Final
             /\ pc'[q] = "emitting" => result'[q] # "none"
             /\ pc'[q] = "idle" => turnOf'[q] = None
  <2>1. CASE Worked(q)
      BY <2>1 DEF Worked, Outcomes, Final
  <2>2. CASE Began(q)
      BY <2>2 DEF Began, Outcomes, Final
  <2>3. CASE Finished(q)
      BY <2>3 DEF Finished, Final, Ends
  <2>4. CASE Handed(q)
      BY <2>4 DEF Handed, Final
  <2>5. CASE Missed(q)
      BY <2>5 DEF Missed, Undelivered, Final
  <2> QED
      BY <1>1, <2>1, <2>2, <2>3, <2>4, <2>5 DEF Stepped
<1>3. ASSUME NEW q \in Req, detached'[q] # "none" PROVE pc'[q] = "aborting" \/ result'[q] \in Ends
  <2>0. CASE pc'[q] = "aborting"
      BY <2>0
  <2>a. CASE pc'[q] # "aborting"
    <3>0. pc[q] = "aborting" \/ result[q] \in Ends
        BY <1>1, <1>3, <2>a DEF Stepped, Outcomes
    <3>1. result[q] \in Ends => pc[q] \in Final
        BY DEF Outcomes, Ends
    <3>2. CASE Worked(q)
        BY <2>a, <3>0, <3>2 DEF Worked, Final
    <3>3. CASE Began(q)
        BY <3>0, <3>1, <3>3 DEF Began, Final
    <3>4. CASE Finished(q)
        BY <3>4 DEF Finished
    <3>5. CASE Handed(q)
        BY <3>0, <3>1, <3>5 DEF Handed, Final
    <3>6. CASE Missed(q)
        BY <3>0, <3>1, <3>6 DEF Missed, Undelivered, Final, Ends
    <3> QED
        BY <1>1, <3>2, <3>3, <3>4, <3>5, <3>6 DEF Stepped
  <2> QED
      BY <2>0, <2>a
<1> QED
    BY <1>2, <1>3 DEF Outcomes

\* An end stays one: nothing follows it but the error of a client that leaves.
LEMMA EndStays ==
    ASSUME Outcomes, NEW q \in Req, Stepped(q), NEW t \in Starter, turnOf[q] = t,
           result[q] \in Ends \/ pc[q] = "aborting"
    PROVE  turnOf'[q] = t /\ (result'[q] \in Ends \/ pc'[q] = "aborting")
<1>0. pc[q] \in Final /\ pc[q] # "idle" /\ pc[q] # "woken"
    BY StartersAre DEF Outcomes, Ends, Final
<1>1. CASE Worked(q)
    BY <1>0, <1>1 DEF Worked, Final
<1>2. CASE Finished(q)
    BY <1>2 DEF Finished
<1>3. CASE Missed(q)
    BY <1>0, <1>3 DEF Missed, Undelivered, Final, Ends
<1> QED
    BY <1>0, <1>1, <1>2, <1>3 DEF Stepped, Began, Handed

LEMMA AccountedKept == ASSUME Placed, Outcomes, Accounted, Next PROVE Accounted'
<1>0. /\ Moves /\ mapped \subseteq Starter /\ result \in [Req -> Results] /\ OnTurn
    BY StepsMove, TypesAreParts DEF Placed, Typed, SessionsTyped, RequestsTyped
<1>1. ASSUME NEW q \in Req PROVE Stepped(q)
    BY <1>0 DEF Moves
<1>2. ASSUME NEW t \in Starter, NEW q \in Req, turnOf[q] = t, result[q] \in Ends \/ pc[q] = "aborting"
      PROVE  Ended(t)'
    BY <1>1, <1>2, EndStays DEF Ended, Ends
<1>3. Stopped => Stopped'
  <2>1. ASSUME Stopped, NEW q \in Req PROVE pc'[q] = pc[q]
      BY <1>1, <2>1 DEF Stopped, Stepped, Worked, Began, Finished, Handed, Missed, Final
  <2> QED
      BY <1>0, <2>1 DEF Moves, Stopped
<1>4. ASSUME NEW t \in Starter, pc'[t] \notin Unbegun PROVE t \in mapped' \/ Ended(t)' \/ Stopped'
  <2>1. CASE pc[t] \in Unbegun
      BY <1>0, <1>4, <2>1, StartersAre DEF Moves, Ended, Ends
  <2>2. CASE pc[t] \notin Unbegun /\ Ended(t)
      BY <1>2, <2>2 DEF Ended, Ends
  <2>3. CASE pc[t] \notin Unbegun /\ Stopped
      BY <1>3, <2>3
  <2>4. CASE t \in mapped /\ t \notin mapped'
    <3>1. Removed(t)
        BY <1>0, <2>4 DEF Moves
    <3>2. CASE Stopped'
        BY <3>2
    <3>3. ASSUME NEW q \in Req, turnOf[q] = t, turnOf'[q] = t, result'[q] \in Ends PROVE Ended(t)'
        BY <3>3 DEF Ended, Ends
    <3>4. ASSUME NEW q \in Req, turnOf[q] = t, detached[q] # "none" PROVE Ended(t)'
        BY <1>2, <3>4 DEF Outcomes
    <3> QED
        BY <3>1, <3>2, <3>3, <3>4 DEF Removed
  <2> QED
      BY <2>1, <2>2, <2>3, <2>4 DEF Accounted
<1>5. ASSUME NEW t \in mapped' \ Relayed', NEW q \in Req, turnOf'[q] = t PROVE result'[q] \notin Ends
  <2>0. t \in Starter /\ t \notin Relayed
      BY <1>0, <1>5 DEF Moves, Relayed
  <2>1. turnOf[q] = t => result[q] \notin Ends
    <3>1. CASE t \in mapped
        BY <2>0, <3>1 DEF Accounted
    <3>2. CASE pc[t] = "begun"
      <4>1. turnOf[q] = t => q = t
          BY <2>0, <3>2, WaitsFacts DEF Unbegun
      <4> QED
          BY <3>2, <4>1 DEF Outcomes, Final, Ends
    <3> QED
        BY <1>0, <1>5, <3>1, <3>2 DEF Moves
  <2>2. CASE Worked(q)
      BY <1>5, <2>1, <2>2 DEF Worked
  <2>3. CASE Began(q)
      BY <2>3 DEF Began, Outcomes, Final, Ends
  <2>4. CASE Finished(q)
      BY <1>5, <2>4 DEF Finished
  <2>5. CASE Handed(q)
      BY <2>5 DEF Handed, Ends
  <2>6. CASE Missed(q)
    <3>1. turnOf[q] = t
        BY <1>5, <2>6 DEF Missed
    <3>2. pc[q] = "emitting"
        BY <2>0, <2>6, <3>1, WaitsFacts DEF Missed
    <3>3. result[q] \in {"tool", "empty", "lost"}
        BY <1>0, <2>1, <3>1, <3>2 DEF Outcomes, Results, Ends
    <3> QED
        BY <2>6, <3>3 DEF Missed, Undelivered, Ends
  <2> QED
      BY <1>1, <2>2, <2>3, <2>4, <2>5, <2>6 DEF Stepped
<1> QED
    BY <1>4, <1>5 DEF Accounted

LEMMA StutterAnswered == ASSUME Answered, UNCHANGED vars PROVE Answered'
<1>1. UNCHANGED <<up, pc, streams, turnOf, result, detached, mapped>>
    BY DEF vars, requestVars, clientVars, sessionVars
<1>2. Outcomes'
    BY <1>1 DEF Answered, Outcomes
<1>3. Accounted'
    BY <1>1 DEF Answered, Accounted, Ended, Stopped, Relayed
<1> QED
    BY <1>2, <1>3 DEF Answered

LEMMA AlwaysInOrder == Spec => [](Placed /\ CallsInOrder /\ Owned /\ Answered)
<1>1. Init => Placed /\ CallsInOrder /\ Owned /\ Answered
  <2>1. Init => CallsInOrder
      BY StartersAre DEF Init, CallsInOrder
  <2>2. Init => Owned
      BY DEF Init, Owned
  <2>3. Init => Answered
      BY StartersAre DEF Init, Answered, Outcomes, Accounted, Unbegun
  <2> QED
      BY <2>1, <2>2, <2>3, InitPlaced
<1>2. ASSUME Placed, CallsInOrder, Owned, Answered, [Next]_vars
      PROVE  Placed' /\ CallsInOrder' /\ Owned' /\ Answered'
  <2>1. CASE Next
    <3>1. Answered'
        BY <1>2, <2>1, OutcomesKept, AccountedKept DEF Answered
    <3> QED
        BY <1>2, <2>1, <3>1, PlacedKept, CallsStayInOrder, OwnedKept
  <2>2. CASE UNCHANGED vars
    <3>1. /\ UNCHANGED <<pc, key, streams, turnOf, result, listed, detached>>
          /\ UNCHANGED <<mapped, pending, callTurn, answer, giver>>
        BY <2>2 DEF vars, requestVars, clientVars, sessionVars, callVars
    <3>2. CallsInOrder'
        BY <1>2, <3>1 DEF CallsInOrder
    <3>3. Owned'
        BY <1>2, <3>1 DEF Owned, Live, Relayed
    <3> QED
        BY <1>2, <2>2, <3>2, <3>3, StutterPlaced, StutterAnswered
  <2> QED
      BY <1>2, <2>1, <2>2
<1> QED
    BY <1>1, <1>2, PTL DEF Spec

\* What a client answers is a declared tool of a turn that its own key started: the results of a
\* continuation answer calls that an earlier response has listed, and it has the starter's key.
THEOREM AnswersOwn == Spec => []AnswersAreOwn
<1>1. CallsInOrder => AnswersAreOwn
    BY DEF CallsInOrder, AnswersAreOwn
<1> QED
    BY <1>1, AlwaysInOrder, PTL

\* A call is answered to app-server once: results, aborts, expiry, a full broker and the death of
\* app-server race for it, and whoever answers takes it from the pending calls.
THEOREM CallsAnsweredOnce == Spec => AnsweredOnce
<1>1. ASSUME Placed, CallsInOrder, [Next]_vars, NEW c \in Call, answer[c] # "none"
      PROVE  answer'[c] = answer[c]
  <2>0. c \notin pending /\ callTurn[c] # None
      BY <1>1 DEF CallsInOrder
  <2>1. answer \in [Call -> {"none", "client", "failed", "expired", "rejected"}]
      BY <1>1, TypesAreParts DEF Placed, Typed, CallsTyped
  <2>2. ASSUME NEW cs, cs \subseteq pending, NEW how, NEW by, Resolve(cs, how, by)
        PROVE  answer'[c] = answer[c]
      BY <2>0, <2>2 DEF Resolve
  <2>3. ASSUME NEW t, CleanUp(t) PROVE answer'[c] = answer[c]
    <3>1. Resolve(ListForTurn(t), "failed", None) /\ ListForTurn(t) \subseteq pending
        BY <2>3 DEF CleanUp, ListForTurn
    <3> QED
        BY <2>2, <3>1
  <2>4. ASSUME NEW t \in Starter, NEW d \in Call, ToolCalled(t, d) PROVE answer'[c] = answer[c]
      BY <2>0, <2>1, <2>4 DEF ToolCalled
  <2>5. ASSUME NEW r \in Req, NEW p \in Req, NEW cs \in SUBSET Shown,
               cs \subseteq ListForTurn(turnOf[p]), Resolve(cs, "client", r)
        PROVE  answer'[c] = answer[c]
      BY <2>2, <2>5 DEF ListForTurn
  <2>6. ASSUME NEW r \in Continuer, NEW p \in Req, NEW outputs \in SUBSET Shown, Continue(r, p, outputs)
        PROVE  answer'[c] = answer[c]
      BY <2>5, <2>6, StartersAre DEF Continue, MayContinue
  <2>7. ASSUME NEW r \in Continuer, NEW p \in Req, NEW outputs \in SUBSET Shown,
               NEW answered \in SUBSET outputs, ContinueTooLarge(r, p, outputs, answered)
        PROVE  answer'[c] = answer[c]
    <3>1. answered \in SUBSET Shown /\ answered \subseteq ListForTurn(turnOf[p]) /\ Resolve(answered, "client", r)
        BY <2>7 DEF ContinueTooLarge, MayContinue
    <3> QED
        BY <2>5, <3>1, StartersAre
  <2>8. ASSUME NEW d \in Call, CallExpires(d) PROVE answer'[c] = answer[c]
      BY <2>2, <2>8 DEF CallExpires
  <2>9. ASSUME ChildFailure PROVE answer'[c] = answer[c]
      BY <2>2, <2>9 DEF ChildFailure
  <2>10. ASSUME NEW r \in Req, Aborted(r) \/ Rejected(r) \/ DetachedEnds(r) PROVE answer'[c] = answer[c]
      BY <2>3, <2>10 DEF Aborted, Rejected, DetachedEnds, callVars
  <2>11. CASE UNCHANGED callVars
      BY <2>11 DEF callVars
  <2>12. Next => \/ UNCHANGED callVars
                 \/ \E r \in Req : Aborted(r) \/ Rejected(r) \/ DetachedEnds(r)
                 \/ \E t \in Starter, d \in Call : ToolCalled(t, d)
                 \/ \E r \in Continuer, p \in Req : \E outputs \in SUBSET Shown : Continue(r, p, outputs)
                 \/ \E r \in Continuer, p \in Req : \E outputs \in SUBSET Shown :
                       \E answered \in SUBSET outputs : ContinueTooLarge(r, p, outputs, answered)
                 \/ \E d \in Call : CallExpires(d)
                 \/ ChildFailure
    <3>1. \A r \in Starter : BeginSession(r) => UNCHANGED callVars
        BY BeginSessionIs
    <3>2. \A r : \/ Start(r) \/ TurnStarts(r) \/ TurnStartAnswered(r) \/ StartFails(r)
                 => UNCHANGED callVars
        BY DEF Start, TurnStarts, TurnStartAnswered, StartFails
    <3>3. \A r : ContinueRefused(r) \/ RelayDelta(r) \/ RespondToSecurity(r) \/ RespondToTool(r) => UNCHANGED callVars
        BY DEF ContinueRefused, RelayDelta, RespondToSecurity, RespondToTool
    <3>4. \A r : RejectUndeclared(r) \/ RespondToEnd(r) \/ Interrupted(r) \/ Drained(r) => UNCHANGED callVars
        BY DEF RejectUndeclared, RespondToEnd, Interrupted, Drained
    <3>5. \A r : Disconnect(r) \/ EmitTooLarge(r) \/ ContinuationTooLarge(r) \/ ResponseTimeout(r)
                 => UNCHANGED callVars
        BY DEF Disconnect, EmitTooLarge, ContinuationTooLarge, ResponseTimeout
    <3>6. \A t, status : Delta(t) \/ DangerousItem(t) \/ TurnCompleted(t, status) => UNCHANGED callVars
        BY DEF Delta, DangerousItem, TurnCompleted
    <3> QED
        BY <3>1, <3>2, <3>3, <3>4, <3>5, <3>6 DEF Next
  <2>13. CASE UNCHANGED vars
      BY <2>11, <2>13 DEF vars
  <2> QED
      BY <1>1, <2>4, <2>6, <2>7, <2>8, <2>9, <2>10, <2>11, <2>12, <2>13
<1>2. Placed /\ CallsInOrder /\ [Next]_vars => \A c \in Call : answer[c] # "none" => answer'[c] = answer[c]
    BY <1>1
<1> QED
    BY <1>2, AlwaysInOrder, PTL DEF Spec, AnsweredOnce

\* No error path of a request leaves its session behind where nobody streams the deltas: a session
\* stays while its starter works on it or has given its client a response to continue, and never
\* longer than until the first of its requests, starter or continuation, ends the turn.
THEOREM SessionsOwned == Spec => []SessionsHaveOwners
<1>1. ASSUME Placed, Owned, Answered PROVE SessionsHaveOwners
  <2>1. ASSUME NEW t \in mapped \ Relayed PROVE t \in Req /\ turnOf[t] = t
    <3>1. t \in Starter /\ pc[t] \notin Unbegun
        BY <1>1, TypesAreParts DEF Placed, Typed, SessionsTyped, Begun
    <3> QED
        BY <1>1, <3>1, WaitsFacts, StartersAre DEF Unbegun
  <2> QED
      BY <1>1, <2>1 DEF Owned, Answered, Accounted, Ends, SessionsHaveOwners
<1> QED
    BY <1>1, AlwaysInOrder, PTL

-----------------------------------------------------------------------------
(* The signals that are owed *)

LEMMA OwedIs ==
    ASSUME CallsTyped, NEW t
    PROVE  Owed(t) \in Nat /\ IsFiniteSet(ListForTurn(t)) /\ Cardinality(ListForTurn(t)) \in Nat
<1>1. IsFiniteSet(Call) /\ ListForTurn(t) \subseteq Call
    BY CoordinatorAssumption DEF ListForTurn, CallsTyped
<1>2. IsFiniteSet(ListForTurn(t)) /\ Cardinality(ListForTurn(t)) \in Nat
    BY <1>1, FS_Subset, FS_CardinalityType
<1> QED
    BY <1>2 DEF Owed

LEMMA OwedIsNext == ASSUME CallsTyped', NEW t PROVE Owed(t)' \in Nat
<1>1. IsFiniteSet(Call) /\ ListForTurn(t)' \subseteq Call
    BY CoordinatorAssumption DEF ListForTurn, CallsTyped
<1>2. Cardinality(ListForTurn(t)') \in Nat
    BY <1>1, FS_Subset, FS_CardinalityType
<1>3. Owed(t)' = Cardinality(ListForTurn(t)') + (IF t \in dangerous' THEN 1 ELSE 0)
    BY DEF Owed
<1> QED
    BY <1>2, <1>3

LEMMA AnsweredOwed ==
    ASSUME CallsTyped, callTurn' = callTurn, pending' \subseteq pending, dangerous' = dangerous, NEW t
    PROVE  Owed(t)' <= Owed(t) /\ Owed(t)' \in Nat
<1>1. IsFiniteSet(ListForTurn(t)) /\ Cardinality(ListForTurn(t)) \in Nat /\ ListForTurn(t)' \subseteq ListForTurn(t)
    BY OwedIs DEF ListForTurn
<1>2. Cardinality(ListForTurn(t)') <= Cardinality(ListForTurn(t)) /\ Cardinality(ListForTurn(t)') \in Nat
    BY <1>1, FS_Subset, FS_CardinalityType
<1>3. Owed(t)' = Cardinality(ListForTurn(t)') + (IF t \in dangerous THEN 1 ELSE 0)
    BY DEF Owed
<1> QED
    BY <1>1, <1>2, <1>3 DEF Owed

LEMMA AnswersOwed ==
    ASSUME CallsTyped, callTurn' = callTurn, NEW t, NEW cs, cs # {}, cs \subseteq ListForTurn(t),
           pending' = pending \ cs, dangerous' = dangerous
    PROVE  Owed(t)' + 1 <= Owed(t)
<1>1. PICK c \in cs : c \in ListForTurn(t)
    OBVIOUS
<1>2. /\ IsFiniteSet(ListForTurn(t)) /\ Cardinality(ListForTurn(t)) \in Nat
      /\ ListForTurn(t)' \subseteq ListForTurn(t) \ {c}
    BY <1>1, OwedIs DEF ListForTurn
<1>3. /\ IsFiniteSet(ListForTurn(t) \ {c})
      /\ Cardinality(ListForTurn(t) \ {c}) = Cardinality(ListForTurn(t)) - 1
    BY <1>1, <1>2, FS_RemoveElement
<1>4. /\ Cardinality(ListForTurn(t)') <= Cardinality(ListForTurn(t) \ {c})
      /\ Cardinality(ListForTurn(t)') \in Nat
    BY <1>2, <1>3, FS_Subset, FS_CardinalityType
<1>5. Owed(t)' = Cardinality(ListForTurn(t)') + (IF t \in dangerous THEN 1 ELSE 0)
    BY DEF Owed
<1> QED
    BY <1>2, <1>3, <1>4, <1>5 DEF Owed

LEMMA DangerOwed ==
    ASSUME CallsTyped, UNCHANGED <<pending, callTurn>>, NEW t, dangerous' = dangerous \cup {t}
    PROVE  Owed(t)' <= Owed(t) + 1 /\ \A x \in Starter \ {t} : Owed(x)' <= Owed(x)
<1>1. \A x : Cardinality(ListForTurn(x)) \in Nat /\ Owed(x) \in Nat
    BY OwedIs
<1>2. \A x : ListForTurn(x)' = ListForTurn(x)
    BY DEF ListForTurn
<1>3. \A x : Owed(x)' = Cardinality(ListForTurn(x)) + (IF x \in dangerous' THEN 1 ELSE 0)
    BY <1>2 DEF Owed
<1> QED
    BY <1>1, <1>3 DEF Owed

LEMMA CallOwed ==
    ASSUME CallsTyped, CallsInOrder, NEW t \in Starter, NEW c \in Call, callTurn[c] = None,
           callTurn' = [callTurn EXCEPT ![c] = t], pending' \in {pending, pending \cup {c}},
           dangerous' = dangerous
    PROVE  /\ Owed(t)' <= Owed(t) + 1 /\ \A x \in Starter \ {t} : Owed(x)' <= Owed(x)
           /\ pending' = pending => Owed(t)' <= Owed(t)
<1>1. c \notin pending /\ pending \subseteq Call /\ callTurn \in [Call -> Starter \cup {None}]
    BY DEF CallsInOrder, CallsTyped
<1>2. \A x : Cardinality(ListForTurn(x)) \in Nat /\ Owed(x) \in Nat /\ IsFiniteSet(ListForTurn(x))
    BY OwedIs
<1>3. /\ \A x \in Starter \ {t} : ListForTurn(x)' = ListForTurn(x)
      /\ ListForTurn(t)' = IF pending' = pending THEN ListForTurn(t) ELSE ListForTurn(t) \cup {c}
      /\ c \notin ListForTurn(t)
    BY <1>1, StartersAre DEF ListForTurn
<1>4. Cardinality(ListForTurn(t) \cup {c}) = Cardinality(ListForTurn(t)) + 1
    BY <1>2, <1>3, FS_AddElement
<1>5. \A x : Owed(x)' = Cardinality(ListForTurn(x)') + (IF x \in dangerous THEN 1 ELSE 0)
    BY DEF Owed
<1> QED
    BY <1>2, <1>3, <1>4, <1>5 DEF Owed

\* How the turns of app-server move, and that a request which has a turn keeps one.
LEMMA TurnsMove ==
    ASSUME Typed, Next, NEW t \in Starter
    PROVE  /\ \/ turn'[t] = turn[t]
              \/ pc[t] = "starting" /\ turn[t] = "none" /\ turn'[t] = "running"
              \/ turn[t] = "running" /\ turn'[t] = "ended"
           /\ t \in dangerous' => t \in dangerous \/ (turn[t] = "running" /\ turn'[t] = turn[t])
           /\ turnOf'[t] \in {turnOf[t], t}
<1>0. turnOf \in [Req -> Starter \cup {None}] /\ turn \in [Starter -> {"none", "running", "ended"}]
    BY TypesAreParts DEF Typed, ClientsTyped, TurnsTyped
<1>1. CASE UNCHANGED <<turnOf, turn, dangerous>>
    BY <1>0, <1>1
<1>2. ASSUME NEW r \in Starter, Start(r) PROVE turnOf'[t] \in {turnOf[t], t} /\ UNCHANGED <<turn, dangerous>>
    BY <1>0, <1>2, StartersAre DEF Start, turnVars
<1>3. ASSUME NEW r \in Continuer, NEW p, NEW outputs, Continue(r, p, outputs)
      PROVE  turnOf'[t] = turnOf[t] /\ UNCHANGED <<turn, dangerous>>
    BY <1>0, <1>3, StartersAre DEF Continue, turnVars
<1>4. ASSUME NEW r \in Starter, TurnStarts(r)
      PROVE  /\ UNCHANGED <<turnOf, dangerous>>
             /\ turn'[t] = turn[t] \/ (pc[t] = "starting" /\ turn[t] = "none" /\ turn'[t] = "running")
    BY <1>0, <1>4 DEF TurnStarts, clientVars
<1>5. ASSUME NEW x \in Starter, DangerousItem(x)
      PROVE  /\ UNCHANGED <<turnOf, turn>>
             /\ t \in dangerous' => t \in dangerous \/ turn[t] = "running"
    BY <1>5 DEF DangerousItem, clientVars
<1>6. ASSUME NEW x \in Starter, NEW status, TurnCompleted(x, status)
      PROVE  /\ UNCHANGED <<turnOf, dangerous>>
             /\ turn'[t] = turn[t] \/ (turn[t] = "running" /\ turn'[t] = "ended")
    BY <1>0, <1>6 DEF TurnCompleted, clientVars
<1>7. ASSUME ChildFailure
      PROVE  /\ UNCHANGED <<turnOf, dangerous>>
             /\ turn'[t] = turn[t] \/ (turn[t] = "running" /\ turn'[t] = "ended")
    BY <1>0, <1>7 DEF ChildFailure
<1>8. \A r \in Starter : BeginSession(r) => UNCHANGED <<turnOf, turn, dangerous>>
    BY BeginSessionIs DEF clientVars, turnVars
<1>9. \A r : TurnStartAnswered(r) \/ StartFails(r) \/ ContinueRefused(r) \/ RelayDelta(r)
             => UNCHANGED <<turnOf, turn, dangerous>>
    BY DEF TurnStartAnswered, StartFails, ContinueRefused, RelayDelta, clientVars, turnVars
<1>10. \A r : RespondToSecurity(r) \/ RespondToTool(r) \/ RejectUndeclared(r) \/ RespondToEnd(r)
             => UNCHANGED <<turnOf, turn, dangerous>>
    BY DEF RespondToSecurity, RespondToTool, RejectUndeclared, RespondToEnd, clientVars, turnVars
<1>11. \A r : Interrupted(r) \/ Aborted(r) \/ Rejected(r) \/ DetachedEnds(r) \/ Drained(r)
             => UNCHANGED <<turnOf, turn, dangerous>>
    BY DEF Interrupted, Aborted, Rejected, DetachedEnds, Drained, clientVars, turnVars
<1>12. \A r : Disconnect(r) \/ EmitTooLarge(r) \/ ContinuationTooLarge(r) \/ ResponseTimeout(r)
             => UNCHANGED <<turnOf, turn, dangerous>>
    BY DEF Disconnect, EmitTooLarge, ContinuationTooLarge, ResponseTimeout, clientVars, turnVars
<1>13. \A x, c : CallExpires(c) \/ ToolCalled(x, c) \/ Delta(x) => UNCHANGED <<turnOf, turn, dangerous>>
    BY DEF CallExpires, ToolCalled, Delta, clientVars, turnVars
<1>14. \A r, p, outputs, answered : ContinueTooLarge(r, p, outputs, answered)
                                    => UNCHANGED <<turnOf, turn, dangerous>>
    BY DEF ContinueTooLarge, clientVars, turnVars
<1> QED
    BY <1>1, <1>2, <1>3, <1>4, <1>5, <1>6, <1>7, <1>8, <1>9, <1>10, <1>11, <1>12, <1>13, <1>14 DEF Next

LEMMA FreshKept == ASSUME Placed, Fresh, Next PROVE Fresh'
<1>1. OnTurn /\ OnTurn'
    BY OnTurnKept DEF Placed, Typed
<1>2. ASSUME NEW t \in Starter, pc'[t] = "idle" PROVE pc[t] = "idle"
    BY <1>1, <1>2, TurnsMove, StartersAre DEF OnTurn, Placed
<1> QED
    BY <1>2, TurnsMove DEF Fresh, Placed

-----------------------------------------------------------------------------
(* The end of a turn *)

LEMMA EndSequences ==
    ASSUME NEW signals \in Seq(Signal)
    PROVE  /\ \A s \in Signal : HasEnd(signals) \/ s \in EndSignal => HasEnd(Append(signals, s))
           /\ HasEnd(signals) => /\ signals # <<>>
                                 /\ Head(signals) \in EndSignal \/ HasEnd(Tail(signals))
<1>0. Len(signals) \in Nat
    OBVIOUS
<1>1. ASSUME NEW s \in Signal, HasEnd(signals) \/ s \in EndSignal PROVE HasEnd(Append(signals, s))
  <2>1. /\ Len(Append(signals, s)) = Len(signals) + 1
        /\ \A i \in 1..Len(signals) : Append(signals, s)[i] = signals[i]
        /\ Append(signals, s)[Len(signals) + 1] = s
      BY AppendProperties
  <2>2. CASE HasEnd(signals)
    <3>1. PICK i \in 1..Len(signals) : signals[i] \in EndSignal
        BY <2>2 DEF HasEnd
    <3>2. i \in 1..(Len(signals) + 1) /\ Append(signals, s)[i] \in EndSignal
        BY <1>0, <2>1, <3>1
    <3> QED
        BY <2>1, <3>2 DEF HasEnd
  <2>3. CASE s \in EndSignal
    <3>1. Len(signals) + 1 \in 1..(Len(signals) + 1)
        BY <1>0
    <3> QED
        BY <2>1, <2>3, <3>1 DEF HasEnd
  <2> QED
      BY <1>1, <2>2, <2>3
<1>2. ASSUME HasEnd(signals)
      PROVE  signals # <<>> /\ (Head(signals) \in EndSignal \/ HasEnd(Tail(signals)))
  <2>1. PICK i \in 1..Len(signals) : signals[i] \in EndSignal
      BY <1>2 DEF HasEnd
  <2>2. signals # <<>>
      BY <1>0, <2>1
  <2>3. /\ Head(signals) = signals[1] /\ Len(Tail(signals)) = Len(signals) - 1
        /\ \A j \in 1..Len(Tail(signals)) : Tail(signals)[j] = signals[j + 1]
      BY <2>2, HeadTailProperties
  <2>4. CASE i # 1
    <3>1. i - 1 \in 1..Len(Tail(signals)) /\ (i - 1) + 1 = i
        BY <1>0, <2>1, <2>3, <2>4
    <3>2. Tail(signals)[i - 1] \in EndSignal
        BY <2>1, <2>3, <3>1
    <3> QED
        BY <2>2, <3>1, <3>2 DEF HasEnd
  <2> QED
      BY <2>1, <2>2, <2>3, <2>4
<1> QED
    BY <1>1, <1>2

LEMMA EndNotedKept == ASSUME Placed, Outcomes, EndNoted, Next PROVE EndNoted'
<1>0. /\ pc \in [Req -> PcValues] /\ hand \in [Req -> Signal \cup {"none"}] /\ mapped \subseteq Starter
      /\ turnOf \in [Req -> Starter \cup {None}] /\ turn \in [Starter -> {"none", "running", "ended"}]
      /\ SessionsTyped /\ SessionsOk(session) /\ OnTurn /\ Typed
      /\ \A t \in Starter : session[t].signals \in Seq(Signal) /\ orphan[t] \in Seq(Signal)
    BY TypesAreParts DEF Placed, Typed, RequestsTyped, ClientsTyped, SessionsTyped, TurnsTyped,
                         SessionsOk, Session
<1>a. EndNoted
    OBVIOUS
<1>b. /\ \A q \in Req : pc[q] \in Working => turnOf[q] \in Starter
      /\ \A q \in Starter : pc[q] # "idle" => turnOf[q] = q
      /\ \A q \in Req : pc[q] \in {"created", "reading", "relaying"} => q \in Starter /\ turnOf[q] = q
      /\ \A q \in Req : q \in known => turnOf[q] \in Starter
      /\ \A t \in Starter : pc[t] \in Unbegun => t \notin mapped
    BY WaitsFacts
<1>f. {"tool", "security", "delta", "completed", "failed"} \subseteq Signal
    BY DEF Signal
<1>g. \A r : AfterError(r) \in {"emitting", "done"}
    BY DEF AfterError
<1>m. Moves
    BY StepsMove
<1>r. Relayed' = Relayed
    BY <1>m DEF Moves, Relayed
<1>n. \A t \in Starter : t \in mapped' \/ pc'[t] = "begun" => turn'[t] # "none"
  <2>1. ASSUME NEW t \in Starter, t \in mapped' \/ pc'[t] = "begun" PROVE turn[t] # "none"
    <3>1. Stepped(t)
        BY <1>m, StartersAre DEF Moves
    <3> QED
        BY <1>m, <2>1, <3>1 DEF Moves, Stepped, EndNoted
  <2> QED
      BY <1>0, <2>1, TurnsMove
\* Neither a signal nor the end of a turn nor who was woken by it: all is as it was.
<1>u. ASSUME mapped' \subseteq mapped, up' => up,
             \A x \in Starter : turn'[x] = "ended" => turn[x] = "ended",
             \A x \in mapped' \ Relayed : /\ session'[x].signals = session[x].signals
                                         /\ session'[x].waiter \in {session[x].waiter, None},
             \A x \in Starter : pc'[x] \in Unbegun => pc[x] \in Unbegun /\ orphan'[x] = orphan[x],
             \A q \in Req, x \in mapped' \ Relayed : Ending(q, x)' <=> Ending(q, x)
      PROVE  EndNoted'
  <2>1. ASSUME NEW x \in Starter \ Relayed, up', turn'[x] = "ended"
        PROVE  /\ pc'[x] \in Unbegun => HasEnd(orphan'[x])
               /\ x \in mapped' => HasEnd(session'[x].signals) \/ \E q \in Req : Ending(q, x)'
    <3>1. /\ pc[x] \in Unbegun => HasEnd(orphan[x])
          /\ x \in mapped => HasEnd(session[x].signals) \/ \E q \in Req : Ending(q, x)
        BY <1>a, <1>u, <2>1 DEF EndNoted
    <3> QED
        BY <1>u, <2>1, <3>1
  <2>2. ASSUME NEW x \in mapped' \ Relayed, NEW q \in Req, Ending(q, x)' PROVE session'[x].waiter = None
    <3>1. Ending(q, x) /\ x \in mapped \ Relayed
        BY <1>u, <2>2
    <3>2. session[x].waiter = None
        BY <1>a, <3>1 DEF EndNoted
    <3> QED
        BY <1>u, <2>2, <3>2
  <2> QED
      BY <1>n, <1>r, <2>1, <2>2 DEF EndNoted
\* One request moves: neither before nor after it is the one that an end has woken.
<1>v. ASSUME NEW r \in Req,
             pc'[r] = "woken" => turnOf'[r] \in Relayed,
             pc[r] = "woken" /\ hand[r] \in EndSignal => turnOf[r] \notin mapped',
             \A q \in Req \ {r} : /\ hand'[q] = hand[q] /\ turnOf'[q] = turnOf[q]
                                  /\ pc'[q] = pc[q] \/ (pc[q] # "woken" /\ pc'[q] # "woken"),
             NEW q \in Req, NEW x \in mapped' \ Relayed
      PROVE  Ending(q, x)' <=> Ending(q, x)
  <2>1. CASE q = r
    <3>1. ~Ending(q, x)
        BY <1>v, <2>1 DEF Ending
    <3>2. ~Ending(q, x)'
        BY <1>v, <2>1 DEF Ending
    <3> QED
        BY <3>1, <3>2
  <2>2. CASE q # r
    <3>1. hand'[q] = hand[q] /\ turnOf'[q] = turnOf[q] /\ (pc'[q] = pc[q] \/ (pc[q] # "woken" /\ pc'[q] # "woken"))
        BY <1>v, <2>2
    <3> QED
        BY <3>1 DEF Ending
  <2> QED
      BY <2>1, <2>2
\* One request moves and the sessions stay as they are.
<1>o. ASSUME NEW r \in Req, mapped' = mapped, up' => up,
             \A x \in Starter : turn'[x] = "ended" => turn[x] = "ended",
             session' = session, orphan' = orphan, pc'[r] # "woken",
             pc[r] = "woken" => hand[r] \notin EndSignal,
             \A x \in Starter : pc'[x] \in Unbegun => pc[x] \in Unbegun,
             \A q \in Req \ {r} : hand'[q] = hand[q] /\ turnOf'[q] = turnOf[q] /\ pc'[q] = pc[q]
      PROVE  EndNoted'
  <2>1. \A q \in Req, x \in mapped' \ Relayed : Ending(q, x)' <=> Ending(q, x)
      BY <1>o, <1>v
  <2> QED
      BY <1>o, <1>u, <2>1
\* One request moves and removes its session.
<1>h. ASSUME NEW r \in Req, RemoveSession(turnOf[r]), up' = up, turn' = turn, hand' = hand,
             turnOf[r] \in Starter => pc[turnOf[r]] \notin Unbegun, turnOf' = turnOf,
             pc'[r] # "woken",
             pc[r] \notin Unbegun, pc'[r] \notin Unbegun,
             \A q \in Req \ {r} : pc'[q] = pc[q]
      PROVE  EndNoted'
  <2>1. /\ mapped' = mapped \ {turnOf[r]} /\ \A x \in Starter \ {turnOf[r]} : orphan'[x] = orphan[x]
        /\ \A x \in Starter : session'[x].signals = session[x].signals /\ session'[x].waiter = session[x].waiter
      BY <1>0, <1>h, RemoveStores
  <2>2. \A q \in Req, x \in mapped' \ Relayed : Ending(q, x)' <=> Ending(q, x)
      BY <1>h, <1>v, <2>1
  <2>3. ASSUME NEW x \in Starter, pc'[x] \in Unbegun PROVE pc[x] \in Unbegun /\ orphan'[x] = orphan[x]
    <3>1. x # r /\ pc[x] \in Unbegun
        BY <1>h, <2>3, StartersAre
    <3> QED
        BY <1>h, <2>1, <3>1
  <2> QED
      BY <1>0, <1>h, <1>u, <2>1, <2>2, <2>3
\* An abort by r.
<1>j. ASSUME NEW r \in Req, NEW t \in Starter, Abort(r, t, session), turnOf' = turnOf, up' = up, turn' = turn,
             pc[r] # "woken", mapped' = mapped, orphan' = orphan
      PROVE  EndNoted'
  <2>1. \A x \in Starter : session'[x].signals = session[x].signals /\ session'[x].waiter \in {session[x].waiter, None}
      BY <1>0, <1>j, AbortStores DEF OthersSame
  <2>2. /\ pc'[r] = "aborting"
        /\ \A q \in Req : /\ hand'[q] = hand[q]
                          /\ pc'[q] = pc[q] \/ (pc[q] # "woken" /\ pc'[q] # "woken")
                          /\ pc'[q] = pc[q] \/ pc'[q] = "aborting"
      BY <1>j, AbortMoves
  <2>3. \A q \in Req, x \in mapped' \ Relayed : Ending(q, x)' <=> Ending(q, x)
      BY <1>j, <1>v, <2>2
  <2> QED
      BY <1>0, <1>j, <1>u, <2>1, <2>2, <2>3, StartersAre DEF Unbegun
\* A line of the turn t, its last when the turn ends.
<1>s. ASSUME NEW t \in Starter, NEW s \in Signal, SignalTurn(t, s),
             UNCHANGED <<mapped, turnOf, up>>, turn[t] = "running",
             \A x \in Starter \ {t} : turn'[x] = turn[x],
             turn'[t] = "ended" => s \in EndSignal
      PROVE  EndNoted'
  <2>1. ASSUME NEW q \in Req
        PROVE  \/ pc'[q] = pc[q] /\ hand'[q] = hand[q]
               \/ /\ pc'[q] = "woken" /\ hand'[q] = s /\ turnOf[q] = t /\ t \in mapped
                  /\ \/ pc[q] = "waiting" /\ session[t].waiter = q /\ s # "delta"
                     \/ pc[q] = "reading" /\ q = t
      BY <1>s, SignalMoves
  <2>2. ASSUME NEW x \in Starter, pc'[x] \in Unbegun PROVE pc[x] \in Unbegun
      BY <2>1, <2>2, StartersAre DEF Unbegun
  <2>3. ASSUME NEW x \in Starter \ {t}, NEW q \in Req PROVE Ending(q, x)' <=> Ending(q, x)
      BY <1>s, <2>1, <2>3 DEF Ending
  <2>4. \A x \in Starter \ {t} : session'[x] = session[x] /\ orphan'[x] = orphan[x]
      BY <1>0, <1>s, SignalStores
  <2>5. ASSUME NEW x \in Starter \ Relayed, x # t, up', turn'[x] = "ended"
        PROVE  /\ pc'[x] \in Unbegun => HasEnd(orphan'[x])
               /\ x \in mapped' => HasEnd(session'[x].signals) \/ \E q \in Req : Ending(q, x)'
    <3>1. /\ pc[x] \in Unbegun => HasEnd(orphan[x])
          /\ x \in mapped => HasEnd(session[x].signals) \/ \E q \in Req : Ending(q, x)
        BY <1>a, <1>s, <2>5 DEF EndNoted
    <3> QED
        BY <1>s, <2>2, <2>3, <2>4, <2>5, <3>1
  <2>6. ASSUME turn'[t] = "ended", pc'[t] \in Unbegun PROVE HasEnd(orphan'[t])
    <3>1. t \notin mapped /\ s \in EndSignal /\ s # "delta"
        BY <1>b, <1>s, <2>2, <2>6 DEF EndSignal
    <3>2. orphan'[t] = Append(orphan[t], s)
        BY <1>0, <1>s, <3>1, SignalStores
    <3> QED
        BY <1>0, <3>1, <3>2, EndSequences
  <2>7. ASSUME turn'[t] = "ended", t \in mapped
        PROVE  HasEnd(session'[t].signals) \/ \E q \in Req : Ending(q, t)'
    <3>0. s \in EndSignal /\ s # "delta"
        BY <1>s, <2>7 DEF EndSignal
    <3>1. CASE session[t].waiter = None
      <4>1. session'[t].signals = Append(session[t].signals, s)
          BY <1>0, <1>s, <2>7, <3>0, <3>1, SignalStores
      <4> QED
          BY <1>0, <3>0, <4>1, EndSequences
    <3>2. CASE session[t].waiter # None
      <4>1. PICK q \in Req : q = session[t].waiter /\ pc[q] = "waiting" /\ turnOf[q] = t
          BY <3>2, WaitsFacts
      <4>2. session'[t].waiter = None
          BY <1>0, <1>s, <2>7, <3>0, SignalStores
      <4>3. pc'[q] # "waiting"
        <5>1. Waits'
            BY <1>s, SignalWaits
        <5>2. pc'[q] = "waiting" => session'[turnOf'[q]].waiter = q
            BY <5>1 DEF Waits, WaitsIn
        <5> QED
            BY <1>s, <4>1, <4>2, <5>2, StartersAre
      <4>4. pc'[q] = "woken" /\ hand'[q] = s
          BY <2>1, <4>1, <4>3
      <4>5. Ending(q, t)'
          BY <1>s, <3>0, <4>1, <4>4 DEF Ending
      <4> QED
          BY <4>5
    <3> QED
        BY <3>1, <3>2
  <2>8. ASSUME NEW x \in mapped \ Relayed, NEW q \in Req, Ending(q, x)' PROVE session'[x].waiter = None
    <3>1. CASE x # t
      <4>1. x \in Starter \ {t}
          BY <1>0, <2>8, <3>1
      <4> QED
          BY <1>a, <2>3, <2>4, <2>8, <4>1 DEF EndNoted
    <3>2. CASE x = t /\ s # "delta"
        BY <1>0, <1>s, <2>8, <3>2, SignalStores
    <3>3. CASE x = t /\ s = "delta"
      <4>1. hand'[q] # s
          BY <2>8, <3>3 DEF Ending, EndSignal
      <4>2. Ending(q, t)
          BY <1>s, <2>1, <2>8, <3>3, <4>1 DEF Ending
      <4>3. session[t].waiter = None
          BY <1>a, <2>8, <3>3, <4>2 DEF EndNoted
      <4> QED
          BY <1>0, <1>s, <2>8, <3>3, <4>3, SignalStores
    <3> QED
        BY <3>1, <3>2, <3>3
  <2> QED
      BY <1>n, <1>r, <1>s, <2>5, <2>6, <2>7, <2>8 DEF EndNoted
<1> USE <1>0, StartersAre
<1>1. ASSUME NEW r \in Starter, Start(r) PROVE EndNoted'
  <2>1. /\ UNCHANGED <<mapped, session, orphan>> /\ up' = up /\ r \in Req
        /\ \A x \in Starter : turn'[x] = "ended" => turn[x] = "ended"
        /\ pc[r] = "idle" /\ pc'[r] = "starting"
        /\ \A q \in Req \ {r} : hand'[q] = hand[q] /\ turnOf'[q] = turnOf[q] /\ pc'[q] = pc[q]
      BY <1>g, <1>1 DEF Start, Return, Resolve, clientVars, sessionVars, requestVars, turnVars
  <2> QED
      BY <1>o, <2>1 DEF Unbegun, EndSignal
<1>2. ASSUME NEW r \in Starter, TurnStarts(r) PROVE EndNoted'
  <2>1. /\ UNCHANGED <<mapped, session, orphan>> /\ up' = up /\ r \in Req
        /\ \A x \in Starter : turn'[x] = "ended" => turn[x] = "ended"
        /\ pc[r] = "starting" /\ pc'[r] = "starting"
        /\ \A q \in Req \ {r} : hand'[q] = hand[q] /\ turnOf'[q] = turnOf[q] /\ pc'[q] = pc[q]
      BY <1>g, <1>2 DEF TurnStarts, Return, Resolve, clientVars, sessionVars, requestVars, turnVars
  <2> QED
      BY <1>o, <2>1 DEF Unbegun, EndSignal
<1>3. ASSUME NEW r \in Starter, TurnStartAnswered(r) PROVE EndNoted'
  <2>1. /\ UNCHANGED <<mapped, session, orphan>> /\ up' = up /\ r \in Req
        /\ \A x \in Starter : turn'[x] = "ended" => turn[x] = "ended"
        /\ pc[r] = "starting" /\ pc'[r] = "begun"
        /\ \A q \in Req \ {r} : hand'[q] = hand[q] /\ turnOf'[q] = turnOf[q] /\ pc'[q] = pc[q]
      BY <1>g, <1>3 DEF TurnStartAnswered, Return, Resolve, clientVars, sessionVars, requestVars, turnVars
  <2> QED
      BY <1>o, <2>1 DEF Unbegun, EndSignal
<1>4. ASSUME NEW r \in Starter, StartFails(r) PROVE EndNoted'
  <2>1. /\ UNCHANGED <<mapped, session, orphan>> /\ up' = up /\ r \in Req
        /\ \A x \in Starter : turn'[x] = "ended" => turn[x] = "ended"
        /\ pc[r] = "starting" /\ pc'[r] \in {"emitting", "done"}
        /\ \A q \in Req \ {r} : hand'[q] = hand[q] /\ turnOf'[q] = turnOf[q] /\ pc'[q] = pc[q]
      BY <1>g, <1>4 DEF StartFails, Return, Resolve, clientVars, sessionVars, requestVars, turnVars
  <2> QED
      BY <1>o, <2>1 DEF Unbegun, EndSignal
<1>5. ASSUME NEW r \in Starter, BeginSession(r) PROVE EndNoted'
  <2>1. /\ UNCHANGED <<turnOf, turn, up>> /\ mapped' = mapped \cup {r} /\ pc[r] = "begun" /\ r \in Req
      BY <1>5, BeginSessionIs DEF clientVars, turnVars
  <2>2. /\ \A q \in Req \ {r} : pc'[q] = pc[q] /\ hand'[q] = hand[q]
        /\ pc'[r] \in {"created", "hung", "waiting", "aborting", "woken"}
        /\ r \in Relayed \/ (pc'[r] = "woken" => hand'[r] = Head(orphan[r]))
      BY <1>5, BeginningMoves DEF Relayed
  <2>3. /\ \A x \in Starter \ {r} : session'[x] = session[x] /\ orphan'[x] = orphan[x]
        /\ \/ r \in Relayed
           \/ /\ pc'[r] = "aborting" /\ session'[r].signals = orphan[r] /\ session'[r].waiter = None
           \/ /\ pc'[r] = "woken" /\ orphan[r] # <<>>
              /\ session'[r].signals = Tail(orphan[r]) /\ session'[r].waiter = None
           \/ pc'[r] = "waiting" /\ orphan[r] = <<>> /\ session'[r].signals = <<>>
      BY <1>5, BeginningStores DEF Relayed
  <2>4. turnOf[r] = r /\ \A q \in Req \ {r} : turnOf[q] # r
      BY <2>1, WaitsFacts DEF Unbegun
  <2>5. ASSUME NEW q \in Req, NEW x \in Starter \ {r} PROVE Ending(q, x)' <=> Ending(q, x)
    <3>1. CASE q = r
        BY <2>1, <2>4, <2>5, <3>1 DEF Ending
    <3>2. CASE q # r
        BY <2>1, <2>2, <3>2 DEF Ending
    <3> QED
        BY <3>1, <3>2
  <2>6. ASSUME NEW x \in Starter \ Relayed, x # r, up', turn'[x] = "ended"
        PROVE  /\ pc'[x] \in Unbegun => HasEnd(orphan'[x])
               /\ x \in mapped' => HasEnd(session'[x].signals) \/ \E q \in Req : Ending(q, x)'
    <3>1. /\ pc[x] \in Unbegun => HasEnd(orphan[x])
          /\ x \in mapped => HasEnd(session[x].signals) \/ \E q \in Req : Ending(q, x)
        BY <1>a, <2>1, <2>6 DEF EndNoted
    <3>2. pc'[x] = pc[x] /\ orphan'[x] = orphan[x] /\ session'[x] = session[x] /\ (x \in mapped' => x \in mapped)
        BY <2>1, <2>2, <2>3, <2>6
    <3> QED
        BY <2>5, <2>6, <3>1, <3>2
  <2>7. ASSUME r \notin Relayed, up', turn'[r] = "ended"
        PROVE  HasEnd(session'[r].signals) \/ \E q \in Req : Ending(q, r)'
    <3>1. HasEnd(orphan[r])
        BY <1>a, <2>1, <2>7 DEF EndNoted, Unbegun
    <3>2. orphan[r] # <<>> /\ (Head(orphan[r]) \in EndSignal \/ HasEnd(Tail(orphan[r])))
        BY <3>1, EndSequences
    <3>3. pc'[r] = "woken" /\ Head(orphan[r]) \in EndSignal => Ending(r, r)'
        BY <2>1, <2>2, <2>4, <2>7 DEF Ending
    <3> QED
        BY <2>1, <2>3, <2>7, <3>1, <3>2, <3>3
  <2>8. ASSUME NEW x \in mapped' \ Relayed, NEW q \in Req, Ending(q, x)' PROVE session'[x].waiter = None
    <3>1. CASE x # r
      <4>1. x \in Starter \ {r} /\ x \in mapped
          BY <2>1, <2>8, <3>1
      <4> QED
          BY <1>a, <2>3, <2>5, <2>8, <4>1 DEF EndNoted
    <3>2. CASE x = r
      <4>1. q = r
          BY <2>1, <2>4, <2>8, <3>2 DEF Ending
      <4> QED
          BY <2>3, <2>8, <3>2, <4>1 DEF Ending
    <3> QED
        BY <3>1, <3>2
  <2>9. pc'[r] \notin Unbegun
      BY <2>2 DEF Unbegun
  <2> QED
      BY <1>n, <1>r, <2>6, <2>7, <2>8, <2>9 DEF EndNoted
<1>6. ASSUME NEW r \in Continuer, NEW p \in Req, NEW outputs \in SUBSET Shown, Continue(r, p, outputs) PROVE EndNoted'
  <2>0. PICK t \in Starter : t = turnOf[p]
      BY <1>b, <1>6 DEF Continue, MayContinue
  <2>1. /\ NextSignal(r, t, session) /\ r \in Req /\ pc[r] = "idle" /\ Quiet
        /\ UNCHANGED <<mapped, orphan, turn, up>> /\ turnOf' = [turnOf EXCEPT ![r] = t]
      BY <1>6, <2>0 DEF Continue, Event, turnVars
  <2>2. ASSUME NEW q \in Req \ {r}
        PROVE  pc'[q] = pc[q] \/ (pc[q] # "woken" /\ pc'[q] = "aborting")
      BY <2>1, NextSignalMoves
  <2>3. ASSUME NEW q \in Req, NEW x \in Starter PROVE ~Ending(q, x) /\ (x # t => ~Ending(q, x)')
    <3>1. pc[q] # "woken"
        BY <2>1 DEF Quiet, Scheduled
    <3>2. q # r => pc'[q] # "woken"
        BY <2>2, <3>1
    <3>3. q = r => turnOf'[q] = t
        BY <2>1
    <3> QED
        BY <3>1, <3>2, <3>3 DEF Ending
  <2>4. \A x \in Starter \ {t} : session'[x] = session[x]
      BY <2>1, NextSignalStores DEF OthersSame
  <2>5. ASSUME NEW x \in Starter, pc'[x] \in Unbegun PROVE pc[x] \in Unbegun
    <3>1. x # r /\ x \in Req
        BY <1>6
    <3> QED
        BY <2>2, <2>5, <3>1 DEF Unbegun
  <2>6. ASSUME NEW x \in Starter \ Relayed, up', turn'[x] = "ended"
        PROVE  /\ pc'[x] \in Unbegun => HasEnd(orphan'[x])
               /\ x \in mapped => HasEnd(session[x].signals)
      BY <1>a, <2>1, <2>3, <2>5, <2>6 DEF EndNoted
  <2>7. ASSUME HasEnd(session[t].signals)
        PROVE  HasEnd(session'[t].signals) \/ Ending(r, t)'
    <3>1. /\ session[t].signals # <<>>
          /\ Head(session[t].signals) \in EndSignal \/ HasEnd(Tail(session[t].signals))
        BY <2>7, EndSequences
    <3>2. session'[t].signals = Tail(session[t].signals)
        BY <2>1, <3>1, NextSignalStores
    <3>3. pc'[r] = "woken" /\ hand'[r] = Head(session[t].signals)
        BY <2>1, <3>1 DEF NextSignal
    <3>4. Head(session[t].signals) \in EndSignal => Ending(r, t)'
        BY <2>1, <3>3 DEF Ending
    <3> QED
        BY <3>1, <3>2, <3>4
  <2>8. ASSUME NEW q \in Req, Ending(q, t)' PROVE session'[t].waiter = None
    <3>1. q = r /\ pc'[r] = "woken"
        BY <2>1, <2>2, <2>8 DEF Ending, Quiet, Scheduled
    <3>2. session[t].signals # <<>>
        BY <2>1, <3>1, NextSignalMoves
    <3>3. session[t].waiter = None
        BY <3>2, WaitsFacts DEF Placed, Waits, WaitsIn
    <3> QED
        BY <2>1, <3>2, <3>3, NextSignalStores
  <2>9. ASSUME NEW x \in Starter \ Relayed, up', turn'[x] = "ended", x \in mapped
        PROVE  HasEnd(session'[x].signals) \/ \E q \in Req : Ending(q, x)'
      BY <2>1, <2>4, <2>6, <2>7, <2>9
  <2>10. ASSUME NEW x \in mapped \ Relayed, NEW q \in Req, Ending(q, x)' PROVE session'[x].waiter = None
      BY <2>3, <2>8, <2>10
  <2> QED
      BY <1>n, <1>r, <2>1, <2>6, <2>9, <2>10 DEF EndNoted
<1>7. ASSUME NEW r \in Continuer, NEW p \in Req, NEW outputs \in SUBSET Shown,
            NEW answered \in SUBSET outputs, ContinueTooLarge(r, p, outputs, answered) PROVE EndNoted'
  <2>1. /\ UNCHANGED <<mapped, session, orphan>> /\ up' = up /\ r \in Req
        /\ \A x \in Starter : turn'[x] = "ended" => turn[x] = "ended"
        /\ pc[r] = "idle" /\ pc'[r] \in {"emitting", "done"}
        /\ \A q \in Req \ {r} : hand'[q] = hand[q] /\ turnOf'[q] = turnOf[q] /\ pc'[q] = pc[q]
      BY <1>g, <1>7 DEF ContinueTooLarge, Return, Resolve, clientVars, sessionVars, requestVars, turnVars
  <2> QED
      BY <1>o, <2>1 DEF Unbegun, EndSignal
<1>8. ASSUME NEW r \in Continuer, ContinueRefused(r) PROVE EndNoted'
  <2>1. /\ UNCHANGED <<mapped, session, orphan>> /\ up' = up /\ r \in Req
        /\ \A x \in Starter : turn'[x] = "ended" => turn[x] = "ended"
        /\ pc[r] = "idle" /\ pc'[r] \in {"emitting", "done"}
        /\ \A q \in Req \ {r} : hand'[q] = hand[q] /\ turnOf'[q] = turnOf[q] /\ pc'[q] = pc[q]
      BY <1>g, <1>8 DEF ContinueRefused, Return, Resolve, clientVars, sessionVars, requestVars, turnVars
  <2> QED
      BY <1>o, <2>1 DEF Unbegun, EndSignal
<1>9. ASSUME NEW r \in Req, RelayDelta(r) PROVE EndNoted'
  <2>1. /\ UNCHANGED <<mapped, session, orphan>> /\ up' = up /\ r \in Req
        /\ \A x \in Starter : turn'[x] = "ended" => turn[x] = "ended"
        /\ pc[r] = "woken" /\ hand[r] = "delta" /\ pc'[r] \in {"hung", "relaying"}
        /\ \A q \in Req \ {r} : hand'[q] = hand[q] /\ turnOf'[q] = turnOf[q] /\ pc'[q] = pc[q]
      BY <1>g, <1>9 DEF RelayDelta, Return, Resolve, clientVars, sessionVars, requestVars, turnVars
  <2> QED
      BY <1>o, <2>1 DEF Unbegun, EndSignal
<1>10. ASSUME NEW r \in Req, RespondToSecurity(r) PROVE EndNoted'
  <2>1. /\ UNCHANGED <<mapped, session, orphan>> /\ up' = up /\ r \in Req
        /\ \A x \in Starter : turn'[x] = "ended" => turn[x] = "ended"
        /\ pc[r] = "woken" /\ hand[r] \in {"security", "overflow"} /\ pc'[r] = "interrupting"
        /\ \A q \in Req \ {r} : hand'[q] = hand[q] /\ turnOf'[q] = turnOf[q] /\ pc'[q] = pc[q]
      BY <1>g, <1>10 DEF RespondToSecurity, Return, Resolve, clientVars, sessionVars, requestVars, turnVars
  <2> QED
      BY <1>o, <2>1 DEF Unbegun, EndSignal
<1>11. ASSUME NEW r \in Req, RespondToTool(r) PROVE EndNoted'
  <2>1. /\ UNCHANGED <<mapped, session, orphan>> /\ up' = up /\ r \in Req
        /\ \A x \in Starter : turn'[x] = "ended" => turn[x] = "ended"
        /\ pc[r] = "woken" /\ hand[r] = "tool" /\ pc'[r] \in {"hung", "done", "emitting"}
        /\ \A q \in Req \ {r} : hand'[q] = hand[q] /\ turnOf'[q] = turnOf[q] /\ pc'[q] = pc[q]
      BY <1>g, <1>11 DEF RespondToTool, Return, Resolve, clientVars, sessionVars, requestVars, turnVars
  <2> QED
      BY <1>o, <2>1 DEF Unbegun, EndSignal
<1>12. ASSUME NEW r \in Req, RejectUndeclared(r) PROVE EndNoted'
  <2>1. /\ turnOf[r] \in Starter /\ session' = Freed(session, turnOf[r])
        /\ UNCHANGED <<turnOf, mapped, orphan, turn, up, hand>> /\ pc[r] = "woken" /\ hand[r] = "tool"
      BY <1>b, <1>12 DEF RejectUndeclared, Freed, clientVars, turnVars, Working
  <2>2. /\ pc'[r] = "rejecting"
        /\ \A q \in Req \ {r} : \/ pc'[q] = pc[q]
                                \/ pc[q] # "woken" /\ pc'[q] = "aborting"
    <3> DEFINE others == {q \in Req : q = session[turnOf[r]].waiter}
                          \cup {q \in {turnOf[r]} : session[turnOf[r]].reading}
    <3>1. pc' = [q \in Req |-> IF q = r THEN "rejecting" ELSE IF q \in others THEN "aborting" ELSE pc[q]]
        BY <1>12 DEF RejectUndeclared
    <3>2. \A q \in others : pc[q] \in {"waiting", "reading"}
        BY <2>1, WaitsFacts
    <3> HIDE DEF others
    <3> QED
        BY <3>1, <3>2
  <2>3. OthersSame(session', session, turnOf[r]) /\ session'[turnOf[r]].waiter = None
        /\ session'[turnOf[r]].signals = session[turnOf[r]].signals
    <3>1. \A x \in Starter :
              /\ OthersSame(Freed(session, x), session, x)
              /\ Freed(session, x)[x].waiter = None
              /\ Freed(session, x)[x].signals = session[x].signals
        BY FreedIs
    <3> QED
        BY <2>1, <3>1
  <2>4. \A x \in Starter : session'[x].signals = session[x].signals /\ session'[x].waiter \in {session[x].waiter, None}
      BY <2>3 DEF OthersSame
  <2>5. \A q \in Req, x \in mapped' \ Relayed : Ending(q, x)' <=> Ending(q, x)
      BY <1>v, <2>1, <2>2 DEF EndSignal
  <2>6. \A x \in Starter : pc'[x] \in Unbegun => pc[x] \in Unbegun
      BY <2>2 DEF Unbegun
  <2> QED
      BY <1>u, <2>1, <2>4, <2>5, <2>6
<1>13. ASSUME NEW r \in Req, RespondToEnd(r) PROVE EndNoted'
  <2>1. /\ RemoveSession(turnOf[r]) /\ turnOf' = turnOf /\ up' = up /\ turn' = turn /\ hand' = hand
        /\ pc[r] = "woken" /\ pc'[r] \in {"hung", "done", "emitting"}
        /\ \A q \in Req \ {r} : pc'[q] = pc[q]
      BY <1>g, <1>13 DEF RespondToEnd, Return, CleanUp, clientVars, turnVars
  <2>2. pc[turnOf[r]] \notin Unbegun
    <3>1. turnOf[r] \in Starter
        BY <1>b, <2>1 DEF Working
    <3> QED
        BY <2>1, <3>1, WaitsFacts DEF Unbegun
  <2> QED
      BY <1>h, <2>1, <2>2 DEF Unbegun
<1>14. ASSUME NEW r \in Req, Interrupted(r) PROVE EndNoted'
  <2>1. /\ RemoveSession(turnOf[r]) /\ turnOf' = turnOf /\ up' = up /\ turn' = turn /\ hand' = hand
        /\ pc[r] = "interrupting" /\ pc'[r] \in {"hung", "done", "emitting"}
        /\ \A q \in Req \ {r} : pc'[q] = pc[q]
      BY <1>g, <1>14 DEF Interrupted, Return, CleanUp, clientVars, turnVars
  <2>2. pc[turnOf[r]] \notin Unbegun
    <3>1. turnOf[r] \in Starter
        BY <1>b, <2>1 DEF Working
    <3> QED
        BY <2>1, <3>1, WaitsFacts DEF Unbegun
  <2> QED
      BY <1>h, <2>1, <2>2 DEF Unbegun
<1>15. ASSUME NEW r \in Req, Aborted(r) PROVE EndNoted'
  <2>1. /\ RemoveSession(turnOf[r]) /\ turnOf' = turnOf /\ up' = up /\ turn' = turn /\ hand' = hand
        /\ pc[r] = "aborting" /\ pc'[r] \in {"hung", "done", "emitting"}
        /\ \A q \in Req \ {r} : pc'[q] = pc[q]
      BY <1>g, <1>15 DEF Aborted, Return, CleanUp, clientVars, turnVars
  <2>2. pc[turnOf[r]] \notin Unbegun
    <3>1. turnOf[r] \in Starter
        BY <1>b, <2>1 DEF Working
    <3> QED
        BY <2>1, <3>1, WaitsFacts DEF Unbegun
  <2> QED
      BY <1>h, <2>1, <2>2 DEF Unbegun
<1>16. ASSUME NEW r \in Req, Rejected(r) PROVE EndNoted'
  <2>1. /\ RemoveSession(turnOf[r]) /\ turnOf' = turnOf /\ up' = up /\ turn' = turn /\ hand' = hand
        /\ pc[r] = "rejecting" /\ pc'[r] \in {"hung", "done", "emitting"}
        /\ \A q \in Req \ {r} : pc'[q] = pc[q]
      BY <1>g, <1>16 DEF Rejected, Return, CleanUp, clientVars, turnVars
  <2>2. pc[turnOf[r]] \notin Unbegun
    <3>1. turnOf[r] \in Starter
        BY <1>b, <2>1 DEF Working
    <3> QED
        BY <2>1, <3>1, WaitsFacts DEF Unbegun
  <2> QED
      BY <1>h, <2>1, <2>2 DEF Unbegun
<1>17. ASSUME NEW r \in Req, DetachedEnds(r) PROVE EndNoted'
  <2>1. /\ RemoveSession(turnOf[r]) /\ UNCHANGED <<turnOf, up, turn, hand, pc>> /\ detached[r] # "none"
      BY <1>17 DEF DetachedEnds, CleanUp, requestVars, turnVars
  <2>2. pc[r] \in Final /\ pc[r] \notin Unbegun /\ pc[r] # "woken"
      BY <2>1 DEF Outcomes, Ends, Final, Unbegun
  <2>3. turnOf[r] \in Starter => pc[turnOf[r]] \notin Unbegun
      BY <2>2, WaitsFacts
  <2> QED
      BY <1>h, <2>1, <2>2, <2>3
<1>18. ASSUME NEW r \in Req, Drained(r) PROVE EndNoted'
  <2>1. UNCHANGED <<mapped, orphan, turnOf, turn, up>>
      BY <1>18 DEF Drained, clientVars, turnVars
  <2>2. \A q \in Req \ {r} : pc'[q] = pc[q] /\ hand'[q] = hand[q]
      BY <1>18, DrainedMoves
  <2>3. r \in streams /\ \A x \in Starter \ {r} : session'[x] = session[x]
      BY <1>18, DrainedStores DEF OthersSame, OnTurn, Relayed
  <2>4. \A x \in mapped' \ Relayed : session'[x] = session[x]
      BY <2>1, <2>3 DEF Relayed
  <2>5. /\ pc[r] \in {"created", "relaying", "emitting"} /\ pc'[r] \in {"woken", "reading", "done"}
        /\ pc'[r] = "woken" => pc[r] \in {"created", "relaying"}
      BY <1>18 DEF Drained
  <2>6. pc'[r] = "woken" => turnOf'[r] \in Relayed
      BY <1>b, <2>1, <2>3, <2>5 DEF Relayed
  <2>7. \A q \in Req, x \in mapped' \ Relayed : Ending(q, x)' <=> Ending(q, x)
      BY <1>v, <2>1, <2>2, <2>5, <2>6
  <2>8. \A x \in Starter : pc'[x] \in Unbegun => pc[x] \in Unbegun
      BY <2>2, <2>5 DEF Unbegun
  <2> QED
      BY <1>u, <2>1, <2>4, <2>7, <2>8
<1>19. ASSUME NEW r \in Req, Disconnect(r) PROVE EndNoted'
  <2>1. /\ UNCHANGED <<turnOf, mapped, orphan, turn, up>>
        /\ \/ /\ \/ pc[r] \in {"waiting", "reading", "relaying", "interrupting", "rejecting"}
                 \/ pc[r] = "emitting" /\ r \in Relayed
              /\ Abort(r, turnOf[r], session)
           \/ /\ session' = session /\ hand' = hand
              /\ pc[r] \in {"created", "emitting"} /\ pc' = [pc EXCEPT ![r] = "done"]
           \/ UNCHANGED <<session, hand, pc>>
      BY <1>19 DEF Disconnect, turnVars
  <2>2. CASE /\ \/ pc[r] \in {"waiting", "reading", "relaying", "interrupting", "rejecting"}
                \/ pc[r] = "emitting" /\ r \in Relayed
             /\ Abort(r, turnOf[r], session)
    <3>1. turnOf[r] \in Starter
        BY <1>b, <2>2 DEF Working, Relayed
    <3> QED
        BY <1>j, <2>1, <2>2, <3>1
  <2>3. CASE /\ session' = session /\ hand' = hand
             /\ pc[r] \in {"created", "emitting"} /\ pc' = [pc EXCEPT ![r] = "done"]
      BY <1>o, <2>1, <2>3 DEF Unbegun
  <2>4. CASE UNCHANGED <<session, hand, pc>>
    <3>1. \A q, x : Ending(q, x)' <=> Ending(q, x)
        BY <2>1, <2>4 DEF Ending
    <3> QED
        BY <1>u, <2>1, <2>4, <3>1
  <2> QED
      BY <2>1, <2>2, <2>3, <2>4
<1>20. ASSUME NEW r \in Starter, EmitTooLarge(r) PROVE EndNoted'
  <2>1. /\ turnOf[r] \in Starter /\ r \in Req /\ Abort(r, turnOf[r], session) /\ pc[r] \in {"relaying", "emitting"}
        /\ UNCHANGED <<turnOf, mapped, orphan, turn, up>>
      BY <1>b, <1>20 DEF EmitTooLarge, clientVars, turnVars, Working, Relayed
  <2> QED
      BY <1>j, <2>1
<1>21. ASSUME NEW r \in Continuer, ContinuationTooLarge(r) PROVE EndNoted'
  <2>1. /\ UNCHANGED <<mapped, session, orphan>> /\ up' = up /\ r \in Req
        /\ \A x \in Starter : turn'[x] = "ended" => turn[x] = "ended"
        /\ pc[r] = "emitting" /\ pc'[r] = "emitting"
        /\ \A q \in Req \ {r} : hand'[q] = hand[q] /\ turnOf'[q] = turnOf[q] /\ pc'[q] = pc[q]
      BY <1>g, <1>21 DEF ContinuationTooLarge, Return, Resolve, clientVars, sessionVars, requestVars, turnVars
  <2> QED
      BY <1>o, <2>1 DEF Unbegun, EndSignal
<1>22. ASSUME NEW r \in Req, ResponseTimeout(r) PROVE EndNoted'
  <2>1. /\ turnOf[r] \in Starter /\ r \in Req /\ Abort(r, turnOf[r], session) /\ pc[r] \in {"waiting", "reading"}
        /\ UNCHANGED <<turnOf, mapped, orphan, turn, up>>
      BY <1>b, <1>22 DEF ResponseTimeout, clientVars, turnVars, Working, Relayed
  <2> QED
      BY <1>j, <2>1
<1>23. ASSUME NEW c \in Call, CallExpires(c) PROVE EndNoted'
  <2>1. UNCHANGED <<pc, hand, turnOf, mapped, session, orphan, turn, up>>
      BY <1>23 DEF CallExpires, clientVars, sessionVars, requestVars, turnVars
  <2>2. \A q, x : Ending(q, x)' <=> Ending(q, x)
      BY <2>1 DEF Ending
  <2> QED
      BY <1>u, <2>1, <2>2
<1>24. ASSUME NEW t \in Starter, NEW c \in Call, ToolCalled(t, c) PROVE EndNoted'
  <2>1. /\ \/ SignalTurn(t, "security")
           \/ SignalTurn(t, "tool")
           \/ UNCHANGED <<pc, hand, session, orphan>>
        /\ UNCHANGED <<turnOf, mapped, turn, up>> /\ turn[t] = "running"
      BY <1>24 DEF ToolCalled, clientVars, turnVars
  <2>2. CASE UNCHANGED <<pc, hand, session, orphan>>
    <3>1. \A q, x : Ending(q, x)' <=> Ending(q, x)
        BY <2>1, <2>2 DEF Ending
    <3> QED
        BY <1>u, <2>1, <2>2, <3>1
  <2>3. CASE SignalTurn(t, "security") \/ SignalTurn(t, "tool")
      BY <1>f, <1>s, <2>1, <2>3
  <2> QED
      BY <2>1, <2>2, <2>3
<1>25. ASSUME NEW t \in Starter, Delta(t) PROVE EndNoted'
  <2>1. /\ SignalTurn(t, "delta") /\ "delta" \in Signal /\ UNCHANGED <<turnOf, mapped, up>>
        /\ turn[t] = "running" /\ turn' = turn
      BY <1>f, <1>25 DEF Delta, clientVars, turnVars
  <2> QED
      BY <1>s, <2>1
<1>26. ASSUME NEW t \in Starter, DangerousItem(t) PROVE EndNoted'
  <2>1. /\ SignalTurn(t, "security") /\ "security" \in Signal /\ UNCHANGED <<turnOf, mapped, up>>
        /\ turn[t] = "running" /\ turn' = turn
      BY <1>f, <1>26 DEF DangerousItem, clientVars, turnVars
  <2> QED
      BY <1>s, <2>1
<1>27. ASSUME NEW t \in Starter, NEW status \in {"completed", "failed"}, TurnCompleted(t, status) PROVE EndNoted'
  <2>1. /\ SignalTurn(t, status) /\ status \in Signal /\ UNCHANGED <<turnOf, mapped, up>>
        /\ turn[t] = "running" /\ status \in EndSignal /\ \A x \in Starter \ {t} : turn'[x] = turn[x]
      BY <1>f, <1>27 DEF TurnCompleted, clientVars, EndSignal
  <2> QED
      BY <1>s, <2>1
<1>28. ASSUME ChildFailure PROVE EndNoted'
  <2>1. up' = FALSE /\ turnOf' = turnOf /\ hand' = hand /\ Quiet
      BY <1>28 DEF ChildFailure, Event
  <2>2. ASSUME NEW q \in Req PROVE pc'[q] # "woken"
    <3>1. pc[q] # "woken"
        BY <2>1 DEF Quiet, Scheduled
    <3>2. pc'[q] \in {pc[q], "done", AfterError(q)}
        BY <1>28 DEF ChildFailure
    <3> QED
        BY <1>g, <3>1, <3>2
  <2>3. \A q \in Req : \A x : ~Ending(q, x)'
      BY <2>2 DEF Ending
  <2> QED
      BY <1>n, <2>1, <2>3 DEF EndNoted
<1> QED
    BY <1>1, <1>2, <1>3, <1>4, <1>5, <1>6, <1>7, <1>8, <1>9, <1>10, <1>11, <1>12,
       <1>13, <1>14, <1>15, <1>16, <1>17, <1>18, <1>19, <1>20, <1>21, <1>22, <1>23,
       <1>24, <1>25, <1>26, <1>27, <1>28 DEF Next

LEMMA AlwaysNoted == Spec => [](Placed /\ Answered /\ EndNoted)
<1>1. Init => EndNoted
    BY StartersAre DEF Init, EndNoted, Unbegun
<1>2. ASSUME EndNoted, UNCHANGED vars PROVE EndNoted'
  <2>1. UNCHANGED <<up, pc, hand, streams, turnOf, mapped, session, orphan, turn>>
      BY <1>2 DEF vars, requestVars, clientVars, sessionVars, turnVars
  <2>2. Relayed' = Relayed /\ \A q, x : Ending(q, x)' <=> Ending(q, x)
      BY <2>1 DEF Relayed, Ending
  <2> QED
      BY <1>2, <2>1, <2>2 DEF EndNoted
<1>3. ASSUME Placed, Answered, EndNoted, [Next]_vars PROVE EndNoted'
    BY <1>2, <1>3, EndNotedKept DEF Answered
<1>4. Placed /\ Answered /\ EndNoted /\ [Next]_vars => EndNoted'
    BY <1>3
<1> QED
    BY <1>1, <1>4, AlwaysInOrder, PTL DEF Spec

\* A request that waits is the one its session wakes, and no signal lies in the queue it waits
\* for. While app-server runs it waits for a turn that runs, whatever ended, aborted, continued
\* or was orphaned meanwhile; but for a stream's turn, and but for the request whose session
\* another request of its turn has removed.
THEOREM WaitersAreWoken == Spec => []NoSignalMissed
<1>1. ASSUME Placed, Answered, EndNoted PROVE NoSignalMissed
  <2>0. mapped \subseteq Starter /\ turn \in [Starter -> {"none", "running", "ended"}]
      BY <1>1, TypesAreParts DEF Placed, Typed, SessionsTyped, TurnsTyped
  <2>1. ASSUME NEW r \in Req, pc[r] = "waiting"
        PROVE  /\ session[turnOf[r]].waiter = r /\ session[turnOf[r]].signals = <<>>
               /\ turnOf[r] \in mapped \/ Ended(turnOf[r])
               /\ up /\ turnOf[r] \in mapped \ Relayed => turn[turnOf[r]] = "running"
    <3>1. turnOf[r] \in Starter /\ session[turnOf[r]].waiter = r /\ session[turnOf[r]].signals = <<>>
        BY <1>1, <2>1, WaitsFacts DEF Working, Placed, Waits, WaitsIn
    <3>2. pc[turnOf[r]] \notin Unbegun
        BY <1>1, <2>1, <3>1, WaitsFacts DEF Unbegun
    <3>3. ~Stopped
        BY <2>1 DEF Stopped
    <3>4. turnOf[r] \in mapped \/ Ended(turnOf[r])
        BY <1>1, <3>1, <3>2, <3>3 DEF Answered, Accounted
    <3>5. ASSUME up, turnOf[r] \in mapped \ Relayed PROVE turn[turnOf[r]] = "running"
      <4>1. turn[turnOf[r]] # "none"
          BY <1>1, <3>1, <3>5 DEF EndNoted
      <4>2. ~HasEnd(session[turnOf[r]].signals)
        <5>1. ~HasEnd(<<>>)
          <6>1. Len(<<>>) = 0 /\ 1..0 = {}
              OBVIOUS
          <6> QED
              BY <6>1 DEF HasEnd
        <5> QED
            BY <3>1, <5>1
      <4>3. \A q \in Req : ~Ending(q, turnOf[r])
          BY <1>1, <3>1, <3>5, StartersAre DEF EndNoted
      <4>4. turn[turnOf[r]] # "ended"
          BY <1>1, <3>1, <3>5, <4>2, <4>3 DEF EndNoted
      <4> QED
          BY <2>0, <3>1, <4>1, <4>4
    <3> QED
        BY <3>1, <3>4, <3>5
  <2>2. ASSUME NEW r \in Req, pc[r] = "reading" PROVE session[r].reading /\ session[r].queue = <<>>
      BY <1>1, <2>2 DEF Placed, Waits, WaitsIn
  <2> QED
      BY <2>1, <2>2 DEF NoSignalMissed
<1> QED
    BY <1>1, AlwaysNoted, PTL

-----------------------------------------------------------------------------
(* The signals a session is owed *)

LEMMA CountedKept == ASSUME Placed, CallsInOrder, Fresh, Counted, Next PROVE Counted'
<1>0. /\ pc \in [Req -> PcValues] /\ mapped \subseteq Starter /\ OnTurn /\ CallsTyped
      /\ SessionsTyped /\ SessionsOk(session) /\ detached \in [Req -> {"none", "security", "undeclared"}]
    BY TypesAreParts DEF Placed, Typed, RequestsTyped, ClientsTyped, SessionsTyped
<1>a. Counted
    OBVIOUS
<1>b. /\ \A q \in Req : pc[q] \in Working => turnOf[q] \in Starter
      /\ \A q \in Starter : pc[q] # "idle" => turnOf[q] = q
      /\ \A q \in Req : pc[q] \in {"created", "reading", "relaying"} => q \in Starter /\ turnOf[q] = q
      /\ \A q \in Req : q \in known => turnOf[q] \in Starter
      /\ \A t \in Starter : pc[t] \in Unbegun => t \notin mapped
    BY WaitsFacts
\* A request works on the session of a turn that has begun.
<1>c. \A q \in Req : turnOf[q] \in Starter /\ (pc[q] \notin Unbegun \/ turnOf[q] # q)
                     => pc[turnOf[q]] \notin Unbegun
    BY DEF Placed, Begun
<1>f. {"tool", "security", "delta", "completed", "failed"} \subseteq Signal
    BY DEF Signal
<1>g. \A r : AfterError(r) \in {"emitting", "done"}
    BY DEF AfterError
<1>n. \A x : Owed(x) \in Nat /\ Owed(x)' \in Nat
    BY <1>0, CallsStayTyped, OwedIs, OwedIsNext
<1>o. ASSUME callTurn' = callTurn, pending' \subseteq pending, dangerous' = dangerous, NEW x
      PROVE  Owed(x)' <= Owed(x) /\ Owed(x)' \in Nat
    BY <1>0, <1>o, AnsweredOwed
\* One session changes; the signals of the others are owed as before, or fewer.
<1>p. ASSUME NEW t, streams' = streams, mapped' \subseteq mapped \cup {t},
             \A x \in Starter : Owed(x)' <= Owed(x) /\ Owed(x) \in Nat /\ Owed(x)' \in Nat,
             t \in mapped' \ Relayed => /\ Owed(t)' <= Len(session'[t].signals) + 1
                                        /\ session'[t].waiter # None => Owed(t)' = 0,
             \A x \in Starter \ {t} : session'[x] = session[x],
             \A x \in Starter : pc'[x] \in Unbegun =>
                pc[x] \in Unbegun /\ orphan'[x] = orphan[x] /\ detached'[x] = detached[x]
      PROVE  Counted'
  <2>1. ASSUME NEW x \in Starter, pc'[x] \in Unbegun PROVE Owed(x)' <= Len(orphan'[x]) /\ detached'[x] = "none"
    <3>1. Owed(x) <= Len(orphan[x]) /\ detached[x] = "none" /\ Len(orphan[x]) \in Nat
        BY <1>0, <1>a, <1>p, <2>1 DEF Counted, SessionsTyped
    <3>2. Owed(x)' <= Owed(x) /\ Owed(x) \in Nat /\ Owed(x)' \in Nat
        BY <1>p
    <3>3. Owed(x)' <= Len(orphan[x])
        BY <3>1, <3>2
    <3> QED
        BY <1>p, <2>1, <3>1, <3>3
  <2>2. ASSUME NEW x \in mapped' \ Relayed, x # t
        PROVE  Owed(x)' <= Len(session'[x].signals) + 1 /\ (session'[x].waiter # None => Owed(x)' = 0)
    <3>1. /\ x \in Starter /\ session'[x] = session[x]
          /\ Owed(x) <= Len(session[x].signals) + 1 /\ (session[x].waiter # None => Owed(x) = 0)
        BY <1>0, <1>a, <1>p, <2>2 DEF Counted
    <3>2. Len(session[x].signals) \in Nat
        BY <1>0, <3>1 DEF SessionsOk, Session
    <3>3. Owed(x)' <= Owed(x) /\ Owed(x) \in Nat /\ Owed(x)' \in Nat
        BY <1>p, <3>1
    <3>4. Owed(x)' <= Len(session[x].signals) + 1 /\ (session[x].waiter # None => Owed(x)' = 0)
        BY <3>1, <3>2, <3>3
    <3> QED
        BY <3>1, <3>4
  <2>3. Relayed' = Relayed
      BY <1>p DEF Relayed
  <2> QED
      BY <1>p, <2>1, <2>2, <2>3 DEF Counted
<1>i. ASSUME streams' = streams, mapped' \subseteq mapped, \A x \in Starter : Owed(x)' <= Owed(x) /\ Owed(x)' \in Nat,
             \A x \in mapped' \ Relayed : session'[x].signals = session[x].signals
                                          /\ session'[x].waiter \in {session[x].waiter, None},
             \A x \in Starter : pc'[x] \in Unbegun =>
                pc[x] \in Unbegun /\ orphan'[x] = orphan[x] /\ detached'[x] \in {detached[x], "none"}
      PROVE  Counted'
  <2>1. ASSUME NEW x \in Starter, pc'[x] \in Unbegun PROVE Owed(x)' <= Len(orphan'[x]) /\ detached'[x] = "none"
    <3>1. /\ Owed(x) <= Len(orphan[x]) /\ detached[x] = "none" /\ Len(orphan[x]) \in Nat
          /\ Owed(x)' <= Owed(x) /\ Owed(x)' \in Nat /\ Owed(x) \in Nat
        BY <1>0, <1>a, <1>i, <1>n, <2>1 DEF Counted, SessionsTyped
    <3>2. Owed(x)' <= Len(orphan[x])
        BY <3>1
    <3> QED
        BY <1>i, <2>1, <3>1, <3>2
  <2>2. ASSUME NEW x \in mapped' \ Relayed
        PROVE  Owed(x)' <= Len(session'[x].signals) + 1 /\ (session'[x].waiter # None => Owed(x)' = 0)
    <3>1. /\ x \in Starter /\ session'[x].signals = session[x].signals
          /\ session'[x].waiter \in {session[x].waiter, None}
          /\ Owed(x) <= Len(session[x].signals) + 1 /\ (session[x].waiter # None => Owed(x) = 0)
        BY <1>0, <1>a, <1>i, <2>2 DEF Counted
    <3>2. Len(session[x].signals) \in Nat
        BY <1>0, <3>1 DEF SessionsOk, Session
    <3>3. Owed(x)' <= Owed(x) /\ Owed(x) \in Nat /\ Owed(x)' \in Nat
        BY <1>i, <1>n, <3>1
    <3>4. Owed(x)' <= Len(session[x].signals) + 1 /\ (session[x].waiter # None => Owed(x)' = 0)
        BY <3>1, <3>2, <3>3
    <3> QED
        BY <3>1, <3>4
  <2>3. Relayed' = Relayed
      BY <1>i DEF Relayed
  <2> QED
      BY <2>1, <2>2, <2>3 DEF Counted
<1>h. ASSUME NEW t \in Starter, pc[t] \notin Unbegun, RemoveSession(t), streams' = streams,
             \A x \in Starter : Owed(x)' <= Owed(x) /\ Owed(x)' \in Nat,
             \A x \in Starter : pc'[x] \in Unbegun => pc[x] \in Unbegun /\ detached'[x] \in {detached[x], "none"}
      PROVE  Counted'
  <2>1. /\ mapped' \subseteq mapped /\ \A x \in Starter \ {t} : orphan'[x] = orphan[x]
        /\ \A x \in Starter : session'[x].signals = session[x].signals /\ session'[x].waiter = session[x].waiter
      BY <1>0, <1>h, RemoveStores
  <2> QED
      BY <1>0, <1>h, <1>i, <2>1
<1>j. ASSUME NEW r \in Req, NEW t \in Starter, Abort(r, t, session),
             UNCHANGED <<streams, mapped, orphan>>, \A x \in Starter : Owed(x)' <= Owed(x) /\ Owed(x)' \in Nat,
             \A x \in Starter : pc[x] \in Unbegun => detached'[x] = detached[x]
      PROVE  Counted'
  <2>1. \A x \in Starter : session'[x].signals = session[x].signals /\ session'[x].waiter \in {session[x].waiter, None}
      BY <1>0, <1>j, AbortStores DEF OthersSame
  <2>2. \A x \in Starter : pc'[x] \in Unbegun => pc[x] \in Unbegun
      BY <1>j, AbortMoves, StartersAre DEF Unbegun
  <2> QED
      BY <1>0, <1>i, <1>j, <2>1, <2>2
\* A signal pays for the one it adds: it is queued, or wakes a request that owed nothing.
<1>k. ASSUME NEW t \in Starter, NEW s \in Signal, SignalTurn(t, s), UNCHANGED <<streams, mapped, detached>>,
             \A x \in Starter \ {t} : Owed(x)' <= Owed(x),
             IF s = "delta" THEN Owed(t)' <= Owed(t) ELSE Owed(t)' <= Owed(t) + 1
      PROVE  Counted'
  <2>1. Relayed' = Relayed
      BY <1>k DEF Relayed
  <2>2. \A x \in Starter : pc'[x] \in Unbegun => pc[x] \in Unbegun
      BY <1>k, SignalMoves, StartersAre DEF Unbegun
  <2>3. /\ Owed(t) \in Nat /\ Owed(t)' \in Nat
        /\ session[t].signals \in Seq(Signal) /\ Len(session[t].signals) \in Nat
        /\ orphan[t] \in Seq(Signal) /\ Len(orphan[t]) \in Nat
      BY <1>0, <1>n DEF SessionsTyped, SessionsOk, Session
  <2>4. ASSUME NEW x \in Starter \ {t}
        PROVE  /\ session'[x] = session[x] /\ orphan'[x] = orphan[x]
               /\ Owed(x)' <= Owed(x) /\ Owed(x) \in Nat /\ Owed(x)' \in Nat
               /\ Len(session[x].signals) \in Nat /\ Len(orphan[x]) \in Nat
      BY <1>0, <1>k, <1>n, SignalStores DEF SessionsTyped, SessionsOk, Session
  <2>5. ASSUME NEW x \in Starter, pc'[x] \in Unbegun PROVE Owed(x)' <= Len(orphan'[x]) /\ detached'[x] = "none"
    <3>1. Owed(x) <= Len(orphan[x]) /\ detached'[x] = "none" /\ x \notin mapped
        BY <1>a, <1>b, <1>k, <2>2, <2>5 DEF Counted
    <3>2. CASE x # t
        BY <2>4, <3>1, <3>2
    <3>3. CASE x = t /\ s = "delta"
      <4>1. orphan'[t] = orphan[t] /\ Owed(t)' <= Owed(t)
          BY <1>0, <1>k, <3>1, <3>3, SignalStores
      <4> QED
          BY <2>3, <3>1, <3>3, <4>1
    <3>4. CASE x = t /\ s # "delta"
      <4>1. orphan'[t] = Append(orphan[t], s) /\ Owed(t)' <= Owed(t) + 1
          BY <1>0, <1>k, <3>1, <3>4, SignalStores
      <4>2. Len(Append(orphan[t], s)) = Len(orphan[t]) + 1
          BY <1>k, <2>3
      <4> QED
          BY <2>3, <3>1, <3>4, <4>1, <4>2
    <3> QED
        BY <3>2, <3>3, <3>4
  <2>6. ASSUME NEW x \in mapped \ Relayed
        PROVE  Owed(x)' <= Len(session'[x].signals) + 1 /\ (session'[x].waiter # None => Owed(x)' = 0)
    <3>1. /\ x \in Starter /\ Owed(x) <= Len(session[x].signals) + 1
          /\ session[x].waiter # None => Owed(x) = 0
        BY <1>0, <1>a, <2>6 DEF Counted
    <3>2. CASE x # t
      <4>1. session'[x] = session[x] /\ Owed(x)' <= Owed(x) /\ Owed(x) \in Nat /\ Owed(x)' \in Nat
            /\ Len(session[x].signals) \in Nat
          BY <2>4, <3>1, <3>2
      <4>2. Owed(x)' <= Len(session[x].signals) + 1 /\ (session[x].waiter # None => Owed(x)' = 0)
          BY <3>1, <4>1
      <4> QED
          BY <4>1, <4>2
    <3>3. CASE x = t /\ s = "delta"
      <4>1. /\ session'[t].signals = session[t].signals /\ session'[t].waiter = session[t].waiter
            /\ Owed(t)' <= Owed(t)
          BY <1>0, <1>k, <2>6, <3>3, SignalStores
      <4>2. Owed(t)' <= Len(session[t].signals) + 1 /\ (session[t].waiter # None => Owed(t)' = 0)
          BY <2>3, <3>1, <3>3, <4>1
      <4> QED
          BY <3>3, <4>1, <4>2
    <3>4. CASE x = t /\ s # "delta" /\ session[t].waiter # None
      <4>1. /\ session'[t].signals = session[t].signals /\ session'[t].waiter = None
            /\ Owed(t)' <= Owed(t) + 1
          BY <1>0, <1>k, <2>6, <3>4, SignalStores
      <4>2. Owed(t)' <= Len(session[t].signals) + 1
          BY <2>3, <3>1, <3>4, <4>1
      <4> QED
          BY <3>4, <4>1, <4>2
    <3>5. CASE x = t /\ s # "delta" /\ session[t].waiter = None
      <4>1. /\ session'[t].signals = Append(session[t].signals, s) /\ session'[t].waiter = None
            /\ Owed(t)' <= Owed(t) + 1
          BY <1>0, <1>k, <2>6, <3>5, SignalStores
      <4>2. Len(Append(session[t].signals, s)) = Len(session[t].signals) + 1
          BY <1>k, <2>3
      <4>3. Owed(t)' <= Len(Append(session[t].signals, s)) + 1
          BY <2>3, <3>1, <3>5, <4>1, <4>2
      <4> QED
          BY <3>5, <4>1, <4>3
    <3> QED
        BY <3>2, <3>3, <3>4, <3>5
  <2> QED
      BY <1>k, <2>1, <2>5, <2>6 DEF Counted
<1> USE <1>0, StartersAre
<1>1. ASSUME NEW r \in Starter, Start(r) PROVE Counted'
  <2>1. /\ UNCHANGED <<streams, mapped, session, orphan, detached, pending, callTurn, dangerous>>
        /\ \A q \in Starter : pc'[q] \in Unbegun => pc[q] \in Unbegun
      BY <1>g, <1>1 DEF Start, Return, clientVars, sessionVars, requestVars, callVars, turnVars, Unbegun
  <2> QED
      BY <1>i, <1>o, <2>1
<1>2. ASSUME NEW r \in Starter, TurnStarts(r) PROVE Counted'
  <2>1. /\ UNCHANGED <<streams, mapped, session, orphan, detached, pending, callTurn, dangerous>>
        /\ \A q \in Starter : pc'[q] \in Unbegun => pc[q] \in Unbegun
      BY <1>g, <1>2 DEF TurnStarts, Return, clientVars, sessionVars, requestVars, callVars, turnVars, Unbegun
  <2> QED
      BY <1>i, <1>o, <2>1
<1>3. ASSUME NEW r \in Starter, TurnStartAnswered(r) PROVE Counted'
  <2>1. /\ UNCHANGED <<streams, mapped, session, orphan, detached, pending, callTurn, dangerous>>
        /\ \A q \in Starter : pc'[q] \in Unbegun => pc[q] \in Unbegun
      BY <1>g, <1>3 DEF TurnStartAnswered, Return, clientVars, sessionVars, requestVars, callVars, turnVars, Unbegun
  <2> QED
      BY <1>i, <1>o, <2>1
<1>4. ASSUME NEW r \in Starter, StartFails(r) PROVE Counted'
  <2>1. /\ UNCHANGED <<streams, mapped, session, orphan, detached, pending, callTurn, dangerous>>
        /\ \A q \in Starter : pc'[q] \in Unbegun => pc[q] \in Unbegun
      BY <1>g, <1>4 DEF StartFails, Return, clientVars, sessionVars, requestVars, callVars, turnVars, Unbegun
  <2> QED
      BY <1>i, <1>o, <2>1
<1>5. ASSUME NEW r \in Starter, BeginSession(r) PROVE Counted'
  <2>1. /\ UNCHANGED <<streams, detached, pending, callTurn, dangerous>> /\ mapped' = mapped \cup {r}
        /\ orphan[r] \in Seq(Signal)
      BY <1>5, BeginSessionIs DEF clientVars, callVars, turnVars, SessionsTyped
  <2>2. pc[r] = "begun" /\ pc'[r] \notin Unbegun /\ \A q \in Req \ {r} : pc'[q] = pc[q]
      BY <1>5, BeginningMoves DEF Unbegun
  <2>3. \A x \in Starter : Owed(x)' <= Owed(x) /\ Owed(x) \in Nat /\ Owed(x)' \in Nat
      BY <1>n, <1>o, <2>1
  <2>4. Owed(r) <= Len(orphan[r])
      BY <1>a, <2>2 DEF Counted, Unbegun
  <2>5. ASSUME r \notin Relayed
        PROVE  /\ Owed(r)' <= Len(session'[r].signals) + 1
               /\ session'[r].waiter # None => Owed(r)' = 0
    <3>1. r \notin streams
        BY <2>5 DEF Relayed
    <3>2. CASE session'[r].signals = orphan[r] /\ session'[r].waiter = None
      <4>1. Len(orphan[r]) \in Nat /\ Owed(r)' \in Nat /\ Owed(r) \in Nat /\ Owed(r)' <= Owed(r)
          BY <2>1, <2>3
      <4>2. Owed(r)' <= Len(orphan[r]) + 1
          BY <2>4, <4>1
      <4> QED
          BY <3>2, <4>2
    <3>3. CASE orphan[r] # <<>> /\ session'[r].signals = Tail(orphan[r]) /\ session'[r].waiter = None
      <4>1. /\ Len(Tail(orphan[r])) = Len(orphan[r]) - 1 /\ Len(orphan[r]) \in Nat
            /\ Owed(r)' \in Nat /\ Owed(r) \in Nat /\ Owed(r)' <= Owed(r)
          BY <2>1, <2>3, <3>3, HeadTailProperties
      <4>2. Owed(r)' <= Len(Tail(orphan[r])) + 1
          BY <2>4, <4>1
      <4> QED
          BY <3>3, <4>2
    <3>4. CASE orphan[r] = <<>> /\ session'[r].signals = <<>>
      <4>1. Len(<<>>) = 0 /\ Owed(r)' \in Nat /\ Owed(r) \in Nat /\ Owed(r)' <= Owed(r)
          BY <2>3
      <4>2. Owed(r)' = 0
          BY <2>4, <3>4, <4>1
      <4> QED
          BY <3>4, <4>1, <4>2
    <3> QED
        BY <1>5, <3>1, <3>2, <3>3, <3>4, BeginningStores
  <2>6. \A x \in Starter \ {r} : session'[x] = session[x] /\ orphan'[x] = orphan[x]
      BY <1>5, BeginningStores
  <2> QED
      BY <1>p, <2>1, <2>2, <2>3, <2>5, <2>6
<1>6. ASSUME NEW r \in Continuer, NEW p \in Req, NEW outputs \in SUBSET Shown, Continue(r, p, outputs) PROVE Counted'
  <2>0. PICK t \in Starter : t = turnOf[p]
      BY <1>b, <1>6 DEF Continue, MayContinue
  <2>1. /\ NextSignal(r, t, session) /\ r \in Req
        /\ UNCHANGED <<streams, mapped, orphan, detached, dangerous>>
        /\ outputs # {} /\ outputs \subseteq ListForTurn(t) /\ Resolve(outputs, "client", r)
      BY <1>6, <2>0 DEF Continue, MayContinue, turnVars
  <2>2. \A q \in Starter : pc'[q] \in Unbegun => pc[q] \in Unbegun
      BY <2>1, NextSignalMoves DEF Unbegun
  <2>3. callTurn' = callTurn /\ pending' = pending \ outputs
      BY <2>1 DEF Resolve
  <2>4. \A x \in Starter : Owed(x)' <= Owed(x) /\ Owed(x) \in Nat /\ Owed(x)' \in Nat
      BY <1>n, <1>o, <2>1, <2>3
  <2>5. Owed(t)' + 1 <= Owed(t)
      BY <2>1, <2>3, AnswersOwed
  <2>6. ASSUME t \in mapped \ Relayed
        PROVE  /\ Owed(t)' <= Len(session'[t].signals) + 1
               /\ session'[t].waiter # None => Owed(t)' = 0
    <3>1. /\ Owed(t)' \in Nat /\ Owed(t) \in Nat /\ Owed(t)' + 1 <= Owed(t) /\ t \in Starter
          /\ session[t].signals \in Seq(Signal)
        BY <2>1, <2>4, <2>5 DEF SessionsOk, Session
    <3>2. Owed(t) <= Len(session[t].signals) + 1 /\ (session[t].waiter # None => Owed(t) = 0)
        BY <1>a, <2>6 DEF Counted
    <3>3. session[t].waiter = None
        BY <3>1, <3>2
    <3>4. CASE /\ session[t].signals # <<>> /\ session'[t].signals = Tail(session[t].signals)
               /\ session'[t].waiter = session[t].waiter
      <4>1. Len(Tail(session[t].signals)) = Len(session[t].signals) - 1 /\ Len(session[t].signals) \in Nat
          BY <3>1, <3>4, HeadTailProperties
      <4>2. Owed(t)' <= Len(Tail(session[t].signals)) + 1
          BY <3>1, <3>2, <4>1
      <4> QED
          BY <3>3, <3>4, <4>2
    <3>5. CASE session[t].signals = <<>> /\ session'[t].signals = <<>>
      <4>1. Len(<<>>) = 0
          OBVIOUS
      <4>2. Owed(t)' = 0
          BY <3>1, <3>2, <3>5, <4>1
      <4> QED
          BY <3>5, <4>1, <4>2
    <3> QED
        BY <2>1, <3>4, <3>5, NextSignalStores
  <2>7. \A x \in Starter \ {t} : session'[x] = session[x]
      BY <2>1, NextSignalStores DEF OthersSame
  <2> QED
      BY <1>p, <2>1, <2>2, <2>4, <2>6, <2>7
<1>7. ASSUME NEW r \in Continuer, NEW p \in Req, NEW outputs \in SUBSET Shown,
            NEW answered \in SUBSET outputs, ContinueTooLarge(r, p, outputs, answered) PROVE Counted'
  <2>1. /\ UNCHANGED <<streams, mapped, session, orphan, detached, callTurn, dangerous>>
        /\ pending' \subseteq pending
        /\ \A q \in Starter : pc'[q] \in Unbegun => pc[q] \in Unbegun
      BY <1>g, <1>7 DEF ContinueTooLarge, Resolve, clientVars, sessionVars, turnVars, Unbegun
  <2> QED
      BY <1>i, <1>o, <2>1
<1>8. ASSUME NEW r \in Continuer, ContinueRefused(r) PROVE Counted'
  <2>1. /\ UNCHANGED <<streams, mapped, session, orphan, detached, pending, callTurn, dangerous>>
        /\ \A q \in Starter : pc'[q] \in Unbegun => pc[q] \in Unbegun
      BY <1>g, <1>8 DEF ContinueRefused, Return, clientVars, sessionVars, requestVars, callVars, turnVars, Unbegun
  <2> QED
      BY <1>i, <1>o, <2>1
<1>9. ASSUME NEW r \in Req, RelayDelta(r) PROVE Counted'
  <2>1. /\ UNCHANGED <<streams, mapped, session, orphan, detached, pending, callTurn, dangerous>>
        /\ \A q \in Starter : pc'[q] \in Unbegun => pc[q] \in Unbegun
      BY <1>g, <1>9 DEF RelayDelta, Return, clientVars, sessionVars, requestVars, callVars, turnVars, Unbegun
  <2> QED
      BY <1>i, <1>o, <2>1
<1>10. ASSUME NEW r \in Req, RespondToSecurity(r) PROVE Counted'
  <2>1. /\ UNCHANGED <<streams, mapped, session, orphan, detached, pending, callTurn, dangerous>>
        /\ \A q \in Starter : pc'[q] \in Unbegun => pc[q] \in Unbegun
      BY <1>g, <1>10 DEF RespondToSecurity, Return, clientVars, sessionVars, requestVars, callVars, turnVars, Unbegun
  <2> QED
      BY <1>i, <1>o, <2>1
<1>11. ASSUME NEW r \in Req, RespondToTool(r) PROVE Counted'
  <2>1. /\ UNCHANGED <<streams, mapped, session, orphan, detached, pending, callTurn, dangerous>>
        /\ \A q \in Starter : pc'[q] \in Unbegun => pc[q] \in Unbegun
      BY <1>g, <1>11 DEF RespondToTool, Return, clientVars, sessionVars, requestVars, callVars, turnVars, Unbegun
  <2> QED
      BY <1>i, <1>o, <2>1
<1>12. ASSUME NEW r \in Req, RejectUndeclared(r) PROVE Counted'
  <2>1. /\ turnOf[r] \in Starter /\ session' = Freed(session, turnOf[r])
        /\ UNCHANGED <<streams, mapped, orphan, detached, pending, callTurn, dangerous>>
      BY <1>b, <1>12 DEF RejectUndeclared, Freed, clientVars, callVars, turnVars, Working
  <2>2. \A q \in Starter : pc'[q] \in Unbegun => pc[q] \in Unbegun
      BY <1>12 DEF RejectUndeclared, Unbegun
  <2>3. /\ OthersSame(session', session, turnOf[r]) /\ session'[turnOf[r]].waiter = None
        /\ session'[turnOf[r]].signals = session[turnOf[r]].signals
      BY <2>1, FreedIs
  <2>4. \A x \in Starter : session'[x].signals = session[x].signals /\ session'[x].waiter \in {session[x].waiter, None}
      BY <2>3 DEF OthersSame
  <2> QED
      BY <1>i, <1>o, <2>1, <2>2, <2>4
<1>13. ASSUME NEW r \in Req, RespondToEnd(r) PROVE Counted'
  <2>1. /\ turnOf[r] \in Starter /\ pc[turnOf[r]] \notin Unbegun
        /\ RemoveSession(turnOf[r]) /\ UNCHANGED <<streams, detached, dangerous>>
      BY <1>b, <1>c, <1>13 DEF RespondToEnd, CleanUp, clientVars, sessionVars, requestVars, callVars, turnVars, Working, Unbegun
  <2>2. \A q \in Starter : pc'[q] \in Unbegun => pc[q] \in Unbegun
      BY <1>g, <1>13 DEF RespondToEnd, Return, Unbegun
  <2>3. callTurn' = callTurn /\ pending' \subseteq pending
      BY <1>13 DEF RespondToEnd, CleanUp, Resolve, callVars
  <2> QED
      BY <1>h, <1>o, <2>1, <2>2, <2>3
<1>14. ASSUME NEW r \in Req, Interrupted(r) PROVE Counted'
  <2>1. /\ turnOf[r] \in Starter /\ pc[turnOf[r]] \notin Unbegun
        /\ RemoveSession(turnOf[r]) /\ UNCHANGED <<streams, detached, dangerous>>
      BY <1>b, <1>c, <1>14 DEF Interrupted, CleanUp, clientVars, sessionVars, requestVars, callVars, turnVars, Working, Unbegun
  <2>2. \A q \in Starter : pc'[q] \in Unbegun => pc[q] \in Unbegun
      BY <1>g, <1>14 DEF Interrupted, Return, Unbegun
  <2>3. callTurn' = callTurn /\ pending' \subseteq pending
      BY <1>14 DEF Interrupted, CleanUp, Resolve, callVars
  <2> QED
      BY <1>h, <1>o, <2>1, <2>2, <2>3
<1>15. ASSUME NEW r \in Req, Aborted(r) PROVE Counted'
  <2>1. /\ turnOf[r] \in Starter /\ pc[turnOf[r]] \notin Unbegun
        /\ RemoveSession(turnOf[r]) /\ UNCHANGED <<streams, detached, dangerous>>
      BY <1>b, <1>c, <1>15 DEF Aborted, CleanUp, clientVars, sessionVars, requestVars, callVars, turnVars, Working, Unbegun
  <2>2. \A q \in Starter : pc'[q] \in Unbegun => pc[q] \in Unbegun
      BY <1>g, <1>15 DEF Aborted, Return, Unbegun
  <2>3. callTurn' = callTurn /\ pending' \subseteq pending
      BY <1>15 DEF Aborted, CleanUp, Resolve, callVars
  <2> QED
      BY <1>h, <1>o, <2>1, <2>2, <2>3
<1>16. ASSUME NEW r \in Req, Rejected(r) PROVE Counted'
  <2>1. /\ turnOf[r] \in Starter /\ pc[turnOf[r]] \notin Unbegun
        /\ RemoveSession(turnOf[r]) /\ UNCHANGED <<streams, detached, dangerous>>
      BY <1>b, <1>c, <1>16 DEF Rejected, CleanUp, clientVars, sessionVars, requestVars, callVars, turnVars, Working, Unbegun
  <2>2. \A q \in Starter : pc'[q] \in Unbegun => pc[q] \in Unbegun
      BY <1>g, <1>16 DEF Rejected, Return, Unbegun
  <2>3. callTurn' = callTurn /\ pending' \subseteq pending
      BY <1>16 DEF Rejected, CleanUp, Resolve, callVars
  <2> QED
      BY <1>h, <1>o, <2>1, <2>2, <2>3
<1>17. ASSUME NEW r \in Req, DetachedEnds(r) PROVE Counted'
  <2>1. /\ RemoveSession(turnOf[r]) /\ UNCHANGED <<streams, pc, dangerous>> /\ turnOf[r] \in Starter
        /\ detached' = [detached EXCEPT ![r] = "none"] /\ detached[r] # "none"
      BY <1>17 DEF DetachedEnds, CleanUp, requestVars, turnVars, OnTurn
  <2>2. callTurn' = callTurn /\ pending' \subseteq pending
      BY <1>17 DEF DetachedEnds, CleanUp, Resolve, callVars
  <2>3. pc[turnOf[r]] \notin Unbegun
      BY <1>a, <1>c, <2>1 DEF Counted
  <2> QED
      BY <1>h, <1>o, <2>1, <2>2, <2>3
<1>18. ASSUME NEW r \in Req, Drained(r) PROVE Counted'
  <2>1. UNCHANGED <<streams, mapped, orphan, detached, pending, callTurn, dangerous>>
      BY <1>18 DEF Drained, clientVars, callVars, turnVars
  <2>2. \A q \in Starter : pc'[q] \in Unbegun => pc[q] \in Unbegun
      BY <1>18, DrainedMoves DEF Unbegun
  <2>3. r \in streams /\ \A x \in Starter \ {r} : session'[x] = session[x]
      BY <1>18, DrainedStores DEF OthersSame, OnTurn, Relayed
  <2>4. \A x \in mapped' \ Relayed : session'[x] = session[x]
      BY <2>1, <2>3 DEF Relayed
  <2> QED
      BY <1>i, <1>o, <2>1, <2>2, <2>4
<1>19. ASSUME NEW r \in Req, Disconnect(r) PROVE Counted'
  <2>1. /\ UNCHANGED <<streams, mapped, orphan, pending, callTurn, dangerous>>
        /\ \/ /\ \/ pc[r] \in {"waiting", "reading", "relaying", "interrupting", "rejecting"}
                 \/ pc[r] = "emitting" /\ r \in Relayed
              /\ Abort(r, turnOf[r], session)
           \/ pc' \in {pc, [pc EXCEPT ![r] = "done"]} /\ session' = session
      BY <1>19 DEF Disconnect, callVars, turnVars
  <2>2. ASSUME pc[r] \in {"waiting", "reading", "relaying", "interrupting", "rejecting"}
               \/ (pc[r] = "emitting" /\ r \in Relayed)
        PROVE  turnOf[r] \in Starter
      BY <1>b, <2>2 DEF Working, Relayed
  <2>3. \A q \in Starter : pc[q] \in Unbegun => detached'[q] = detached[q]
      BY <1>19 DEF Disconnect, Unbegun
  <2>4. CASE pc' \in {pc, [pc EXCEPT ![r] = "done"]} /\ session' = session
    <3>1. \A q \in Starter : pc'[q] \in Unbegun => pc[q] \in Unbegun
        BY <2>4 DEF Unbegun
    <3> QED
        BY <1>i, <1>o, <2>1, <2>3, <2>4, <3>1
  <2> QED
      BY <1>j, <1>o, <2>1, <2>2, <2>3, <2>4
<1>20. ASSUME NEW r \in Starter, EmitTooLarge(r) PROVE Counted'
  <2>1. /\ turnOf[r] \in Starter /\ r \in Req /\ Abort(r, turnOf[r], session)
        /\ UNCHANGED <<streams, mapped, orphan, detached, pending, callTurn, dangerous>>
      BY <1>b, <1>20 DEF EmitTooLarge, clientVars, callVars, turnVars, Working, Relayed
  <2> QED
      BY <1>j, <1>o, <2>1
<1>21. ASSUME NEW r \in Continuer, ContinuationTooLarge(r) PROVE Counted'
  <2>1. /\ UNCHANGED <<streams, mapped, session, orphan, detached, pending, callTurn, dangerous>>
        /\ \A q \in Starter : pc'[q] \in Unbegun => pc[q] \in Unbegun
      BY <1>g, <1>21 DEF ContinuationTooLarge, Return, clientVars, sessionVars, requestVars, callVars, turnVars, Unbegun
  <2> QED
      BY <1>i, <1>o, <2>1
<1>22. ASSUME NEW r \in Req, ResponseTimeout(r) PROVE Counted'
  <2>1. /\ turnOf[r] \in Starter /\ r \in Req /\ Abort(r, turnOf[r], session)
        /\ UNCHANGED <<streams, mapped, orphan, detached, pending, callTurn, dangerous>>
      BY <1>b, <1>22 DEF ResponseTimeout, clientVars, callVars, turnVars, Working, Relayed
  <2> QED
      BY <1>j, <1>o, <2>1
<1>23. ASSUME NEW c \in Call, CallExpires(c) PROVE Counted'
  <2>1. /\ UNCHANGED <<streams, mapped, session, orphan, detached, callTurn, dangerous, pc>>
        /\ pending' \subseteq pending
      BY <1>23 DEF CallExpires, Resolve, clientVars, sessionVars, requestVars, turnVars
  <2> QED
      BY <1>i, <1>o, <2>1
<1>24. ASSUME NEW t \in Starter, NEW c \in Call, ToolCalled(t, c) PROVE Counted'
  <2>1. /\ UNCHANGED <<streams, mapped, detached, dangerous>>
        /\ callTurn[c] = None /\ callTurn' = [callTurn EXCEPT ![c] = t]
        /\ \/ UNCHANGED <<pending, pc, session, orphan>>
           \/ SignalTurn(t, "security") /\ pending' = pending
           \/ SignalTurn(t, "tool") /\ pending' = pending \cup {c}
      BY <1>24 DEF ToolCalled, clientVars, turnVars
  <2>2. /\ Owed(t)' <= Owed(t) + 1 /\ \A x \in Starter \ {t} : Owed(x)' <= Owed(x)
        /\ pending' = pending => Owed(t)' <= Owed(t)
      BY <2>1, CallOwed
  <2>3. CASE UNCHANGED <<pending, pc, session, orphan>>
    <3>1. \A x \in Starter : Owed(x)' <= Owed(x) /\ Owed(x)' \in Nat
        BY <1>n, <2>2, <2>3
    <3> QED
        BY <1>i, <2>1, <2>3, <3>1
  <2>4. CASE SignalTurn(t, "security") \/ SignalTurn(t, "tool")
      BY <1>f, <1>k, <2>1, <2>2, <2>4
  <2> QED
      BY <2>1, <2>3, <2>4
<1>25. ASSUME NEW t \in Starter, Delta(t) PROVE Counted'
  <2>1. /\ SignalTurn(t, "delta") /\ "delta" \in Signal
        /\ UNCHANGED <<streams, mapped, detached, pending, callTurn, dangerous>>
      BY <1>f, <1>25 DEF Delta, clientVars, callVars
  <2> QED
      BY <1>k, <1>o, <2>1
<1>26. ASSUME NEW t \in Starter, DangerousItem(t) PROVE Counted'
  <2>1. /\ SignalTurn(t, "security") /\ "security" \in Signal
        /\ UNCHANGED <<streams, mapped, detached, pending, callTurn>> /\ dangerous' = dangerous \cup {t}
      BY <1>f, <1>26 DEF DangerousItem, clientVars, callVars
  <2>2. Owed(t)' <= Owed(t) + 1 /\ \A x \in Starter \ {t} : Owed(x)' <= Owed(x)
      BY <2>1, DangerOwed
  <2> QED
      BY <1>k, <2>1, <2>2
<1>27. ASSUME NEW t \in Starter, NEW status \in {"completed", "failed"}, TurnCompleted(t, status) PROVE Counted'
  <2>1. /\ SignalTurn(t, status) /\ status \in Signal
        /\ UNCHANGED <<streams, mapped, detached, pending, callTurn, dangerous>>
      BY <1>f, <1>27 DEF TurnCompleted, clientVars, callVars
  <2>2. \A x \in Starter : Owed(x)' <= Owed(x) /\ Owed(x) \in Nat /\ Owed(x)' \in Nat
      BY <1>o, <1>n, <2>1
  <2>3. Owed(t)' <= Owed(t) + 1
      BY <2>2
  <2> QED
      BY <1>k, <2>1, <2>2, <2>3
<1>28. ASSUME ChildFailure PROVE Counted'
  <2>1. /\ UNCHANGED <<streams, dangerous>> /\ Resolve(pending, "failed", None)
      BY <1>28 DEF ChildFailure
  <2>2. callTurn' = callTurn /\ pending' \subseteq pending
      BY <2>1 DEF Resolve
  <2>3. CASE pending = {}
    <3>1. UNCHANGED <<mapped, session, orphan, detached>>
        BY <1>28, <2>3 DEF ChildFailure, sessionVars
    <3>2. \A q \in Starter : pc'[q] \in Unbegun => pc[q] \in Unbegun
        BY <1>g, <1>28, <2>3 DEF ChildFailure, Unbegun
    <3> QED
        BY <1>i, <1>o, <2>1, <2>2, <3>1, <3>2
  <2>4. CASE pending # {}
    <3>1. /\ mapped' = {} /\ orphan' = [t \in Starter |-> <<>>] /\ detached' = [q \in Req |-> "none"]
        BY <1>28, <2>4 DEF ChildFailure
    <3>2. \A q \in Req : pc'[q] = IF pc[q] = "idle" THEN "idle" ELSE "done"
        BY <1>28, <2>4 DEF ChildFailure
    <3>3. ASSUME NEW t \in Starter, pc'[t] \in Unbegun PROVE Owed(t)' = 0
      <4>1. pc[t] = "idle"
          BY <3>2, <3>3 DEF Unbegun
      <4>2. t \notin dangerous' /\ ListForTurn(t)' = {}
          BY <2>1, <4>1 DEF Fresh, Resolve, ListForTurn
      <4> QED
          BY <4>2, FS_EmptySet DEF Owed
    <3>4. Len(<<>>) = 0 /\ 0 <= 0
        OBVIOUS
    <3> QED
        BY <3>1, <3>3, <3>4 DEF Counted
  <2> QED
      BY <2>3, <2>4
<1> QED
    BY <1>1, <1>2, <1>3, <1>4, <1>5, <1>6, <1>7, <1>8, <1>9, <1>10, <1>11, <1>12,
       <1>13, <1>14, <1>15, <1>16, <1>17, <1>18, <1>19, <1>20, <1>21, <1>22, <1>23,
       <1>24, <1>25, <1>26, <1>27, <1>28 DEF Next

-----------------------------------------------------------------------------
(* Completed responses *)

LEMMA OpenSequences ==
    /\ \A q \in Seq(Open), s \in Open : Append(q, s) \in Seq(Open)
    /\ \A q \in Seq(Open) : q # <<>> => Tail(q) \in Seq(Open) /\ Head(q) # "completed"
    /\ <<>> \in Seq(Open)
    /\ \A q \in Seq(Signal), s \in Signal : q # <<>> => Head(Append(q, s)) = Head(q)
    /\ \A s \in Signal : Head(Append(<<>>, s)) = s
<1>1. ASSUME NEW q \in Seq(Open), q # <<>> PROVE Tail(q) \in Seq(Open) /\ Head(q) \in Open
    BY <1>1, HeadTailProperties
<1>2. ASSUME NEW q \in Seq(Signal), NEW s \in Signal, q # <<>> PROVE Head(Append(q, s)) = Head(q)
  <2>1. Len(q) \in Nat /\ Len(q) # 0
      BY <1>2, EmptySeq
  <2>2. Append(q, s)[1] = q[1]
      BY <2>1, AppendProperties
  <2> QED
      BY <2>2
<1> QED
    BY <1>1, <1>2 DEF Open

LEMMA EndedCallsNothing ==
    ASSUME Typed, Next, NEW t \in Starter, turn[t] = "ended", ListForTurn(t) = {}
    PROVE  ListForTurn(t)' = {}
<1>0. callTurn \in [Call -> Starter \cup {None}]
    BY TypesAreParts DEF Typed, CallsTyped
<1>1. ASSUME NEW x \in Starter, NEW c \in Call, ToolCalled(x, c) PROVE ListForTurn(t)' = {}
  <2>1. /\ x # t /\ callTurn' = [callTurn EXCEPT ![c] = x] /\ pending' \subseteq pending \cup {c}
        /\ callTurn[c] = None
      BY <1>1 DEF ToolCalled
  <2> QED
      BY <1>0, <2>1 DEF ListForTurn
<1>2. ASSUME callTurn' = callTurn, pending' \subseteq pending PROVE ListForTurn(t)' = {}
    BY <1>2 DEF ListForTurn
<1>3. \A cs, how, by : Resolve(cs, how, by) => callTurn' = callTurn /\ pending' \subseteq pending
    BY DEF Resolve
<1>4. \A x : CleanUp(x) => callTurn' = callTurn /\ pending' \subseteq pending
    BY <1>3 DEF CleanUp
<1>5. ASSUME UNCHANGED callVars PROVE ListForTurn(t)' = {}
    BY <1>2, <1>5 DEF callVars
<1>6. \A r, p, outputs, answered : Continue(r, p, outputs) \/ ContinueTooLarge(r, p, outputs, answered)
                                   => ListForTurn(t)' = {}
    BY <1>2, <1>3 DEF Continue, ContinueTooLarge
<1>7. \A r : Aborted(r) \/ Rejected(r) \/ DetachedEnds(r) => ListForTurn(t)' = {}
    BY <1>2, <1>4, <1>5 DEF Aborted, Rejected, DetachedEnds
<1>8. \A c : CallExpires(c) => ListForTurn(t)' = {}
    BY <1>2, <1>3 DEF CallExpires
<1>9. ChildFailure => ListForTurn(t)' = {}
    BY <1>2, <1>3 DEF ChildFailure
<1>10. \A r \in Starter : BeginSession(r) => UNCHANGED callVars
    BY BeginSessionIs
<1>11. \A r : Start(r) \/ TurnStarts(r) \/ TurnStartAnswered(r) \/ StartFails(r) => UNCHANGED callVars
    BY DEF Start, TurnStarts, TurnStartAnswered, StartFails
<1>12. \A r : ContinueRefused(r) \/ RelayDelta(r) \/ RespondToSecurity(r) \/ RespondToTool(r) => UNCHANGED callVars
    BY DEF ContinueRefused, RelayDelta, RespondToSecurity, RespondToTool
<1>13. \A r : RejectUndeclared(r) \/ RespondToEnd(r) \/ Interrupted(r) \/ Drained(r) => UNCHANGED callVars
    BY DEF RejectUndeclared, RespondToEnd, Interrupted, Drained
<1>14. \A r : Disconnect(r) \/ EmitTooLarge(r) \/ ContinuationTooLarge(r) \/ ResponseTimeout(r)
              => UNCHANGED callVars
    BY DEF Disconnect, EmitTooLarge, ContinuationTooLarge, ResponseTimeout
<1>15. \A x, status : Delta(x) \/ DangerousItem(x) \/ TurnCompleted(x, status) => UNCHANGED callVars
    BY DEF Delta, DangerousItem, TurnCompleted
<1> QED
    BY <1>1, <1>5, <1>6, <1>7, <1>8, <1>9, <1>10, <1>11, <1>12, <1>13, <1>14, <1>15 DEF Next

LEMMA SettledKept == ASSUME Placed, CallsInOrder, Fresh, Counted, Settled, Next PROVE Settled'
<1>0. /\ pc \in [Req -> PcValues] /\ hand \in [Req -> Signal \cup {"none"}]
      /\ result \in [Req -> Results]
      /\ turnOf \in [Req -> Starter \cup {None}] /\ turn \in [Starter -> {"none", "running", "ended"}]
      /\ OnTurn /\ CallsTyped /\ SessionsTyped /\ SessionsOk(session) /\ Typed
    BY TypesAreParts DEF Placed, Typed, RequestsTyped, ClientsTyped, SessionsTyped, TurnsTyped
<1>a. Settled /\ Counted /\ Fresh
    OBVIOUS
<1>b. /\ \A q \in Req : pc[q] \in Working => turnOf[q] \in Starter
      /\ \A q \in Starter : pc[q] # "idle" => turnOf[q] = q
      /\ \A q \in Req : pc[q] \in {"created", "reading", "relaying"} => q \in Starter /\ turnOf[q] = q
      /\ \A q \in Req : q \in known => turnOf[q] \in Starter
      /\ \A t \in Starter : pc[t] \in Unbegun => t \notin mapped
    BY WaitsFacts
<1>c. \A q \in Req : turnOf[q] \in Starter /\ (pc[q] \notin Unbegun \/ turnOf[q] # q)
                     => pc[turnOf[q]] \notin Unbegun
    BY DEF Placed, Begun
<1>f. {"tool", "security", "delta", "completed", "failed"} \subseteq Signal
    BY DEF Signal
<1>g. \A r : AfterError(r) \in {"emitting", "done"}
    BY DEF AfterError
\* A turn that has ended stays as it is, and is called nothing more.
<1>e. \A t \in Starter : turn[t] = "ended" =>
         turn'[t] = "ended" /\ (t \notin dangerous => t \notin dangerous')
    BY <1>0, TurnsMove
<1>d. \A t \in Starter : Closed(t) => Closed(t)'
  <2>1. ASSUME NEW t \in Starter, Closed(t) PROVE turn'[t] = "ended" /\ ListForTurn(t)' = {}
      BY <1>0, <1>e, <2>1, EndedCallsNothing DEF Closed
  <2> QED
      BY <2>1 DEF Closed
<1>i. ASSUME streams' = streams,
             \A x \in Starter : session[x].signals \in Seq(Open) /\ orphan[x] \in Seq(Open) =>
                \/ Closed(x)'
                \/ session'[x].signals \in Seq(Open) /\ orphan'[x] \in Seq(Open),
             \A x \in Starter : pc'[x] \in Unbegun =>
                /\ pc[x] \in Unbegun
                /\ x \in dangerous' => \/ x \in dangerous /\ Head(orphan'[x]) = Head(orphan[x])
                                       \/ Head(orphan'[x]) # "completed",
             \A q \in Req : pc'[q] = "woken" /\ hand'[q] = "completed" =>
                \/ pc[q] = "woken" /\ hand[q] = "completed" /\ turnOf'[q] = turnOf[q]
                \/ turnOf'[q] \in Relayed
                \/ turn'[turnOf'[q]] = "ended" /\ turnOf'[q] \notin dangerous',
             \A q \in Req : result'[q] = "message" =>
                /\ turnOf'[q] = turnOf[q]
                /\ result[q] = "message" \/ (pc[q] = "woken" /\ hand[q] = "completed"),
             \A q \in Req : pc'[q] = "idle" => pc[q] = "idle" /\ result'[q] = result[q]
      PROVE  Settled'
  <2>1. Relayed' = Relayed
      BY <1>i DEF Relayed
  <2>2. \A x \in Starter : Harmless(x) => turn'[x] = "ended" /\ x \notin dangerous'
      BY <1>e DEF Harmless
  <2>3. \A x \in Starter : Closed(x)' \/ (session'[x].signals \in Seq(Open) /\ orphan'[x] \in Seq(Open))
      BY <1>a, <1>d, <1>i DEF Settled
  <2>4. \A x \in Starter : pc'[x] \in Unbegun /\ x \in dangerous' => Head(orphan'[x]) # "completed"
      BY <1>a, <1>i DEF Settled
  <2>5. \A q \in Req : pc[q] = "woken" => turnOf[q] \in Starter
      BY <1>b DEF Working
  <2>6. \A q \in Req : pc[q] = "woken" /\ hand[q] = "completed" =>
           turnOf[q] \in Relayed \/ (turn'[turnOf[q]] = "ended" /\ turnOf[q] \notin dangerous')
      BY <1>a, <2>2, <2>5 DEF Settled
  <2>7. \A q \in Req : pc'[q] = "woken" /\ hand'[q] = "completed" =>
           turnOf'[q] \in Relayed \/ (turn'[turnOf'[q]] = "ended" /\ turnOf'[q] \notin dangerous')
      BY <1>i, <2>6
  <2>8. \A q \in Req : result[q] = "message" =>
           /\ turnOf[q] \in Starter
           /\ turnOf[q] \in Relayed \/ (turn'[turnOf[q]] = "ended" /\ turnOf[q] \notin dangerous')
      BY <1>a, <2>2 DEF Settled
  <2>9. \A q \in Req : result'[q] = "message" =>
           /\ turnOf'[q] \in Starter
           /\ turnOf'[q] \in Relayed \/ (turn'[turnOf'[q]] = "ended" /\ turnOf'[q] \notin dangerous')
      BY <1>i, <2>5, <2>6, <2>8
  <2>10. \A q \in Req : pc'[q] = "idle" => result'[q] = "none"
      BY <1>a, <1>i DEF Settled
  <2> QED
      BY <2>1, <2>3, <2>4, <2>7, <2>9, <2>10 DEF Settled, Harmless
<1>u. ASSUME UNCHANGED <<session, orphan, streams, turnOf, dangerous, hand>>,
             \A q \in Req : /\ pc'[q] = pc[q] \/ pc'[q] \notin {"idle", "woken"}
                            /\ pc'[q] \in Unbegun => pc[q] \in Unbegun
                            /\ \/ result'[q] = result[q]
                               \/ result'[q] # "message" /\ pc'[q] # "idle"
      PROVE  Settled'
    BY <1>i, <1>u, StartersAre
<1>h. ASSUME NEW t \in Starter, pc[t] \notin Unbegun, RemoveSession(t),
             UNCHANGED <<streams, turnOf, dangerous, hand>>,
             \A q \in Req : /\ pc'[q] = pc[q] \/ pc'[q] \notin {"idle", "woken"}
                            /\ pc'[q] \in Unbegun => pc[q] \in Unbegun
                            /\ \/ result'[q] = result[q]
                               \/ pc'[q] # "idle" /\ (result'[q] = "message" =>
                                                        pc[q] = "woken" /\ hand[q] = "completed")
      PROVE  Settled'
  <2>1. /\ \A x \in Starter : session'[x].signals = session[x].signals /\ orphan'[x] \in {orphan[x], <<>>}
        /\ \A x \in Starter \ {t} : orphan'[x] = orphan[x]
      BY <1>0, <1>h, RemoveStores
  <2>2. \A x \in Starter : session[x].signals \in Seq(Open) /\ orphan[x] \in Seq(Open)
                           => session'[x].signals \in Seq(Open) /\ orphan'[x] \in Seq(Open)
      BY <2>1, OpenSequences
  <2> QED
      BY <1>h, <1>i, <2>1, <2>2, StartersAre
<1>j. ASSUME NEW r \in Req, NEW t \in Starter, Abort(r, t, session),
             UNCHANGED <<streams, turnOf, orphan, dangerous, result>>
      PROVE  Settled'
  <2>1. \A x \in Starter : session'[x].signals = session[x].signals
      BY <1>0, <1>j, AbortStores DEF OthersSame
  <2>2. \A q \in Req : hand'[q] = hand[q] /\ (pc'[q] = pc[q] \/ pc'[q] = "aborting")
      BY <1>j, AbortMoves
  <2> QED
      BY <1>i, <1>j, <2>1, <2>2, StartersAre DEF Unbegun
\* Only a turn's end brings "completed", and it wakes a request that owed nothing.
<1>k. ASSUME NEW t \in Starter, NEW s \in Signal, SignalTurn(t, s), UNCHANGED <<streams, turnOf, result>>,
             dangerous' = dangerous \/ (dangerous' = dangerous \cup {t} /\ s = "security"
                                        /\ orphan[t] \in Seq(Open)),
             s = "completed" => turn'[t] = "ended" /\ ListForTurn(t)' = {} /\ dangerous' = dangerous
      PROVE  Settled'
  <2>1. s # "completed" => s \in Open
      BY <1>k DEF Open
  <2>2. ASSUME NEW x \in Starter, session[x].signals \in Seq(Open), orphan[x] \in Seq(Open)
        PROVE  Closed(x)' \/ (session'[x].signals \in Seq(Open) /\ orphan'[x] \in Seq(Open))
    <3>1. CASE x # t
        BY <1>0, <1>k, <2>2, <3>1, SignalStores
    <3>2. CASE x = t /\ s = "completed"
        BY <1>k, <3>2 DEF Closed
    <3>3. CASE x = t /\ s # "completed"
      <4>1. Append(session[t].signals, s) \in Seq(Open) /\ Append(orphan[t], s) \in Seq(Open)
          BY <2>1, <2>2, <3>3, OpenSequences
      <4> QED
          BY <1>0, <1>k, <2>2, <3>3, <4>1, SignalStores
    <3> QED
        BY <3>1, <3>2, <3>3
  <2>3. \A q \in Req : /\ pc'[q] = pc[q] \/ pc'[q] = "woken"
      BY <1>k, SignalMoves
  <2>4. ASSUME NEW x \in Starter, pc'[x] \in Unbegun
        PROVE  /\ pc[x] \in Unbegun
               /\ x \in dangerous' => \/ x \in dangerous /\ Head(orphan'[x]) = Head(orphan[x])
                                      \/ Head(orphan'[x]) # "completed"
    <3>1. pc[x] \in Unbegun /\ x \notin mapped
        BY <1>b, <2>3, <2>4, StartersAre DEF Unbegun
    <3>2. CASE x # t
        BY <1>0, <1>k, <3>1, <3>2, SignalStores
    <3>3. CASE x = t /\ t \in dangerous
      <4>1. Owed(t) <= Len(orphan[t]) /\ Owed(t) # 0 /\ Owed(t) \in Nat
        <5>1. Owed(t) = Cardinality(ListForTurn(t)) + 1 /\ Cardinality(ListForTurn(t)) \in Nat
            BY <1>0, <3>3, OwedIs DEF Owed
        <5> QED
            BY <1>a, <3>1, <3>3, <5>1 DEF Counted
      <4>2. orphan[t] # <<>> /\ orphan[t] \in Seq(Signal)
        <5>1. Len(<<>>) = 0 /\ orphan[t] \in Seq(Signal)
            BY <1>0 DEF SessionsTyped
        <5> QED
            BY <4>1, <5>1
      <4>3. orphan'[t] \in {orphan[t], Append(orphan[t], s)}
          BY <1>0, <1>k, <3>1, <3>3, SignalStores
      <4> QED
          BY <1>k, <3>1, <3>3, <4>2, <4>3, OpenSequences
    <3>4. CASE x = t /\ t \notin dangerous /\ t \in dangerous'
      <4>1. s = "security" /\ orphan[t] \in Seq(Open) /\ orphan[t] \in Seq(Signal)
          BY <1>0, <1>k, <3>4 DEF SessionsTyped
      <4>2. orphan'[t] = Append(orphan[t], s)
          BY <1>0, <1>k, <3>1, <3>4, <4>1, SignalStores
      <4>3. CASE orphan[t] = <<>>
          BY <1>k, <3>1, <3>4, <4>1, <4>2, <4>3, OpenSequences
      <4>4. CASE orphan[t] # <<>>
          BY <1>k, <3>1, <3>4, <4>1, <4>2, <4>4, OpenSequences
      <4> QED
          BY <4>3, <4>4
    <3>5. CASE x = t /\ t \notin dangerous'
        BY <3>1, <3>5
    <3> QED
        BY <1>k, <3>2, <3>3, <3>4, <3>5
  <2>5. ASSUME NEW q \in Req, pc'[q] = "woken", hand'[q] = "completed"
        PROVE  \/ pc[q] = "woken" /\ hand[q] = "completed"
               \/ turnOf[q] \in Relayed
               \/ turn'[turnOf[q]] = "ended" /\ turnOf[q] \notin dangerous'
    <3>1. CASE pc'[q] = pc[q] /\ hand'[q] = hand[q]
        BY <2>5, <3>1
    <3>2. CASE pc[q] = "reading" /\ q = t /\ turnOf[q] = t
        BY <1>0, <3>2 DEF OnTurn
    <3>3. CASE /\ hand'[q] = s /\ turnOf[q] = t /\ t \in mapped /\ session[t].waiter = q
      <4>1. s = "completed" /\ session[t].waiter # None
          BY <2>5, <3>3, StartersAre
      <4>2. t \notin Relayed => Owed(t) = 0
          BY <1>a, <3>3, <4>1 DEF Counted
      <4>3. t \in dangerous => Owed(t) # 0
        <5>1. Cardinality(ListForTurn(t)) \in Nat
            BY <1>0, OwedIs
        <5> QED
            BY <5>1 DEF Owed
      <4> QED
          BY <1>k, <3>3, <4>1, <4>2, <4>3
    <3> QED
        BY <1>k, <3>1, <3>2, <3>3, SignalMoves
  <2> QED
      BY <1>i, <1>k, <2>2, <2>3, <2>4, <2>5
<1> USE <1>0, <1>a, StartersAre
<1>1. ASSUME NEW r \in Starter, Start(r) PROVE Settled'
  <2>1. /\ UNCHANGED <<session, orphan, streams, dangerous, hand, result>> /\ pc[r] = "idle"
        /\ turnOf' = [turnOf EXCEPT ![r] = r] /\ pc' = [pc EXCEPT ![r] = "starting"]
      BY <1>1 DEF Start, sessionVars, turnVars
  <2>2. result[r] = "none"
      BY <2>1 DEF Settled
  <2> QED
      BY <1>i, <2>1, <2>2 DEF Unbegun
<1>2. ASSUME NEW r \in Starter, TurnStarts(r) PROVE Settled'
  <2>1. UNCHANGED <<session, orphan, streams, turnOf, dangerous, hand>>
      BY <1>2 DEF TurnStarts, clientVars, sessionVars, requestVars, turnVars
  <2>2. \A q \in Req : /\ pc'[q] = pc[q] \/ pc'[q] \notin {"idle", "woken"}
                       /\ pc'[q] \in Unbegun => pc[q] \in Unbegun
                       /\ \/ result'[q] = result[q]
                          \/ result'[q] # "message" /\ pc'[q] # "idle"
      BY <1>g, <1>2 DEF TurnStarts, Return, requestVars, Unbegun
  <2> QED
      BY <1>u, <2>1, <2>2
<1>3. ASSUME NEW r \in Starter, TurnStartAnswered(r) PROVE Settled'
  <2>1. UNCHANGED <<session, orphan, streams, turnOf, dangerous, hand>>
      BY <1>3 DEF TurnStartAnswered, clientVars, sessionVars, requestVars, turnVars
  <2>2. \A q \in Req : /\ pc'[q] = pc[q] \/ pc'[q] \notin {"idle", "woken"}
                       /\ pc'[q] \in Unbegun => pc[q] \in Unbegun
                       /\ \/ result'[q] = result[q]
                          \/ result'[q] # "message" /\ pc'[q] # "idle"
      BY <1>g, <1>3 DEF TurnStartAnswered, Return, requestVars, Unbegun
  <2> QED
      BY <1>u, <2>1, <2>2
<1>4. ASSUME NEW r \in Starter, StartFails(r) PROVE Settled'
  <2>1. UNCHANGED <<session, orphan, streams, turnOf, dangerous, hand>>
      BY <1>4 DEF StartFails, clientVars, sessionVars, requestVars, turnVars
  <2>2. \A q \in Req : /\ pc'[q] = pc[q] \/ pc'[q] \notin {"idle", "woken"}
                       /\ pc'[q] \in Unbegun => pc[q] \in Unbegun
                       /\ \/ result'[q] = result[q]
                          \/ result'[q] # "message" /\ pc'[q] # "idle"
      BY <1>g, <1>4 DEF StartFails, Return, requestVars, Unbegun
  <2> QED
      BY <1>u, <2>1, <2>2
<1>5. ASSUME NEW r \in Starter, BeginSession(r) PROVE Settled'
  <2>1. UNCHANGED <<streams, turnOf, result, dangerous>> /\ turnOf[r] = r
      BY <1>b, <1>5, BeginSessionIs DEF clientVars, turnVars
  <2>2. pc[r] = "begun" /\ pc'[r] \notin Unbegun /\ \A q \in Req \ {r} : pc'[q] = pc[q] /\ hand'[q] = hand[q]
      BY <1>5, BeginningMoves DEF Unbegun
  <2>3. /\ \A x \in Starter \ {r} : session'[x] = session[x] /\ orphan'[x] = orphan[x]
        /\ orphan'[r] = <<>>
        /\ \/ session'[r].signals \in {orphan[r], <<>>}
           \/ orphan[r] # <<>> /\ session'[r].signals = Tail(orphan[r])
      BY <1>5, BeginningStores
  <2>4. ASSUME orphan[r] \in Seq(Open) PROVE session'[r].signals \in Seq(Open) /\ orphan'[r] \in Seq(Open)
      BY <2>3, <2>4, OpenSequences
  <2>5. ASSUME pc'[r] = "woken", hand'[r] = "completed" PROVE turn'[r] = "ended" /\ r \notin dangerous'
    <3>1. orphan[r] # <<>> /\ Head(orphan[r]) = "completed"
        BY <1>5, <2>2, <2>5, BeginningMoves
    <3>2. orphan[r] \notin Seq(Open)
        BY <3>1, OpenSequences
    <3>3. Closed(r) /\ r \notin dangerous
        BY <2>2, <3>1, <3>2 DEF Settled, Unbegun
    <3> QED
        BY <1>e, <3>3 DEF Closed
  <2>6. \A x \in Starter : /\ session[x].signals \in Seq(Open) /\ orphan[x] \in Seq(Open)
                              => session'[x].signals \in Seq(Open) /\ orphan'[x] \in Seq(Open)
      BY <2>3, <2>4
  <2>7. \A x \in Starter : pc'[x] \in Unbegun =>
           /\ pc[x] \in Unbegun
           /\ x \in dangerous' => x \in dangerous /\ Head(orphan'[x]) = Head(orphan[x])
      BY <2>1, <2>2, <2>3
  <2>8. \A q \in Req : pc'[q] = "woken" /\ hand'[q] = "completed" =>
           \/ pc[q] = "woken" /\ hand[q] = "completed" /\ turnOf'[q] = turnOf[q]
           \/ turn'[turnOf'[q]] = "ended" /\ turnOf'[q] \notin dangerous'
      BY <2>1, <2>2, <2>5
  <2>9. \A q \in Req : pc'[q] = "idle" => pc[q] = "idle"
      BY <2>2 DEF Unbegun
  <2> QED
      BY <1>i, <2>1, <2>6, <2>7, <2>8, <2>9
<1>6. ASSUME NEW r \in Continuer, NEW p \in Req, NEW outputs \in SUBSET Shown, Continue(r, p, outputs) PROVE Settled'
  <2>0. PICK t \in Starter : t = turnOf[p]
      BY <1>b, <1>6 DEF Continue, MayContinue
  <2>1. /\ NextSignal(r, t, session) /\ r \in Req /\ pc[r] = "idle"
        /\ turnOf' = [turnOf EXCEPT ![r] = t]
        /\ UNCHANGED <<streams, orphan, result, dangerous>> /\ ListForTurn(t) # {}
      BY <1>6, <2>0 DEF Continue, MayContinue, turnVars
  <2>2. session[t].signals \in Seq(Open)
      BY <2>1 DEF Settled, Closed
  <2>3. ASSUME NEW q \in Req, q # r
        PROVE  /\ hand'[q] = hand[q] /\ turnOf'[q] = turnOf[q]
               /\ pc'[q] = pc[q] \/ pc'[q] = "aborting"
      BY <2>1, <2>3, NextSignalMoves
  <2>4. /\ pc'[r] \in {"waiting", "aborting", "woken"}
        /\ pc'[r] = "woken" => session[t].signals # <<>> /\ hand'[r] = Head(session[t].signals)
      BY <2>1, NextSignalMoves
  <2>5. pc'[r] = "woken" => hand'[r] # "completed"
      BY <2>2, <2>4, OpenSequences
  <2>6. /\ OthersSame(session', session, t)
        /\ \/ session[t].signals # <<>> /\ session'[t].signals = Tail(session[t].signals)
           \/ session'[t].signals = <<>>
      BY <2>1, NextSignalStores
  <2>7. \A x \in Starter : /\ session[x].signals \in Seq(Open) /\ orphan[x] \in Seq(Open)
                              => session'[x].signals \in Seq(Open) /\ orphan'[x] \in Seq(Open)
    <3>1. session'[t].signals \in Seq(Open)
        BY <2>2, <2>6, OpenSequences
    <3>2. \A x \in Starter \ {t} : session'[x] = session[x]
        BY <2>6 DEF OthersSame
    <3> QED
        BY <2>1, <3>1, <3>2
  <2>8. result[r] = "none"
      BY <2>1 DEF Settled
  <2>9. \A x \in Starter : pc'[x] \in Unbegun =>
           /\ pc[x] \in Unbegun
           /\ x \in dangerous' => x \in dangerous /\ Head(orphan'[x]) = Head(orphan[x])
      BY <2>1, <2>3, <2>4 DEF Unbegun
  <2>10. \A q \in Req : pc'[q] = "woken" /\ hand'[q] = "completed" =>
            pc[q] = "woken" /\ hand[q] = "completed" /\ turnOf'[q] = turnOf[q]
      BY <2>3, <2>5
  <2>11. \A q \in Req : result'[q] = "message" => result[q] = "message" /\ turnOf'[q] = turnOf[q]
      BY <2>1, <2>3, <2>8
  <2>12. \A q \in Req : pc'[q] = "idle" => pc[q] = "idle"
      BY <2>3, <2>4
  <2> QED
      BY <1>i, <2>1, <2>7, <2>9, <2>10, <2>11, <2>12
<1>7. ASSUME NEW r \in Continuer, NEW p \in Req, NEW outputs \in SUBSET Shown,
            NEW answered \in SUBSET outputs, ContinueTooLarge(r, p, outputs, answered) PROVE Settled'
  <2>1. UNCHANGED <<session, orphan, streams, turnOf, dangerous, hand>>
      BY <1>7 DEF ContinueTooLarge, clientVars, sessionVars, requestVars, turnVars
  <2>2. \A q \in Req : /\ pc'[q] = pc[q] \/ pc'[q] \notin {"idle", "woken"}
                       /\ pc'[q] \in Unbegun => pc[q] \in Unbegun
                       /\ \/ result'[q] = result[q]
                          \/ result'[q] # "message" /\ pc'[q] # "idle"
      BY <1>g, <1>7 DEF ContinueTooLarge, Return, requestVars, Unbegun
  <2> QED
      BY <1>u, <2>1, <2>2
<1>8. ASSUME NEW r \in Continuer, ContinueRefused(r) PROVE Settled'
  <2>1. UNCHANGED <<session, orphan, streams, turnOf, dangerous, hand>>
      BY <1>8 DEF ContinueRefused, clientVars, sessionVars, requestVars, turnVars
  <2>2. \A q \in Req : /\ pc'[q] = pc[q] \/ pc'[q] \notin {"idle", "woken"}
                       /\ pc'[q] \in Unbegun => pc[q] \in Unbegun
                       /\ \/ result'[q] = result[q]
                          \/ result'[q] # "message" /\ pc'[q] # "idle"
      BY <1>g, <1>8 DEF ContinueRefused, Return, requestVars, Unbegun
  <2> QED
      BY <1>u, <2>1, <2>2
<1>9. ASSUME NEW r \in Req, RelayDelta(r) PROVE Settled'
  <2>1. UNCHANGED <<session, orphan, streams, turnOf, dangerous, hand>>
      BY <1>9 DEF RelayDelta, clientVars, sessionVars, requestVars, turnVars
  <2>2. \A q \in Req : /\ pc'[q] = pc[q] \/ pc'[q] \notin {"idle", "woken"}
                       /\ pc'[q] \in Unbegun => pc[q] \in Unbegun
                       /\ \/ result'[q] = result[q]
                          \/ result'[q] # "message" /\ pc'[q] # "idle"
      BY <1>g, <1>9 DEF RelayDelta, Return, requestVars, Unbegun
  <2> QED
      BY <1>u, <2>1, <2>2
<1>10. ASSUME NEW r \in Req, RespondToSecurity(r) PROVE Settled'
  <2>1. UNCHANGED <<session, orphan, streams, turnOf, dangerous, hand>>
      BY <1>10 DEF RespondToSecurity, clientVars, sessionVars, requestVars, turnVars
  <2>2. \A q \in Req : /\ pc'[q] = pc[q] \/ pc'[q] \notin {"idle", "woken"}
                       /\ pc'[q] \in Unbegun => pc[q] \in Unbegun
                       /\ \/ result'[q] = result[q]
                          \/ result'[q] # "message" /\ pc'[q] # "idle"
      BY <1>g, <1>10 DEF RespondToSecurity, Return, requestVars, Unbegun
  <2> QED
      BY <1>u, <2>1, <2>2
<1>11. ASSUME NEW r \in Req, RespondToTool(r) PROVE Settled'
  <2>1. UNCHANGED <<session, orphan, streams, turnOf, dangerous, hand>>
      BY <1>11 DEF RespondToTool, clientVars, sessionVars, requestVars, turnVars
  <2>2. \A q \in Req : /\ pc'[q] = pc[q] \/ pc'[q] \notin {"idle", "woken"}
                       /\ pc'[q] \in Unbegun => pc[q] \in Unbegun
                       /\ \/ result'[q] = result[q]
                          \/ result'[q] # "message" /\ pc'[q] # "idle"
      BY <1>g, <1>11 DEF RespondToTool, Return, requestVars, Unbegun
  <2> QED
      BY <1>u, <2>1, <2>2
<1>12. ASSUME NEW r \in Req, RejectUndeclared(r) PROVE Settled'
  <2>1. /\ turnOf[r] \in Starter /\ session' = Freed(session, turnOf[r])
        /\ UNCHANGED <<streams, turnOf, orphan, dangerous, hand, result>>
      BY <1>b, <1>12 DEF RejectUndeclared, Freed, clientVars, turnVars, Working
  <2>2. \A q \in Req : /\ pc'[q] = pc[q] \/ pc'[q] \notin {"idle", "woken"}
                       /\ pc'[q] \in Unbegun => pc[q] \in Unbegun
      BY <1>12 DEF RejectUndeclared, Unbegun
  <2>3. /\ OthersSame(session', session, turnOf[r])
        /\ session'[turnOf[r]].signals = session[turnOf[r]].signals
      BY <2>1, FreedIs
  <2>4. \A x \in Starter : session'[x].signals = session[x].signals
      BY <2>3 DEF OthersSame
  <2> QED
      BY <1>i, <2>1, <2>2, <2>4
<1>13. ASSUME NEW r \in Req, RespondToEnd(r) PROVE Settled'
  <2>1. /\ RemoveSession(turnOf[r]) /\ turnOf[r] \in Starter /\ pc[turnOf[r]] \notin Unbegun
        /\ UNCHANGED <<streams, turnOf, dangerous, hand>>
      BY <1>b, <1>c, <1>13 DEF RespondToEnd, CleanUp, clientVars, sessionVars, requestVars, turnVars, Working, Unbegun
  <2>2. \A q \in Req : /\ pc'[q] = pc[q] \/ pc'[q] \notin {"idle", "woken"}
                       /\ pc'[q] \in Unbegun => pc[q] \in Unbegun
                       /\ \/ result'[q] = result[q]
                          \/ pc'[q] # "idle" /\ (result'[q] = "message" =>
                                                   pc[q] = "woken" /\ hand[q] = "completed")
      BY <1>g, <1>13 DEF RespondToEnd, Return, Unbegun
  <2> QED
      BY <1>h, <2>1, <2>2
<1>14. ASSUME NEW r \in Req, Interrupted(r) PROVE Settled'
  <2>1. /\ RemoveSession(turnOf[r]) /\ turnOf[r] \in Starter /\ pc[turnOf[r]] \notin Unbegun
        /\ UNCHANGED <<streams, turnOf, dangerous, hand>>
      BY <1>b, <1>c, <1>14 DEF Interrupted, CleanUp, clientVars, sessionVars, requestVars, turnVars, Working, Unbegun
  <2>2. \A q \in Req : /\ pc'[q] = pc[q] \/ pc'[q] \notin {"idle", "woken"}
                       /\ pc'[q] \in Unbegun => pc[q] \in Unbegun
                       /\ \/ result'[q] = result[q]
                          \/ pc'[q] # "idle" /\ (result'[q] = "message" =>
                                                   pc[q] = "woken" /\ hand[q] = "completed")
      BY <1>g, <1>14 DEF Interrupted, Return, Unbegun
  <2> QED
      BY <1>h, <2>1, <2>2
<1>15. ASSUME NEW r \in Req, Aborted(r) PROVE Settled'
  <2>1. /\ RemoveSession(turnOf[r]) /\ turnOf[r] \in Starter /\ pc[turnOf[r]] \notin Unbegun
        /\ UNCHANGED <<streams, turnOf, dangerous, hand>>
      BY <1>b, <1>c, <1>15 DEF Aborted, CleanUp, clientVars, sessionVars, requestVars, turnVars, Working, Unbegun
  <2>2. \A q \in Req : /\ pc'[q] = pc[q] \/ pc'[q] \notin {"idle", "woken"}
                       /\ pc'[q] \in Unbegun => pc[q] \in Unbegun
                       /\ \/ result'[q] = result[q]
                          \/ pc'[q] # "idle" /\ (result'[q] = "message" =>
                                                   pc[q] = "woken" /\ hand[q] = "completed")
      BY <1>g, <1>15 DEF Aborted, Return, Unbegun
  <2> QED
      BY <1>h, <2>1, <2>2
<1>16. ASSUME NEW r \in Req, Rejected(r) PROVE Settled'
  <2>1. /\ RemoveSession(turnOf[r]) /\ turnOf[r] \in Starter /\ pc[turnOf[r]] \notin Unbegun
        /\ UNCHANGED <<streams, turnOf, dangerous, hand>>
      BY <1>b, <1>c, <1>16 DEF Rejected, CleanUp, clientVars, sessionVars, requestVars, turnVars, Working, Unbegun
  <2>2. \A q \in Req : /\ pc'[q] = pc[q] \/ pc'[q] \notin {"idle", "woken"}
                       /\ pc'[q] \in Unbegun => pc[q] \in Unbegun
                       /\ \/ result'[q] = result[q]
                          \/ pc'[q] # "idle" /\ (result'[q] = "message" =>
                                                   pc[q] = "woken" /\ hand[q] = "completed")
      BY <1>g, <1>16 DEF Rejected, Return, Unbegun
  <2> QED
      BY <1>h, <2>1, <2>2
<1>17. ASSUME NEW r \in Req, DetachedEnds(r) PROVE Settled'
  <2>1. /\ RemoveSession(turnOf[r]) /\ UNCHANGED <<streams, turnOf, pc, dangerous, hand, result>>
        /\ turnOf[r] \in Starter /\ detached[r] # "none"
      BY <1>17 DEF DetachedEnds, CleanUp, requestVars, turnVars, OnTurn
  <2>2. pc[turnOf[r]] \notin Unbegun
      BY <1>c, <2>1 DEF Counted
  <2> QED
      BY <1>h, <2>1, <2>2
<1>18. ASSUME NEW r \in Req, Drained(r) PROVE Settled'
  <2>1. UNCHANGED <<streams, turnOf, orphan, dangerous, result>>
      BY <1>18 DEF Drained, clientVars, turnVars
  <2>2. \A q \in Req : pc'[q] # "idle" \/ pc'[q] = pc[q]
      BY <1>18, DrainedMoves
  <2>3. \A q \in Starter : pc'[q] \in Unbegun => pc[q] \in Unbegun
      BY <1>18, DrainedMoves DEF Unbegun
  <2>4. \A x \in Starter : session'[x].signals \in {session[x].signals, <<>>}
      BY <1>18, DrainedMoves
  <2>5. \A x \in Starter : /\ session[x].signals \in Seq(Open) /\ orphan[x] \in Seq(Open)
                              => session'[x].signals \in Seq(Open) /\ orphan'[x] \in Seq(Open)
      BY <2>1, <2>4, OpenSequences
  <2>6. ASSUME NEW q \in Req, pc'[q] = "woken", hand'[q] = "completed"
        PROVE  (pc[q] = "woken" /\ hand[q] = "completed") \/ turnOf[q] \in Relayed
    <3>1. \/ pc'[q] = pc[q] /\ hand'[q] = hand[q]
          \/ q = r /\ pc[r] \in {"created", "relaying"}
          \/ q = r /\ pc'[r] = "done"
        BY <1>18, <2>6, DrainedStores
    <3>2. pc[r] \in {"created", "relaying"} => turnOf[r] \in Relayed
        BY <1>0, <1>18, <1>b DEF OnTurn
    <3> QED
        BY <2>6, <3>1, <3>2
  <2> QED
      BY <1>i, <2>1, <2>2, <2>3, <2>5, <2>6
<1>19. ASSUME NEW r \in Req, Disconnect(r) PROVE Settled'
  <2>1. /\ UNCHANGED <<streams, turnOf, orphan, dangerous>>
        /\ \/ /\ \/ pc[r] \in {"waiting", "reading", "relaying", "interrupting", "rejecting"}
                 \/ pc[r] = "emitting" /\ r \in Relayed
              /\ Abort(r, turnOf[r], session) /\ result' = result
           \/ /\ pc' = [pc EXCEPT ![r] = "done"] /\ UNCHANGED <<session, hand>>
              /\ result' = [result EXCEPT ![r] = Undelivered(r)]
           \/ UNCHANGED <<pc, session, hand, result>>
      BY <1>19 DEF Disconnect, turnVars
  <2>2. ASSUME pc[r] \in {"waiting", "reading", "relaying", "interrupting", "rejecting"}
               \/ (pc[r] = "emitting" /\ r \in Relayed)
        PROVE  turnOf[r] \in Starter
      BY <1>b, <2>2 DEF Working, Relayed
  <2>3. CASE UNCHANGED <<pc, session, hand, result>>
      BY <1>u, <2>1, <2>3
  <2>4. CASE /\ pc' = [pc EXCEPT ![r] = "done"] /\ UNCHANGED <<session, hand>>
             /\ result' = [result EXCEPT ![r] = Undelivered(r)]
    <3>1. Undelivered(r) # "message"
        BY DEF Undelivered
    <3> QED
        BY <1>u, <2>1, <2>4, <3>1 DEF Unbegun
  <2> QED
      BY <1>j, <2>1, <2>2, <2>3, <2>4
<1>20. ASSUME NEW r \in Starter, EmitTooLarge(r) PROVE Settled'
  <2>1. /\ turnOf[r] \in Starter /\ r \in Req /\ Abort(r, turnOf[r], session)
        /\ UNCHANGED <<streams, turnOf, orphan, dangerous, result>>
      BY <1>b, <1>20 DEF EmitTooLarge, clientVars, sessionVars, requestVars, turnVars, Working, Relayed
  <2> QED
      BY <1>j, <2>1
<1>21. ASSUME NEW r \in Continuer, ContinuationTooLarge(r) PROVE Settled'
  <2>1. UNCHANGED <<session, orphan, streams, turnOf, dangerous, hand>>
      BY <1>21 DEF ContinuationTooLarge, clientVars, sessionVars, requestVars, turnVars
  <2>2. \A q \in Req : /\ pc'[q] = pc[q] \/ pc'[q] \notin {"idle", "woken"}
                       /\ pc'[q] \in Unbegun => pc[q] \in Unbegun
                       /\ \/ result'[q] = result[q]
                          \/ result'[q] # "message" /\ pc'[q] # "idle"
      BY <1>g, <1>21 DEF ContinuationTooLarge, Undelivered, Return, requestVars, Unbegun
  <2> QED
      BY <1>u, <2>1, <2>2
<1>22. ASSUME NEW r \in Req, ResponseTimeout(r) PROVE Settled'
  <2>1. /\ turnOf[r] \in Starter /\ r \in Req /\ Abort(r, turnOf[r], session)
        /\ UNCHANGED <<streams, turnOf, orphan, dangerous, result>>
      BY <1>b, <1>22 DEF ResponseTimeout, clientVars, sessionVars, requestVars, turnVars, Working, Relayed
  <2> QED
      BY <1>j, <2>1
<1>23. ASSUME NEW c \in Call, CallExpires(c) PROVE Settled'
  <2>1. UNCHANGED <<session, orphan, streams, turnOf, dangerous, hand>>
      BY <1>23 DEF CallExpires, clientVars, sessionVars, requestVars, turnVars
  <2>2. \A q \in Req : /\ pc'[q] = pc[q] \/ pc'[q] \notin {"idle", "woken"}
                       /\ pc'[q] \in Unbegun => pc[q] \in Unbegun
                       /\ \/ result'[q] = result[q]
                          \/ result'[q] # "message" /\ pc'[q] # "idle"
      BY <1>g, <1>23 DEF CallExpires, Return, requestVars, Unbegun
  <2> QED
      BY <1>u, <2>1, <2>2
<1>24. ASSUME NEW t \in Starter, NEW c \in Call, ToolCalled(t, c) PROVE Settled'
  <2>1. /\ UNCHANGED <<streams, turnOf, result, dangerous>>
        /\ SignalTurn(t, "security") \/ SignalTurn(t, "tool") \/ UNCHANGED <<pc, hand, session, orphan>>
      BY <1>24 DEF ToolCalled, clientVars, turnVars
  <2>2. CASE UNCHANGED <<pc, hand, session, orphan>>
      BY <1>u, <2>1, <2>2
  <2>3. CASE SignalTurn(t, "security") \/ SignalTurn(t, "tool")
    <3>1. "security" \in Open /\ "tool" \in Open
        BY <1>f DEF Open
    <3> QED
        BY <1>k, <2>1, <2>3, <3>1 DEF Open
  <2> QED
      BY <2>1, <2>2, <2>3
<1>25. ASSUME NEW t \in Starter, Delta(t) PROVE Settled'
  <2>1. SignalTurn(t, "delta") /\ "delta" \in Open /\ UNCHANGED <<streams, turnOf, result, dangerous>>
      BY <1>f, <1>25 DEF Delta, clientVars, Open
  <2>2. t \in dangerous' => t \in dangerous
      BY <2>1
  <2> QED
      BY <1>k, <2>1, <2>2 DEF Open
<1>26. ASSUME NEW t \in Starter, DangerousItem(t) PROVE Settled'
  <2>1. /\ SignalTurn(t, "security") /\ "security" \in Open /\ UNCHANGED <<streams, turnOf, result>>
        /\ dangerous' = dangerous \cup {t} /\ turn[t] = "running"
      BY <1>f, <1>26 DEF DangerousItem, clientVars, Open
  <2>2. orphan[t] \in Seq(Open)
      BY <2>1 DEF Settled, Closed
  <2> QED
      BY <1>k, <2>1, <2>2 DEF Open
<1>27. ASSUME NEW t \in Starter, NEW status \in {"completed", "failed"}, TurnCompleted(t, status) PROVE Settled'
  <2>1. /\ SignalTurn(t, status) /\ status \in Signal /\ status # "delta"
        /\ UNCHANGED <<streams, turnOf, result, dangerous, callTurn, pending>>
        /\ status = "completed" => ListForTurn(t) = {} /\ turn'[t] = "ended"
      BY <1>0, <1>f, <1>27 DEF TurnCompleted, clientVars, callVars
  <2>2. status = "completed" => turn'[t] = "ended" /\ ListForTurn(t)' = {}
      BY <2>1 DEF ListForTurn
  <2> QED
      BY <1>k, <2>1, <2>2 DEF Open
<1>28. ASSUME ChildFailure PROVE Settled'
  <2>1. /\ UNCHANGED <<streams, turnOf, hand, dangerous>>
        /\ \A q \in Req : pc'[q] \in {pc[q], "done", AfterError(q)}
        /\ \A q \in Req : \/ result'[q] = result[q]
                          \/ result'[q] = "error" /\ pc[q] # "idle"
        /\ \A q \in Req : pc'[q] = "idle" => pc[q] = "idle"
      BY <1>g, <1>28 DEF ChildFailure
  <2>2. \A q \in Req : pc'[q] \in Unbegun => pc[q] \in Unbegun /\ pc'[q] = pc[q]
      BY <1>g, <2>1 DEF Unbegun
  <2>3. CASE pending = {}
    <3>1. UNCHANGED <<session, orphan>>
        BY <1>28, <2>3 DEF ChildFailure, sessionVars
    <3> QED
        BY <1>g, <1>u, <2>1, <2>2, <3>1
  <2>4. CASE pending # {}
    <3>1. session' = [t \in Starter |-> NewSession] /\ orphan' = [t \in Starter |-> <<>>]
        BY <1>28, <2>4 DEF ChildFailure
    <3>2. \A t \in Starter : session'[t].signals \in Seq(Open) /\ orphan'[t] \in Seq(Open)
        BY <3>1, OpenSequences DEF NewSession
    <3>3. \A q \in Req : pc'[q] = IF pc[q] = "idle" THEN "idle" ELSE "done"
        BY <1>28, <2>4 DEF ChildFailure
    <3>4. \A t \in Starter : pc'[t] \in Unbegun => pc[t] = "idle"
        BY <3>3 DEF Unbegun
    <3>5. \A t \in Starter : pc'[t] \in Unbegun => pc[t] \in Unbegun /\ t \notin dangerous'
        BY <2>1, <3>4 DEF Unbegun, Fresh
    <3> QED
        BY <1>i, <2>1, <3>2, <3>3, <3>5
  <2> QED
      BY <2>3, <2>4
<1> QED
    BY <1>1, <1>2, <1>3, <1>4, <1>5, <1>6, <1>7, <1>8, <1>9, <1>10, <1>11, <1>12,
       <1>13, <1>14, <1>15, <1>16, <1>17, <1>18, <1>19, <1>20, <1>21, <1>22, <1>23,
       <1>24, <1>25, <1>26, <1>27, <1>28 DEF Next

LEMMA InitSettled == ASSUME Init PROVE Fresh /\ Counted /\ Settled
<1>1. /\ \A t \in Starter : pc[t] = "idle" /\ turn[t] = "none" /\ detached[t] = "none"
      /\ \A r \in Req : pc[r] = "idle" /\ result[r] = "none"
      /\ \A t \in Starter : session[t] = NewSession /\ orphan[t] = <<>>
      /\ dangerous = {} /\ mapped = {} /\ pending = {}
    BY StartersAre DEF Init
<1>2. \A t \in Starter : Owed(t) = 0
  <2>1. ASSUME NEW t \in Starter PROVE ListForTurn(t) = {} /\ t \notin dangerous
      BY <1>1 DEF ListForTurn
  <2>2. Cardinality({}) = 0
      BY FS_EmptySet
  <2> QED
      BY <2>1, <2>2 DEF Owed
<1>3. \A t \in Starter : Owed(t) <= Len(orphan[t])
  <2>1. Len(<<>>) = 0
      OBVIOUS
  <2> QED
      BY <1>1, <1>2, <2>1
<1>4. Fresh /\ Counted
  <2>1. Fresh
      BY <1>1 DEF Fresh
  <2>2. Counted
      BY <1>1, <1>3 DEF Counted
  <2> QED
      BY <2>1, <2>2
<1>5. \A t \in Starter : session[t].signals \in Seq(Open) /\ orphan[t] \in Seq(Open)
  <2>1. NewSession.signals = <<>> /\ <<>> \in Seq(Open)
      BY OpenSequences DEF NewSession
  <2> QED
      BY <1>1, <2>1
<1> QED
    BY <1>1, <1>4, <1>5 DEF Settled

LEMMA StutterSettled ==
    ASSUME Placed, Fresh, Counted, Settled, UNCHANGED vars PROVE Fresh' /\ Counted' /\ Settled'
<1>1. /\ UNCHANGED <<pc, streams, turnOf, hand, result, detached, mapped, session, orphan>>
      /\ UNCHANGED <<pending, callTurn, turn, dangerous>>
    BY DEF vars, requestVars, clientVars, sessionVars, callVars, turnVars
<1>2. Relayed' = Relayed /\ (\A t \in Starter : ListForTurn(t)' = ListForTurn(t))
    BY <1>1 DEF Relayed, ListForTurn
<1>3. \A t \in Starter : Owed(t)' = Owed(t)
    BY <1>1, <1>2 DEF Owed
<1>4. Fresh' /\ Counted'
  <2>1. Fresh'
      BY <1>1 DEF Fresh
  <2>2. \A t \in Starter : pc'[t] \in Unbegun => Owed(t)' <= Len(orphan'[t]) /\ detached'[t] = "none"
      BY <1>1, <1>3 DEF Counted
  <2>3. \A t \in mapped' \ Relayed' :
           /\ Owed(t)' <= Len(session'[t].signals) + 1
           /\ session'[t].waiter # None => Owed(t)' = 0
    <3>1. ASSUME NEW t \in mapped \ Relayed
          PROVE  t \in Starter
        BY <3>1, TypesAreParts DEF Placed, Typed, SessionsTyped
    <3> QED
        BY <1>1, <1>2, <1>3, <3>1 DEF Counted
  <2> QED
      BY <2>1, <2>2, <2>3 DEF Counted
<1>5. Settled'
    BY <1>1, <1>2 DEF Settled, Closed, Harmless
<1> QED
    BY <1>4, <1>5

LEMMA AlwaysSettled == Spec => [](Placed /\ CallsInOrder /\ Owned /\ Fresh /\ Counted /\ Settled)
<1>1. ASSUME Placed, CallsInOrder, Fresh, Counted, Settled, [Next]_vars
      PROVE  Fresh' /\ Counted' /\ Settled'
  <2>1. CASE Next
      BY <1>1, <2>1, FreshKept, CountedKept, SettledKept
  <2>2. CASE UNCHANGED vars
      BY <1>1, <2>2, StutterSettled
  <2> QED
      BY <1>1, <2>1, <2>2
<1>2. /\ Placed /\ CallsInOrder /\ Owned /\ Fresh /\ Counted /\ Settled /\ [Next]_vars
      => Fresh' /\ Counted' /\ Settled'
    BY <1>1
<1> QED
    BY <1>2, InitSettled, AlwaysInOrder, PTL DEF Spec

\* Where nobody streams the deltas of a turn, its answer is given only if the turn has run
\* no dangerous item: "completed" reaches a request that waits, to which no signal is owed, or one
\* whose session begins with it; no continuation takes it from behind a security signal.
THEOREM PlainFail == Spec => []PlainTurnsFail
<1>1. Settled => PlainTurnsFail
    BY DEF Settled, Harmless, PlainTurnsFail
<1> QED
    BY <1>1, AlwaysSettled, PTL

=============================================================================
