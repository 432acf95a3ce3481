------------------------- MODULE ResponseCoordinator -------------------------
(***************************************************************************)
(* The worker's CodexResponseCoordinator with the OpenClawToolBroker and   *)
(* the internal routes that call them: gateway responses, continued across *)
(* tool calls, over turns that the Codex app-server runs and reports on by *)
(* JSON lines.                                                             *)
(*                                                                         *)
(* The worker is one event loop. An action is one of                       *)
(*   - a line of app-server output. One chunk may carry several, handled   *)
(*     before the continuations they wake: `chunk` holds meanwhile;        *)
(*   - a continuation that a settled promise has scheduled ("begun" and    *)
(*     "woken" requests), which runs before any other event;               *)
(*   - any other event: a request, a disconnection, a timer, a drained     *)
(*     socket, the answer to turn/interrupt, the death of app-server.      *)
(***************************************************************************)
EXTENDS Integers, Sequences, FiniteSets

CONSTANTS
    Starter,        \* requests without previous_response_id: each starts a turn
    Continuer,      \* requests that continue an earlier response
    Streamable,     \* the requests that may ask for a stream
    Key,            \* the MyToken keys the requests come from
    Call,           \* the calls to client tools that turns may make
    Undeclared,     \* the calls of tools their request did not declare
    None,           \* no request: undefined
    MaxPending,     \* maxPendingCalls of the broker
    QueueCap,       \* entries of a stream queue, 64 in the code
    MaxDeltas       \* bound: text deltas a turn reports

Req == Starter \cup Continuer

ASSUME CoordinatorAssumption ==
    /\ IsFiniteSet(Req) /\ IsFiniteSet(Call)
    /\ Starter \cap Continuer = {}
    /\ Streamable \subseteq Req
    /\ Undeclared \subseteq Call
    /\ None \notin Req
    /\ Key # {}
    /\ MaxPending \in Nat \ {0}
    /\ QueueCap \in Nat \ {0}
    /\ MaxDeltas \in Nat

VARIABLES
    up,         \* app-server runs
    chunk,      \* the continuations under way were woken by lines of a chunk
    pc,         \* where each request stands
    key,        \* the key of each request: context.apiKeyId
    streams,    \* the requests that asked for a stream
    turnOf,     \* the turn of the session of a request, named by its starter
    hand,       \* the signal a woken request was resolved with
    gone,       \* requests whose client has disconnected: context.signal.aborted
    result,     \* the outcome of each request
    listed,     \* the calls its response lists
    detached,   \* a response still being built though its request was rejected
    known,      \* #sessionsByResponse: a response id is named by its request
    mapped,     \* #sessionsByTurn
    session,    \* the ActiveSession of each turn
    orphan,     \* #orphanSignals
    pending,    \* the broker's #pending
    callTurn,   \* the turn that made a call
    answer,     \* how a call was answered to app-server
    giver,      \* the request whose client gave the answer
    turn,       \* the turn in app-server
    said,       \* deltas a turn has reported
    dangerous,  \* turns that have started an item Codex runs natively
    unread      \* history: the deltas signalled to a stream that it has not relayed

requestVars == <<pc, hand, result, listed>>
clientVars == <<key, streams, turnOf, gone, detached>>
sessionVars == <<known, mapped, session, orphan>>
callVars == <<pending, callTurn, answer, giver>>
turnVars == <<turn, said, dangerous, unread>>
vars == <<up, chunk, requestVars, clientVars, sessionVars, callVars, turnVars>>

-----------------------------------------------------------------------------
(* Types *)

Signal == {"delta", "tool", "completed", "failed", "security", "overflow"}

Session ==
    [signals : Seq(Signal), waiter : Req \cup {None}, queue : Seq(Signal),
     reading : BOOLEAN,     \* session.streamWaiter is set
     streaming : BOOLEAN]

NewSession == [signals |-> <<>>, waiter |-> None, queue |-> <<>>,
               reading |-> FALSE, streaming |-> FALSE]

\* "interrupting" awaits turn/interrupt after a security signal, "aborting" in abortSession
\* before the error is rethrown, "rejecting" there before a failed response is returned;
\* "created", "relaying" and "emitting" await the drain of a stream's socket, and "hung"
\* awaits the drain of a closed one.
PcValues == {"idle", "starting", "begun", "waiting", "woken", "interrupting", "aborting",
             "rejecting", "created", "reading", "relaying", "emitting", "hung", "done"}

\* "message" is the answer of a completed turn, "tool" lists calls, "empty" lists none though it
\* has the status completed; "lost" is one of these two that its client did not get.
Results == {"none", "error", "failed", "message", "tool", "empty", "lost"}

TypeOK ==
    /\ up \in BOOLEAN
    /\ chunk \in BOOLEAN
    /\ pc \in [Req -> PcValues]
    /\ key \in [Req -> Key]
    /\ streams \subseteq Streamable
    /\ turnOf \in [Req -> Starter \cup {None}]
    /\ hand \in [Req -> Signal \cup {"none"}]
    /\ gone \subseteq Req
    /\ result \in [Req -> Results]
    /\ listed \in [Req -> SUBSET Call]
    /\ detached \in [Req -> {"none", "security", "undeclared"}]
    /\ known \subseteq Req
    /\ mapped \subseteq Starter
    /\ session \in [Starter -> Session]
    /\ \A t \in Starter : Len(session[t].queue) <= QueueCap
    /\ orphan \in [Starter -> Seq(Signal)]
    /\ pending \subseteq Call /\ Cardinality(pending) <= MaxPending
    /\ callTurn \in [Call -> Starter \cup {None}]
    /\ answer \in [Call -> {"none", "client", "failed", "expired", "rejected"}]
    /\ giver \in [Call -> Req \cup {None}]
    /\ turn \in [Starter -> {"none", "running", "ended"}]
    /\ said \in [Starter -> 0..MaxDeltas]
    /\ dangerous \subseteq Starter
    /\ unread \in [Starter -> Int]

Init ==
    /\ up = TRUE
    /\ chunk = FALSE
    /\ pc = [r \in Req |-> "idle"]
    /\ key \in [Req -> Key]
    /\ streams \in SUBSET Streamable
    /\ turnOf = [r \in Req |-> None]
    /\ hand = [r \in Req |-> "none"]
    /\ gone = {}
    /\ result = [r \in Req |-> "none"]
    /\ listed = [r \in Req |-> {}]
    /\ detached = [r \in Req |-> "none"]
    /\ known = {}
    /\ mapped = {}
    /\ session = [t \in Starter |-> NewSession]
    /\ orphan = [t \in Starter |-> <<>>]
    /\ pending = {}
    /\ callTurn = [c \in Call |-> None]
    /\ answer = [c \in Call |-> "none"]
    /\ giver = [c \in Call |-> None]
    /\ turn = [t \in Starter |-> "none"]
    /\ said = [t \in Starter |-> 0]
    /\ dangerous = {}
    /\ unread = [t \in Starter |-> 0]

-----------------------------------------------------------------------------
(* The event loop *)

\* The streams that read deltas; the stream of a continuation has one event, its response.
Relayed == streams \cap Starter

Scheduled(r) == pc[r] \in {"begun", "woken"}
Quiet == \A r \in Req : ~Scheduled(r)

\* A line of app-server output, a scheduled continuation, any other event.
Line == up /\ (Quiet \/ chunk) /\ chunk' = (\E r \in Req : pc'[r] \in {"begun", "woken"})
Continuation(r) == Scheduled(r) /\ chunk' = FALSE
Event == Quiet /\ chunk' = FALSE

-----------------------------------------------------------------------------
(* OpenClawToolBroker *)

ListForTurn(t) == {c \in pending : callTurn[c] = t}

\* Seeded fault: no limit. Then the limit of the code.
NeverFull == FALSE
BrokerFull == Cardinality(pending) >= MaxPending

\* broker.resolve of the calls cs: none is answered twice, none stays pending.
Resolve(cs, how, by) ==
    /\ pending' = pending \ cs
    /\ answer' = [c \in Call |-> IF c \in cs THEN how ELSE answer[c]]
    /\ giver' = [c \in Call |-> IF c \in cs THEN by ELSE giver[c]]
    /\ UNCHANGED callTurn

-----------------------------------------------------------------------------
(* Sessions *)

\* Seeded fault: what does not fit is dropped.
EnqueueDropping(queue, s, large) ==
    IF Len(queue) >= QueueCap \/ large THEN queue ELSE Append(queue, s)

\* queueStreamSignal: a queue that is full, in entries or in bytes, is replaced by the overflow.
Enqueue(queue, s, large) ==
    IF Len(queue) >= QueueCap \/ large THEN <<"overflow">> ELSE Append(queue, s)

\* What may take a queue beyond its bytes: text, and the error of a failed turn.
Large(queue, s) == ({s} \cup {queue[i] : i \in 1..Len(queue)}) \cap {"delta", "failed"} # {}

\* The requests #signal wakes: the waiter of a response, but not for a delta, and the
\* reader of a stream.
Woken(t, s) ==
    {r \in Req : r = session[t].waiter /\ s # "delta"}
    \cup {r \in {t} : session[t].streaming /\ session[t].reading}

Signalled(q, s, large) ==
    [signals   |-> IF s = "delta" \/ q.waiter # None THEN q.signals ELSE Append(q.signals, s),
     waiter    |-> IF s = "delta" THEN q.waiter ELSE None,
     queue     |-> IF q.streaming /\ ~q.reading THEN Enqueue(q.queue, s, large) ELSE q.queue,
     reading   |-> q.reading /\ ~q.streaming,
     streaming |-> q.streaming]

\* queueOrSignal: a session is signalled; without one the signal waits as an orphan (the
\* text of a delta is kept, the delta is not).
SignalTurn(t, s) ==
    \/ /\ t \in mapped
       /\ \E large \in {FALSE, Large(session[t].queue, s)} :
             session' = [session EXCEPT ![t] = Signalled(@, s, large)]
       /\ pc' = [r \in Req |-> IF r \in Woken(t, s) THEN "woken" ELSE pc[r]]
       /\ hand' = [r \in Req |-> IF r \in Woken(t, s) THEN s ELSE hand[r]]
       /\ UNCHANGED orphan
    \/ /\ t \notin mapped
       /\ orphan' = IF s = "delta" THEN orphan ELSE [orphan EXCEPT ![t] = Append(@, s)]
       /\ UNCHANGED <<session, pc, hand>>

\* The first half of abortSession(session), up to its await: whoever waits on the session
\* is rejected, and in its own catch aborts the session too. Request r does so now.
Abort(r, t, sessions) ==
    LET rejected == {r} \cup {q \in Req : q = sessions[t].waiter}
                        \cup {q \in {t} : sessions[t].reading}
    IN  /\ pc' = [q \in Req |-> IF q \in rejected THEN "aborting" ELSE pc[q]]
        /\ session' = [sessions EXCEPT ![t].waiter = None, ![t].reading = FALSE]
        /\ UNCHANGED hand

\* Seeded faults: the newest signal is taken first; a second waiter displaces the first.
NextSignalNewest(r, t, sessions) ==
    LET n == Len(sessions[t].signals)
    IN  IF n > 0
        THEN /\ session' = [sessions EXCEPT ![t].signals = SubSeq(@, 1, n - 1)]
             /\ hand' = [hand EXCEPT ![r] = sessions[t].signals[n]]
             /\ pc' = [pc EXCEPT ![r] = "woken"]
        ELSE /\ session' = [sessions EXCEPT ![t].waiter = r]
             /\ pc' = [pc EXCEPT ![r] = "waiting"]
             /\ UNCHANGED hand
NextSignalDisplacing(r, t, sessions) ==
    /\ session' = [sessions EXCEPT ![t].waiter = r]
    /\ pc' = [pc EXCEPT ![r] = "waiting"]
    /\ UNCHANGED hand

\* nextSignal: take a signal that is queued, wait for one, or fail because another waits.
NextSignal(r, t, sessions) ==
    \/ /\ sessions[t].signals # <<>>
       /\ session' = [sessions EXCEPT ![t].signals = Tail(@)]
       /\ hand' = [hand EXCEPT ![r] = Head(sessions[t].signals)]
       /\ pc' = [pc EXCEPT ![r] = "woken"]
    \/ /\ sessions[t].signals = <<>>
       /\ sessions[t].waiter = None
       /\ session' = [sessions EXCEPT ![t].waiter = r]
       /\ pc' = [pc EXCEPT ![r] = "waiting"]
       /\ UNCHANGED hand
    \/ /\ sessions[t].signals = <<>>
       /\ sessions[t].waiter # None
       /\ Abort(r, t, sessions)

RemoveSession(t) ==
    /\ mapped' = mapped \ {t}
    /\ known' = {r \in known : turnOf[r] # t}
    /\ session' = [session EXCEPT ![t].queue = <<>>]
    /\ orphan' = [orphan EXCEPT ![t] = <<>>]

-----------------------------------------------------------------------------
(* Starting a response *)

Start(r) ==
    /\ Event /\ up
    /\ r \in Starter /\ pc[r] = "idle"
    /\ pc' = [pc EXCEPT ![r] = "starting"]
    /\ turnOf' = [turnOf EXCEPT ![r] = r]
    /\ UNCHANGED <<up, hand, result, listed, key, streams, gone, detached, sessionVars, callVars, turnVars>>

\* app-server starts the turn: its lines may precede the answer to turn/start.
TurnStarts(r) ==
    /\ pc[r] = "starting" /\ turn[r] = "none"
    /\ turn' = [turn EXCEPT ![r] = "running"]
    /\ UNCHANGED <<up, requestVars, clientVars, sessionVars, callVars, said, dangerous, unread>>
    /\ Line

TurnStartAnswered(r) ==
    /\ pc[r] = "starting" /\ turn[r] # "none"
    /\ pc' = [pc EXCEPT ![r] = "begun"]
    /\ UNCHANGED <<up, hand, result, listed, clientVars, sessionVars, callVars, turnVars>>
    /\ Line

\* An error ends a plain request, and is reported to the client of a stream that is there.
AfterError(r) == IF r \in streams \ gone THEN "emitting" ELSE "done"

\* thread/start, inject_items or turn/start fails or times out: no session yet.
StartFails(r) ==
    /\ Event
    /\ pc[r] = "starting"
    /\ pc' = [pc EXCEPT ![r] = AfterError(r)]
    /\ result' = [result EXCEPT ![r] = "error"]
    /\ UNCHANGED <<up, hand, listed, clientVars, sessionVars, callVars, turnVars>>

\* startSession goes on: the session adopts the orphan signals of its turn. A plain
\* response waits for its first signal; a stream announces its id.
BeginSession(r) ==
    /\ Continuation(r)
    /\ pc[r] = "begun"
    /\ mapped' = mapped \cup {r}
    /\ orphan' = [orphan EXCEPT ![r] = <<>>]
    /\ LET sessions == [session EXCEPT ![r] = [NewSession EXCEPT !.signals = orphan[r],
                                                   !.streaming = r \in streams]]
       IN  \/ /\ r \notin streams
              /\ IF r \in gone THEN Abort(r, r, sessions) ELSE NextSignal(r, r, sessions)
              /\ UNCHANGED known
           \/ /\ r \in streams
              /\ session' = sessions
              /\ known' = known \cup {r}
              /\ pc' = [pc EXCEPT ![r] = IF r \in gone THEN "hung" ELSE "created"]
              /\ UNCHANGED hand
    /\ UNCHANGED <<up, result, listed, clientVars, callVars, turnVars>>

-----------------------------------------------------------------------------
(* Continuing a response *)

\* The calls some client has been told of.
Shown == UNION {listed[r] : r \in Req}

\* Seeded fault: any key may continue a response.
MayContinueAnyKey(r, p, outputs) ==
    p \in known /\ outputs # {} /\ outputs \subseteq ListForTurn(turnOf[p])

\* A continuation is accepted when the previous response is known, belongs to its key, and
\* every output answers a pending call of that session.
MayContinue(r, p, outputs) ==
    /\ p \in known
    /\ key[turnOf[p]] = key[r]
    /\ outputs # {}
    /\ outputs \subseteq ListForTurn(turnOf[p])

Continue(r, p, outputs) ==
    /\ Event /\ up
    /\ r \in Continuer /\ pc[r] = "idle"
    /\ MayContinue(r, p, outputs)
    /\ turnOf' = [turnOf EXCEPT ![r] = turnOf[p]]
    /\ Resolve(outputs, "client", r)
    /\ NextSignal(r, turnOf[p], session)
    /\ UNCHANGED <<up, result, listed, key, streams, gone, detached, known, mapped, orphan, turnVars>>

\* The broker refuses a result as too large: those before it are answered already.
ContinueTooLarge(r, p, outputs, answered) ==
    /\ Event /\ up
    /\ r \in Continuer /\ pc[r] = "idle"
    /\ MayContinue(r, p, outputs)
    /\ answered # outputs
    /\ Resolve(answered, "client", r)
    /\ pc' = [pc EXCEPT ![r] = AfterError(r)]
    /\ result' = [result EXCEPT ![r] = "error"]
    /\ UNCHANGED <<up, hand, listed, clientVars, sessionVars, turnVars>>

ContinueRefused(r) ==
    /\ Event /\ up
    /\ r \in Continuer /\ pc[r] = "idle"
    /\ pc' = [pc EXCEPT ![r] = AfterError(r)]
    /\ result' = [result EXCEPT ![r] = "error"]
    /\ UNCHANGED <<up, hand, listed, clientVars, sessionVars, callVars, turnVars>>

-----------------------------------------------------------------------------
(* Building a response from a signal *)

\* The response is returned to a plain request, or emitted to the client of a stream, where
\* write() to a closed socket returns false and no drain or close follows.
Return(r, outcome) ==
    /\ result' = [result EXCEPT ![r] = outcome]
    /\ pc' = [pc EXCEPT ![r] = IF r \notin streams THEN "done"
                               ELSE IF r \in gone THEN "hung" ELSE "emitting"]

\* waitAndBuild gives a response its id before it looks at the signal.
Identify(r) == known' = IF r \in Relayed THEN known ELSE known \cup {r}

RelayDelta(r) ==
    /\ Continuation(r)
    /\ pc[r] = "woken" /\ hand[r] = "delta"
    /\ pc' = [pc EXCEPT ![r] = IF r \in gone THEN "hung" ELSE "relaying"]
    /\ unread' = [unread EXCEPT ![r] = @ - 1]
    /\ UNCHANGED <<up, hand, result, listed, clientVars, sessionVars, callVars>>
    /\ UNCHANGED <<turn, said, dangerous>>

RespondToSecurity(r) ==
    /\ Continuation(r)
    /\ pc[r] = "woken" /\ hand[r] \in {"security", "overflow"}
    /\ pc' = [pc EXCEPT ![r] = "interrupting"]
    /\ Identify(r)
    /\ UNCHANGED <<up, hand, result, listed, clientVars, mapped, session, orphan, callVars, turnVars>>

\* The calls pending by now are listed for the client, unless one was not declared. There may
\* be none left: the response is then completed with an empty output.
RespondToTool(r) ==
    /\ Continuation(r)
    /\ pc[r] = "woken" /\ hand[r] = "tool"
    /\ ListForTurn(turnOf[r]) \cap Undeclared = {}
    /\ listed' = [listed EXCEPT ![r] = ListForTurn(turnOf[r])]
    /\ Return(r, IF ListForTurn(turnOf[r]) = {} THEN "empty" ELSE "tool")
    /\ Identify(r)
    /\ UNCHANGED <<up, hand, clientVars, mapped, session, orphan, callVars, turnVars>>

RejectUndeclared(r) ==
    /\ Continuation(r)
    /\ pc[r] = "woken" /\ hand[r] = "tool"
    /\ ListForTurn(turnOf[r]) \cap Undeclared # {}
    /\ LET t == turnOf[r]
           others == {q \in Req : q = session[t].waiter} \cup {q \in {t} : session[t].reading}
       IN  /\ pc' = [q \in Req |-> IF q = r THEN "rejecting"
                                   ELSE IF q \in others THEN "aborting" ELSE pc[q]]
           /\ session' = [session EXCEPT ![t].waiter = None, ![t].reading = FALSE]
    /\ Identify(r)
    /\ UNCHANGED <<up, hand, result, listed, clientVars, mapped, orphan, callVars, turnVars>>

\* The turn has ended: the session ends with it.
RespondToEnd(r) ==
    /\ Continuation(r)
    /\ pc[r] = "woken" /\ hand[r] \in {"completed", "failed"}
    /\ Return(r, IF hand[r] = "completed" THEN "message" ELSE "failed")
    /\ RemoveSession(turnOf[r])
    /\ UNCHANGED <<up, hand, listed, clientVars, callVars, turnVars>>

\* turn/interrupt was answered, failed or timed out: the failed response of a security signal.
Interrupted(r) ==
    /\ Event
    /\ pc[r] = "interrupting"
    /\ Return(r, "failed")
    /\ RemoveSession(turnOf[r])
    /\ UNCHANGED <<up, hand, listed, clientVars, callVars, turnVars>>

\* Seeded fault: calls answered before are failed too.
CleanUpEveryCall(t) ==
    Resolve({c \in Call : callTurn[c] = t}, "failed", None) /\ RemoveSession(t)

\* The second half of abortSession: the turn's calls are failed and the session removed.
CleanUp(t) == Resolve(ListForTurn(t), "failed", None) /\ RemoveSession(t)

\* Seeded fault: a continuation that fails keeps the session.
AbortedOfStarter(r) ==
    /\ Event
    /\ pc[r] = "aborting"
    /\ IF r \in Starter THEN CleanUp(turnOf[r]) ELSE UNCHANGED <<sessionVars, callVars>>
    /\ result' = [result EXCEPT ![r] = "error"]
    /\ pc' = [pc EXCEPT ![r] = AfterError(r)]
    /\ UNCHANGED <<up, hand, listed, clientVars, turnVars>>

\* The session is gone and the error is rethrown.
Aborted(r) ==
    /\ Event
    /\ pc[r] = "aborting"
    /\ CleanUp(turnOf[r])
    /\ result' = [result EXCEPT ![r] = "error"]
    /\ pc' = [pc EXCEPT ![r] = AfterError(r)]
    /\ UNCHANGED <<up, hand, listed, clientVars, turnVars>>

Rejected(r) ==
    /\ Event
    /\ pc[r] = "rejecting"
    /\ CleanUp(turnOf[r])
    /\ Return(r, "failed")
    /\ UNCHANGED <<up, hand, listed, clientVars, turnVars>>

\* A response whose request was rejected meanwhile ends unseen.
DetachedEnds(r) ==
    /\ Event
    /\ detached[r] # "none"
    /\ detached' = [detached EXCEPT ![r] = "none"]
    /\ IF detached[r] = "undeclared"
       THEN CleanUp(turnOf[r])
       ELSE RemoveSession(turnOf[r]) /\ UNCHANGED callVars
    /\ UNCHANGED <<up, requestVars, key, streams, turnOf, gone, turnVars>>

-----------------------------------------------------------------------------
(* The reader of a stream *)

\* The socket drains. nextStreamSignal takes what is queued or waits; a stream that ended
\* with tool calls leaves its session to continuations, without the signals it has kept.
Drained(r) ==
    /\ Event
    /\ \/ /\ pc[r] \in {"created", "relaying"}
          /\ session[r].queue # <<>>
          /\ session' = [session EXCEPT ![r].queue = Tail(@)]
          /\ hand' = [hand EXCEPT ![r] = Head(session[r].queue)]
          /\ pc' = [pc EXCEPT ![r] = "woken"]
       \/ /\ pc[r] \in {"created", "relaying"}
          /\ session[r].queue = <<>>
          /\ session' = [session EXCEPT ![r].reading = TRUE]
          /\ pc' = [pc EXCEPT ![r] = "reading"]
          /\ UNCHANGED hand
       \/ /\ pc[r] = "emitting"
          /\ session' = IF r \in Relayed /\ result[r] = "tool"
                        THEN [session EXCEPT ![r].streaming = FALSE, ![r].queue = <<>>,
                                             ![r].signals = <<>>]
                        ELSE session
          /\ pc' = [pc EXCEPT ![r] = "done"]
          /\ UNCHANGED hand
    /\ UNCHANGED <<up, result, listed, clientVars, known, mapped, orphan, callVars, turnVars>>

-----------------------------------------------------------------------------
(* Disconnections and timers *)

\* What becomes of a response that its client does not get: a session that it left stays.
Undelivered(r) == IF result[r] \in {"tool", "empty", "lost"} THEN "lost" ELSE "error"

\* The client goes away. A plain request or a continuation is rejected by the race of
\* waitSafely, a relayed stream where it waits or writes; response.created and the response
\* of a continuation are written outside the try.
Disconnect(r) ==
    /\ Event
    /\ pc[r] \notin {"idle", "hung", "done"} /\ r \notin gone
    /\ gone' = gone \cup {r}
    /\ \/ /\ \/ pc[r] = "waiting" \/ pc[r] = "reading" \/ pc[r] = "relaying"
             \/ (pc[r] = "emitting" /\ result[r] # "error" /\ r \in Relayed)
             \/ (pc[r] \in {"interrupting", "rejecting"} /\ r \notin Relayed)
          /\ Abort(r, turnOf[r], session)
          /\ UNCHANGED result
       \/ /\ \/ pc[r] = "created"
             \/ (pc[r] = "emitting" /\ (result[r] = "error" \/ r \notin Relayed))
          /\ pc' = [pc EXCEPT ![r] = "done"]
          /\ result' = [result EXCEPT ![r] = Undelivered(r)]
          /\ UNCHANGED <<session, hand>>
       \/ /\ \/ pc[r] \in {"starting", "aborting"}
             \/ (pc[r] \in {"interrupting", "rejecting"} /\ r \in Relayed)
          /\ UNCHANGED <<pc, session, hand, result>>
    /\ detached' = [detached EXCEPT ![r] =
                      IF r \in Relayed THEN @
                      ELSE IF pc[r] = "interrupting" THEN "security"
                      ELSE IF pc[r] = "rejecting" THEN "undeclared" ELSE @]
    /\ UNCHANGED <<up, listed, key, streams, turnOf, known, mapped, orphan, callVars, turnVars>>

\* The event is longer than maxLineBytes of the route.
EmitTooLarge(r) ==
    /\ Event
    /\ r \in Relayed
    /\ pc[r] = "relaying" \/ (pc[r] = "emitting" /\ result[r] # "error")
    /\ Abort(r, turnOf[r], session)
    /\ UNCHANGED <<up, result, listed, clientVars, known, mapped, orphan, callVars, turnVars>>

\* So is the response of a continuation: nothing is aborted, the session and its calls stay,
\* and the client is told of the error instead of the calls.
ContinuationTooLarge(r) ==
    /\ Event
    /\ r \notin Relayed
    /\ pc[r] = "emitting" /\ result[r] \in {"message", "tool"}
    /\ result' = [result EXCEPT ![r] = Undelivered(r)]
    /\ listed' = [listed EXCEPT ![r] = {}]
    /\ UNCHANGED <<up, pc, hand, clientVars, sessionVars, callVars, turnVars>>

\* Seeded fault: only streams have the timer.
ResponseTimeoutOfStream(r) ==
    /\ Event
    /\ pc[r] = "reading"
    /\ Abort(r, turnOf[r], session)
    /\ UNCHANGED <<up, result, listed, clientVars, known, mapped, orphan, callVars, turnVars>>

\* No signal within responseTimeoutMs.
ResponseTimeout(r) ==
    /\ Event
    /\ pc[r] \in {"waiting", "reading"}
    /\ Abort(r, turnOf[r], session)
    /\ UNCHANGED <<up, result, listed, clientVars, known, mapped, orphan, callVars, turnVars>>

\* Seeded fault: only the calls of a session that is left expire.
CallExpiresInSession(c) ==
    /\ Event
    /\ c \in pending /\ callTurn[c] \in mapped
    /\ Resolve({c}, "expired", None)
    /\ UNCHANGED <<up, requestVars, clientVars, sessionVars, turnVars>>

\* No result within resultTimeoutMs.
CallExpires(c) ==
    /\ Event
    /\ c \in pending
    /\ Resolve({c}, "expired", None)
    /\ UNCHANGED <<up, requestVars, clientVars, sessionVars, turnVars>>

-----------------------------------------------------------------------------
(* app-server: lines of a running turn, and its death *)

\* item/tool/call: broker.handle, then the coordinator's "toolCall" listener.
ToolCalled(t, c) ==
    /\ turn[t] = "running"
    /\ callTurn[c] = None
    /\ callTurn' = [callTurn EXCEPT ![c] = t]
    /\ UNCHANGED giver
    /\ \/ /\ BrokerFull
          /\ answer' = [answer EXCEPT ![c] = "rejected"]
          /\ UNCHANGED <<pending, pc, hand, session, orphan>>
       \/ /\ ~BrokerFull
          /\ t \in mapped /\ c \in Undeclared
          /\ answer' = [answer EXCEPT ![c] = "failed"]
          /\ SignalTurn(t, "security")
          /\ UNCHANGED pending
       \/ /\ ~BrokerFull
          /\ t \notin mapped \/ c \notin Undeclared
          /\ pending' = pending \cup {c}
          /\ SignalTurn(t, "tool")
          /\ UNCHANGED answer
    /\ UNCHANGED <<up, result, listed, clientVars, known, mapped, turnVars>>
    /\ Line

Delta(t) ==
    /\ turn[t] = "running" /\ said[t] < MaxDeltas
    /\ said' = [said EXCEPT ![t] = @ + 1]
    /\ unread' = IF t \in mapped /\ session[t].streaming THEN [unread EXCEPT ![t] = @ + 1] ELSE unread
    /\ SignalTurn(t, "delta")
    /\ UNCHANGED <<up, result, listed, clientVars, known, mapped, callVars, turn, dangerous>>
    /\ Line

\* item/started of an item that Codex would run itself.
DangerousItem(t) ==
    /\ turn[t] = "running" /\ t \notin dangerous
    /\ dangerous' = dangerous \cup {t}
    /\ SignalTurn(t, "security")
    /\ UNCHANGED <<up, result, listed, clientVars, known, mapped, callVars, turn, said, unread>>
    /\ Line

\* turn/completed: a turn completes when every call it made is answered; it fails, or is
\* interrupted, at any time.
TurnCompleted(t, status) ==
    /\ turn[t] = "running"
    /\ status = "completed" => ListForTurn(t) = {}
    /\ turn' = [turn EXCEPT ![t] = "ended"]
    /\ SignalTurn(t, status)
    /\ UNCHANGED <<up, result, listed, clientVars, known, mapped, callVars, said, dangerous, unread>>
    /\ Line

\* app-server dies and the worker stops listening. The answers to calls that were pending
\* can no longer be written: those rejections are unhandled and end the worker.
ChildFailure ==
    /\ Event /\ up
    /\ up' = FALSE
    /\ turn' = [t \in Starter |-> IF turn[t] = "running" THEN "ended" ELSE turn[t]]
    /\ Resolve(pending, "failed", None)
    /\ LET ends == {r \in Req : pc[r] # "idle" /\ (pc[r] = "starting" \/ pending # {})}
       IN  /\ pc' = [r \in Req |-> IF r \notin ends THEN pc[r]
                                   ELSE IF pending # {} THEN "done" ELSE AfterError(r)]
           /\ result' = [r \in Req |-> IF r \in ends /\ pc[r] # "done" THEN "error" ELSE result[r]]
    /\ IF pending # {}
       THEN /\ mapped' = {} /\ known' = {}
            /\ session' = [t \in Starter |-> NewSession]
            /\ orphan' = [t \in Starter |-> <<>>]
            /\ detached' = [r \in Req |-> "none"]
       ELSE UNCHANGED <<sessionVars, detached>>
    /\ UNCHANGED <<hand, listed, key, streams, turnOf, gone, said, dangerous, unread>>

-----------------------------------------------------------------------------
Respond(r) ==
    \/ RelayDelta(r) \/ RespondToSecurity(r) \/ RespondToTool(r)
    \/ RejectUndeclared(r) \/ RespondToEnd(r)

Next ==
    \/ \E r \in Starter : Start(r)
    \/ \E r \in Starter : TurnStarts(r)
    \/ \E r \in Starter : TurnStartAnswered(r)
    \/ \E r \in Starter : StartFails(r)
    \/ \E r \in Starter : BeginSession(r)
    \/ \E r \in Continuer, p \in Req : \E outputs \in SUBSET Shown : Continue(r, p, outputs)
    \/ \E r \in Continuer, p \in Req : \E outputs \in SUBSET Shown :
          \E answered \in SUBSET outputs : ContinueTooLarge(r, p, outputs, answered)
    \/ \E r \in Continuer : ContinueRefused(r)
    \/ \E r \in Req : RelayDelta(r)
    \/ \E r \in Req : RespondToSecurity(r)
    \/ \E r \in Req : RespondToTool(r)
    \/ \E r \in Req : RejectUndeclared(r)
    \/ \E r \in Req : RespondToEnd(r)
    \/ \E r \in Req : Interrupted(r)
    \/ \E r \in Req : Aborted(r)
    \/ \E r \in Req : Rejected(r)
    \/ \E r \in Req : DetachedEnds(r)
    \/ \E r \in Req : Drained(r)
    \/ \E r \in Req : Disconnect(r)
    \/ \E r \in Starter : EmitTooLarge(r)
    \/ \E r \in Continuer : ContinuationTooLarge(r)
    \/ \E r \in Req : ResponseTimeout(r)
    \/ \E c \in Call : CallExpires(c)
    \/ \E t \in Starter, c \in Call : ToolCalled(t, c)
    \/ \E t \in Starter : Delta(t)
    \/ \E t \in Starter : DangerousItem(t)
    \/ \E t \in Starter, status \in {"completed", "failed"} : TurnCompleted(t, status)
    \/ ChildFailure

Spec == Init /\ [][Next]_vars

\* What a request does at an await that settles: at most one of these is possible at a time.
Proceed(r) ==
    Respond(r) \/ Interrupted(r) \/ Aborted(r) \/ Rejected(r) \/ ResponseTimeout(r)

\* A client whose stream is being written reads it or closes; no client has to leave a wait.
ReadsOrCloses(r) ==
    Drained(r) \/ (pc[r] \in {"created", "relaying", "emitting"} /\ Disconnect(r))

\* What the event loop, the timers of the code and such clients ensure.
Fairness ==
    /\ \A r \in Req : WF_vars(Proceed(r)) /\ WF_vars(ReadsOrCloses(r))
    /\ \A r \in Starter : WF_vars(TurnStartAnswered(r) \/ StartFails(r) \/ BeginSession(r))
    /\ \A c \in Call : WF_vars(CallExpires(c))

FairSpec == Spec /\ Fairness

-----------------------------------------------------------------------------
(* Properties *)

\* A request has ended turn t, or aborts it: it removes the session.
Ended(t) ==
    \E q \in Req : /\ turnOf[q] = t
                   /\ result[q] \in {"error", "failed", "message"} \/ pc[q] = "aborting"

\* No request waits beside the signal it waits for: a waiting request is the one its session
\* will wake and nothing is queued for it, and so with the reader of a stream. While app-server
\* runs it waits for a turn that still runs, but in two cases. Another request of the turn has
\* removed its session: nothing wakes it then but its timer. Or the turn is a stream's, which
\* forgets the signals that came while it wrote its calls.
NoSignalMissed ==
    \A r \in Req :
       /\ pc[r] = "waiting" =>
             /\ session[turnOf[r]].waiter = r /\ session[turnOf[r]].signals = <<>>
             /\ turnOf[r] \in mapped \/ Ended(turnOf[r])
             /\ up /\ turnOf[r] \in mapped \ Relayed => turn[turnOf[r]] = "running"
       /\ pc[r] = "reading" => session[r].reading /\ session[r].queue = <<>>

\* What a client answers is a declared tool of a turn that its own key started.
AnswersAreOwn ==
    \A c \in Call : answer[c] = "client" =>
       /\ c \notin Undeclared
       /\ key[giver[c]] = key[callTurn[c]]

\* A call is answered to app-server once, though results, aborts, expiry and the death of
\* app-server race for it.
AnsweredOnce == [][\A c \in Call : answer[c] # "none" => answer'[c] = answer[c]]_vars

\* The session of a turn whose deltas nobody streams stays only while a request works on it or
\* its client has a response to continue, and no longer than until one of its requests, the
\* first or any continuation, has ended in an error, a failure or the answer of the turn. A
\* continuation that was refused is none of them, and calls that were lost on their way to
\* the client ("lost") are still to be answered.
Live(r) == pc[r] \notin {"idle", "done", "hung"} \/ detached[r] # "none"
SessionsHaveOwners ==
    \A t \in mapped \ Relayed :
       /\ \E r \in Req : turnOf[r] = t /\ (Live(r) \/ result[r] \in {"tool", "empty"})
       /\ \A r \in Req : turnOf[r] = t => result[r] \notin {"error", "failed", "message"}

\* A response is completed only if its turn ran no dangerous item (ARCHITECTURE.md:57).
DangerousTurnsFail ==
    \A r \in Req : result[r] \in {"message", "empty"} => turnOf[r] \notin dangerous

\* Where nobody streams the deltas of the turn, its answer is not given to a client after a
\* dangerous item, though a continuation may take a later signal while the interrupt is under
\* way, and lines may precede the session. A response without output may be: a stale tool
\* signal that comes before the security signal gives one.
PlainTurnsFail ==
    \A r \in Req : result[r] = "message" /\ turnOf[r] \notin Relayed => turnOf[r] \notin dangerous

\* Every response to a tool signal names calls, unless one was lost to its timer or to an
\* abort: the calls of a turn may come in parallel (API_COMPATIBILITY.md:14).
ToolResponsesNameCalls ==
    \A r \in Req : result[r] = "empty" =>
        \E c \in Call : callTurn[c] = turnOf[r] /\ answer[c] \in {"expired", "failed"}

\* A stream that completes has relayed every delta that was signalled to it, in spite of a
\* queue that is bounded: what does not fit ends it as failed.
StreamsWhole == \A r \in Relayed : result[r] = "message" => unread[r] = 0

\* Every request ends that relays no deltas, plain ones and the streams of continuations:
\* again and again none of them is under way.
UnrelayedRequestsEnd == []<>(\A r \in Req \ Relayed : pc[r] \in {"idle", "done"})

\* Every request ends: no wait, interrupt or write lasts for ever (THREAT_MODEL.md:41).
EveryRequestEnds == \A r \in Req : pc[r] # "idle" ~> pc[r] = "done"

\* Every call that app-server makes is answered: again and again none is left unanswered
\* (as there are finitely many, and an answered one stays so).
EveryCallAnswered == []<>(\A c \in Call : callTurn[c] # None => answer[c] # "none")

=============================================================================
