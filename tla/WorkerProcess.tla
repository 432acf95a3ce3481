---------------------------- MODULE WorkerProcess ----------------------------
(***************************************************************************)
(* The life of a worker process: its main program, the JSON-RPC client of  *)
(* the codex app-server that it starts as a child, and the handlers of the *)
(* tool calls that the child asks for.                                     *)
(*                                                                         *)
(* The client is started once in a process, so there is one generation: a  *)
(* failed child ends the worker and systemd starts another. Standard       *)
(* output is a sequence of lines. Chunks need no state: a chunk of several *)
(* lines is read as several chunks with nothing in between, and a failure  *)
(* stops neither. What a call answers, and how many may be open, is in     *)
(* ResponseCoordinator.                                                    *)
(***************************************************************************)
EXTENDS Sequences, Naturals

CONSTANTS
    Req,     \* requests of the internal HTTP application to app-server
    Exchange, \* HTTP exchanges: requests of the API, open until answered or disconnected
    Call,    \* tool calls, the requests of app-server to the worker
    MaxJunk  \* bound: lines that are too long, no JSON or no message

ASSUME WorkerAssumption ==
    /\ MaxJunk \in Nat
    /\ {"initialize", "junk"} \cap (Req \cup Call) = {} /\ Req \cap Call = {}

VARIABLES
    phase,    \* of main.ts
    state,    \* #state, what /internal/health reports
    child,    \* #child is set
    stopping, \* #stopping
    os,       \* the process of app-server; "reaped" once its exit event was handled
    asked,    \* requests it has received and not answered
    called,   \* calls it has made
    pipe,     \* lines of its standard output that the client has not read
    junk,     \* how many of them were no messages
    pending,  \* #pending: the requests that wait for an answer
    outcome,  \* how each request has ended
    open,     \* the calls whose handler waits for the broker
    missed,   \* history: childFailure was emitted when nobody listened
    exchanges \* the HTTP exchanges that are open

osVars == <<os, asked, called, pipe, junk>>
vars == <<phase, state, child, stopping, osVars, pending, outcome, open, missed, exchanges>>

Id == Req \cup {"initialize"}
Junk == "junk"

Up == phase # "exited"
Listening == phase \in {"serving", "closing", "stopped"}

TypeOK ==
    /\ phase \in {"starting", "started", "opening", "serving", "closing", "stopped", "exited"}
    /\ state \in {"starting", "ready", "degraded", "stopped"}
    /\ child \in BOOLEAN /\ stopping \in BOOLEAN /\ missed \in BOOLEAN
    /\ os \in {"running", "terminating", "exited", "reaped"}
    /\ asked \subseteq Id /\ pending \subseteq Id
    /\ called \subseteq Call /\ open \subseteq called
    /\ exchanges \subseteq Exchange
    /\ pipe \in Seq(Id \cup called \cup {Junk}) /\ junk \in 0..MaxJunk
    /\ outcome \in [Id -> {"none", "waits", "answered", "failed", "timeout"}]

\* start() up to its await: the child is spawned and initialize is on its way.
Init ==
    /\ phase = "starting" /\ state = "starting"
    /\ child = TRUE /\ stopping = FALSE
    /\ os = "running" /\ asked = {"initialize"} /\ called = {} /\ pipe = <<>> /\ junk = 0
    /\ pending = {"initialize"}
    /\ outcome = [r \in Id |-> IF r = "initialize" THEN "waits" ELSE "none"]
    /\ open = {} /\ missed = FALSE /\ exchanges = {}

(***************************************************************************)
(* app-server.                                                             *)
(***************************************************************************)

ClientOnly == UNCHANGED <<phase, state, child, stopping, pending, outcome, open, missed, exchanges>>
Alive == os \in {"running", "terminating"}

ServerAnswers(r) ==
    /\ Alive /\ r \in asked
    /\ asked' = asked \ {r} /\ pipe' = Append(pipe, r)
    /\ ClientOnly /\ UNCHANGED <<os, called, junk>>

ServerCalls(c) ==
    /\ Alive /\ "initialize" \notin asked /\ c \notin called
    /\ called' = called \cup {c} /\ pipe' = Append(pipe, c)
    /\ ClientOnly /\ UNCHANGED <<os, asked, junk>>

ServerWritesJunk ==
    /\ Alive /\ junk < MaxJunk
    /\ junk' = junk + 1 /\ pipe' = Append(pipe, Junk)
    /\ ClientOnly /\ UNCHANGED <<os, asked, called>>

ServerExits ==
    /\ Alive
    /\ os' = "exited"
    /\ ClientOnly /\ UNCHANGED <<asked, called, pipe, junk>>

Terminated == IF os = "running" THEN "terminating" ELSE os

(***************************************************************************)
(* The client.                                                             *)
(***************************************************************************)

Rejected(how) == [r \in Id |-> IF r \in pending THEN how ELSE outcome[r]]

\* Seeded fault: the map is cleared and the promises are left.
ForgetAllPending ==
    /\ pending' = {}
    /\ UNCHANGED outcome

RejectAllPending ==
    /\ pending' = {}
    /\ outcome' = Rejected("failed")

\* An unhandled rejection or error event ends the process: nothing else runs.
Crash ==
    /\ phase' = "exited" /\ os' = Terminated
    /\ UNCHANGED <<state, child, stopping, asked, called, junk, pending, outcome, missed, exchanges>>

\* Seeded fault: any client that was started writes, with or without a child.
SendAnyway(r) ==
    /\ outcome[r] = "none"
    /\ phase \in {"opening", "serving", "closing"}
    /\ pending' = pending \cup {r} /\ outcome' = [outcome EXCEPT ![r] = "waits"]
    /\ asked' = IF Alive THEN asked \cup {r} ELSE asked
    /\ UNCHANGED <<phase, state, child, stopping, os, called, pipe, junk, open, missed, exchanges>>

\* request(): a child that has just exited takes the message without reading it.
Send(r) ==
    /\ outcome[r] = "none"
    /\ phase \in {"opening", "serving", "closing"} /\ child
    /\ pending' = pending \cup {r} /\ outcome' = [outcome EXCEPT ![r] = "waits"]
    /\ asked' = IF Alive THEN asked \cup {r} ELSE asked
    /\ UNCHANGED <<phase, state, child, stopping, os, called, pipe, junk, open, missed, exchanges>>

\* There is no child, or its standard input is no longer writable. The handler of an exchange
\* whose client has gone may run on when the application is closed.
SendRefused(r) ==
    /\ outcome[r] = "none"
    /\ phase \in {"opening", "serving", "closing", "stopped"} /\ ~(child /\ Alive)
    /\ outcome' = [outcome EXCEPT ![r] = "failed"]
    /\ UNCHANGED <<phase, state, child, stopping, osVars, pending, open, missed, exchanges>>

\* The child has just gone: the broken pipe is an error event that nobody listens to.
SendBreaks(r) ==
    /\ outcome[r] = "none"
    /\ phase \in {"opening", "serving", "closing"} /\ child /\ ~Alive
    /\ Crash
    /\ UNCHANGED <<pipe, open>>

RequestTimeout(r) ==
    /\ Up /\ r \in pending
    /\ pending' = pending \ {r} /\ outcome' = [outcome EXCEPT ![r] = "timeout"]
    /\ UNCHANGED <<phase, state, child, stopping, osVars, open, missed, exchanges>>

\* A late answer is an orphan.
HandleResponse ==
    /\ Up /\ pipe # <<>> /\ Head(pipe) \in Id
    /\ pipe' = Tail(pipe)
    /\ pending' = pending \ {Head(pipe)}
    /\ outcome' = IF Head(pipe) \in pending
                  THEN [outcome EXCEPT ![Head(pipe)] = "answered"] ELSE outcome
    /\ UNCHANGED <<phase, state, child, stopping, os, asked, called, junk, open, missed, exchanges>>

\* #failProtocol. The lines that follow are read all the same.
FailProtocol ==
    /\ Up /\ pipe # <<>> /\ Head(pipe) = Junk
    /\ pipe' = Tail(pipe)
    /\ state' = "degraded" /\ child' = FALSE
    /\ RejectAllPending
    /\ os' = IF child THEN Terminated ELSE os
    /\ UNCHANGED <<phase, stopping, asked, called, junk, open, missed, exchanges>>

\* The broker keeps the call and its handler waits.
HandleServerRequest ==
    /\ Up /\ pipe # <<>> /\ Head(pipe) \in Call
    /\ pipe' = Tail(pipe)
    /\ open' = open \cup {Head(pipe)}
    /\ UNCHANGED <<phase, state, child, stopping, os, asked, called, junk, pending, outcome, missed, exchanges>>

\* The broker refuses it, or the method is not supported: an error is written at once.
RefuseServerRequest ==
    /\ Up /\ pipe # <<>> /\ Head(pipe) \in Call
    /\ pipe' = Tail(pipe)
    /\ \/ child /\ UNCHANGED <<phase, state, child, stopping, os, asked, called, junk, pending,
                               outcome, missed, exchanges>>
       \/ ~(child /\ Alive) /\ Crash
    /\ UNCHANGED open

\* A result, the expiry of the call or an abort. The result cannot be written without a
\* child, the error that reports this cannot either, and nobody handles the rejection.
CallSettles(c) ==
    /\ Up /\ c \in open
    /\ open' = open \ {c}
    /\ \/ child /\ UNCHANGED <<phase, state, child, stopping, os, asked, called, junk, pending,
                               outcome, missed, exchanges>>
       \/ ~(child /\ Alive) /\ Crash
    /\ UNCHANGED pipe

\* #onChildFailure, and what is left of a line in the buffer: the rest of it, when it comes,
\* is no message.
Torn(lines) == {lines} \cup (IF lines = <<>> THEN {} ELSE {<<Junk>> \o Tail(lines)})

\* main.ts listens for the failure only once the application listens: the calls are
\* invalidated, which ends as in CallSettles, and the application closes.
ChildFailure ==
    /\ Up /\ os = "exited"
    /\ pipe' \in Torn(pipe)
    /\ child' = FALSE
    /\ RejectAllPending
    /\ state' = IF stopping THEN "stopped" ELSE "degraded"
    /\ IF Listening /\ ~stopping /\ open # {}
       THEN phase' = "exited" /\ open' = {}
       ELSE /\ phase' = IF Listening /\ ~stopping /\ phase = "serving" THEN "closing" ELSE phase
            /\ UNCHANGED open
    /\ missed' = (missed \/ (~stopping /\ phase = "opening"))
    /\ os' = "reaped"
    /\ UNCHANGED <<stopping, asked, called, junk, exchanges>>

Client ==
    \/ \E r \in Req : Send(r) \/ SendRefused(r) \/ SendBreaks(r)
    \/ \E r \in Id : RequestTimeout(r)
    \/ HandleResponse \/ FailProtocol \/ HandleServerRequest \/ RefuseServerRequest
    \/ \E c \in Call : CallSettles(c)
    \/ ChildFailure

(***************************************************************************)
(* main.ts.                                                                *)
(***************************************************************************)

\* stop()
Stop ==
    /\ child' = FALSE /\ stopping' = (stopping \/ child)
    /\ os' = IF child THEN Terminated ELSE os
    /\ RejectAllPending
    /\ state' = "stopped"

\* The answer to initialize is taken up: initialized is written, the state is ready.
StartReturns ==
    /\ phase = "starting" /\ outcome["initialize"] = "answered" /\ child
    /\ state' = "ready" /\ phase' = "opening"
    /\ UNCHANGED <<child, stopping, osVars, pending, outcome, open, missed, exchanges>>

\* initialize failed, or initialized cannot be written: the module's await throws.
StartFails ==
    /\ phase = "starting"
    /\ \/ outcome["initialize"] \in {"failed", "timeout"}
       \/ outcome["initialize"] = "answered" /\ ~(child /\ Alive)
    /\ Stop
    /\ phase' = "exited"
    /\ UNCHANGED <<asked, called, pipe, junk, open, missed, exchanges>>

\* listen and chmod are done; the handlers of the signals and of childFailure are set.
Serve ==
    /\ phase = "opening"
    /\ phase' = "serving"
    /\ UNCHANGED <<state, child, stopping, osVars, pending, outcome, open, missed, exchanges>>

\* SIGTERM: shutdown(), or the end of a process without a handler.
Terminate ==
    /\ phase \in {"starting", "opening", "serving"}
    /\ phase' = IF phase = "serving" THEN "closing" ELSE "exited"
    /\ os' = IF phase = "serving" THEN os ELSE Terminated
    /\ UNCHANGED <<state, child, stopping, asked, called, pipe, junk, pending, outcome, open, missed, exchanges>>

\* Seeded fault: the application is closed and the client is not stopped.
CloseOnly ==
    /\ phase = "closing" /\ exchanges = {}
    /\ phase' = "stopped"
    /\ UNCHANGED <<state, child, stopping, osVars, pending, outcome, open, missed, exchanges>>

\* app.close() waits for every exchange, those of streams and continuations that ask nothing
\* of app-server too, and not for a handler whose client has gone; then the client stops.
Close ==
    /\ phase = "closing" /\ exchanges = {}
    /\ Stop
    /\ phase' = "stopped"
    /\ UNCHANGED <<asked, called, pipe, junk, open, missed, exchanges>>

\* Nothing keeps the event loop: no child, no output to read and no timer of a call.
ProcessEnds ==
    /\ phase = "stopped" /\ os = "reaped" /\ pipe = <<>> /\ open = {}
    /\ phase' = "exited"
    /\ UNCHANGED <<state, child, stopping, osVars, pending, outcome, open, missed, exchanges>>

\* The application listens: the API opens a stream, a response or a continuation.
Accept(e) ==
    /\ phase \in {"opening", "serving"} /\ e \notin exchanges
    /\ exchanges' = exchanges \cup {e}
    /\ UNCHANGED <<phase, state, child, stopping, osVars, pending, outcome, open, missed>>

\* It is answered, or the API closes its connection.
Answer(e) ==
    /\ Up /\ e \in exchanges
    /\ exchanges' = exchanges \ {e}
    /\ UNCHANGED <<phase, state, child, stopping, osVars, pending, outcome, open, missed>>

Http == \E e \in Exchange : Accept(e) \/ Answer(e)

Main == StartReturns \/ StartFails \/ Serve \/ Terminate \/ Close \/ ProcessEnds

Server ==
    \/ \E r \in Id : ServerAnswers(r)
    \/ \E c \in Call : ServerCalls(c)
    \/ ServerWritesJunk \/ ServerExits

Next == Server \/ Client \/ Http \/ Main

Spec == Init /\ [][Next]_vars

\* Events that have happened are handled, timers elapse, and a process that was sent SIGTERM
\* exits. app-server need not answer, and need not exit by itself. An exchange ends: the
\* coordinator has a timer for every wait of a response, and the API gives up a silent one.
Fairness ==
    /\ WF_vars(HandleResponse) /\ WF_vars(FailProtocol)
    /\ WF_vars(HandleServerRequest \/ RefuseServerRequest)
    /\ \A r \in Id : WF_vars(RequestTimeout(r))
    /\ \A c \in Call : WF_vars(CallSettles(c))
    /\ WF_vars(ChildFailure)
    /\ \A e \in Exchange : WF_vars(Answer(e))
    /\ WF_vars(StartReturns) /\ WF_vars(StartFails) /\ WF_vars(Serve)
    /\ WF_vars(Close) /\ WF_vars(ProcessEnds)
    /\ WF_vars(os = "terminating" /\ ServerExits)

FairSpec == Spec /\ Fairness

(***************************************************************************)
(* Properties.                                                             *)
(***************************************************************************)

\* A request waits only while there is a child to answer it, and the health that the API
\* asks for is ready only then, whatever the order of exit, junk, stop and timeouts
\* (client.ts 191-194, 242-245, 391-393, 399-404).
NothingWithoutChild ==
    /\ pending # {} => child
    /\ state = "ready" => child

\* Every request of the worker to app-server ends while the process lives, though
\* app-server may stay silent, die or write junk (client.ts 199-208, 407-413).
EveryRequestSettles ==
    \A r \in Req : outcome[r] = "waits" ~> outcome[r] # "waits" \/ phase = "exited"

\* A worker without its app-server ends, so that systemd starts another, and so does one
\* that was told to, when the exchanges under way have ended. Not so when app-server fails after start() returned and before main.ts
\* has set its listener: that worker serves errors for ever
\* (main.ts 49-72; client.ts 389-396).
WorkerEnds ==
    /\ ~child /\ ~missed ~> phase = "exited" \/ missed
    /\ phase = "closing" ~> phase = "exited"
=============================================================================
