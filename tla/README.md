# A formal model of MyToken Gateway

MyToken Gateway puts an OpenAI-compatible API in front of a Codex `app-server`
process and of configured external providers. This directory holds TLA+ modules for
its core, the TLC configurations that check them on small instances, and theorems
about them that TLAPS checks for every value of the constants. `PROJECT.json` lists
components, runs, mutants, the map from definitions to source lines, findings,
hazards and theorems.

    tlc -config MCAdmission.cfg MCAdmission
    tlapm AdmissionProofs.tla

Each run of section 3 is a module and a configuration for the first command, each proof
module of section 4 an argument of the second.

## 1. The system

| part | state | operations | talks to |
|---|---|---|---|
| API: admission (`request-policy.ts`, `app.ts`, repositories) | RPM windows, active counts, SQLite rows of keys and requests | authenticate, acquire, begin, complete, release, recoverInterrupted | backend (await), SQLite (synchronous) |
| API: routing (`multi-provider-backend.ts`, `provider-config.ts`) | provider set, probe cache | probe, replaceExternal, resolve a model | external backends, worker socket |
| API: provider management (`provider-management-service.ts`) | configuration and secret files, a queue of updates | upsert with rollback | routing |
| API: worker socket (`worker-socket-backend.ts`) | one promise per stream | relay of NDJSON to SSE | worker |
| API: administrators (`admin-auth`, `admin-routes.ts`) | bootstrap token, users, sessions | bootstrap, login, logout, key changes | SQLite |
| API and host: update (`system-update-service.ts`, `mytoken-update-runner`, `install.sh`) | request and status files, releases, backups | request, run, roll back | systemd path units |
| API and host: credential import (`codex-import-service.ts`, `mytoken-codex-import-runner`) | request and status files, `auth.json` and its backup | request, copy, restore | systemd path units |
| Worker: coordinator (`codex-response-coordinator.ts`) | sessions by response and by turn, signals, waiters, stream queues, orphan signals | create, stream, continue, abort | client, broker |
| Worker: tool broker (`openclaw-tool-broker.ts`) | pending calls with timers | handle, list, resolve, fail, expire, invalidate | client (answers), coordinator (event `toolCall`) |
| Worker: JSON-RPC client (`client.ts`) | child, generation, pending requests, stdout buffer | request, server request, notification, stop | `codex app-server` over pipes |
| Worker: internal HTTP (`internal-app.ts`) | one AbortController per request | plain and streamed responses | coordinator |
| Libraries, CLI, web console, generated schemas | none the server relies on | conversions, scripts, UI | |

Every process is a Node event loop: a stretch of code between two awaits runs
without interruption. What is hard is what happens *at* the awaits: key records read
before one and used after it, signals that come before the session they are for,
several awaiting handlers of one turn, timers racing answers, sockets that close
while something waits for them, a process that dies between two database writes.
`hazards` in `PROJECT.json` lists these, each at its line.

What makes each part correct, in one line: *admission* never lets more run, or more
be charged, than a limit allows, and never loses a lease or a row; *coordinator and
broker* give every call one answer, from its owner, let no request wait beside its
signal, and leave nothing behind; *client* lets no answer cross generations; *routing*
serves the provider set that was saved last; *provider management*, *update* and
*import* leave files of one version whichever step fails; *administrators* are
bootstrapped once and a dead session stays dead; the *relay* settles exactly once.

## 2. Modules

| module | what it is |
|---|---|
| `Admission` | admission of `/v1` requests, with crash and restart |
| `LeasePool` | abstract specification: a pool of leases, each taken once and returned once |
| `AdmissionProofs` | theorems about `Admission`: types, leases, rows |
| `BudgetProofs` | theorems about `Admission`: request, token and daily limits |
| `MCAdmission` | its instance for TLC |
| `ResponseCoordinator` | coordinator, broker and internal routes, composed over one event loop |
| `MCCoordinator` | its instances for TLC |
| `WorkerProcess` | the life of a worker: its main program, the JSON-RPC client, its child |
| `StreamRelay` | one streamed response through the API: worker socket, chain of emits, client, row |
| `ProviderConfig` | external providers: queue of updates, two files, rollback, routing with its probe cache, the operator, crash |
| `HostJobs` | update and credential import: the request and status files, both runners, `install.sh`, the services |
| `AdminConsole` | the administrator: setup, sessions, changes of keys |
| `CoordinatorProofs`, `WorkerProofs`, `RelayProofs`, `ProviderProofs`, `HostProofs`, `ConsoleProofs` | theorems about these |
| `MCWorker`, `MCRelay`, `MCProviders`, `MCHost`, `MCConsole` | their instances for TLC |

`Admission` and `StreamRelay` meet at the row of a request: `Admission` has the backend call end
at any time or never, and `StreamRelay` shows event by event when a stream ends. `ResponseCoordinator` and
`WorkerProcess` meet at app-server: the first has the contents of calls and turns in a child
that lives, the second the life of the child with calls that are opaque.

### Admission

A request goes `idle -> authenticated -> running -> done`. `authenticated` is the
await of `backendReady`: the handler holds the key record it has read (`seen`), and
the administrator may change the row meanwhile (`UpdatePolicy`, `Revoke`). `running`
is the backend call. All of `acquire()` and what the handler writes with it happen in
one action, because the code has no await there: `Deny`, `Admit` or, when SQLite
throws, `AdmitWithoutRow`. `Finish` and `FinishUnlogged` are the end of the handler
with its `finally`; `Crash` forgets what was in memory and keeps the rows.

- The RPM window is a set of pairs of request and tick; 60 s is `RpmWindow` ticks.
- A UTC day is `DayLength` ticks; the clock may pass a tick between the handler's
  `Date.now()` and the one of `acquire` (`PolicyClock`).
- A key's token total is the SUM over its rows, kept as a counter: it grows when a
  row is completed.
- The source IP allowlist is one denial that is always possible; expiry of a key acts
  on `authenticate` as revocation does. A request has a single row, as in the code.
- `DbMayFail` lets *writes* of the request log throw, each on its own path; `unlogged`
  remembers the requests whose completion has thrown in this process.
- `Routes` may contain the list of models, which takes no lease for the backend. The proofs
  cover it; the run has the two billable routes.

### ResponseCoordinator

A starter request starts a turn and names it; a continuer names an earlier response
and answers some of its calls. `pc` has one value per await of the code:

| pc | the await |
|---|---|
| `starting` | thread/start, inject_items, turn/start |
| `begun`, `woken` | a settled promise whose continuation is scheduled |
| `waiting`, `reading` | `nextSignal`, `nextStreamSignal` |
| `interrupting` | turn/interrupt after a security signal |
| `aborting`, `rejecting` | turn/interrupt in `abortSession`, from a catch or for an undeclared tool |
| `created`, `relaying`, `emitting` | the drain of the stream's socket |
| `hung` | the drain of a socket that is closed |

`session[t].signals`, `.waiter`, `.queue`, `.reading` and `.streaming` are the fields
of `ActiveSession`; `known` and `mapped` the two maps of sessions; `orphan` the
signals of turns that have no session; `pending`, `answer` and `giver` the broker and
what became of each call. `turn`, `said` and `dangerous` are app-server, which is
external: it may start a turn and report on it before it answers turn/start, call
tools, start an item it runs itself, and end the turn (completed only when its calls
are answered, failed at any time).

The event loop is modelled as it schedules. A continuation that is scheduled runs
before any other event; several lines of one chunk of stdout are handled before the
continuations they wake (`chunk`). This matters: two tool calls in one chunk are both
listed by the response that the first one wakes, and the signal of the second stays.

A response that a tool signal wakes lists the calls that are pending by then; when none is
left the code reports a completed response with an empty output, and so does the model
(`result` `empty`, beside `tool` and `message`). `lost` is a response that its client did not
get. A stream's queue overflows at its number of entries or of bytes: text and errors may be
large (`Large`), and what does not fit replaces the queue.

A request that a race has rejected (`waitSafely`) may leave a response under way
(`detached`), which later removes the session a second time.

A starter that asks for a stream relays deltas (`Relayed`). A continuation that asks for one
takes the path of a plain response and emits it as one event, outside any `try`: when that
event is too large or the client is gone the request ends in an error and the session, with
its pending calls, stays (`ContinuationTooLarge`, `Disconnect`).

Left out: text and usage, duplicate ids in one continuation (refused as other bad input is,
by `ContinueRefused`), duplicate call ids, a second generation of app-server (`main.ts` starts
it once per process; its death ends the worker), and the check that client tools are enabled
(they are, in the model).

### WorkerProcess

`phase` is where `main.ts` stands: `starting` (`start()` awaits initialize), `opening` (the
application begins to listen), `serving`, `closing` (in `app.close()`),
`stopped`, `exited`. `exchanges` are the HTTP exchanges that are open: `app.close()` waits for
them, whether or not they ask anything of app-server, and not for a handler whose client has
gone. `state`, `child`, `stopping` and `pending` are the fields of the client;
`os`, `asked`, `called` and `pipe` are app-server and its standard output, external: it may
answer in any order or never, call tools, write a line that is no message, and exit at any
point. `outcome` is how each promise of `request()` ended, `open` the calls whose handler
waits for the broker.

Errors that nobody listens to end the process, and that is modelled where it happens: a write
into a broken pipe (`SendBreaks`), the answer to a call that cannot be written, and the error
about it that cannot either (`CallSettles`, `RefuseServerRequest`). That a write between the
exit of the child and its exit event breaks the pipe is how Node and the kernel behave, not
this code. `Torn` is the half line that a failed child leaves in the buffer. One
generation: nothing calls `start()` twice.

### StreamRelay

`wire` is what the worker has written and `#streamRequest` has not read; `conn` is the request
to the worker (`failing` once destroyed with an error, `severed` when it closed after the head
of the response, which no listener hears); `chain` is `emitChain`, its first event the one that
runs; `blocked` is its wait for drain or close; `promise` is what `executeLoggedStream`
awaits before it settles `row`, releases the lease and ends the response. The worker may end
whole, after an error event, in the middle of a line, with a line that is no JSON or with JSON
that is no event (which is passed over, `SkipLine`), or die. The
client may be slow and may leave.

`Reject` on a promise that is settled does nothing, which is why every path may call it.
Whether a late emit fails after the response has ended depends on the listeners of the HTTP
library; the model takes the failure, after which the chain is empty either way.

### ProviderConfig

An update goes through the awaits of `#upsert`: `secret`, `config`, `reload`, `probe`, `list`,
and when one throws, `undo config`, `undo secret`, `undo reload`, `undo probe`. `before` is
what it read when its turn in `#mutationQueue` came and what a rollback writes back. `routing`
is `#external`, `probe` the probes under way with the provider set each one asks, `cache` the
result stored last. `OperatorSetsKey` is `mytokenctl provider-set`, which writes a secret file
beside the queue and then restarts the API. `Crash` may come between any two steps; a write
of one file is whole or nothing (temporary file and rename). Declarations and keys are
opaque; an update that would make the configuration invalid is `Refuse`.

### HostJobs

`request`, `status` and `handler` are the protocol that both jobs share: a console handler
reads the status, links the request file, a path unit starts the runner, which takes the
request and reports. `stage[j]` is the program counter of a script; a file that a stage
rewrites is `mixed` while it runs. `code` stands for the runtime with its units and tools,
`env` for the release-derived environment, `cli` for the Codex CLI that is installed globally.
A requirement of the units is modelled (`Stopped`, `Started`): the API requires the worker.

A stage may fail (`set -e`, the trap), be terminated, be killed, and the host may reboot. So
may what deals with failures: a write of the status (`CannotReport`), a copy back
(`UndoFails`, `RestoreFails`: `cleanup()` runs under `set +e` and goes on), and `cleanup()`
itself, in which the traps of HUP, INT and TERM are still armed (`TerminateRollback`,
`TerminateCleanUp`; the `timeout 30m` of the update runner sends such a TERM). `MaxStops`
bounds all of these but plain failures.

`install.sh` upgrades the CLI before its snapshot (`InstallCli`) and no rollback takes that
back. The worker does not start with another CLI than its environment names
(`apps/worker/src/main.ts:25`), which `Start` models; `refused` remembers it.

External, and assumed: npm puts the CLI in place whole; a worker that refuses fails at systemd's
start limit, and the API that requires it with it; the operator has not set
`MYTOKEN_ALLOW_UNVERIFIED_CODEX_VERSION`. The checkout, and the build and tests before the
snapshot, are a stage each.

### AdminConsole

`task[h]` is what a handler awaits: the hash of a setup, the verification of a login, the
list of models that a policy is validated against. Rows are tables: `bootstrap`, `admins`,
`session`, `key`. `updatePolicy` reads a row, merges the patch and writes every column; it has
an `await` between, of a promise that is already resolved, so nothing but microtasks run
(`Quiet`). `told` is what the writes that were answered add up to. No code disables a user or
revokes all sessions, so neither is modelled.

## 3. Runs

| run | instance | result |
|---|---|---|
| `admission` | 3 requests, 1 key, plain and stream, 2 policies, gateway limit 2, 2 ticks and 2 days, failing writes | holds, 657 thousand states under symmetry |
| `coordinator_plain` | 1 turn, 3 calls of which 1 undeclared, 2 continuations of which 1 streamed or not, 2 keys, 2 pending calls at most | holds, 854 thousand states under symmetry |
| `coordinator_stream` | 1 turn streamed or not, 2 deltas, a queue of 2, 2 calls, 1 continuation streamed or not, fair timers | holds, 855 thousand states |
| `coordinator_parallel` | 1 turn, 2 declared calls, 1 continuation | finding 1 |
| `coordinator_dangerous` | 1 stream, 1 dangerous item | finding 2 |
| `coordinator_hang` | 1 stream, its client disconnects | finding 3 |
| `worker` | 2 requests beside initialize, 1 HTTP exchange, 2 tool calls, 1 line of junk, fair | holds, 300 thousand states |
| `relay` | a response of up to 4 events, fair | holds, 4.3 thousand states |
| `relay_severed` | a response of up to 2 events, fair | finding 4 |
| `providers` | 2 providers, 2 updates, 2 keys, an enabled and a disabled declaration, 1 handler that probes | holds, 638 thousand states under symmetry |
| `host` | both jobs, 1 console handler beside the command line, 2 releases, 2 CLIs, 2 credentials, 1 mishap | holds, 1.87 million states under symmetry and view |
| `console` | 2 handlers, 2 keys, 2 sessions, 2 tokens, 1 field beside the models | holds, 351 thousand states under symmetry |

Why these bounds. In `admission`, three requests are one more than the gateway limit
and enough to meet every limit of a key. The two policies let each other's limits be
what stops a request: `Narrow` its concurrency (1) and its balance (2), `Metered` its day
(1) and its tokens (1), and under `Metered` three requests may run at a time, so that the
gateway limit decides. Moving between the two lets requests run under different limits
of one key. One midnight is enough for the daily limit to reset with a request across it.
`coordinator_plain` has one call more than the broker holds and a key that is not the
owner; two continuations are what it takes for one to find another waiting. In
`coordinator_stream` a queue of 2 overflows while the stream is written to.
One turn suffices for the properties of one session: turns share only the broker's
limit, which calls of the same turn fill as well. Nothing is claimed of two turns that
TLC has not explored, beyond what the code shows: all state but `pending` is keyed by
the turn.

In `worker` two requests let one time out while the other is answered, and two calls let one be
open when the other breaks the pipe; more junk changes nothing, since the first line has
failed the child. In `relay` four events are a chain of several emits behind one that waits;
the proof covers any number. In `providers` two updates of one provider queue behind each
other and two of different providers share the configuration file; the third key would
only rename. In `host` the two jobs overlap at every pair of stages, and every script may run
again after any ending of the other; the one mishap is a kill, a TERM, a reboot, a status that
cannot be written or a copy back that fails, at any stage, after which everything goes on; the
proofs cover any number. The view of `MCHost` identifies states that no guard and no
property tells apart. In `worker` one exchange is what `app.close()` waits for.
In `console` two handlers race a setup, and a change races a revocation or another change.

Runs set `CHECK_DEADLOCK FALSE` where the system may stop: when every request has ended there
is nothing to do. `host` and `console` check deadlock.

Fairness. None of `Admission`, whose properties are safety: that a backend call ends is not
assumed, since a stream may never end (finding 4). Of `ResponseCoordinator`:
scheduled continuations run; the timers fire (`responseTimeoutMs`, the broker's
`resultTimeoutMs`, the request timeout of the client that bounds turn/start and
turn/interrupt); a client whose stream is being written reads it or closes (`ReadsOrCloses`),
but no client has to leave while it waits. Nothing is
assumed of app-server: no turn has to end or to call a tool. Of `WorkerProcess`: lines that
were written are read, open exchanges end (every wait of a response has a timer in the
coordinator, and the API gives up a silent socket after `requestTimeoutMs`), timers fire, events are handled, `main.ts` goes on, and a child that was
sent SIGTERM exits; not that app-server answers or exits by itself. Of `StreamRelay`:
what was written is read, a silent socket times out (`requestTimeoutMs`), and a client that is
waited for either drains or leaves; not that the worker writes or ends.

Properties worth a word.

- `KeyConcurrencyHonoured`, `RequestBudgetHonoured` and `TokenOverrunBounded` say "one of
  the holders (rows) was admitted under a limit that covers them all": since an
  administrator may lower a limit while requests run, the current limit says nothing.
- `DailyLimitHonoured` is off by one on purpose, and only for the day that begins: the
  request whose row was stamped before midnight and which was tested after.
- `LeaseReturned` names the one exception of the code: in `executeLogged` the lease is
  taken before the `try` whose `finally` returns it, with two database writes between
  (`app.ts` 429-445). A plain call whose row cannot be begun keeps its lease until the
  process restarts. `executeLoggedStream` does not have the exception.
- `NoSignalMissed` says that no request waits beside the signal it waits for, and, while its
  session is mapped, that the turn it waits for still runs. It is not the absence of lost wakeups,
  and names where the code loses them: the signals that a stream clears once it has written its
  calls (`codex-response-coordinator.ts` 176-181), and the request that waits on a session
  which another request of its turn has removed. Their timer ends both.
- `SessionsHaveOwners` is the absence of leaks where nobody streams the deltas (a stream may
  leak, finding 3): it asks that no request of a mapped turn, the starter or a continuation, has
  ended in an error, a failure or the answer, so that every error path is checked. A
  client that never answers its calls keeps its session; so does a response that was lost on its
  way to the client, whose calls are still to be answered.
- `StreamsWhole` counts the deltas signalled to a stream against those it has relayed: the bounded
  queue may end a stream as failed and may not lose a delta of one that completes.
- `NoRowLeftInProgress` holds at every state, not only after a start: a row is open for a running
  request, or because its completion threw in this process (`unlogged`).
- `DangerousTurnsFail` is what the documents say of every turn, and fails for streams (finding 2).
  `PlainTurnsFail` says of the turns whose deltas nobody streams that their *answer* is not given
  after a dangerous item; it holds. It does not say so of the empty response of finding 1, which
  has the status completed and may come while the security signal is queued.
- `StaleOnlyByOverlap` is what the probe cache does guarantee: a fresh result about a
  replaced provider set exists (hazard at `multi-provider-backend.ts:72`), but only when the
  probe was under way during the replacement.
- `ServedIsStored` and `UpdatesAtomic` name their windows: the key of the operator before the
  restart, a restore that fails, a crash between the two files. `UpdatesAtomic` compares the files
  with what is `expected` of them: one pair of declaration and key, until a crash or a failing
  restore adds the half that was done (`Halfway`).
- `RelayedWhole` relates the row to what the client has, across four parties; the seeded
  fault resolves the promise at the end of the socket instead of at the end of the chain.
- `WorkerEnds` excludes, by name, one case in which the code does wait for ever (`missed`), and
  `StreamSettles` another (`severed`), which `EveryStreamSettles` does not exclude (finding 4).
- `OneVersion`, `RunningHasRunner`, `ImportAllOrNothing` and `ServicesComeBack` are about every
  way a script can stop, but for those that the code does not undo, which the histories `cut`,
  `mute`, `disturbed` and `refused` record (listed below).
- `WritesStay` would fail if the database were asynchronous: its seeded fault lets other
  handlers run between the read and the write of `updatePolicy`.

### Findings

1. Two tool calls of one turn. Each raises a tool signal, the response to the first
   lists both calls, and the signal of the second is taken by the continuation that
   answers them: its response is `completed`, with no output, while the turn runs on,
   and possibly while a security signal is queued behind it
   (`codex-response-coordinator.ts` 383-399, 454). `docs/API_COMPATIBILITY.md:14` lists
   parallel tool calls as supported.
2. A dangerous item that starts before turn/start is answered. The security signal
   waits as an orphan and is adopted into `session.signals`, which a stream never reads:
   the turn is not interrupted and the response may complete (line 274;
   `docs/ARCHITECTURE.md:57`, `docs/THREAT_MODEL.md:29`). A plain response handles it,
   which `PlainTurnsFail` shows (checked in `coordinator_plain`, proved as `PlainFail`).
3. A client that disconnects from a stream before its first event. `response.created`
   is written to a destroyed response; `write()` returns false and neither `drain` nor
   `close` follows (`internal-app.ts` 103-120), so the handler never ends and its
   session stays (`docs/THREAT_MODEL.md:41`: duration is bounded).
4. A worker that dies after the head of its response. Nothing listens to the response for
   `aborted`, `error` or `close`, and the request has no error any more, nor do its timeout or the
   client's signal reach it: the promise of `#streamRequest` never settles
   (`worker-socket-backend.ts` 173-281), and the row and the lease of the request stay while the
   API runs (the same line of `docs/THREAT_MODEL.md`).

What other modules show without a run of its own, because a property names it as its
exception:

- `main.ts` sets its listener of `childFailure` after it has awaited `start()` and `listen()`
  (lines 49-72). A child that fails in between leaves a worker that serves errors for ever
  (`missed` in `WorkerProcess`).
- A client may hear of one error twice: from the chain (`worker-socket-backend.ts` 231) and from
  the handler (`app.ts` 578). `TypeCorrect` of `RelayProofs` proves that it is never more.
- A crash between the two files of a provider, or a restore that throws, leaves the new key with the
  older declaration (`Halfway` in `ProviderConfig`).
- The import moves the credential into place before it marks it as changed, and unmarks it
  before it reports. A failure in one of these windows, or a TERM after the report, deletes the
  backup, keeps the new credential, and reports that the former one was restored
  (`mytoken-codex-import-runner` 130, 151-154, 205-209; `cut` in `HostJobs`).
- A TERM that reaches `cleanup()` ends it where it is. In `install.sh` it leaves files of two
  releases and stopped services (lines 73-165), against `README.md:100` (one rollback unit) and
  `docs/OPERATIONS.md:136` (restored together after any failed deployment); in the import,
  services that are stopped (`cut` and `disturbed`).
- A status that cannot be written, a runner that is killed, or an import that ends before its trap is
  set leaves `running` for ever, and every later console request is refused (`mute`).
- The global Codex CLI is upgraded before the snapshot and not taken back: after a failed update the
  restored worker refuses to start, the API with it, if the releases name different CLIs
  (`install.sh` 51-66, `apps/worker/src/main.ts` 24-29; `refused`). This is against
  `docs/OPERATIONS.md:136` too.
- Import and installation share the services without a common lock: an import that overlaps
  an installation may leave services stopped (`disturbed`).
- A rollback of `install.sh` restores files, units and environment; the copy of the database
  that it takes is not restored.

Each property of a passing run has a seeded fault in the module (the operators whose
comment says "Seeded fault") under which TLC finds it violated.

## 4. Proofs

| module | theorem | says |
|---|---|---|
| `AdmissionProofs` | `TypeCorrect` | `Spec => []TypeOK` |
| | `LeasesAccounted` | `Spec => []LeaseAccounting` |
| | `GlobalConcurrencySafe` | `Spec => []GlobalConcurrencyHonoured` |
| | `KeyConcurrencySafe` | `Spec => []KeyConcurrencyHonoured` |
| | `LeasesReturned` | `Spec => []LeaseReturned` |
| | `SettledRowsStay` | `Spec => SettledRowsFinal` |
| | `LeasesArePool` | `Spec => PoolRefined`, refinement of `LeasePool` |
| | `RowsRecovered` | `Spec => []NoRowLeftInProgress` |
| `BudgetProofs` | `RequestBudgetSafe` | `Spec => []RequestBudgetHonoured` |
| | `TokenOverrunSafe` | `Spec => []TokenOverrunBounded` |
| | `DailyLimitSafe` | `Spec => []DailyLimitHonoured` |
| `CoordinatorProofs` | `TypeCorrect` | `Spec => []TypeOK` |
| | `WaitersAreWoken` | `Spec => []NoSignalMissed` |
| | `AnswersOwn` | `Spec => []AnswersAreOwn` |
| | `CallsAnsweredOnce` | `Spec => AnsweredOnce` |
| | `SessionsOwned` | `Spec => []SessionsHaveOwners` |
| | `PlainFail` | `Spec => []PlainTurnsFail` |
| `WorkerProofs` | `TypeCorrect` | `Spec => []TypeOK` |
| | `WaitingNeedsChild` | `Spec => []NothingWithoutChild /\ []WaitsPending` |
| `RelayProofs` | `TypeCorrect` | `Spec => []TypeOK` |
| | `RelayIsWhole` | `Spec => []RelayedWhole` |
| `ProviderProofs` | `TypeCorrect` | `Spec => []TypeOK` |
| | `StaleProbesOverlap` | `Spec => []StaleOnlyByOverlap` |
| | `FilesServed` | `Spec => []ServedIsStored` |
| | `UpdatesAreAtomic` | `Spec => (\A p : Exact(p)) /\ []UpdatesAtomic /\ [][OnlyInterruptionsBlur]_vars` |
| `HostProofs` | `TypeCorrect` | `Spec => []TypeOK` |
| | `RunnersReport` | `Spec => []RunningHasRunner` |
| | `OneVersionInstalled` | `Spec => []OneVersion` |
| | `CredentialWhole` | `Spec => []ImportAllOrNothing` |
| | `ServicesRestored` | `Spec => []ServicesComeBack` |
| `ConsoleProofs` | `TypeCorrect` | `Spec => []TypeOK` |
| | `OneSetup` | `Spec => []OneAdministrator` |
| | `WritesAreKept` | `Spec => []WritesStay` |

Each is proved for all values of the constants that the assumption of its module allows: any
finite set of requests, calls, providers, updates, any handlers and keys, a response of any
length, a host with any number of mishaps. So every safety property that a passing run
checks, but `StreamsWhole`, is also proved, by an inductive invariant that TLC was first asked to refute on the
instance of that run.

### Admission

Two inductive invariants carry the theorems.

`LeaseInv` is `TypeOK`, `LeaseLink` (who holds a lease is running, or is the plain call of
the exception), `LeaseAccounting`, the bound on all leases, and `KeyLimitLink`. The last one is
needed because `KeyConcurrencyHonoured` is not inductive: when the holder with the
largest limit returns its lease, the property for the rest does not follow from the
property for all. `KeyLimitLink` states it for *every nonempty set* of leases of one key,
which is closed under taking subsets; a new lease was admitted when the set was below
its own limit, so it is itself the witness of every set it joins.

`RowInv` is `TypeOK`, `LeaseLink`, `RowLink` (the row of a running request is in_progress, and
a request that has not been through `acquire` has no row) and `LeaseReturned`. It gives `SettledRowsFinal`: `complete` acts only on a
running request, whose row is not settled, and recovery touches in_progress rows only. It
also makes `NoRowLeftInProgress` inductive (`RowsRecovered`).

Every action is reduced to one of five effects on the leases (`SameLeases`, `Binds`,
`Takes`, `Returns`, `Forgets`: lemma `LeaseSteps`), so that the arithmetic of the counters
and the refinement are proved once per effect and not once per action.

`BudgetProofs` reduces a step to one of two effects on the billable rows (lemma `BillSteps`):
it bills nobody, or the one request it admits, which is then a witness for the limits it
was tested against. The request budget is inductive with `RowInv`. The token budget needs a
measure, `Exposure`: what a key has spent and what its calls under way may still report; it
never grows but by an admission, which finds the spent part below the budget and the
calls within `GlobalConcurrency` (`CallingBounded`, from `LeaseInv`, since whoever is called
holds a lease). The daily limit is not inductive: a day that is over its limit
by one could be billed again. `DailyLink` says that only a day that has ended is over it;
`DayBounds` and `DaysAscend` are the arithmetic of days.

### ResponseCoordinator

The invariant is built in layers, each inductive with those before it (and `Fresh`, below).

- `Typed` adds to the types `OnTurn`: where a request may stand by its kind, and that whatever
  works on a session (a request, a detached response, an entry of `#sessionsByResponse`) knows
  its turn. `Begun` says that all of those come after `BeginSession`.
- `Waits` makes the first part of `NoSignalMissed` inductive: it has the converse too. A session's waiter is a
  request that waits for this session, and its reader one that reads, so that a signal wakes
  nobody who has gone on, and an abort rejects everybody it leaves without a session.
- `EndNoted` is its second part: the end of a turn is kept, by the orphans of a session that has not
  begun, by the signals of the session or by the request it has woken, until a request takes it; so
  a request that waits on a mapped session waits for a turn that runs.
- `DeltasRelayed`: a delta is taken by a stream's reader only, and no session keeps one. Without
  it a plain response could be woken by a delta, which no branch of the code handles.
- `CallsInOrder`: a call is pending exactly from its making to its answer (this is
  `AnsweredOnce`, whichever of five paths answers); a response lists calls of its own turn; what
  a client answered was listed, and the key of whoever answered is the key that started the turn,
  along any chain of continuations.
- `Owned` strengthens the first part of `SessionsHaveOwners`: not some request but the turn's
  *starter* is still at work, or has returned a response that can be continued. The weaker
  statement is not inductive: a continuation that ends could be the only owner. `Answered` carries
  the second part, that no request of a mapped turn has ended it: `Outcomes` says where a request
  with a result may stand, and `Accounted` that a session which is gone was ended by a request of
  its turn, or by the end of the worker. TLC first refuted the property as it had been
  stated, for every session, on an instance with a stream: a stream's session may stay (finding 3),
  so it speaks of turns that nobody streams, which is what the code ensures.
- `Counted` is about numbers. A turn is *owed* one signal for each call that is pending and one
  for a dangerous item; while its session has not begun they are among the orphans, afterwards
  they exceed the queued ones by one at most (the one whose response is being built), and while a
  request waits nothing is owed. So a turn whose completion wakes a waiting request has run
  no dangerous item.
- `Settled` carries this to the answer. `completed` comes when no call is pending, and then no
  continuation can be accepted any more (`MayContinue`), so nobody takes it from the queue
  behind a security signal; only a session that begins takes the first of its orphans. `Fresh`
  (app-server has no turn of an idle request) is needed for the orphans.

Each handler's effect on sessions and requests is stated once (`SignalStores`, `NextSignalMoves`,
`AbortStores`, `RemoveStores` and the like) and cited in the steps of all invariants.

### HostJobs

- `StatusKept` adds to `RunningHasRunner` that a runner which has only taken the request has not
  written its status: the record of a run that died must not be taken for its own.
- `VersionKept` says what a rollback relies on: what `install.sh` has saved is one version, and the
  undo has put back the files, then the environment, when it reaches the next stage.
- `CredentialKept` says at each stage of the import where the former credential is, in place or
  saved, and when the mark `destination_changed` stands for it. The three windows are where neither
  holds, and are the stages for which `cut` is set.
- `ServicesKept`: undisturbed, whoever stops the services knows that both were running (`AllRun`),
  and whatever runs meanwhile is the installed code (`OnlyCode`), so that starting them again
  restores both, if the worker accepts the CLI; a script that overlaps another, or is cut short, is
  what `disturbed` records, and a worker that does not start what `refused` does. An update that is
  verified, or a reboot, ends both.

### WorkerProcess

`WaitsPending` says that a request waits exactly as long as it is in `#pending`: the event that
takes the child away empties the table, and this is what makes every request of the table
settle with it. Together with `NothingWithoutChild` it is inductive.

### StreamRelay

`RInv` adds to the types: `ToldOnce` (the client has heard of an error at most once while the
row is open, and then the promise is rejected or the one emit that waits is that error),
`Settled` (the row follows the promise, and a promise that is resolved has an empty chain and a
connection that has ended), `Prefix`, `Whole`, and that for some `r`, the number of events that
`#streamRequest` has read, the wire holds the events after `r` and the chain those between what
the client has and `r` (`Holds`). Neither part is inductive alone: a chain that is whole needs a
wire that is.

### ProviderConfig

- `Typed` has the type invariant with the discipline of `#mutationQueue`: an update that has not
  ended is in the queue, the one that runs is its head, and it has its input and what it read.
  `OneRuns` follows, on which the other three rest.
- `Probes`: a probe under way asks the providers that are served, or was overtaken by a
  replacement. Only such a probe can fill the cache with something older.
- `Served`: at each stage between the first write and the reload, `AsRead` says what the files
  still or again have in common with what the update read, and that this is what is served. This
  is why a rollback whose second reload fails leaves routing and files in agreement.
- `Atomic`: `AtStage` is what the files of the provider say at each stage (what was read, the new
  key with it, or all that was asked); `Restorable`, that what was read is still what is
  expected, since no other update runs. Where the operator has set the key meanwhile, the
  declarations alone are claimed. A crash and a restore that fails leave one of the three
  (`LeftOpen`). The theorem also says when more than one outcome is expected: at first one is
  (`Exact`), and the only steps after which it is not are a crash between the first write of an
  update and the end of its reload or restores, and a restore that throws
  (`OnlyInterruptionsBlur`).

### AdminConsole

`Founded` adds to `OneAdministrator` that a login under way has found a user. `Fresh` adds to
`WritesStay` that a policy which is about to be written is the row's own with the patch, and that
one handler at most is there: nothing runs between the read and the write.

### Only model-checked

Liveness (`UnrelayedRequestsEnd`, `EveryCallAnswered`,
`EveryRequestSettles`, `WorkerEnds`, `StreamSettles`) needs fairness and ENABLED, which are out of
the prover's reach, and stays with TLC on the instances of section 3; so does `StreamsWhole`, whose proof needs the
queue's contents counted. The four properties of the
findings are false.

## 5. Not modelled

- Conversions and schemas: `openai-compat`, `contracts`, the formats of the external backends
  (`external-provider-backends.ts`). They are functions of one value and hold no state; the
  models keep what they convert opaque.
- The web console: it holds no state that the server relies on.
- The generated schemas of the app-server protocol (`src/contracts/codex`, well over half of the
  lines of the repository): types only.
- Listings, request logs, account and model routes, `#request` of the worker socket: they read,
  or pass one call through.
- Commands of the command line that call one system tool; `provider-set` and `codex-import` are
  modelled, since they act beside the API on the same files.
- Migrations: they run once, in one transaction each, before the server listens.
- The choice of a provider by model name, the IP allowlist and the order of releases: pure, and
  small enough for the tests that exist.

## 6. Plan

Done: `Admission` with `LeasePool`, `ResponseCoordinator`, `WorkerProcess`, `StreamRelay`,
`ProviderConfig`, `HostJobs`, `AdminConsole`, and the proofs of section 4. Left, in this order:

1. A bound on what the coordinator keeps of one turn (queued signals against calls), from
   `Counted`, as an abstract queue that `ResponseCoordinator` implements.
2. The safety part of `EveryRequestSettles` and `StreamSettles`: that whatever waits has an event
   enabled that ends its wait, as an invariant.
