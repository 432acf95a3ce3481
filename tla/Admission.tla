------------------------------ MODULE Admission ------------------------------
(***************************************************************************)
(* Admission of /v1 requests by mytoken-api: authentication against the    *)
(* api_keys row, RequestPolicyManager.acquire, the request_logs row around *)
(* the backend call (executeLogged, executeLoggedStream), the release of   *)
(* the concurrency lease, administrator changes of a key, the crash of the *)
(* process and its restart (recoverInterrupted).                           *)
(*                                                                         *)
(* Node runs each synchronous stretch of a handler without interruption,   *)
(* so one action is the code between two awaits: a handler is interleaved  *)
(* with the others at `await backendReady` and during the backend call.    *)
(***************************************************************************)
EXTENDS Integers, FiniteSets

CONSTANTS
    Req,                \* the requests that may arrive
    Key,                \* the MyToken keys of the api_keys table
    Routes,             \* the routes they take, of Kinds
    Policies,           \* the policies an administrator gives keys
    Unlimited,          \* a null request_budget or token_budget
    GlobalConcurrency,  \* MYTOKEN_MAX_GLOBAL_CONCURRENCY
    RpmWindow,          \* clock ticks in the 60 s of the RPM window
    DayLength,          \* clock ticks in a UTC day
    LastTick,           \* bound: the clock stops here
    MaxTokens,          \* bound: tokens one response reports
    DbMayFail           \* whether a write to SQLite may throw

Positive == Nat \ {0}
Budget == Positive \cup {Unlimited}

Policy ==
    [rpmLimit : Positive, dailyRequestLimit : Positive, maxConcurrency : Positive,
     requestBudget : Budget, tokenBudget : Budget]

ASSUME AdmissionAssumption ==
    /\ IsFiniteSet(Req)
    /\ Routes \subseteq {"models", "plain", "stream"}
    /\ Policies \subseteq Policy
    /\ Policies # {}
    /\ Key # {}
    /\ Unlimited \notin Nat
    /\ GlobalConcurrency \in Positive
    /\ RpmWindow \in Positive
    /\ DayLength \in Positive
    /\ LastTick \in Nat
    /\ MaxTokens \in Nat
    /\ DbMayFail \in BOOLEAN

VARIABLES
    up,            \* whether the API process runs
    now,           \* Date.now(), in ticks
    apiKeys,       \* the api_keys rows: policy and revocation
    pc,            \* where the handler of each request stands
    keyOf,         \* the key a request authenticated with
    kind,          \* the route: models list, plain call or stream
    seen,          \* the policy in the record read by authenticate
    lease,         \* the lease of a request: AdmissionLease
    active,        \* RequestPolicyManager.#active
    globalActive,  \* RequestPolicyManager.#globalActive
    rpmWindows,    \* RequestPolicyManager.#rpmWindows, as <<request, tick>>
    log,           \* the request_logs row of each request
    tokenTotal,    \* SUM(total_tokens) of a key's rows
    unlogged       \* history: the requests of this run whose complete() threw

vars == <<up, now, apiKeys, pc, keyOf, kind, seen, lease, active, globalActive,
          rpmWindows, log, tokenTotal, unlogged>>

requestVars == <<keyOf, kind, seen>>
leaseVars == <<lease, active, globalActive>>

-----------------------------------------------------------------------------
(* State of the process, of the database and of a request *)

Kinds == {"models", "plain", "stream"}
Billable(r) == kind[r] # "models"

NoRow == [status |-> "none", billable |-> FALSE, startedAt |-> 0]
Row == [status : {"none", "in_progress", "completed", "failed"},
        billable : BOOLEAN, startedAt : Nat]

TypeOK ==
    /\ up \in BOOLEAN
    /\ now \in Nat
    /\ apiKeys \in [Key -> [policy : Policies, revoked : BOOLEAN]]
    /\ pc \in [Req -> {"idle", "authenticated", "running", "done"}]
    /\ keyOf \in [Req -> Key]
    /\ kind \in [Req -> Kinds]
    /\ seen \in [Req -> Policies]
    /\ lease \in [Req -> {"none", "held", "released"}]
    /\ active \in [Key -> Nat]
    /\ globalActive \in Nat
    /\ rpmWindows \in [Key -> SUBSET (Req \X Nat)]
    /\ log \in [Req -> Row]
    /\ tokenTotal \in [Key -> Nat]
    /\ unlogged \subseteq Req

Init ==
    /\ up = TRUE
    /\ now = 0
    /\ \E p \in Policies : apiKeys = [k \in Key |-> [policy |-> p, revoked |-> FALSE]]
    /\ pc = [r \in Req |-> "idle"]
    /\ keyOf = [r \in Req |-> CHOOSE k \in Key : TRUE]
    /\ kind = [r \in Req |-> "models"]
    /\ seen = [r \in Req |-> CHOOSE p \in Policies : TRUE]
    /\ lease = [r \in Req |-> "none"]
    /\ active = [k \in Key |-> 0]
    /\ globalActive = 0
    /\ rpmWindows = [k \in Key |-> {}]
    /\ log = [r \in Req |-> NoRow]
    /\ tokenTotal = [k \in Key |-> 0]
    /\ unlogged = {}

\* The requests that hold a lease of the manager, on key k and on any key.
HoldersOf(k) == {r \in Req : keyOf[r] = k /\ lease[r] = "held"}
Holders == {r \in Req : lease[r] = "held"}

\* SUM(billable) of usage(): every billable row, whatever became of it.
BillableRows(k) == {r \in Req : keyOf[r] = k /\ log[r].billable}

StartOfDay(t) == (t \div DayLength) * DayLength

\* usage().todayRequests: billable rows started since the UTC midnight before t.
TodayRows(k, t) == {r \in BillableRows(k) : log[r].startedAt >= StartOfDay(t)}

-----------------------------------------------------------------------------
(* RequestPolicyManager *)

\* The entries of a key's RPM window that are still inside 60 s at time t.
FreshWindow(k, t) == {e \in rpmWindows[k] : e[2] > t - RpmWindow}

RateLimited(r, t) == Cardinality(FreshWindow(keyOf[r], t)) >= seen[r].rpmLimit

CountPass(r, t) ==
    rpmWindows' = [rpmWindows EXCEPT ![keyOf[r]] = FreshWindow(keyOf[r], t) \cup {<<r, t>>}]

KeyBusy(r) == active[keyOf[r]] >= seen[r].maxConcurrency
GatewayBusy == globalActive >= GlobalConcurrency
DayUsedUp(r, t) == Cardinality(TodayRows(keyOf[r], t)) >= seen[r].dailyRequestLimit

BalanceUsedUp(r) ==
    /\ seen[r].requestBudget # Unlimited
    /\ Cardinality(BillableRows(keyOf[r])) >= seen[r].requestBudget

TokensUsedUp(r) ==
    /\ seen[r].tokenBudget # Unlimited
    /\ tokenTotal[keyOf[r]] >= seen[r].tokenBudget

\* Seeded faults, for the check that the properties can fail.
OverLimitForgetsKey(r, t) ==
    Billable(r) /\ (GatewayBusy \/ DayUsedUp(r, t) \/ BalanceUsedUp(r) \/ TokensUsedUp(r))
OverLimitForgetsDay(r, t) ==
    Billable(r) /\ (KeyBusy(r) \/ GatewayBusy \/ BalanceUsedUp(r) \/ TokensUsedUp(r))
OverLimitForgetsTokens(r, t) ==
    Billable(r) /\ (KeyBusy(r) \/ GatewayBusy \/ DayUsedUp(r, t) \/ BalanceUsedUp(r))
OverLimitForgetsBalance(r, t) ==
    Billable(r) /\ (KeyBusy(r) \/ GatewayBusy \/ DayUsedUp(r, t) \/ TokensUsedUp(r))
OverLimitForgetsGateway(r, t) ==
    Billable(r) /\ (KeyBusy(r) \/ DayUsedUp(r, t) \/ BalanceUsedUp(r) \/ TokensUsedUp(r))

\* The limits acquire() tests after it has counted the request in the RPM window.
OverLimit(r, t) ==
    /\ Billable(r)
    /\ KeyBusy(r) \/ GatewayBusy \/ DayUsedUp(r, t) \/ BalanceUsedUp(r) \/ TokensUsedUp(r)

\* Seeded fault: the count of the key is taken from the limit, not incremented.
TakeLeaseOnce(r) ==
    /\ lease' = [lease EXCEPT ![r] = "held"]
    /\ active' = [active EXCEPT ![keyOf[r]] = 1]
    /\ globalActive' = globalActive + 1

TakeLease(r) ==
    /\ lease' = [lease EXCEPT ![r] = "held"]
    /\ active' = [active EXCEPT ![keyOf[r]] = @ + 1]
    /\ globalActive' = globalActive + 1

OneLess(n) == IF n = 0 THEN 0 ELSE n - 1

\* lease.release(), once: a second call and the lease of a models list do nothing.
Release(r) ==
    \/ /\ lease[r] = "held"
       /\ lease' = [lease EXCEPT ![r] = "released"]
       /\ active' = [active EXCEPT ![keyOf[r]] = OneLess(@)]
       /\ globalActive' = OneLess(globalActive)
    \/ /\ lease[r] # "held"
       /\ UNCHANGED leaseVars

-----------------------------------------------------------------------------
(* The handlers of POST /v1/responses, /v1/chat/completions, GET /v1/models *)

\* authenticate(): the bearer key names a row that is not revoked; the handler
\* keeps the record and waits for backendReady.
Authenticate(r, k, route) ==
    /\ up
    /\ pc[r] = "idle"
    /\ ~apiKeys[k].revoked
    /\ pc' = [pc EXCEPT ![r] = "authenticated"]
    /\ keyOf' = [keyOf EXCEPT ![r] = k]
    /\ kind' = [kind EXCEPT ![r] = route]
    /\ seen' = [seen EXCEPT ![r] = apiKeys[k].policy]
    /\ UNCHANGED <<up, now, apiKeys, lease, active, globalActive, rpmWindows, log, tokenTotal,
                   unlogged>>

\* Backend not ready (503), invalid body (400), model or tools not allowed (403):
\* answered before the policy manager is asked, and not logged.
TurnAway(r) ==
    /\ up
    /\ pc[r] = "authenticated"
    /\ pc' = [pc EXCEPT ![r] = "done"]
    /\ UNCHANGED <<up, now, apiKeys, lease, active, globalActive, rpmWindows, log, tokenTotal,
                   unlogged>>
    /\ UNCHANGED requestVars

\* The clock may pass a tick between `const now` of the handler (the row's
\* started_at) and #now() of acquire (the RPM and daily windows).
PolicyClock == {t \in {now, now + 1} : t <= LastTick}

\* usageStore.begin: the row of a request that goes on to the backend.
BeginRow(r) ==
    log' = [log EXCEPT ![r] = [status |-> "in_progress", billable |-> Billable(r),
                               startedAt |-> now]]

\* A denied request: executeLogged inserts a row that is not billable and completes it
\* (either write may throw); executeLoggedStream completes a row it never began.
LogDenied(r) ==
    LET RowAs(status) == [status |-> status, billable |-> FALSE, startedAt |-> now]
    IN  \/ /\ kind[r] # "stream"
           /\ log' = [log EXCEPT ![r] = RowAs("failed")]
           /\ UNCHANGED unlogged
        \/ /\ kind[r] = "stream" \/ DbMayFail
           /\ UNCHANGED <<log, unlogged>>
        \/ /\ DbMayFail /\ kind[r] # "stream"
           /\ log' = [log EXCEPT ![r] = RowAs("in_progress")]
           /\ unlogged' = unlogged \cup {r}

\* acquire() throws: source IP not allowed or RPM exceeded, before the request is
\* counted; any other limit, after.
Deny(r) ==
    /\ up
    /\ pc[r] = "authenticated"
    /\ \E t \in PolicyClock :
          /\ now' = t
          /\ \/ UNCHANGED rpmWindows
             \/ ~RateLimited(r, t) /\ OverLimit(r, t) /\ CountPass(r, t)
    /\ LogDenied(r)
    /\ pc' = [pc EXCEPT ![r] = "done"]
    /\ UNCHANGED <<up, apiKeys, lease, active, globalActive, tokenTotal>>
    /\ UNCHANGED requestVars

\* acquire() grants the request: what it does to the counters of the manager.
Granted(r) ==
    \E t \in PolicyClock :
       /\ now' = t
       /\ ~RateLimited(r, t)
       /\ ~OverLimit(r, t)
       /\ CountPass(r, t)

\* Granted, the row is begun and the backend is called.
Admit(r) ==
    /\ up
    /\ pc[r] = "authenticated"
    /\ Granted(r)
    /\ IF Billable(r) THEN TakeLease(r) ELSE UNCHANGED leaseVars
    /\ BeginRow(r)
    /\ pc' = [pc EXCEPT ![r] = "running"]
    /\ UNCHANGED <<up, apiKeys, tokenTotal, unlogged>>
    /\ UNCHANGED requestVars

\* Granted, then touchLastUsed or begin throws. executeLogged has not entered the try
\* whose finally releases the lease; executeLoggedStream has.
AdmitWithoutRow(r) ==
    /\ DbMayFail
    /\ up
    /\ pc[r] = "authenticated"
    /\ Granted(r)
    /\ IF kind[r] = "plain" THEN TakeLease(r) ELSE UNCHANGED leaseVars
    /\ pc' = [pc EXCEPT ![r] = "done"]
    /\ UNCHANGED <<up, apiKeys, log, tokenTotal, unlogged>>
    /\ UNCHANGED requestVars

\* What complete() can add to the tokens of the key: a models list reports none.
Reportable(r) == IF Billable(r) THEN 0..MaxTokens ELSE {0}

\* Seeded fault: the lease is released on success only.
AnswerReleasingOnSuccess(r, status, tokens) ==
    /\ log' = [log EXCEPT ![r].status = status]
    /\ tokenTotal' = [tokenTotal EXCEPT ![keyOf[r]] = @ + tokens]
    /\ IF status = "completed" THEN Release(r) ELSE UNCHANGED leaseVars

\* The row is completed and the lease released in the finally.
Answer(r, status, tokens) ==
    /\ log' = [log EXCEPT ![r].status = status]
    /\ tokenTotal' = [tokenTotal EXCEPT ![keyOf[r]] = @ + tokens]
    /\ Release(r)

\* The backend answers or fails, if ever: the promise of a stream may not settle (StreamRelay),
\* and nothing here is fair. A response reports its tokens; an error reports none.
Finish(r) ==
    /\ up
    /\ pc[r] = "running"
    /\ \E status \in {"completed", "failed"}, tokens \in Reportable(r) : Answer(r, status, tokens)
    /\ pc' = [pc EXCEPT ![r] = "done"]
    /\ UNCHANGED <<up, now, apiKeys, rpmWindows, unlogged>>
    /\ UNCHANGED requestVars

\* complete() throws both times: the row stays in_progress, the finally still releases.
FinishUnlogged(r) ==
    /\ DbMayFail
    /\ up
    /\ pc[r] = "running"
    /\ Release(r)
    /\ unlogged' = unlogged \cup {r}
    /\ pc' = [pc EXCEPT ![r] = "done"]
    /\ UNCHANGED <<up, now, apiKeys, rpmWindows, log, tokenTotal>>
    /\ UNCHANGED requestVars

-----------------------------------------------------------------------------
(* Administrator, process and clock *)

\* Seeded fault: a policy is stored without its minimum being checked.
UpdatePolicyUnchecked(k, p) ==
    /\ up
    /\ apiKeys' = [apiKeys EXCEPT ![k].policy = [p EXCEPT !.maxConcurrency = 0]]
    /\ UNCHANGED <<up, now, pc, lease, active, globalActive, rpmWindows, log, tokenTotal,
                   unlogged>>
    /\ UNCHANGED requestVars

\* ApiKeyRepository.updatePolicy rewrites the policy columns, not revoked_at.
UpdatePolicy(k, p) ==
    /\ up
    /\ apiKeys' = [apiKeys EXCEPT ![k].policy = p]
    /\ UNCHANGED <<up, now, pc, lease, active, globalActive, rpmWindows, log, tokenTotal,
                   unlogged>>
    /\ UNCHANGED requestVars

Revoke(k) ==
    /\ up
    /\ apiKeys' = [apiKeys EXCEPT ![k].revoked = TRUE]
    /\ UNCHANGED <<up, now, pc, lease, active, globalActive, rpmWindows, log, tokenTotal,
                   unlogged>>
    /\ UNCHANGED requestVars

\* The process dies: handlers, leases and windows were in its memory.
Crash ==
    /\ up
    /\ up' = FALSE
    /\ pc' = [r \in Req |-> IF pc[r] \in {"authenticated", "running"} THEN "done" ELSE pc[r]]
    /\ lease' = [r \in Req |-> IF lease[r] = "held" THEN "released" ELSE lease[r]]
    /\ active' = [k \in Key |-> 0]
    /\ globalActive' = 0
    /\ rpmWindows' = [k \in Key |-> {}]
    /\ unlogged' = {}
    /\ UNCHANGED <<now, apiKeys, log, tokenTotal>>
    /\ UNCHANGED requestVars

\* Seeded faults: the rows of the last run are left as they were, or all marked failed.
RecoverNothing == log' = log
RecoverEveryRow ==
    log' = [r \in Req |-> IF log[r].status = "none" THEN log[r]
                          ELSE [log[r] EXCEPT !.status = "failed"]]

\* main.ts runs recoverInterrupted before the server listens.
RecoverInterrupted ==
    log' = [r \in Req |-> IF log[r].status = "in_progress"
                          THEN [log[r] EXCEPT !.status = "failed"] ELSE log[r]]

Restart ==
    /\ ~up
    /\ up' = TRUE
    /\ RecoverInterrupted
    /\ UNCHANGED <<now, apiKeys, pc, lease, active, globalActive, rpmWindows, tokenTotal, unlogged>>
    /\ UNCHANGED requestVars

Tick ==
    /\ now < LastTick
    /\ now' = now + 1
    /\ UNCHANGED <<up, apiKeys, pc, lease, active, globalActive, rpmWindows, log, tokenTotal,
                   unlogged>>
    /\ UNCHANGED requestVars

-----------------------------------------------------------------------------
Next ==
    \/ \E r \in Req, k \in Key, route \in Routes : Authenticate(r, k, route)
    \/ \E r \in Req : TurnAway(r)
    \/ \E r \in Req : Deny(r)
    \/ \E r \in Req : Admit(r)
    \/ \E r \in Req : AdmitWithoutRow(r)
    \/ \E r \in Req : Finish(r)
    \/ \E r \in Req : FinishUnlogged(r)
    \/ \E k \in Key, p \in Policies : UpdatePolicy(k, p)
    \/ \E k \in Key : Revoke(k)
    \/ Crash
    \/ Restart
    \/ Tick

Spec == Init /\ [][Next]_vars

-----------------------------------------------------------------------------
(* Properties *)

\* The counters of RequestPolicyManager are the leases outstanding, per key and in all,
\* across early releases, failed writes, crashes and restarts: neither drifts.
LeaseAccounting ==
    /\ \A k \in Key : active[k] = Cardinality(HoldersOf(k))
    /\ globalActive = Cardinality(Holders)

\* The backend is never called by more requests at a time than
\* MYTOKEN_MAX_GLOBAL_CONCURRENCY.
GlobalConcurrencyHonoured ==
    Cardinality({r \in Req : pc[r] = "running" /\ Billable(r)}) <= GlobalConcurrency

\* However an administrator lowers and raises maxConcurrency, and however old the record a
\* handler read before `await backendReady`, the requests of a key that hold a lease are no
\* more than one of them was allowed.
KeyConcurrencyHonoured ==
    \A k \in Key : HoldersOf(k) # {} =>
        \E r \in HoldersOf(k) : Cardinality(HoldersOf(k)) <= seen[r].maxConcurrency

Within(n, budget) == budget = Unlimited \/ n <= budget

\* The billable rows of a key, which survive crashes, never exceed the request budget that
\* one of them was admitted under: concurrent handlers cannot spend the last request twice.
RequestBudgetHonoured ==
    \A k \in Key : BillableRows(k) # {} =>
        \E r \in BillableRows(k) : Within(Cardinality(BillableRows(k)), seen[r].requestBudget)

RowsOfDay(k, d) == {r \in BillableRows(k) : log[r].startedAt \div DayLength = d}

\* A UTC day has at most one billable row more than the daily limit one of its requests was
\* admitted under: the one whose handler read its started_at before midnight and was tested
\* against the limit after.
DailyLimitHonoured ==
    \A k \in Key, d \in 0..(LastTick \div DayLength) : RowsOfDay(k, d) # {} =>
        \E r \in RowsOfDay(k, d) : Cardinality(RowsOfDay(k, d)) <= seen[r].dailyRequestLimit + 1

Calling(k) == {r \in Req : keyOf[r] = k /\ pc[r] = "running" /\ log[r].billable}

\* Tokens are known only when a response ends, so a token budget is overrun; by no more than
\* what the requests that may run at a time report.
TokenOverrunBounded ==
    \A k \in Key : BillableRows(k) # {} =>
        \E r \in BillableRows(k) :
           \/ seen[r].tokenBudget = Unlimited
           \/ tokenTotal[k] + Cardinality(Calling(k)) * MaxTokens
                 < seen[r].tokenBudget + GlobalConcurrency * MaxTokens

\* The promise of the manager, in the terms of LeasePool: what the handlers hold are the
\* leases of a pool of GlobalConcurrency, each taken once and returned once.
Pool == INSTANCE LeasePool WITH Client <- Req, Capacity <- GlobalConcurrency,
                                inUse <- Holders, taken <- {r \in Req : lease[r] # "none"}
PoolRefined == Pool!Spec

\* A request that has ended holds no lease, whichever way it ended, but for one: a plain
\* call whose row could not be begun.
LeaseReturned ==
    \A r \in Req : lease[r] = "held" /\ pc[r] = "done" =>
        DbMayFail /\ kind[r] = "plain" /\ log[r] = NoRow

\* No row is in_progress but those of the requests this process runs and those whose
\* completion has thrown in it: none is left by a run that crashed, nor by a handler that
\* ended, on whichever of its paths.
NoRowLeftInProgress ==
    up => \A r \in Req : log[r].status = "in_progress" => pc[r] = "running" \/ r \in unlogged

\* A row that was settled is never reopened, rewritten or made billable later.
SettledRowsFinal ==
    [][\A r \in Req : log[r].status \in {"completed", "failed"} => log'[r] = log[r]]_vars

=============================================================================
