---------------------------- MODULE ProviderConfig ----------------------------
(***************************************************************************)
(* External model providers: the queue of console updates of               *)
(* ProviderManagementService, the configuration file and the secret files  *)
(* they write, the provider set that MultiProviderGatewayBackend serves    *)
(* with its probe cache, the operator's mytokenctl provider-set, and crash *)
(* and restart of the API.                                                 *)
(*                                                                         *)
(* An update is a sequence of awaits, one action each; the reads that open *)
(* one, and those that a load consists of, are one action, because only    *)
(* the update that runs writes the configuration file.                     *)
(***************************************************************************)
EXTENDS Sequences, FiniteSets

CONSTANTS
    Provider,   \* the ids of external providers
    Update,     \* the console updates: PUT /api/admin/provider-configs/:providerId
    Prober,     \* the /v1 handlers that call backend.probe()
    Rev,        \* what a declaration may say: protocol, URL, models, enabled
    Disabled,   \* the declarations with enabled: false
    Key,        \* the upstream API keys
    Absent      \* no declaration, no key, no file, no probe

Entry == [rev : Rev \cup {Absent}, key : Key \cup {Absent}]
Route == [Provider -> [rev : Rev, key : Key] \cup {Absent}]
Input == [provider : Provider, rev : Rev, key : Key \cup {Absent}]
Probe == [of : Route, overtaken : BOOLEAN]

ASSUME ProviderAssumption ==
    /\ IsFiniteSet(Update)
    /\ Update \cap Prober = {}
    /\ Disabled \subseteq Rev
    /\ Absent \notin Rev \cup Key \cup Probe

VARIABLES
    up,         \* the API serves
    config,     \* the configuration file, by provider
    secret,     \* the secret file of each provider
    routing,    \* #external with its keys, by provider
    pc,         \* where each update stands
    input,      \* what it asks for
    before,     \* what it read when it began: previousConfig and previousSecret
    queue,      \* #mutationQueue: the updates that have not ended, the running one first
    probe,      \* the probes under way: the provider set each one asks, overtaken or not
    cache,      \* the result of the last probe: about which set, fresh for 10 s
    restartDue, \* provider-set has written a key and not yet restarted the API
    expected,   \* history: what the files of a provider may say when no update of it runs
    contested,  \* history: the providers whose key was set while an update of them ran
    unrestored  \* history: a restore failed since the last load

fileVars == <<config, secret>>
routeVars == <<routing, probe, cache>>
updateVars == <<pc, input, before, queue>>
historyVars == <<expected, contested, unrestored>>
vars == <<up, fileVars, routeVars, updateVars, restartDue, historyVars>>

Probing == Prober \cup Update

\* The awaits of an update, and how it ends; "lost" is a connection the crash has cut.
Running == {"secret", "config", "reload", "probe", "list",
            "undo config", "undo secret", "undo reload", "undo probe"}
Ended == {"saved", "failed", "lost"}

TypeOK ==
    /\ up \in BOOLEAN /\ restartDue \in BOOLEAN /\ unrestored \in BOOLEAN
    /\ config \in [Provider -> Rev \cup {Absent}]
    /\ secret \in [Provider -> Key \cup {Absent}]
    /\ routing \in Route
    /\ pc \in [Update -> {"idle", "queued"} \cup Running \cup Ended]
    /\ input \in [Update -> Input \cup {Absent}]
    /\ before \in [Update -> [config : [Provider -> Rev \cup {Absent}],
                              key : Key \cup {Absent}] \cup {Absent}]
    /\ queue \in Seq(Update)
    /\ probe \in [Probing -> Probe \cup {Absent}]
    /\ cache \in [fresh : BOOLEAN, of : Route, overtaken : BOOLEAN]
    /\ expected \in [Provider -> SUBSET Entry]
    /\ contested \in SUBSET Provider
    \* One update runs at a time, the head of the queue.
    /\ \A u \in Update : pc[u] \in Running => queue # <<>> /\ Head(queue) = u

Nowhere == [p \in Provider |-> Absent]
NoProbes == [x \in Probing |-> Absent]

Init ==
    /\ up = TRUE
    /\ config = Nowhere /\ secret = Nowhere /\ routing = Nowhere
    /\ pc = [u \in Update |-> "idle"]
    /\ input = [u \in Update |-> Absent] /\ before = [u \in Update |-> Absent]
    /\ queue = <<>>
    /\ probe = NoProbes
    /\ cache = [fresh |-> TRUE, of |-> Nowhere, overtaken |-> FALSE]
    /\ restartDue = FALSE
    /\ expected = [p \in Provider |-> {[rev |-> Absent, key |-> Absent]}]
    /\ contested = {}
    /\ unrestored = FALSE

(***************************************************************************)
(* Loading and routing.                                                    *)
(***************************************************************************)

\* loadExternalProviderConfiguration: the providers that are declared, enabled and have a
\* key; the others only get a status.
Loaded(decls, keys) ==
    [p \in Provider |->
        IF decls[p] \in Rev \ Disabled /\ keys[p] # Absent
        THEN [rev |-> decls[p], key |-> keys[p]]
        ELSE Absent]

\* Seeded fault: the cached result survives the replacement.
ReplaceExternalOnly(x, routes) ==
    /\ routing' = routes
    /\ probe' = [y \in Probing |->
                    IF y = x THEN [of |-> routes, overtaken |-> FALSE]
                    ELSE IF probe[y] = Absent THEN Absent
                    ELSE [probe[y] EXCEPT !.overtaken = TRUE]]
    /\ UNCHANGED cache

\* replaceExternal clears the cache; the reload then probes at once (x).
ReplaceExternal(x, routes) ==
    /\ routing' = routes
    /\ probe' = [y \in Probing |->
                    IF y = x THEN [of |-> routes, overtaken |-> FALSE]
                    ELSE IF probe[y] = Absent THEN Absent
                    ELSE [probe[y] EXCEPT !.overtaken = TRUE]]
    /\ cache' = [cache EXCEPT !.fresh = FALSE]

\* A probe has its answers, or its 5 s are over: the result is stored whatever has been
\* replaced meanwhile.
StoreProbe(x) ==
    /\ cache' = [fresh |-> TRUE, of |-> probe[x].of, overtaken |-> probe[x].overtaken]
    /\ probe' = [probe EXCEPT ![x] = Absent]

\* A handler probes; while the last result is fresh it is served instead.
StartProbe(h) ==
    /\ up /\ probe[h] = Absent /\ ~cache.fresh
    /\ probe' = [probe EXCEPT ![h] = [of |-> routing, overtaken |-> FALSE]]
    /\ UNCHANGED <<up, fileVars, routing, cache, updateVars, restartDue, historyVars>>

EndProbe(h) ==
    /\ up /\ probe[h] # Absent
    /\ StoreProbe(h)
    /\ UNCHANGED <<up, fileVars, routing, updateVars, restartDue, historyVars>>

\* 10 s have passed since the last result.
CacheExpires ==
    /\ up /\ cache.fresh
    /\ cache' = [cache EXCEPT !.fresh = FALSE]
    /\ UNCHANGED <<up, fileVars, routing, probe, updateVars, restartDue, historyVars>>

(***************************************************************************)
(* History: what the files of a provider should say.                       *)
(***************************************************************************)

Of(u) == input[u].provider

\* An update is all of it, or none.
Applied(u) ==
    {[rev |-> input[u].rev, key |-> IF input[u].key # Absent THEN input[u].key ELSE e.key]
        : e \in expected[Of(u)]}
\* Only its key, which is written first.
Halfway(u) ==
    {[rev |-> e.rev, key |-> IF input[u].key # Absent THEN input[u].key ELSE e.key]
        : e \in expected[Of(u)]}

(***************************************************************************)
(* The update.                                                             *)
(***************************************************************************)

End(u, how) ==
    /\ pc' = [pc EXCEPT ![u] = how]
    /\ queue' = Tail(queue)
    /\ UNCHANGED <<input, before>>

Goto(u, where) ==
    /\ pc' = [pc EXCEPT ![u] = where]
    /\ UNCHANGED <<input, before, queue>>

\* The route accepts the input, and upsert() appends to the queue.
Submit(u) ==
    /\ up /\ pc[u] = "idle"
    /\ \E i \in Input : input' = [input EXCEPT ![u] = i]
    /\ pc' = [pc EXCEPT ![u] = "queued"]
    /\ queue' = Append(queue, u)
    /\ UNCHANGED <<up, fileVars, routeVars, before, restartDue, historyVars>>

\* Seeded fault: updates do not wait for each other.
BeginAtOnce(u) ==
    /\ up /\ pc[u] = "queued"
    /\ before' = [before EXCEPT ![u] = [config |-> config, key |-> secret[Of(u)]]]
    /\ pc' = [pc EXCEPT ![u] = IF input[u].key # Absent THEN "secret" ELSE "config"]
    /\ UNCHANGED <<up, fileVars, routeVars, input, queue, restartDue, historyVars>>

\* #upsert reads the configuration and what it may have to restore.
Begin(u) ==
    /\ up /\ pc[u] = "queued" /\ Head(queue) = u
    /\ before' = [before EXCEPT ![u] = [config |-> config, key |-> secret[Of(u)]]]
    /\ pc' = [pc EXCEPT ![u] = IF input[u].key # Absent THEN "secret" ELSE "config"]
    /\ UNCHANGED <<up, fileVars, routeVars, input, queue, restartDue, historyVars>>

\* The configuration cannot be read, or would be invalid: nothing has been written.
Refuse(u) ==
    /\ up /\ pc[u] = "queued" /\ Head(queue) = u
    /\ End(u, "failed")
    /\ UNCHANGED <<up, fileVars, routeVars, restartDue, historyVars>>

WriteSecret(u) ==
    /\ up /\ pc[u] = "secret"
    /\ secret' = [secret EXCEPT ![Of(u)] = input[u].key]
    /\ Goto(u, "config")
    /\ UNCHANGED <<up, config, routeVars, restartDue, historyVars>>

\* The whole file is written: what was read, with one declaration replaced.
WriteConfig(u) ==
    /\ up /\ pc[u] = "config"
    /\ config' = [before[u].config EXCEPT ![Of(u)] = input[u].rev]
    /\ Goto(u, "reload")
    /\ UNCHANGED <<up, secret, routeVars, restartDue, historyVars>>

\* The reload loads both files, serves them and probes.
Reload(u) ==
    /\ up /\ pc[u] = "reload"
    /\ ReplaceExternal(u, Loaded(config, secret))
    /\ Goto(u, "probe")
    /\ expected' = [expected EXCEPT ![Of(u)] = Applied(u)]
    /\ unrestored' = FALSE
    /\ UNCHANGED <<up, fileVars, restartDue, contested>>

\* A write or the load throws. mkdir, writeFile and rename of one file fail as one.
StepFails(u) ==
    /\ up /\ pc[u] \in {"secret", "config", "reload"}
    /\ Goto(u, "undo config")
    /\ UNCHANGED <<up, fileVars, routeVars, restartDue, historyVars>>

Probed(u) ==
    /\ up /\ pc[u] = "probe"
    /\ StoreProbe(u)
    /\ Goto(u, "list")
    /\ UNCHANGED <<up, fileVars, routing, restartDue, historyVars>>

\* list() finds the provider and the route answers with it; when list() throws, the route
\* answers that the update could not be applied, though it is.
Answer(u) ==
    /\ up /\ pc[u] = "list"
    /\ \/ End(u, "saved")
       \/ End(u, "failed")
    /\ UNCHANGED <<up, fileVars, routeVars, restartDue, historyVars>>

\* Seeded fault: the configuration is not restored.
UndoConfigOfNothing(u) ==
    /\ up /\ pc[u] = "undo config"
    /\ Goto(u, IF input[u].key # Absent THEN "undo secret" ELSE "undo reload")
    /\ UNCHANGED <<up, fileVars, routeVars, restartDue, historyVars>>

UndoConfig(u) ==
    /\ up /\ pc[u] = "undo config"
    /\ config' = before[u].config
    /\ Goto(u, IF input[u].key # Absent THEN "undo secret" ELSE "undo reload")
    /\ UNCHANGED <<up, secret, routeVars, restartDue, historyVars>>

\* Seeded fault: the key is not restored.
UndoSecretOfNothing(u) ==
    /\ up /\ pc[u] = "undo secret"
    /\ Goto(u, "undo reload")
    /\ UNCHANGED <<up, fileVars, routeVars, restartDue, historyVars>>

\* A file that was not there is removed again.
UndoSecret(u) ==
    /\ up /\ pc[u] = "undo secret"
    /\ secret' = [secret EXCEPT ![Of(u)] = before[u].key]
    /\ Goto(u, "undo reload")
    /\ UNCHANGED <<up, config, routeVars, restartDue, historyVars>>

\* A restore throws: the rest of the rollback is skipped.
UndoFails(u) ==
    /\ up /\ pc[u] \in {"undo config", "undo secret"}
    /\ End(u, "failed")
    /\ expected' = [expected EXCEPT ![Of(u)] = @ \cup Halfway(u) \cup Applied(u)]
    /\ unrestored' = TRUE
    /\ UNCHANGED <<up, fileVars, routeVars, restartDue, contested>>

UndoReload(u) ==
    /\ up /\ pc[u] = "undo reload"
    /\ ReplaceExternal(u, Loaded(config, secret))
    /\ Goto(u, "undo probe")
    /\ unrestored' = FALSE
    /\ UNCHANGED <<up, fileVars, restartDue, expected, contested>>

\* The second reload may throw too, which is ignored.
UndoReloadFails(u) ==
    /\ up /\ pc[u] = "undo reload"
    /\ End(u, "failed")
    /\ UNCHANGED <<up, fileVars, routeVars, restartDue, historyVars>>

UndoProbed(u) ==
    /\ up /\ pc[u] = "undo probe"
    /\ StoreProbe(u)
    /\ End(u, "failed")
    /\ UNCHANGED <<up, fileVars, routing, restartDue, historyVars>>

(***************************************************************************)
(* The operator, crash and restart.                                        *)
(***************************************************************************)

\* mytokenctl provider-set installs a key for a declared provider, beside the queue.
OperatorSetsKey(p, k) ==
    /\ config[p] # Absent /\ ~restartDue
    /\ secret' = [secret EXCEPT ![p] = k]
    /\ restartDue' = TRUE
    /\ IF \E u \in Update : pc[u] \in Running /\ Of(u) = p
       THEN /\ contested' = contested \cup {p}
            /\ UNCHANGED expected
       ELSE /\ contested' = contested \ {p}
            /\ expected' = [expected EXCEPT ![p] = {[rev |-> e.rev, key |-> k] : e \in @}]
    /\ UNCHANGED <<up, config, routeVars, updateVars, unrestored>>

\* The process starts: it loads the files and probes before it listens.
Serve ==
    LET routes == Loaded(config, secret)
    IN  /\ up' = TRUE
        /\ routing' = routes
        /\ probe' = NoProbes
        /\ cache' = [fresh |-> TRUE, of |-> routes, overtaken |-> FALSE]
        /\ restartDue' = FALSE
        /\ unrestored' = FALSE
        /\ UNCHANGED <<fileVars, updateVars, expected, contested>>

\* systemctl restart: shutdown() waits for the handlers under way.
OperatorRestart == up /\ queue = <<>> /\ Serve

\* What the crash leaves of the update that ran: nothing, its key, or all of it.
LeftByCrash(u) == expected[Of(u)] \cup Halfway(u) \cup Applied(u)

Crash ==
    /\ up
    /\ up' = FALSE
    /\ routing' = Nowhere
    /\ probe' = NoProbes
    /\ cache' = [fresh |-> FALSE, of |-> Nowhere, overtaken |-> FALSE]
    /\ pc' = [u \in Update |-> IF pc[u] \in {"queued"} \cup Running THEN "lost" ELSE pc[u]]
    /\ queue' = <<>>
    /\ expected' = [p \in Provider |->
                      expected[p] \cup UNION {LeftByCrash(u) : u \in
                        {v \in Update : /\ pc[v] \in {"config", "reload", "undo config", "undo secret"}
                                        /\ Of(v) = p}}]
    /\ UNCHANGED <<fileVars, input, before, restartDue, contested, unrestored>>

\* systemd restarts the API; when the load throws, it will again.
Restart == ~up /\ Serve

Step(u) ==
    \/ Submit(u) \/ Begin(u) \/ Refuse(u) \/ WriteSecret(u) \/ WriteConfig(u) \/ Reload(u)
    \/ StepFails(u) \/ Probed(u) \/ Answer(u)
    \/ UndoConfig(u) \/ UndoSecret(u) \/ UndoFails(u)
    \/ UndoReload(u) \/ UndoReloadFails(u) \/ UndoProbed(u)

Next ==
    \/ \E u \in Update : Step(u)
    \/ \E h \in Prober : StartProbe(h) \/ EndProbe(h)
    \/ CacheExpires
    \/ \E p \in Provider, k \in Key : OperatorSetsKey(p, k)
    \/ OperatorRestart \/ Crash \/ Restart

Spec == Init /\ [][Next]_vars

(***************************************************************************)
(* Properties.                                                             *)
(***************************************************************************)

\* What the API routes to is what its files say, whenever no update is between its first
\* write and the end of its reload: after a save, after a rollback, after a failed second
\* reload and after a restart. Two windows are the code's own: a key that mytokenctl has
\* written is not served before its restart, and when a restore fails the files keep what
\* the next load will serve (provider-management-service.ts 115-130).
ServedIsStored ==
    up /\ ~restartDue /\ ~unrestored
       /\ (\A u \in Update : pc[u] \notin {"config", "reload", "undo config", "undo secret", "undo reload"})
    => routing = Loaded(config, secret)

\* An update is all or nothing for the two files of its provider, and touches no other
\* provider: once it has ended, the files say what the last applied update asked for. The code
\* does not promise it when a crash or a failing restore interrupts an update: then its key
\* may stand with the declaration before it, as Halfway says, never its declaration with the
\* key before it. A key that the operator sets while an update of that provider runs is left
\* open (provider-management-service.ts 93-129).
UpdatesAtomic ==
    \A p \in Provider \ contested :
        (\A u \in Update : pc[u] \in Running => Of(u) # p)
        => [rev |-> config[p], key |-> secret[p]] \in expected[p]

\* A fresh probe result about another provider set than the one served comes from a probe
\* that was under way when the set was replaced, never from one that had ended
\* (multi-provider-backend.ts 36-44, 64-77).
StaleOnlyByOverlap ==
    cache.fresh /\ cache.of # routing => cache.overtaken
=============================================================================
