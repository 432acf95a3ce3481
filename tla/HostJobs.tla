------------------------------- MODULE HostJobs -------------------------------
(***************************************************************************)
(* The two jobs that the console may ask the host to run, and what they    *)
(* have in common with each other: the services.                           *)
(*   update   SystemUpdateService, mytoken-update-runner and install.sh    *)
(*   import   CodexImportService, mytokenctl codex-import and              *)
(*            mytoken-codex-import-runner                                  *)
(* The API publishes a request file; a systemd path unit starts the        *)
(* oneshot service whose runner takes it and reports in a status file.     *)
(*                                                                         *)
(* A script is a program counter, stage[j]. A stage names what runs; files *)
(* that a stage rewrites are "mixed" while it runs. A stage may fail, be   *)
(* terminated (the trap of the script runs) or be killed (nothing runs).   *)
(***************************************************************************)
EXTENDS Naturals

CONSTANTS
    Handler,    \* console requests to POST /system/update or /codex/import
    Version,    \* releases
    Installed,  \* the one that is installed at first
    Codex,      \* releases of the Codex CLI
    CodexOf,    \* the one that a release of ours needs: MYTOKEN_SUPPORTED_CODEX_VERSION
    Credential, \* contents of auth.json
    LoggedIn,   \* the one the service has at first
    MaxStops    \* bound: how often a script is terminated or killed, the host rebooted, a
                \* status not written, or what cleanup() does fails too

ASSUME HostAssumption ==
    /\ Installed \in Version
    /\ CodexOf \in [Version -> Codex]
    /\ LoggedIn \in Credential
    /\ "none" \notin Credential
    /\ Version \cap {"mixed", "off", "none"} = {}
    /\ MaxStops \in Nat

VARIABLES
    request,    \* the request file of a job exists
    status,     \* its status file; "idle" when there is none
    handler,    \* the job a console handler has read the status of, "none" before and after
    stage,      \* where the runner of a job is, "off" when none runs
    target,     \* the release an update installs, "none" when it is decided
    code,       \* the release in /opt/mytoken, with its units, mytokenctl and runners
    env,        \* the release in mytoken.env
    cli,        \* the Codex CLI of the host, installed globally
    backup,     \* what install.sh has saved of these, and which services ran
    svc,        \* the release a service runs, or "off"
    cred,       \* auth.json of the service
    offered,    \* the credential an import copies, "none" outside of it
    saved,      \* .auth.backup: the import's copy of the former credential, "none"
    was,        \* which services ran when the import began: its two flags
    changed,    \* destination_changed
    due,        \* history: the credential the last import should leave
    mute,       \* the jobs that stay "running": the runner died, or could not write its status
    cut,        \* history: jobs that stopped where their script does not undo the change
    disturbed,  \* history: services were left to a script cut short, or shared by two
    refused,    \* history: the worker has refused to start with the CLI there is
    stops       \* how often something happened that MaxStops bounds

fileVars == <<code, env, cli>>
services == <<svc, refused>>
importVars == <<offered, saved, was, changed>>
history == <<due, mute, cut, stops>>
vars == <<request, status, handler, stage, target, fileVars, backup, services, cred, importVars,
          history, disturbed>>

Job == {"update", "import"}
Service == {"worker", "api"}
Content == Version \cup {"mixed"}

\* From transaction_active=true to the end of the rollback.
Undoing == {"undo stop", "undo files", "undo env", "undo start"}
Building == {"checkout", "build"}
Deploying == {"env", "stop", "sync", "start", "verify"}
Installing == Deploying \cup Undoing
\* From the snapshot of the service flags to the end of cleanup().
Replacing == {"copy", "save", "move", "own", "login", "account", "health", "commit",
              "done", "restore", "cleanup"}
\* Where a change is in place, or may be, that the script does not yet want to keep.
Undone == Installing \cup {"own", "login", "account", "health", "commit", "restore"}
UpdateStage == {"off", "taken", "report success", "report failed"} \cup Building \cup Installing
ImportStage == {"off", "taken", "checks"} \cup Replacing

TypeOK ==
    /\ request \in [Job -> BOOLEAN]
    /\ status \in [Job -> {"idle", "running", "success", "failed"}]
    /\ handler \in [Handler -> Job \cup {"none"}]
    /\ DOMAIN stage = Job
    /\ stage["update"] \in UpdateStage /\ stage["import"] \in ImportStage
    /\ target \in Version \cup {"none"} /\ code \in Content /\ env \in Content
    /\ cli \in Codex
    /\ backup \in [code : Content, env : Content, ran : SUBSET Service]
    /\ svc \in [Service -> Content \cup {"off"}]
    /\ {cred, offered, saved, due} \subseteq Credential \cup {"none"}
    /\ was \in SUBSET Service /\ changed \in BOOLEAN
    /\ mute \in SUBSET Job /\ cut \in SUBSET Job /\ disturbed \in BOOLEAN /\ refused \in BOOLEAN
    /\ stops \in 0..MaxStops
    \* The API requires the worker.
    /\ svc["worker"] = "off" => svc["api"] = "off"

NoBackup == [code |-> "mixed", env |-> "mixed", ran |-> {}]

Init ==
    /\ request = [j \in Job |-> FALSE] /\ status = [j \in Job |-> "idle"]
    /\ handler = [h \in Handler |-> "none"]
    /\ stage = [j \in Job |-> "off"]
    /\ target = "none" /\ code = Installed /\ env = Installed
    /\ cli = CodexOf[Installed] /\ backup = NoBackup
    /\ svc = [s \in Service |-> Installed]
    /\ cred = LoggedIn /\ offered = "none" /\ saved = "none" /\ was = {} /\ changed = FALSE
    /\ due = LoggedIn /\ mute = {} /\ cut = {} /\ disturbed = FALSE /\ refused = FALSE
    /\ stops = 0

(***************************************************************************)
(* systemctl                                                               *)
(***************************************************************************)

Running == {s \in Service : svc[s] # "off"}
Stopped(names) ==
    [s \in Service |-> IF s \in names \/ (s = "api" /\ "worker" \in names)
                       THEN "off" ELSE svc[s]]
\* Seeded fault: the unit of the API does not require the worker.
StartedAlone(names, files) ==
    [s \in Service |-> IF s \in names /\ svc[s] = "off" THEN files ELSE svc[s]]
\* Starting the API starts the worker; what runs keeps what it has loaded.
Started(names, files) ==
    [s \in Service |-> IF (s \in names \/ (s = "worker" /\ "api" \in names)) /\ svc[s] = "off"
                       THEN files ELSE svc[s]]

\* The worker starts only with the CLI that its environment names (worker/src/main.ts 23-29).
Accepting == IF env = "mixed" THEN BOOLEAN ELSE {CodexOf[env] = cli}
\* One that refuses fails at its start limit, and the API that requires it with it.
Start(names) ==
    \E ok \in IF svc["worker"] = "off" THEN Accepting ELSE {TRUE} :
        /\ svc' = IF ok THEN Started(names, code) ELSE svc
        /\ refused' = (refused \/ (~ok /\ names # {}))

Goto(j, to) == stage' = [stage EXCEPT ![j] = to]
Mishap == stops < MaxStops /\ stops' = stops + 1
Report(j, what) ==
    /\ status' = [status EXCEPT ![j] = what]
    /\ mute' = mute \ {j}
Silence(jobs) == mute' = mute \cup {j \in jobs : status[j] = "running"}
\* A command of write_status() fails.
CannotReport(j) == Mishap /\ Silence({j}) /\ UNCHANGED status

\* The history of the services, for every step of a script: two at once disturb them, an
\* update that is verified, with no import under way, has both of them running.
Disturbs ==
    disturbed' = \/ stage'["update"] \in Installing /\ stage'["import"] \in Replacing
                 \/ /\ disturbed
                    /\ \/ stage["update"] # "verify" \/ stage'["update"] # "report success"
                       \/ stage["import"] \in Replacing

(***************************************************************************)
(* Requests, and the start of a runner.                                    *)
(***************************************************************************)

RequestOnly ==
    UNCHANGED <<status, stage, target, fileVars, backup, services, cred, importVars, history>>

\* requestUpdate and requestImport read the status and refuse while a job runs.
ReadStatus(h, j) ==
    /\ handler[h] = "none" /\ svc["api"] # "off"
    /\ status[j] # "running"
    /\ handler' = [handler EXCEPT ![h] = j]
    /\ RequestOnly /\ UNCHANGED request

\* link() publishes the request, or finds one that is pending and refuses.
LinkRequest(h) ==
    /\ handler[h] # "none"
    /\ request' = [request EXCEPT ![handler[h]] = TRUE]
    /\ handler' = [handler EXCEPT ![h] = "none"]
    /\ RequestOnly

\* mytokenctl codex-import asks without the status.
CliRequest ==
    /\ ~request["import"]
    /\ request' = [request EXCEPT !["import"] = TRUE]
    /\ RequestOnly /\ UNCHANGED handler

\* The path unit starts the service when it is not active, as does mytokenctl codex-import after
\* it has linked its request; flock; the runner removes the request.
Take(j) ==
    /\ request[j] /\ stage[j] = "off"
    /\ request' = [request EXCEPT ![j] = FALSE]
    /\ Goto(j, "taken")
    /\ UNCHANGED <<status, handler, target, fileVars, backup, services, cred, importVars, mute, stops>>

TakeUpdate == Take("update") /\ UNCHANGED <<due, cut>>
TakeImport == Take("import") /\ due' = cred /\ cut' = cut \ {"import"}

(***************************************************************************)
(* The update.                                                             *)
(***************************************************************************)

UpdateOnly == UNCHANGED <<request, handler, cred, importVars, due>>

\* The checks of the source and of the release pass.
BeginUpdate ==
    /\ stage["update"] = "taken"
    /\ \E v \in Version : target' = v
    /\ Report("update", "running")
    /\ Goto("update", "checkout")
    /\ UpdateOnly /\ UNCHANGED <<fileVars, backup, services, cut, stops>>

RefuseUpdate ==
    /\ stage["update"] = "taken"
    /\ Report("update", "failed")
    /\ Goto("update", "off")
    /\ UpdateOnly /\ UNCHANGED <<target, fileVars, backup, services, cut, stops>>

\* set -e: a command outside of a condition fails, for example git rev-list, or a write of
\* the status.
UpdateExits ==
    /\ stage["update"] = "taken"
    /\ Goto("update", "off")
    /\ UpdateOnly /\ UNCHANGED <<status, target, fileVars, backup, services, mute, cut, stops>>

\* install.sh begins with the CLI of the new release; npm, external, puts it in place whole.
InstallCli ==
    /\ stage["update"] = "checkout"
    /\ cli' = CodexOf[target]
    /\ Goto("update", "build")
    /\ UpdateOnly /\ UNCHANGED <<status, target, code, env, backup, services, mute, cut, stops>>

\* Seeded fault: the environment is not among what is saved.
SnapshotOfRuntime ==
    /\ stage["update"] = "build"
    /\ backup' = [code |-> code, env |-> target, ran |-> Running]
    /\ env' = "mixed"
    /\ Goto("update", "env")
    /\ UpdateOnly /\ UNCHANGED <<status, target, code, cli, services, mute, cut, stops>>

\* Build and tests have passed: install.sh saves what it will change, without the CLI that it
\* has changed already and that no failure takes back.
Snapshot ==
    /\ stage["update"] = "build"
    /\ backup' = [code |-> code, env |-> env, ran |-> Running]
    /\ env' = "mixed"
    /\ Goto("update", "env")
    /\ UpdateOnly /\ UNCHANGED <<status, target, code, cli, services, mute, cut, stops>>

EnvironmentSet ==
    /\ stage["update"] = "env"
    /\ env' = target
    /\ Goto("update", "stop")
    /\ UpdateOnly /\ UNCHANGED <<status, target, code, cli, backup, services, mute, cut, stops>>

\* The services stop, the database is copied, and the copy of the runtime begins.
StopForUpdate ==
    /\ stage["update"] = "stop"
    /\ svc' = Stopped(backup.ran)
    /\ code' = "mixed"
    /\ Goto("update", "sync")
    /\ UpdateOnly /\ UNCHANGED <<status, target, env, cli, backup, refused, mute, cut, stops>>

Synced ==
    /\ stage["update"] = "sync"
    /\ code' = target
    /\ Goto("update", "start")
    /\ UpdateOnly /\ UNCHANGED <<status, target, env, cli, backup, services, mute, cut, stops>>

\* systemctl restart, whether or not they run.
RestartServices ==
    /\ stage["update"] = "start"
    /\ \E ok \in Accepting :
        /\ svc' = [s \in Service |-> IF ok THEN code ELSE "off"]
        /\ refused' = (refused \/ ~ok)
    /\ Goto("update", "verify")
    /\ UpdateOnly /\ UNCHANGED <<status, target, fileVars, backup, mute, cut, stops>>

\* Health, and the release that the package, the environment, the API and the UI name.
Verified ==
    /\ stage["update"] = "verify"
    /\ svc["api"] = target /\ code = target /\ env = target
    /\ Goto("update", "report success")
    /\ target' = "none" /\ backup' = NoBackup
    /\ cut' = cut \ {"update"} /\ refused' = FALSE
    /\ UpdateOnly /\ UNCHANGED <<status, fileVars, svc, mute, stops>>

\* A command fails, or timeout ends install.sh: its EXIT trap rolls back.
InstallFails ==
    /\ stage["update"] \in Building \cup Deploying
    /\ Goto("update", IF stage["update"] \in Building THEN "report failed" ELSE "undo stop")
    /\ target' = "none"
    /\ UpdateOnly /\ UNCHANGED <<status, fileVars, backup, services, mute, cut, stops>>

UndoStop ==
    /\ stage["update"] = "undo stop"
    /\ svc' = Stopped(Service)
    /\ code' = "mixed"
    /\ Goto("update", "undo files")
    /\ UpdateOnly /\ UNCHANGED <<status, target, env, cli, backup, refused, mute, cut, stops>>

UndoFiles ==
    /\ stage["update"] = "undo files"
    /\ code' = backup.code
    /\ Goto("update", "undo env")
    /\ UpdateOnly /\ UNCHANGED <<status, target, env, cli, backup, services, mute, cut, stops>>

UndoEnvironment ==
    /\ stage["update"] = "undo env"
    /\ env' = backup.env
    /\ Goto("update", "undo start")
    /\ UpdateOnly /\ UNCHANGED <<status, target, code, cli, backup, services, mute, cut, stops>>

\* cleanup() runs with set +e: what it cannot put back it leaves, and goes on.
UndoFails ==
    /\ stage["update"] \in {"undo files", "undo env"}
    /\ Mishap
    /\ cut' = cut \cup {"update"}
    /\ Goto("update", IF stage["update"] = "undo files" THEN "undo env" ELSE "undo start")
    /\ UpdateOnly /\ UNCHANGED <<status, target, fileVars, backup, services, mute>>

\* Seeded fault: the worker is started, the API is forgotten.
UndoStartWorker ==
    /\ stage["update"] = "undo start"
    /\ Start(backup.ran \ {"api"})
    /\ backup' = NoBackup
    /\ Goto("update", "report failed")
    /\ UpdateOnly /\ UNCHANGED <<status, target, fileVars, mute, cut, stops>>

UndoStart ==
    /\ stage["update"] = "undo start"
    /\ Start(backup.ran)
    /\ backup' = NoBackup
    /\ Goto("update", "report failed")
    /\ UpdateOnly /\ UNCHANGED <<status, target, fileVars, mute, cut, stops>>

\* The runner reports, unless it was terminated and install.sh rolled back alone; or it ends
\* at a chmod or a write of the status that fails, under set -e.
ReportUpdate ==
    /\ stage["update"] \in {"report success", "report failed"}
    /\ Goto("update", "off")
    /\ \/ /\ "update" \notin mute
          /\ Report("update", IF stage["update"] = "report success" THEN "success" ELSE "failed")
          /\ UNCHANGED stops
       \/ "update" \notin mute /\ CannotReport("update")
       \/ "update" \in mute /\ UNCHANGED <<status, mute, stops>>
    /\ UpdateOnly /\ UNCHANGED <<target, fileVars, backup, services, cut>>

\* systemd stops the service (TimeoutStartSec, systemctl stop): the runner has no trap and
\* dies; install.sh rolls back what it has begun to deploy.
TerminateUpdate ==
    /\ stage["update"] \notin {"off"} \cup Undoing
    /\ Mishap
    /\ Goto("update", IF stage["update"] \in Deploying THEN "undo stop" ELSE "off")
    /\ target' = "none"
    /\ Silence({"update"})
    /\ UpdateOnly /\ UNCHANGED <<status, fileVars, backup, services, cut>>

\* The trap of TERM is armed in cleanup() too, and ends it where it is: at the end of
\* timeout 30m, after which the runner reports a failure, or when systemd stops them both.
TerminateRollback ==
    /\ stage["update"] \in Undoing
    /\ Mishap
    /\ \/ Goto("update", "report failed") /\ UNCHANGED mute
       \/ Goto("update", "off") /\ Silence({"update"})
    /\ cut' = IF stage["update"] = "undo start" THEN cut ELSE cut \cup {"update"}
    /\ backup' = NoBackup /\ disturbed' = TRUE
    /\ UpdateOnly /\ UNCHANGED <<status, target, fileVars, services>>

Update ==
    \/ BeginUpdate \/ RefuseUpdate \/ UpdateExits
    \/ InstallCli \/ Snapshot \/ EnvironmentSet \/ StopForUpdate \/ Synced
    \/ RestartServices \/ Verified \/ InstallFails
    \/ UndoStop \/ UndoFiles \/ UndoEnvironment \/ UndoFails \/ UndoStart
    \/ ReportUpdate \/ TerminateUpdate

(***************************************************************************)
(* The import.                                                             *)
(***************************************************************************)

ImportOnly == UNCHANGED <<request, handler, target, fileVars, backup>>

BeginImport ==
    /\ stage["import"] = "taken"
    /\ Report("import", "running")
    /\ Goto("import", "checks")
    /\ ImportOnly /\ UNCHANGED <<services, cred, importVars, due, cut, stops>>

\* The request is invalid, or a check before the trap is set fails.
RefuseImport ==
    /\ stage["import"] \in {"taken", "checks"}
    /\ Report("import", "failed")
    /\ Goto("import", "off")
    /\ ImportOnly /\ UNCHANGED <<services, cred, importVars, due, cut, stops>>

\* The paths are safe: the flags are read and the trap is set.
Checked ==
    /\ stage["import"] = "checks"
    /\ was' = Running
    /\ Goto("import", "copy")
    /\ ImportOnly /\ UNCHANGED <<status, services, cred, offered, saved, changed, history>>

\* copy-codex-auth.mjs copies what the source user has, while it does not change; the
\* services stop.
CopyAndStop ==
    /\ stage["import"] = "copy"
    /\ \E c \in Credential : offered' = c
    /\ svc' = Stopped(was)
    /\ Goto("import", "save")
    /\ ImportOnly /\ UNCHANGED <<status, refused, cred, saved, was, changed, history>>

\* The backup; nothing to save when the service has no login.
SaveCredential ==
    /\ stage["import"] = "save"
    /\ saved' = cred
    /\ Goto("import", "move")
    /\ ImportOnly /\ UNCHANGED <<status, services, cred, offered, was, changed, history>>

MoveCredential ==
    /\ stage["import"] = "move"
    /\ cred' = offered
    /\ Goto("import", "own")
    /\ ImportOnly /\ UNCHANGED <<status, services, importVars, history>>

\* chown, chmod, and only then the flag.
MarkChanged ==
    /\ stage["import"] = "own"
    /\ changed' = TRUE
    /\ Goto("import", "login")
    /\ ImportOnly /\ UNCHANGED <<status, services, cred, offered, saved, was, history>>

\* codex login status accepts it; the worker is started to ask for the account.
LoginAccepted ==
    /\ stage["import"] = "login"
    /\ Start(was \cap {"worker"})
    /\ Goto("import", IF "worker" \in was THEN "account" ELSE "health")
    /\ ImportOnly /\ UNCHANGED <<status, cred, importVars, history>>

AccountReady ==
    /\ stage["import"] = "account"
    /\ svc["worker"] # "off"
    /\ Goto("import", "health")
    /\ ImportOnly /\ UNCHANGED <<status, services, cred, importVars, history>>

\* The API is started, and healthy, if it ran before.
ApiHealthy ==
    /\ stage["import"] = "health"
    /\ Start(was \cap {"api"})
    /\ "api" \in was => svc'["api"] # "off"
    /\ changed' = FALSE
    /\ Goto("import", "commit")
    /\ ImportOnly /\ UNCHANGED <<status, cred, offered, saved, was, history>>

ReportImported ==
    /\ stage["import"] = "commit"
    /\ saved' = "none" /\ due' = offered
    /\ Report("import", "success")
    /\ Goto("import", "done")
    /\ ImportOnly /\ UNCHANGED <<services, cred, offered, was, changed, cut, stops>>

\* The script ends; cleanup() finds no failure.
EndImport ==
    /\ stage["import"] = "done"
    /\ offered' = "none" /\ was' = {}
    /\ Goto("import", "off")
    /\ ImportOnly /\ UNCHANGED <<status, services, cred, saved, changed, history>>

AfterImportFailure == IF changed THEN "restore" ELSE "cleanup"

\* A check fails: fail() reports, or cannot and leaves it at that; its exit runs cleanup().
ImportRefused ==
    /\ stage["import"] \in {"copy", "login", "account", "health"}
    /\ offered' = "none"
    /\ \/ Report("import", "failed") /\ UNCHANGED stops
       \/ CannotReport("import")
    /\ Goto("import", AfterImportFailure)
    /\ ImportOnly /\ UNCHANGED <<services, cred, saved, was, changed, due, cut>>

\* A command fails under set -e, or the script is terminated: cleanup() reports at its end.
\* In three stages the credential is in place and not marked, or no longer marked.
ImportBreaks ==
    /\ stage["import"] \in Replacing \ {"restore", "cleanup"}
    /\ offered' = "none"
    /\ Goto("import", AfterImportFailure)
    /\ cut' = IF stage["import"] \in {"own", "commit", "done"} THEN cut \cup {"import"} ELSE cut
    /\ ImportOnly /\ UNCHANGED <<status, services, cred, saved, was, changed, due, mute, stops>>

\* Seeded fault: the services are stopped and the credential is left.
RestoreNothing ==
    /\ stage["import"] = "restore"
    /\ svc' = Stopped(Service)
    /\ Goto("import", "cleanup")
    /\ ImportOnly /\ UNCHANGED <<status, refused, cred, importVars, history>>

\* Without a backup there was no credential.
RestoreCredential ==
    /\ stage["import"] = "restore"
    /\ svc' = Stopped(Service)
    /\ cred' = saved
    /\ Goto("import", "cleanup")
    /\ ImportOnly /\ UNCHANGED <<status, refused, importVars, history>>

\* cleanup() runs with set +e: mv fails, and the backup is removed all the same.
RestoreFails ==
    /\ stage["import"] = "restore"
    /\ Mishap
    /\ svc' = Stopped(Service)
    /\ cut' = cut \cup {"import"}
    /\ Goto("import", "cleanup")
    /\ ImportOnly /\ UNCHANGED <<status, refused, cred, importVars, due, mute>>

\* Seeded fault: a failure that nobody reported is not reported at the end either.
CleanUpSilently ==
    /\ stage["import"] = "cleanup"
    /\ Start(was)
    /\ saved' = "none" /\ was' = {} /\ changed' = FALSE
    /\ Goto("import", "off")
    /\ ImportOnly /\ UNCHANGED <<status, cred, offered, history>>

\* fail() has not tried: failure_reported is false.
ToReport == status["import"] # "failed" /\ "import" \notin mute

\* The copies are removed, the services started; what fail() has not reported is, if the
\* status can be written.
CleanUpImport ==
    /\ stage["import"] = "cleanup"
    /\ Start(was)
    /\ saved' = "none" /\ was' = {} /\ changed' = FALSE
    /\ \/ ToReport /\ Report("import", "failed") /\ UNCHANGED stops
       \/ ToReport /\ CannotReport("import")
       \/ ~ToReport /\ UNCHANGED <<status, mute, stops>>
    /\ Goto("import", "off")
    /\ ImportOnly /\ UNCHANGED <<cred, offered, due, cut>>

\* The trap of TERM is armed in cleanup() too, and ends it where it is.
TerminateCleanUp ==
    /\ stage["import"] \in {"restore", "cleanup"}
    /\ Mishap
    /\ saved' = "none" /\ was' = {} /\ changed' = FALSE
    /\ Silence({"import"}) /\ disturbed' = TRUE
    /\ cut' = IF stage["import"] = "restore" THEN cut \cup {"import"} ELSE cut
    /\ Goto("import", "off")
    /\ ImportOnly /\ UNCHANGED <<status, services, cred, offered, due>>

\* A command fails under set -e, or the script is terminated, before the trap is set.
ImportExits ==
    /\ stage["import"] \in {"taken", "checks"}
    /\ Goto("import", "off")
    /\ Silence({"import"})
    /\ ImportOnly /\ UNCHANGED <<status, services, cred, importVars, due, cut, stops>>

Import ==
    \/ BeginImport \/ RefuseImport \/ Checked \/ CopyAndStop \/ SaveCredential
    \/ MoveCredential \/ MarkChanged \/ LoginAccepted \/ AccountReady \/ ApiHealthy
    \/ ReportImported \/ EndImport \/ ImportRefused \/ ImportBreaks
    \/ RestoreCredential \/ RestoreFails \/ CleanUpImport \/ ImportExits

(***************************************************************************)
(* Kill and reboot: no trap runs, the memory of the scripts is gone.       *)
(***************************************************************************)

Die(jobs) ==
    /\ Mishap
    /\ stage' = [j \in Job |-> IF j \in jobs THEN "off" ELSE stage[j]]
    /\ Silence(jobs)
    /\ cut' = cut \cup {j \in jobs : stage[j] \in Undone}
    /\ "update" \in jobs => target' = "none" /\ backup' = NoBackup
    /\ "update" \notin jobs => UNCHANGED <<target, backup>>
    /\ "import" \in jobs => offered' = "none" /\ saved' = "none" /\ was' = {} /\ changed' = FALSE
    /\ "import" \notin jobs => UNCHANGED importVars
    /\ UNCHANGED <<request, status, fileVars, cred, due>>

\* SIGKILL of the service.
Kill(j) ==
    /\ stage[j] # "off"
    /\ Die({j})
    /\ disturbed' = (disturbed \/ stage[j] \in Installing \cup Replacing)
    /\ UNCHANGED <<handler, services>>

\* Power is lost; at boot the enabled services start with what the files are.
Reboot ==
    /\ Die({j \in Job : stage[j] # "off"})
    /\ handler' = [h \in Handler |-> "none"]
    /\ \E ok \in Accepting :
        /\ svc' = [s \in Service |-> IF ok THEN code ELSE "off"]
        /\ refused' = ~ok
    /\ disturbed' = FALSE

Next ==
    \/ /\ \/ \E h \in Handler : LinkRequest(h) \/ \E j \in Job : ReadStatus(h, j)
          \/ CliRequest \/ TakeUpdate \/ TakeImport
          \/ Update \/ Import
       /\ Disturbs
    \/ TerminateRollback \/ TerminateCleanUp
    \/ \E j \in Job : Kill(j)
    \/ Reboot

Spec == Init /\ [][Next]_vars

(***************************************************************************)
(* Properties.                                                             *)
(***************************************************************************)

\* Between installations the runtime, the units and the release-derived environment are of
\* one version, after a success and after a failure at any stage alike: README.md:100
\* calls them one rollback unit. Not so when nothing finishes the rollback, until an
\* update succeeds: after a kill, a TERM that reaches cleanup() itself, or a copy back that
\* fails under its set +e (install.sh 73-165, 310-471).
OneVersion ==
    stage["update"] \notin Installing /\ "update" \notin cut
    => code \in Version /\ env = code

\* A script that fails anywhere reports it: its status says running only while a runner is
\* there to change it. The exceptions are a runner that was killed or terminated, an import
\* that ends before it has set its trap, and a write of the status that fails itself; after
\* them every console request is refused
\* (system-update-service.ts 159-162, codex-import-service.ts 56-62).
RunningHasRunner ==
    \A j \in Job : status[j] = "running" => stage[j] # "off" \/ j \in mute

\* An import replaces the credential when it reports success and otherwise leaves the
\* former one (OPERATIONS.md:48). Not so in three windows of the script (between mv and
\* destination_changed=true, between destination_changed=false and the report, and between
\* the report and the end), nor when it is killed, or terminated in cleanup() before the
\* former one is back, or mv fails there (mytoken-codex-import-runner 113-155, 205-209).
ImportAllOrNothing ==
    stage["import"] = "off" /\ "import" \notin cut => cred = due

\* When no script runs, both services run the installed release, though every script stops
\* them and may fail anywhere. Excluded are a script that was killed, or terminated in
\* cleanup(), an import that overlaps an installation, which share the services without a
\* lock, and a worker that has refused the CLI which a failed update left behind
\* (install.sh 64, 138-139, 330-338, 364, 413-419; mytoken-codex-import-runner 108-128).
ServicesComeBack ==
    /\ stage["update"] \notin Installing /\ stage["import"] \notin Replacing
    /\ ~disturbed /\ ~refused
    => \A s \in Service : svc[s] = code
=============================================================================
