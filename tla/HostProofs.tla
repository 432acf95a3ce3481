------------------------------ MODULE HostProofs ------------------------------
(***************************************************************************)
(* What HostJobs guarantees for every set of handlers, releases and        *)
(* credentials and for any number of stops: its types, a status that some  *)
(* runner will change, one version of what an update installs, a           *)
(* credential that is replaced or left, and services that come back.       *)
(***************************************************************************)
EXTENDS HostJobs, TLAPS

-----------------------------------------------------------------------------
(* The inductive invariant *)

\* An update knows what it installs until it undoes it.
TargetKnown == stage["update"] \in Building \cup Deploying => target \in Version

Typed == TypeOK /\ TargetKnown

\* A runner that has only just been taken has not written the status yet; one that is done
\* has.
StatusKept ==
    \A j \in Job : status[j] = "running" => stage[j] \notin {"off", "taken", "done"} \/ j \in mute

\* What install.sh has saved is one version, and an undo puts it back file by file.
VersionKept ==
    "update" \notin cut =>
        /\ stage["update"] \notin Installing => code \in Version /\ env = code
        /\ stage["update"] \in Installing => backup.code \in Version /\ backup.env = backup.code
        /\ stage["update"] \in {"undo env", "undo start"} => code = backup.code
        /\ stage["update"] = "undo start" => env = backup.env

\* Where the former credential and the new one are at each stage of an import.
Marked == {"login", "account", "health"}
CredentialKept ==
    /\ changed => stage["import"] \in Marked \cup {"restore", "cleanup"}
    /\ stage["import"] \in Marked => changed
    /\ stage["import"] \in {"taken", "checks", "copy", "save"} => cred = due
    /\ stage["import"] = "move" => cred = due /\ saved = due
    /\ stage["import"] \in {"own"} \cup Marked => saved = due
    /\ stage["import"] \in {"own", "commit"} \cup Marked => cred = offered
    /\ stage["import"] = "done" => cred = due
    /\ stage["import"] = "restore" => saved = due
    /\ stage["import"] \in {"off", "cleanup"} /\ "import" \notin cut => cred = due

\* Undisturbed, the script that stops the services knows that both were running, and no
\* service runs anything else than what it will be started with again.
AllRun == \A s \in Service : svc[s] = code
NoneRuns == \A s \in Service : svc[s] = "off"
OnlyCode == \A s \in Service : svc[s] \in {code, "off"}
ServicesKept ==
    /\ stage["update"] \in Installing /\ stage["import"] \in Replacing => disturbed
    /\ stage["update"] = "verify" => OnlyCode
    /\ ~disturbed /\ ~refused =>
        /\ stage["update"] \notin Installing /\ stage["import"] \notin Replacing => AllRun
        /\ stage["update"] \in Installing => backup.ran = Service
        /\ stage["update"] \in {"undo files", "undo env", "undo start"} => NoneRuns
        /\ stage["import"] \in Replacing => was = Service /\ OnlyCode
        /\ stage["import"] \in {"commit", "done"} => AllRun

-----------------------------------------------------------------------------
(* Scripts and services *)

LEMMA Gone ==
    ASSUME TypeOK, NEW j \in Job, NEW to, Goto(j, to)
    PROVE  DOMAIN stage' = Job /\ stage'[j] = to /\ \A k \in Job \ {j} : stage'[k] = stage[k]
BY DEF TypeOK, Goto

LEMMA StagesDiffer ==
    /\ \A to \in Deploying : to \notin Undoing
    /\ \A to \in Installing : to \notin {"off", "taken", "checkout", "build", "report success",
                                "report failed"}
    /\ \A to \in Replacing : to \notin {"off", "taken", "checks"}
BY DEF Deploying, Undoing, Installing, Replacing

LEMMA ContentsRun == "off" \notin Content /\ "none" \notin Content
BY HostAssumption DEF Content

\* What systemctl makes of services that are typed and whose API has its worker.
Coupled(units) ==
    /\ units \in [Service -> Content \cup {"off"}]
    /\ units["worker"] = "off" => units["api"] = "off"

LEMMA StoppedCoupled ==
    ASSUME Coupled(svc), NEW names PROVE Coupled(Stopped(names))
BY DEF Coupled, Stopped, Service

LEMMA StartedCoupled ==
    ASSUME Coupled(svc), NEW names, NEW files \in Content PROVE Coupled(Started(names, files))
BY ContentsRun DEF Coupled, Started, Service

LEMMA StartCoupled ==
    ASSUME Coupled(svc), code \in Content, refused \in BOOLEAN, NEW names, Start(names)
    PROVE  Coupled(svc') /\ refused' \in BOOLEAN
<1>1. svc' = svc \/ svc' = Started(names, code)
    BY DEF Start
<1>2. refused' \in BOOLEAN
    BY DEF Start
<1> QED
    BY <1>1, <1>2, StartedCoupled

LEMMA AcceptingTruth == Accepting \subseteq BOOLEAN
BY DEF Accepting

\* One that is not refused is as before.
LEMMA StartedUnrefused ==
    ASSUME Coupled(svc), NEW names, Start(names)
    PROVE  /\ ~refused' => ~refused
           /\ ~refused' => svc' = Started(names, code)
           /\ svc' = svc \/ svc' = Started(names, code)
<1>1. PICK ok \in IF svc["worker"] = "off" THEN Accepting ELSE {TRUE} :
          /\ svc' = IF ok THEN Started(names, code) ELSE svc
          /\ refused' = (refused \/ (~ok /\ names # {}))
    BY DEF Start
<1>2. ok \in BOOLEAN
    BY AcceptingTruth
<1>3. CASE ok
    BY <1>1, <1>3
<1>4. CASE ~ok
  <2>1. names = {} => Started(names, code) = svc'
    <3>1. ASSUME names = {} PROVE Started(names, code) = [s \in Service |-> svc[s]]
        BY <3>1 DEF Started
    <3>2. svc = [s \in Service |-> svc[s]]
        BY DEF Coupled
    <3> QED
        BY <1>1, <1>4, <3>1, <3>2
  <2> QED
      BY <1>1, <1>4, <2>1
<1> QED
    BY <1>2, <1>3, <1>4

\* Stopping and starting what only runs the installed code.
LEMMA StoppedAll == Stopped(Service) = [s \in Service |-> "off"]
BY DEF Stopped

LEMMA OnlyCodeStopped ==
    ASSUME OnlyCode, NEW names PROVE \A s \in Service : Stopped(names)[s] \in {code, "off"}
BY DEF OnlyCode, Stopped

LEMMA OnlyCodeStarted ==
    ASSUME OnlyCode, NEW names
    PROVE  /\ \A s \in Service : Started(names, code)[s] \in {code, "off"}
           /\ "api" \in names => \A s \in Service : Started(names, code)[s] = code
BY DEF OnlyCode, Started, Service

-----------------------------------------------------------------------------
(* Types *)

LEMMA InitTyped == Init => Typed
<1> SUFFICES ASSUME Init PROVE Typed
    OBVIOUS
<1>1. /\ request \in [Job -> BOOLEAN] /\ status \in [Job -> {"idle", "running", "success", "failed"}]
      /\ handler \in [Handler -> Job \cup {"none"}]
      /\ DOMAIN stage = Job /\ \A j \in Job : stage[j] = "off"
    BY DEF Init
<1>2. "update" \in Job /\ "import" \in Job
    BY DEF Job
<1>3. stage["update"] \in UpdateStage /\ stage["import"] \in ImportStage
    BY <1>1, <1>2 DEF UpdateStage, ImportStage
<1>4. Installed \in Content /\ "mixed" \in Content
    BY HostAssumption DEF Content
<1>5. backup \in [code : Content, env : Content, ran : SUBSET Service]
    BY <1>4 DEF Init, NoBackup
<1>6. svc \in [Service -> Content \cup {"off"}] /\ svc["worker"] # "off"
    BY <1>4, ContentsRun DEF Init, Service
<1>c. cli \in Codex /\ refused \in BOOLEAN
    BY HostAssumption DEF Init
<1>7. {cred, offered, saved, due} \subseteq Credential \cup {"none"}
    BY HostAssumption DEF Init
<1>8. stops \in 0..MaxStops
    BY HostAssumption DEF Init
<1>9. TypeOK
    BY <1>1, <1>3, <1>4, <1>5, <1>6, <1>c, <1>7, <1>8 DEF Init, TypeOK
<1>10. TargetKnown
    BY <1>1, <1>2, StagesDiffer DEF TargetKnown, Building, Installing
<1> QED
    BY <1>9, <1>10 DEF Typed

RequestsTyped ==
    /\ request \in [Job -> BOOLEAN]
    /\ handler \in [Handler -> Job \cup {"none"}]
StagesTyped ==
    /\ status \in [Job -> {"idle", "running", "success", "failed"}]
    /\ DOMAIN stage = Job
    /\ stage["update"] \in UpdateStage /\ stage["import"] \in ImportStage
    /\ mute \in SUBSET Job
FilesTyped ==
    /\ target \in Version \cup {"none"} /\ code \in Content /\ env \in Content
    /\ cli \in Codex /\ refused \in BOOLEAN
    /\ backup \in [code : Content, env : Content, ran : SUBSET Service]
    /\ Coupled(svc)
CredentialsTyped ==
    /\ {cred, offered, saved, due} \subseteq Credential \cup {"none"}
    /\ was \in SUBSET Service /\ changed \in BOOLEAN
RestTyped == cut \in SUBSET Job /\ disturbed \in BOOLEAN /\ stops \in 0..MaxStops

LEMMA TypesAreParts ==
    TypeOK <=> RequestsTyped /\ StagesTyped /\ FilesTyped /\ CredentialsTyped /\ RestTyped
BY DEF TypeOK, RequestsTyped, StagesTyped, FilesTyped, CredentialsTyped, RestTyped, Coupled

LEMMA TypesArePartsNext ==
    TypeOK' <=> RequestsTyped' /\ StagesTyped' /\ FilesTyped' /\ CredentialsTyped' /\ RestTyped'
BY DEF TypeOK, RequestsTyped, StagesTyped, FilesTyped, CredentialsTyped, RestTyped, Coupled

LEMMA JobsAre == "update" \in Job /\ "import" \in Job /\ \A j \in Job : j \in {"update", "import"}
BY DEF Job

\* A script goes on, and may report.
LEMMA GotoTyped ==
    ASSUME StagesTyped, NEW j \in Job, NEW to, Goto(j, to),
           j = "update" => to \in UpdateStage, j = "import" => to \in ImportStage,
           \/ UNCHANGED status /\ mute' \in SUBSET Job
           \/ \E what \in {"running", "success", "failed"} : Report(j, what)
    PROVE  StagesTyped'
<1>1. DOMAIN stage' = Job /\ stage'["update"] \in UpdateStage /\ stage'["import"] \in ImportStage
    BY JobsAre DEF StagesTyped, Goto
<1>2. status' \in [Job -> {"idle", "running", "success", "failed"}] /\ mute' \in SUBSET Job
    BY DEF StagesTyped, Report
<1> QED
    BY <1>1, <1>2 DEF StagesTyped

LEMMA UpdateStagesTyped == ASSUME StagesTyped, Update PROVE StagesTyped'
<1> USE JobsAre, GotoTyped DEF UpdateStage, Building, Installing, Deploying, Undoing, CannotReport, Silence
<1>1. CASE BeginUpdate
    BY <1>1 DEF BeginUpdate, StagesTyped
<1>2. CASE RefuseUpdate
    BY <1>2 DEF RefuseUpdate, StagesTyped
<1>3. CASE UpdateExits
    BY <1>3 DEF UpdateExits, StagesTyped
<1>4. CASE Snapshot
    BY <1>4 DEF Snapshot, StagesTyped
<1>5. CASE EnvironmentSet
    BY <1>5 DEF EnvironmentSet, StagesTyped
<1>6. CASE StopForUpdate
    BY <1>6 DEF StopForUpdate, StagesTyped
<1>7. CASE Synced
    BY <1>7 DEF Synced, StagesTyped
<1>8. CASE RestartServices
    BY <1>8 DEF RestartServices, StagesTyped
<1>9. CASE Verified
    BY <1>9 DEF Verified, StagesTyped
<1>10. CASE InstallFails
    BY <1>10 DEF InstallFails, StagesTyped
<1>11. CASE UndoStop
    BY <1>11 DEF UndoStop, StagesTyped
<1>12. CASE UndoFiles
    BY <1>12 DEF UndoFiles, StagesTyped
<1>13. CASE UndoEnvironment
    BY <1>13 DEF UndoEnvironment, StagesTyped
<1>14. CASE UndoStart
    BY <1>14 DEF UndoStart, StagesTyped
<1>15. CASE ReportUpdate
    BY <1>15 DEF ReportUpdate, StagesTyped
<1>16. CASE TerminateUpdate
    BY <1>16 DEF TerminateUpdate, StagesTyped
<1>17. CASE InstallCli
    BY <1>17 DEF InstallCli, StagesTyped
<1>18. CASE UndoFails
    BY <1>18 DEF UndoFails, StagesTyped
<1> QED
    BY <1>1, <1>2, <1>3, <1>4, <1>5, <1>6, <1>7, <1>8, <1>9, <1>10, <1>11, <1>12, <1>13, <1>14, <1>15, <1>16, <1>17, <1>18 DEF Update

LEMMA UpdateFilesTyped ==
    ASSUME FilesTyped, TargetKnown, Update PROVE FilesTyped'
<1> USE DEF FilesTyped, TargetKnown, Building, Goto, fileVars, services
<1>0. /\ \A names : Coupled(Stopped(names))
      /\ \A names : Start(names) => Coupled(svc') /\ refused' \in BOOLEAN
      /\ \A ok \in Accepting : /\ Coupled([s \in Service |-> IF ok THEN code ELSE "off"])
                                /\ (refused \/ ~ok) \in BOOLEAN
      /\ Running \subseteq Service /\ Version \subseteq Content /\ "mixed" \in Content
      /\ NoBackup \in [code : Content, env : Content, ran : SUBSET Service]
  <2>1. Running \subseteq Service /\ Version \subseteq Content /\ "mixed" \in Content
      BY DEF Running, Content
  <2>2. \A ok \in BOOLEAN : Coupled([s \in Service |-> IF ok THEN code ELSE "off"])
      BY ContentsRun DEF Coupled, Service
  <2>3. \A ok : (refused \/ ~ok) \in BOOLEAN
      OBVIOUS
  <2>4. \A names : Coupled(Stopped(names))
      BY StoppedCoupled
  <2>5. \A names : Start(names) => Coupled(svc') /\ refused' \in BOOLEAN
      BY StartCoupled
  <2> QED
      BY <2>1, <2>2, <2>3, <2>4, <2>5, AcceptingTruth DEF NoBackup
<1>1. CASE BeginUpdate
    BY <1>1, <1>0 DEF BeginUpdate, Deploying, UpdateOnly
<1>2. CASE RefuseUpdate
    BY <1>2, <1>0 DEF RefuseUpdate, Deploying, UpdateOnly
<1>3. CASE UpdateExits
    BY <1>3, <1>0 DEF UpdateExits, Deploying, UpdateOnly
<1>4. CASE Snapshot
    BY <1>4, <1>0 DEF Snapshot, Deploying, UpdateOnly
<1>5. CASE EnvironmentSet
    BY <1>5, <1>0 DEF EnvironmentSet, Deploying, UpdateOnly
<1>6. CASE StopForUpdate
    BY <1>6, <1>0 DEF StopForUpdate, Deploying, UpdateOnly
<1>7. CASE Synced
    BY <1>7, <1>0 DEF Synced, Deploying, UpdateOnly
<1>8. CASE RestartServices
    BY <1>8, <1>0 DEF RestartServices, Deploying, UpdateOnly
<1>9. CASE Verified
    BY <1>9, <1>0 DEF Verified, Deploying, UpdateOnly
<1>10. CASE InstallFails
    BY <1>10, <1>0 DEF InstallFails, Deploying, UpdateOnly
<1>11. CASE UndoStop
    BY <1>11, <1>0 DEF UndoStop, Deploying, UpdateOnly
<1>12. CASE UndoFiles
    BY <1>12, <1>0 DEF UndoFiles, Deploying, UpdateOnly
<1>13. CASE UndoEnvironment
    BY <1>13, <1>0 DEF UndoEnvironment, Deploying, UpdateOnly
<1>14. CASE UndoStart
    BY <1>14, <1>0 DEF UndoStart, Deploying, UpdateOnly
<1>15. CASE ReportUpdate
    BY <1>15, <1>0 DEF ReportUpdate, Deploying, UpdateOnly
<1>16. CASE TerminateUpdate
    BY <1>16, <1>0 DEF TerminateUpdate, Deploying, UpdateOnly
<1>17. CASE InstallCli
    BY <1>17, <1>0, HostAssumption DEF InstallCli, Deploying, UpdateOnly
<1>18. CASE UndoFails
    BY <1>18, <1>0 DEF UndoFails, Deploying, UpdateOnly
<1> QED
    BY <1>1, <1>2, <1>3, <1>4, <1>5, <1>6, <1>7, <1>8, <1>9, <1>10, <1>11, <1>12, <1>13, <1>14, <1>15, <1>16, <1>17, <1>18 DEF Update

LEMMA UpdateKeepsTarget ==
    ASSUME StagesTyped, TargetKnown, Update PROVE TargetKnown'
<1> USE JobsAre DEF StagesTyped, TargetKnown, Goto, Building, Deploying
<1>1. CASE BeginUpdate
    BY <1>1 DEF BeginUpdate, Undoing
<1>2. CASE RefuseUpdate
    BY <1>2 DEF RefuseUpdate, Undoing
<1>3. CASE UpdateExits
    BY <1>3 DEF UpdateExits, Undoing
<1>4. CASE Snapshot
    BY <1>4 DEF Snapshot, Undoing
<1>5. CASE EnvironmentSet
    BY <1>5 DEF EnvironmentSet, Undoing
<1>6. CASE StopForUpdate
    BY <1>6 DEF StopForUpdate, Undoing
<1>7. CASE Synced
    BY <1>7 DEF Synced, Undoing
<1>8. CASE RestartServices
    BY <1>8 DEF RestartServices, Undoing
<1>9. CASE Verified
    BY <1>9 DEF Verified, Undoing
<1>10. CASE InstallFails
    BY <1>10 DEF InstallFails, Undoing
<1>11. CASE UndoStop
    BY <1>11 DEF UndoStop, Undoing
<1>12. CASE UndoFiles
    BY <1>12 DEF UndoFiles, Undoing
<1>13. CASE UndoEnvironment
    BY <1>13 DEF UndoEnvironment, Undoing
<1>14. CASE UndoStart
    BY <1>14 DEF UndoStart, Undoing
<1>15. CASE ReportUpdate
    BY <1>15 DEF ReportUpdate, Undoing
<1>16. CASE TerminateUpdate
    BY <1>16 DEF TerminateUpdate, Undoing
<1>17. CASE InstallCli
    BY <1>17 DEF InstallCli, Undoing
<1>18. CASE UndoFails
    BY <1>18 DEF UndoFails, Undoing
<1> QED
    BY <1>1, <1>2, <1>3, <1>4, <1>5, <1>6, <1>7, <1>8, <1>9, <1>10, <1>11, <1>12, <1>13, <1>14, <1>15, <1>16, <1>17, <1>18 DEF Update

LEMMA MishapCounted ==
    ASSUME stops \in 0..MaxStops, stops' = stops \/ Mishap PROVE stops' \in 0..MaxStops
<1>1. MaxStops \in Nat
    BY HostAssumption
<1>2. CASE Mishap
    BY <1>1, <1>2 DEF Mishap
<1> QED
    BY <1>2

LEMMA UpdateStops ==
    ASSUME stops \in 0..MaxStops, Update PROVE stops' \in 0..MaxStops
<1>1. stops' = stops \/ Mishap
    BY DEF Update, InstallCli, UndoFails, BeginUpdate, RefuseUpdate, UpdateExits, Snapshot,
           EnvironmentSet, StopForUpdate, Synced, RestartServices, Verified, InstallFails,
           UndoStop, UndoFiles, UndoEnvironment, UndoStart, ReportUpdate, TerminateUpdate,
           CannotReport
<1> QED
    BY <1>1, MishapCounted

LEMMA UpdateTyped ==
    ASSUME Typed, Update, disturbed' \in BOOLEAN PROVE Typed'
<1>1. StagesTyped' /\ FilesTyped' /\ TargetKnown'
    BY TypesAreParts, UpdateStagesTyped, UpdateFilesTyped, UpdateKeepsTarget DEF Typed
<1>2. RequestsTyped' /\ CredentialsTyped'
  <2>1. UpdateOnly
      BY DEF Update, InstallCli, UndoFails, BeginUpdate, RefuseUpdate, UpdateExits, Snapshot, EnvironmentSet,
             StopForUpdate, Synced, RestartServices, Verified, InstallFails, UndoStop, UndoFiles,
             UndoEnvironment, UndoStart, ReportUpdate, TerminateUpdate
  <2> QED
      BY <2>1, TypesAreParts DEF Typed, UpdateOnly, importVars, RequestsTyped, CredentialsTyped
<1>3. cut' = cut \/ cut' = cut \ {"update"} \/ cut' = cut \cup {"update"}
    BY DEF Update, InstallCli, UndoFails, BeginUpdate, RefuseUpdate, UpdateExits, Snapshot, EnvironmentSet,
           StopForUpdate, Synced, RestartServices, Verified, InstallFails, UndoStop, UndoFiles,
           UndoEnvironment, UndoStart, ReportUpdate, TerminateUpdate
<1>4. RestTyped'
    BY <1>3, UpdateStops, TypesAreParts, JobsAre DEF Typed, RestTyped
<1> QED
    BY <1>1, <1>2, <1>4, TypesArePartsNext DEF Typed

LEMMA ImportStagesTyped == ASSUME StagesTyped, Import PROVE StagesTyped'
<1> USE JobsAre, GotoTyped DEF ImportStage, Replacing, CannotReport, Silence
<1>1. CASE BeginImport
    BY <1>1 DEF BeginImport, StagesTyped, AfterImportFailure, history
<1>2. CASE RefuseImport
    BY <1>2 DEF RefuseImport, StagesTyped, AfterImportFailure, history
<1>3. CASE Checked
    BY <1>3 DEF Checked, StagesTyped, AfterImportFailure, history
<1>4. CASE CopyAndStop
    BY <1>4 DEF CopyAndStop, StagesTyped, AfterImportFailure, history
<1>5. CASE SaveCredential
    BY <1>5 DEF SaveCredential, StagesTyped, AfterImportFailure, history
<1>6. CASE MoveCredential
    BY <1>6 DEF MoveCredential, StagesTyped, AfterImportFailure, history
<1>7. CASE MarkChanged
    BY <1>7 DEF MarkChanged, StagesTyped, AfterImportFailure, history
<1>8. CASE LoginAccepted
    BY <1>8 DEF LoginAccepted, StagesTyped, AfterImportFailure, history
<1>9. CASE AccountReady
    BY <1>9 DEF AccountReady, StagesTyped, AfterImportFailure, history
<1>10. CASE ApiHealthy
    BY <1>10 DEF ApiHealthy, StagesTyped, AfterImportFailure, history
<1>11. CASE ReportImported
    BY <1>11 DEF ReportImported, StagesTyped, AfterImportFailure, history
<1>12. CASE ImportRefused
    BY <1>12 DEF ImportRefused, StagesTyped, AfterImportFailure, history
<1>13. CASE ImportBreaks
    BY <1>13 DEF ImportBreaks, StagesTyped, AfterImportFailure, history
<1>14. CASE RestoreCredential
    BY <1>14 DEF RestoreCredential, StagesTyped, AfterImportFailure, history
<1>15. CASE CleanUpImport
    BY <1>15 DEF CleanUpImport, StagesTyped, AfterImportFailure, history
<1>16. CASE ImportExits
    BY <1>16 DEF ImportExits, StagesTyped, AfterImportFailure, history
<1>17. CASE EndImport
    BY <1>17 DEF EndImport, StagesTyped, AfterImportFailure, history
<1>18. CASE RestoreFails
    BY <1>18 DEF RestoreFails, StagesTyped, AfterImportFailure, history
<1> QED
    BY <1>1, <1>2, <1>3, <1>4, <1>5, <1>6, <1>7, <1>8, <1>9, <1>10, <1>11, <1>12, <1>13, <1>14, <1>15, <1>16, <1>17, <1>18 DEF Import

LEMMA ImportFilesTyped == ASSUME FilesTyped, Import PROVE FilesTyped'
<1>1. ImportOnly
    BY DEF Import, EndImport, RestoreFails, BeginImport, RefuseImport, Checked, CopyAndStop, SaveCredential,
           MoveCredential, MarkChanged, LoginAccepted, AccountReady, ApiHealthy, ReportImported,
           ImportRefused, ImportBreaks, RestoreCredential, CleanUpImport, ImportExits
<1>2. \/ UNCHANGED services
      \/ \E names : svc' = Stopped(names) /\ refused' = refused
      \/ \E names : Start(names)
    BY DEF Import, EndImport, RestoreFails, BeginImport, RefuseImport, Checked, CopyAndStop, SaveCredential,
           MoveCredential, MarkChanged, LoginAccepted, AccountReady, ApiHealthy, ReportImported,
           ImportRefused, ImportBreaks, RestoreCredential, CleanUpImport, ImportExits
<1>3. Coupled(svc') /\ refused' \in BOOLEAN
    BY <1>2, StoppedCoupled, StartCoupled DEF FilesTyped, services
<1> QED
    BY <1>1, <1>3 DEF ImportOnly, fileVars, FilesTyped

LEMMA ImportCredentialsTyped == ASSUME CredentialsTyped, Import PROVE CredentialsTyped'
<1>0. Running \subseteq Service
    BY DEF Running
<1> USE DEF CredentialsTyped
<1>1. CASE BeginImport
    BY <1>1, <1>0 DEF BeginImport, importVars, history
<1>2. CASE RefuseImport
    BY <1>2, <1>0 DEF RefuseImport, importVars, history
<1>3. CASE Checked
    BY <1>3, <1>0 DEF Checked, importVars, history
<1>4. CASE CopyAndStop
    BY <1>4, <1>0 DEF CopyAndStop, importVars, history
<1>5. CASE SaveCredential
    BY <1>5, <1>0 DEF SaveCredential, importVars, history
<1>6. CASE MoveCredential
    BY <1>6, <1>0 DEF MoveCredential, importVars, history
<1>7. CASE MarkChanged
    BY <1>7, <1>0 DEF MarkChanged, importVars, history
<1>8. CASE LoginAccepted
    BY <1>8, <1>0 DEF LoginAccepted, importVars, history
<1>9. CASE AccountReady
    BY <1>9, <1>0 DEF AccountReady, importVars, history
<1>10. CASE ApiHealthy
    BY <1>10, <1>0 DEF ApiHealthy, importVars, history
<1>11. CASE ReportImported
    BY <1>11, <1>0 DEF ReportImported, importVars, history
<1>12. CASE ImportRefused
    BY <1>12, <1>0 DEF ImportRefused, importVars, history
<1>13. CASE ImportBreaks
    BY <1>13, <1>0 DEF ImportBreaks, importVars, history
<1>14. CASE RestoreCredential
    BY <1>14, <1>0 DEF RestoreCredential, importVars, history
<1>15. CASE CleanUpImport
    BY <1>15, <1>0 DEF CleanUpImport, importVars, history
<1>16. CASE ImportExits
    BY <1>16, <1>0 DEF ImportExits, importVars, history
<1>17. CASE EndImport
    BY <1>17, <1>0 DEF EndImport, importVars, history
<1>18. CASE RestoreFails
    BY <1>18, <1>0 DEF RestoreFails, importVars, history
<1> QED
    BY <1>1, <1>2, <1>3, <1>4, <1>5, <1>6, <1>7, <1>8, <1>9, <1>10, <1>11, <1>12, <1>13, <1>14, <1>15, <1>16, <1>17, <1>18 DEF Import

LEMMA ImportTyped ==
    ASSUME Typed, Import, disturbed' \in BOOLEAN PROVE Typed'
<1>1. StagesTyped' /\ FilesTyped' /\ CredentialsTyped'
    BY TypesAreParts, ImportStagesTyped, ImportFilesTyped, ImportCredentialsTyped DEF Typed
<1>2. ImportOnly /\ (stops' = stops \/ Mishap) /\ (cut' = cut \/ cut' = cut \cup {"import"})
    BY DEF Import, CannotReport, EndImport, RestoreFails, BeginImport, RefuseImport, Checked, CopyAndStop, SaveCredential,
           MoveCredential, MarkChanged, LoginAccepted, AccountReady, ApiHealthy, ReportImported,
           ImportRefused, ImportBreaks, RestoreCredential, CleanUpImport, ImportExits, history
<1>3. RequestsTyped' /\ RestTyped'
    BY <1>2, TypesAreParts, JobsAre, MishapCounted DEF Typed, ImportOnly, RequestsTyped, RestTyped
<1>4. stage'["update"] = stage["update"]
  <2>1. \E to : Goto("import", to)
      BY DEF Import, EndImport, RestoreFails, BeginImport, RefuseImport, Checked, CopyAndStop, SaveCredential,
             MoveCredential, MarkChanged, LoginAccepted, AccountReady, ApiHealthy,
             ReportImported, ImportRefused, ImportBreaks, RestoreCredential, CleanUpImport,
             ImportExits
  <2> QED
      BY <2>1, TypesAreParts, JobsAre DEF Typed, StagesTyped, Goto
<1>5. TargetKnown'
    BY <1>2, <1>4 DEF Typed, TargetKnown, ImportOnly
<1> QED
    BY <1>1, <1>3, <1>5, TypesArePartsNext DEF Typed

-----------------------------------------------------------------------------
(* What a step leaves alone *)

\* The requests: neither script takes a step.
Ask == CliRequest \/ \E h \in Handler : LinkRequest(h) \/ \E j \in Job : ReadStatus(h, j)

LEMMA AskFrame == ASSUME Ask PROVE RequestOnly
BY DEF Ask, CliRequest, LinkRequest, ReadStatus

LEMMA TakeFrame ==
    ASSUME StagesTyped, NEW j \in Job, Take(j)
    PROVE  /\ stage[j] = "off" /\ stage'[j] = "taken"
           /\ \A k \in Job \ {j} : stage'[k] = stage[k]
           /\ UNCHANGED <<status, handler, target, fileVars, backup, services, cred, importVars, mute,
                          stops>>
BY DEF StagesTyped, Take, Goto

\* A step of the update leaves the import as it is.
LEMMA UpdateFrame ==
    ASSUME StagesTyped, Update
    PROVE  /\ UpdateOnly
           /\ stage'["import"] = stage["import"] /\ status'["import"] = status["import"]
           /\ "import" \in mute' <=> "import" \in mute
           /\ "import" \in cut' <=> "import" \in cut
<1>1. UpdateOnly
    BY DEF Update, InstallCli, UndoFails, BeginUpdate, RefuseUpdate, UpdateExits, Snapshot, EnvironmentSet,
             StopForUpdate, Synced, RestartServices, Verified, InstallFails, UndoStop, UndoFiles,
             UndoEnvironment, UndoStart, ReportUpdate, TerminateUpdate
<1>2. \E to : Goto("update", to)
    BY DEF Update, InstallCli, UndoFails, BeginUpdate, RefuseUpdate, UpdateExits, Snapshot, EnvironmentSet,
             StopForUpdate, Synced, RestartServices, Verified, InstallFails, UndoStop, UndoFiles,
             UndoEnvironment, UndoStart, ReportUpdate, TerminateUpdate
<1>3. stage'["import"] = stage["import"]
    BY <1>2, JobsAre DEF StagesTyped, Goto
<1>4. \/ UNCHANGED <<status, mute>>
      \/ UNCHANGED status /\ Silence({"update"})
      \/ \E what : Report("update", what)
    BY DEF Update, CannotReport, InstallCli, UndoFails, BeginUpdate, RefuseUpdate, UpdateExits, Snapshot, EnvironmentSet,
             StopForUpdate, Synced, RestartServices, Verified, InstallFails, UndoStop, UndoFiles,
             UndoEnvironment, UndoStart, ReportUpdate, TerminateUpdate
<1>5. status'["import"] = status["import"] /\ ("import" \in mute' <=> "import" \in mute)
    BY <1>4, JobsAre DEF StagesTyped, Report, Silence
<1>6. cut' = cut \/ cut' = cut \ {"update"} \/ cut' = cut \cup {"update"}
    BY DEF Update, InstallCli, UndoFails, BeginUpdate, RefuseUpdate, UpdateExits, Snapshot, EnvironmentSet,
             StopForUpdate, Synced, RestartServices, Verified, InstallFails, UndoStop, UndoFiles,
             UndoEnvironment, UndoStart, ReportUpdate, TerminateUpdate
<1> QED
    BY <1>1, <1>3, <1>5, <1>6

\* A step of the import leaves the update as it is.
LEMMA ImportFrame ==
    ASSUME StagesTyped, Import
    PROVE  /\ ImportOnly
           /\ stage'["update"] = stage["update"] /\ status'["update"] = status["update"]
           /\ "update" \in mute' <=> "update" \in mute
           /\ "update" \in cut' <=> "update" \in cut
<1>1. ImportOnly
    BY DEF Import, EndImport, RestoreFails, BeginImport, RefuseImport, Checked, CopyAndStop, SaveCredential,
             MoveCredential, MarkChanged, LoginAccepted, AccountReady, ApiHealthy,
             ReportImported, ImportRefused, ImportBreaks, RestoreCredential, CleanUpImport,
             ImportExits
<1>2. \E to : Goto("import", to)
    BY DEF Import, EndImport, RestoreFails, BeginImport, RefuseImport, Checked, CopyAndStop, SaveCredential,
             MoveCredential, MarkChanged, LoginAccepted, AccountReady, ApiHealthy,
             ReportImported, ImportRefused, ImportBreaks, RestoreCredential, CleanUpImport,
             ImportExits
<1>3. stage'["update"] = stage["update"]
    BY <1>2, JobsAre DEF StagesTyped, Goto
<1>4. \/ UNCHANGED <<status, mute>>
      \/ UNCHANGED status /\ Silence({"import"})
      \/ \E what : Report("import", what)
    BY DEF Import, CannotReport, history, EndImport, RestoreFails, BeginImport, RefuseImport, Checked, CopyAndStop, SaveCredential,
             MoveCredential, MarkChanged, LoginAccepted, AccountReady, ApiHealthy,
             ReportImported, ImportRefused, ImportBreaks, RestoreCredential, CleanUpImport,
             ImportExits
<1>5. status'["update"] = status["update"] /\ ("update" \in mute' <=> "update" \in mute)
    BY <1>4, JobsAre DEF StagesTyped, Report, Silence
<1>6. cut' = cut \/ cut' = cut \cup {"import"}
    BY DEF Import, history, EndImport, RestoreFails, BeginImport, RefuseImport, Checked, CopyAndStop, SaveCredential,
             MoveCredential, MarkChanged, LoginAccepted, AccountReady, ApiHealthy,
             ReportImported, ImportRefused, ImportBreaks, RestoreCredential, CleanUpImport,
             ImportExits
<1> QED
    BY <1>1, <1>3, <1>5, <1>6

\* A script that dies forgets what it knew.
LEMMA DieFrame ==
    ASSUME StagesTyped, NEW jobs \in SUBSET Job, Die(jobs)
    PROVE  /\ \A j \in jobs : /\ stage'[j] = "off" /\ status[j] = "running" => j \in mute'
                              /\ stage[j] \in Undone => j \in cut'
           /\ \A j \in Job \ jobs : /\ stage'[j] = stage[j] /\ j \in mute' <=> j \in mute
                                    /\ j \in cut' <=> j \in cut
           /\ UNCHANGED <<request, status, fileVars, cred, due>>
           /\ DOMAIN stage' = Job
BY DEF StagesTyped, Die, Silence

\* A trap of TERM that ends cleanup() leaves the other script as it is.
LEMMA RollbackFrame ==
    ASSUME StagesTyped, TerminateRollback
    PROVE  /\ UpdateOnly /\ UNCHANGED <<status, target, fileVars, services>>
           /\ backup' = NoBackup /\ disturbed' = TRUE /\ Mishap
           /\ stage["update"] \in Undoing /\ stage'["update"] \in {"report failed", "off"}
           /\ stage'["import"] = stage["import"] /\ DOMAIN stage' = Job
           /\ mute' = mute \/ Silence({"update"})
           /\ stage'["update"] = "off" => Silence({"update"})
           /\ \/ stage["update"] = "undo start" /\ cut' = cut
              \/ cut' = cut \cup {"update"}
BY JobsAre DEF StagesTyped, TerminateRollback, Goto

LEMMA CleanUpFrame ==
    ASSUME StagesTyped, TerminateCleanUp
    PROVE  /\ ImportOnly /\ UNCHANGED <<status, services, cred, offered, due>>
           /\ saved' = "none" /\ was' = {} /\ changed' = FALSE /\ disturbed' = TRUE /\ Mishap
           /\ stage["import"] \in {"restore", "cleanup"} /\ stage'["import"] = "off"
           /\ stage'["update"] = stage["update"] /\ DOMAIN stage' = Job
           /\ Silence({"import"})
           /\ \/ stage["import"] = "cleanup" /\ cut' = cut
              \/ cut' = cut \cup {"import"}
BY JobsAre DEF StagesTyped, TerminateCleanUp, Goto

LEMMA DisturbsTyped == Disturbs => disturbed' \in BOOLEAN
BY DEF Disturbs

LEMMA NextCases ==
    ASSUME Next
    PROVE  \/ (Ask \/ TakeUpdate \/ TakeImport \/ Update \/ Import) /\ Disturbs
           \/ TerminateRollback
           \/ TerminateCleanUp
           \/ \E j \in Job : Kill(j)
           \/ Reboot
BY DEF Next, Ask

LEMMA NextTyped == ASSUME Typed, [Next]_vars PROVE Typed'
<1>0. RequestsTyped /\ StagesTyped /\ FilesTyped /\ CredentialsTyped /\ RestTyped /\ TargetKnown
    BY TypesAreParts DEF Typed
<1>1. CASE Ask /\ Disturbs
  <2>1. RequestsTyped'
    <3>1. CASE CliRequest
        BY <1>0, <3>1 DEF CliRequest, RequestsTyped, Job
    <3>2. ASSUME NEW h \in Handler, LinkRequest(h) PROVE RequestsTyped'
        BY <1>0, <3>2 DEF LinkRequest, RequestsTyped
    <3>3. ASSUME NEW h \in Handler, NEW j \in Job, ReadStatus(h, j) PROVE RequestsTyped'
        BY <1>0, <3>3 DEF ReadStatus, RequestOnly, RequestsTyped
    <3> QED
        BY <1>1, <3>1, <3>2, <3>3 DEF Ask
  <2>2. StagesTyped' /\ FilesTyped' /\ CredentialsTyped' /\ RestTyped' /\ TargetKnown'
      BY <1>0, <1>1, AskFrame, DisturbsTyped
      DEF RequestOnly, fileVars, services, importVars, history, StagesTyped, FilesTyped, CredentialsTyped,
          RestTyped, TargetKnown
  <2> QED
      BY <2>1, <2>2, TypesArePartsNext DEF Typed
<1>2. CASE (TakeUpdate \/ TakeImport) /\ Disturbs
  <2>1. PICK j \in Job : Take(j)
      BY <1>2, JobsAre DEF TakeUpdate, TakeImport
  <2>2. /\ DOMAIN stage' = Job /\ stage'[j] = "taken" /\ \A k \in Job \ {j} : stage'[k] = stage[k]
        /\ request' \in [Job -> BOOLEAN]
      BY <1>0, <2>1 DEF Take, Goto, StagesTyped, RequestsTyped
  <2>3. cut' \in SUBSET Job /\ (due' = due \/ due' = cred)
      BY <1>0, <1>2 DEF TakeUpdate, TakeImport, RestTyped
  <2>4. StagesTyped'
      BY <1>0, <2>1, <2>2, TakeFrame, JobsAre DEF StagesTyped, UpdateStage, ImportStage
  <2>5. TargetKnown'
      BY <1>0, <2>1, <2>2, TakeFrame, JobsAre DEF TargetKnown, Building, Deploying
  <2>6. RequestsTyped' /\ FilesTyped' /\ CredentialsTyped' /\ RestTyped'
      BY <1>0, <1>2, <2>1, <2>2, <2>3, TakeFrame, DisturbsTyped
      DEF fileVars, services, importVars, RequestsTyped, FilesTyped, CredentialsTyped, RestTyped
  <2> QED
      BY <2>4, <2>5, <2>6, TypesArePartsNext DEF Typed
<1>3. CASE (Update \/ Import) /\ Disturbs
    BY <1>3, UpdateTyped, ImportTyped, DisturbsTyped
<1>4. ASSUME NEW jobs \in SUBSET Job, Die(jobs) PROVE StagesTyped' /\ CredentialsTyped' /\ TargetKnown'
  <2>1. StagesTyped'
    <3>4. /\ mute' = mute \cup {j \in jobs : status[j] = "running"}
          /\ stage' = [j \in Job |-> IF j \in jobs THEN "off" ELSE stage[j]]
        BY <1>4 DEF Die, Silence
    <3>1. mute' \in SUBSET Job
        BY <1>0, <3>4 DEF StagesTyped
    <3>2. \A j \in Job : stage'[j] = "off" \/ stage'[j] = stage[j]
        BY <3>4
    <3>3. stage'["update"] \in UpdateStage /\ stage'["import"] \in ImportStage
        BY <1>0, <3>2, JobsAre DEF StagesTyped, UpdateStage, ImportStage
    <3> QED
        BY <1>0, <1>4, <3>1, <3>3, <3>4 DEF Die, StagesTyped
  <2>2. CredentialsTyped'
      BY <1>0, <1>4 DEF Die, importVars, CredentialsTyped
  <2>3. TargetKnown'
      BY <1>0, <1>4, DieFrame, JobsAre, StagesDiffer DEF Die, TargetKnown, Building, Deploying
  <2> QED
      BY <2>1, <2>2, <2>3
<1>5. ASSUME NEW jobs \in SUBSET Job, Die(jobs), Coupled(svc'), disturbed' \in BOOLEAN,
             refused' \in BOOLEAN
      PROVE  FilesTyped' /\ RestTyped'
  <2>1. NoBackup \in [code : Content, env : Content, ran : SUBSET Service]
      BY DEF NoBackup, Content
  <2>2. FilesTyped'
      BY <1>0, <1>5, <2>1 DEF Die, fileVars, FilesTyped
  <2>3. Mishap /\ cut' \in SUBSET Job
      BY <1>0, <1>5 DEF Die, RestTyped
  <2> QED
      BY <1>0, <1>5, <2>2, <2>3, MishapCounted DEF RestTyped
<1>6. CASE \E j \in Job : Kill(j)
  <2>1. PICK j \in Job : Kill(j)
      BY <1>6
  <2>2. Die({j}) /\ UNCHANGED <<request, handler, services>> /\ disturbed' \in BOOLEAN
      BY <2>1 DEF Kill, Die
  <2>3. RequestsTyped' /\ Coupled(svc') /\ refused' \in BOOLEAN
      BY <1>0, <2>2 DEF RequestsTyped, FilesTyped, services
  <2> QED
      BY <1>4, <1>5, <2>2, <2>3, TypesArePartsNext DEF Typed
<1>7. CASE Reboot
  <2>1. PICK jobs \in SUBSET Job : Die(jobs)
      BY <1>7 DEF Reboot
  <2>2. Coupled(svc') /\ refused' \in BOOLEAN
    <3>1. PICK ok \in Accepting : /\ svc' = [s \in Service |-> IF ok THEN code ELSE "off"]
                                  /\ refused' = ~ok
        BY <1>7 DEF Reboot
    <3>2. ok \in BOOLEAN
        BY AcceptingTruth
    <3> QED
        BY <1>0, <3>1, <3>2, ContentsRun DEF FilesTyped, Coupled, Service
  <2>3. RequestsTyped' /\ disturbed' \in BOOLEAN
      BY <1>0, <1>7 DEF Reboot, Die, RequestsTyped
  <2> QED
      BY <1>4, <1>5, <2>1, <2>2, <2>3, TypesArePartsNext DEF Typed
<1>8. CASE TerminateRollback
  <2>1. RequestsTyped' /\ FilesTyped' /\ CredentialsTyped' /\ RestTyped'
    <3>1. NoBackup \in [code : Content, env : Content, ran : SUBSET Service]
        BY DEF NoBackup, Content
    <3>2. RequestsTyped' /\ FilesTyped' /\ CredentialsTyped'
        BY <1>0, <1>8, <3>1, RollbackFrame
        DEF UpdateOnly, fileVars, services, importVars, RequestsTyped, FilesTyped,
            CredentialsTyped
    <3>3. cut' \in SUBSET Job /\ disturbed' = TRUE /\ Mishap
        BY <1>0, <1>8, RollbackFrame, JobsAre DEF RestTyped
    <3> QED
        BY <1>0, <3>2, <3>3, MishapCounted DEF RestTyped
  <2>2. StagesTyped'
    <3>1. mute' \in SUBSET Job
        BY <1>0, <1>8, RollbackFrame, JobsAre DEF StagesTyped, Silence
    <3> QED
        BY <1>0, <1>8, <3>1, RollbackFrame DEF StagesTyped, UpdateStage
  <2>3. TargetKnown'
      BY <1>0, <1>8, RollbackFrame DEF TargetKnown, Building, Deploying
  <2> QED
      BY <2>1, <2>2, <2>3, TypesArePartsNext DEF Typed
<1>9. CASE TerminateCleanUp
  <2>1. RequestsTyped' /\ FilesTyped' /\ CredentialsTyped' /\ RestTyped'
      BY <1>0, <1>9, CleanUpFrame, MishapCounted, JobsAre
      DEF ImportOnly, fileVars, services, RequestsTyped, FilesTyped, CredentialsTyped, RestTyped
  <2>2. StagesTyped'
    <3>1. mute' \in SUBSET Job
        BY <1>0, <1>9, CleanUpFrame, JobsAre DEF StagesTyped, Silence
    <3> QED
        BY <1>0, <1>9, <3>1, CleanUpFrame DEF StagesTyped, ImportStage
  <2>3. TargetKnown'
      BY <1>0, <1>9, CleanUpFrame DEF ImportOnly, TargetKnown
  <2> QED
      BY <2>1, <2>2, <2>3, TypesArePartsNext DEF Typed
<1>10. CASE UNCHANGED vars
    BY <1>10 DEF vars, fileVars, services, importVars, history, Typed, TypeOK, TargetKnown
<1> QED
    BY <1>1, <1>2, <1>3, <1>6, <1>7, <1>8, <1>9, <1>10, NextCases

\* The files, the records and the services are what the scripts expect them to be: a stage is
\* one of its own script, and the API never runs without the worker it requires.
THEOREM TypeCorrect == Spec => []TypeOK
<1>1. Spec => []Typed
    BY InitTyped, NextTyped, PTL DEF Spec
<1>2. Typed => TypeOK
    BY DEF Typed
<1> QED
    BY <1>1, <1>2, PTL

-----------------------------------------------------------------------------
(* The status *)

Kept(j) == status[j] = "running" => stage[j] \notin {"off", "taken", "done"} \/ j \in mute

LEMMA UpdateStatusKept ==
    ASSUME StagesTyped, Kept("update"), Update PROVE Kept("update")'
<1> USE JobsAre DEF StagesTyped, Kept, Goto, Report, CannotReport, Silence, Building, Deploying, Undoing
<1>1. CASE BeginUpdate
    BY <1>1 DEF BeginUpdate
<1>2. CASE RefuseUpdate
    BY <1>2 DEF RefuseUpdate
<1>3. CASE UpdateExits
    BY <1>3 DEF UpdateExits
<1>4. CASE Snapshot
    BY <1>4 DEF Snapshot
<1>5. CASE EnvironmentSet
    BY <1>5 DEF EnvironmentSet
<1>6. CASE StopForUpdate
    BY <1>6 DEF StopForUpdate
<1>7. CASE Synced
    BY <1>7 DEF Synced
<1>8. CASE RestartServices
    BY <1>8 DEF RestartServices
<1>9. CASE Verified
    BY <1>9 DEF Verified
<1>10. CASE InstallFails
    BY <1>10 DEF InstallFails
<1>11. CASE UndoStop
    BY <1>11 DEF UndoStop
<1>12. CASE UndoFiles
    BY <1>12 DEF UndoFiles
<1>13. CASE UndoEnvironment
    BY <1>13 DEF UndoEnvironment
<1>14. CASE UndoStart
    BY <1>14 DEF UndoStart
<1>15. CASE ReportUpdate
    BY <1>15 DEF ReportUpdate
<1>16. CASE TerminateUpdate
    BY <1>16 DEF TerminateUpdate
<1>17. CASE InstallCli
    BY <1>17 DEF InstallCli
<1>18. CASE UndoFails
    BY <1>18 DEF UndoFails
<1> QED
    BY <1>1, <1>2, <1>3, <1>4, <1>5, <1>6, <1>7, <1>8, <1>9, <1>10, <1>11, <1>12, <1>13, <1>14, <1>15, <1>16, <1>17, <1>18 DEF Update

LEMMA ImportStatusKept ==
    ASSUME StagesTyped, Kept("import"), Import PROVE Kept("import")'
<1> USE JobsAre DEF StagesTyped, Kept, Goto, Report, CannotReport, Silence, ToReport, Replacing
<1>1. CASE BeginImport
    BY <1>1 DEF BeginImport, AfterImportFailure, history
<1>2. CASE RefuseImport
    BY <1>2 DEF RefuseImport, AfterImportFailure, history
<1>3. CASE Checked
    BY <1>3 DEF Checked, AfterImportFailure, history
<1>4. CASE CopyAndStop
    BY <1>4 DEF CopyAndStop, AfterImportFailure, history
<1>5. CASE SaveCredential
    BY <1>5 DEF SaveCredential, AfterImportFailure, history
<1>6. CASE MoveCredential
    BY <1>6 DEF MoveCredential, AfterImportFailure, history
<1>7. CASE MarkChanged
    BY <1>7 DEF MarkChanged, AfterImportFailure, history
<1>8. CASE LoginAccepted
    BY <1>8 DEF LoginAccepted, AfterImportFailure, history
<1>9. CASE AccountReady
    BY <1>9 DEF AccountReady, AfterImportFailure, history
<1>10. CASE ApiHealthy
    BY <1>10 DEF ApiHealthy, AfterImportFailure, history
<1>11. CASE ReportImported
    BY <1>11 DEF ReportImported, AfterImportFailure, history
<1>12. CASE ImportRefused
    BY <1>12 DEF ImportRefused, AfterImportFailure, history
<1>13. CASE ImportBreaks
    BY <1>13 DEF ImportBreaks, AfterImportFailure, history
<1>14. CASE RestoreCredential
    BY <1>14 DEF RestoreCredential, AfterImportFailure, history
<1>15. CASE CleanUpImport
    BY <1>15 DEF CleanUpImport, AfterImportFailure, history
<1>16. CASE ImportExits
    BY <1>16 DEF ImportExits, AfterImportFailure, history
<1>17. CASE EndImport
    BY <1>17 DEF EndImport, AfterImportFailure, history
<1>18. CASE RestoreFails
    BY <1>18 DEF RestoreFails, AfterImportFailure, history
<1> QED
    BY <1>1, <1>2, <1>3, <1>4, <1>5, <1>6, <1>7, <1>8, <1>9, <1>10, <1>11, <1>12, <1>13, <1>14, <1>15, <1>16, <1>17, <1>18 DEF Import

LEMMA NextStatusKept == ASSUME Typed, StatusKept, [Next]_vars PROVE StatusKept'
<1>0. StagesTyped /\ \A j \in Job : Kept(j)
    BY TypesAreParts DEF Typed, StatusKept, Kept
<1>1. CASE Ask
    BY <1>0, <1>1, AskFrame DEF RequestOnly, history, StatusKept
<1>2. CASE TakeUpdate \/ TakeImport
  <2>1. PICK j \in Job : Take(j)
      BY <1>2, JobsAre DEF TakeUpdate, TakeImport
  <2> QED
      BY <2>1, <1>0, TakeFrame DEF StatusKept
<1>3. CASE Update
  <2>1. Kept("update")'
      BY <1>0, <1>3, UpdateStatusKept, JobsAre
  <2>2. Kept("import")'
      BY <1>0, <1>3, UpdateFrame, JobsAre DEF Kept
  <2> QED
      BY <2>1, <2>2, JobsAre DEF StatusKept, Kept
<1>4. CASE Import
  <2>1. Kept("import")'
      BY <1>0, <1>4, ImportStatusKept, JobsAre
  <2>2. Kept("update")'
      BY <1>0, <1>4, ImportFrame, JobsAre DEF Kept
  <2> QED
      BY <2>1, <2>2, JobsAre DEF StatusKept, Kept
<1>5. ASSUME NEW jobs \in SUBSET Job, Die(jobs) PROVE StatusKept'
  <2>1. /\ status' = status /\ mute' = mute \cup {j \in jobs : status[j] = "running"}
        /\ stage' = [j \in Job |-> IF j \in jobs THEN "off" ELSE stage[j]]
      BY <1>5 DEF Die, Silence
  <2> QED
      BY <2>1 DEF StatusKept
<1>6. CASE (\E j \in Job : Kill(j)) \/ Reboot
    BY <1>5, <1>6 DEF Kill, Reboot
<1>7. CASE TerminateRollback \/ TerminateCleanUp
  <2>1. CASE TerminateRollback
      BY <1>0, <2>1, RollbackFrame, JobsAre DEF StatusKept, Silence, Undoing
  <2>2. CASE TerminateCleanUp
      BY <1>0, <2>2, CleanUpFrame, JobsAre DEF StatusKept, Silence
  <2> QED
      BY <1>7, <2>1, <2>2
<1>8. CASE UNCHANGED vars
    BY <1>8 DEF vars, history, StatusKept
<1> QED
    BY <1>1, <1>2, <1>3, <1>4, <1>6, <1>7, <1>8, NextCases

\* A status that says running has a runner behind it: wherever a script breaks off, and whichever
\* of fail(), cleanup() and the runner of the update is to report it, one of them does, once. Only
\* a runner that is stopped or cannot write its status leaves the console locked out.
THEOREM RunnersReport == Spec => []RunningHasRunner
<1>1. Init => StatusKept
    BY DEF Init, StatusKept
<1>2. Typed /\ StatusKept /\ [Next]_vars => StatusKept'
    BY NextStatusKept
<1>3. StatusKept => RunningHasRunner
    BY DEF StatusKept, RunningHasRunner
<1> QED
    BY <1>1, <1>2, <1>3, InitTyped, NextTyped, PTL DEF Spec

-----------------------------------------------------------------------------
(* One version *)

LEMMA UpdateVersionKept == ASSUME Typed, VersionKept, Update PROVE VersionKept'
<1>0. StagesTyped /\ FilesTyped /\ TargetKnown
    BY TypesAreParts DEF Typed
<1> USE <1>0, JobsAre, HostAssumption
    DEF StagesTyped, VersionKept, Goto, Installing, Building, Deploying, Undoing, fileVars
<1>1. CASE BeginUpdate
    BY <1>1 DEF BeginUpdate
<1>2. CASE RefuseUpdate
    BY <1>2 DEF RefuseUpdate
<1>3. CASE UpdateExits
    BY <1>3 DEF UpdateExits
<1>4. CASE Snapshot
    BY <1>4 DEF Snapshot
<1>5. CASE EnvironmentSet
    BY <1>5 DEF EnvironmentSet
<1>6. CASE StopForUpdate
    BY <1>6 DEF StopForUpdate
<1>7. CASE Synced
    BY <1>7 DEF Synced
<1>8. CASE RestartServices
    BY <1>8 DEF RestartServices
<1>9. CASE Verified
  <2>1. target \in Version /\ code' = target /\ env' = target
      BY <1>9 DEF Verified, TargetKnown
  <2>2. stage'["update"] = "report success"
      BY <1>9 DEF Verified
  <2> QED
      BY <2>1, <2>2
<1>10. CASE InstallFails
    BY <1>10 DEF InstallFails
<1>11. CASE UndoStop
    BY <1>11 DEF UndoStop
<1>12. CASE UndoFiles
    BY <1>12 DEF UndoFiles
<1>13. CASE UndoEnvironment
    BY <1>13 DEF UndoEnvironment
<1>14. CASE UndoStart
    BY <1>14 DEF UndoStart
<1>15. CASE ReportUpdate
    BY <1>15 DEF ReportUpdate
<1>16. CASE TerminateUpdate
    BY <1>16 DEF TerminateUpdate
<1>17. CASE InstallCli
    BY <1>17 DEF InstallCli
<1>18. CASE UndoFails
    BY <1>18 DEF UndoFails
<1> QED
    BY <1>1, <1>2, <1>3, <1>4, <1>5, <1>6, <1>7, <1>8, <1>9, <1>10, <1>11, <1>12, <1>13, <1>14, <1>15, <1>16, <1>17, <1>18 DEF Update

LEMMA NextVersionKept == ASSUME Typed, VersionKept, [Next]_vars PROVE VersionKept'
<1>0. StagesTyped
    BY TypesAreParts DEF Typed
<1>1. CASE Ask
    BY <1>1, AskFrame DEF RequestOnly, fileVars, history, VersionKept
<1>2. CASE TakeUpdate \/ TakeImport
  <2>1. PICK j \in Job : Take(j) /\ ("update" \in cut' <=> "update" \in cut)
      BY <1>2, JobsAre DEF TakeUpdate, TakeImport
  <2>2. UNCHANGED <<code, env, backup>>
      BY <1>0, <2>1, TakeFrame DEF fileVars
  <2>3. stage'["update"] = stage["update"] \/ (stage["update"] = "off" /\ stage'["update"] = "taken")
      BY <1>0, <2>1, TakeFrame, JobsAre
  <2> QED
      BY <2>1, <2>2, <2>3, StagesDiffer DEF VersionKept, Installing, Undoing
<1>3. CASE Update
    BY <1>3, UpdateVersionKept
<1>4. CASE Import
    BY <1>0, <1>4, ImportFrame DEF ImportOnly, fileVars, VersionKept
<1>5. ASSUME NEW jobs \in SUBSET Job, Die(jobs) PROVE VersionKept'
  <2>1. UNCHANGED <<code, env>> /\ cut' = cut \cup {j \in jobs : stage[j] \in Undone}
      BY <1>5 DEF Die, fileVars
  <2>2. CASE "update" \in jobs
    <3>1. stage'["update"] = "off" /\ (stage["update"] \in Installing => "update" \in cut')
      <4>1. stage'["update"] = "off" /\ (stage["update"] \in Undone => "update" \in cut')
          BY <1>5, <2>1, <2>2, JobsAre DEF Die
      <4> QED
          BY <4>1 DEF Undone
    <3> QED
        BY <2>1, <3>1, StagesDiffer DEF VersionKept, Installing, Undoing
  <2>3. CASE "update" \notin jobs
    <3>1. backup' = backup /\ stage'["update"] = stage["update"]
        BY <1>5, <2>3, JobsAre DEF Die
    <3> QED
        BY <2>1, <2>3, <3>1 DEF VersionKept
  <2> QED
      BY <2>2, <2>3
<1>6. CASE (\E j \in Job : Kill(j)) \/ Reboot
    BY <1>5, <1>6 DEF Kill, Reboot
<1>7. CASE TerminateRollback
  <2>1. UNCHANGED <<code, env>> /\ stage'["update"] \in {"report failed", "off"}
      BY <1>0, <1>7, RollbackFrame DEF fileVars
  <2>2. "update" \notin cut' => stage["update"] = "undo start" /\ "update" \notin cut
      BY <1>0, <1>7, RollbackFrame
  <2>3. "undo start" \in Installing
      BY DEF Installing, Undoing
  <2> QED
      BY <2>1, <2>2, <2>3, StagesDiffer DEF VersionKept
<1>8. CASE TerminateCleanUp
  <2>1. UNCHANGED <<code, env, backup>> /\ stage'["update"] = stage["update"]
      BY <1>0, <1>8, CleanUpFrame DEF ImportOnly, fileVars
  <2>2. "update" \in cut' <=> "update" \in cut
      BY <1>0, <1>8, CleanUpFrame
  <2> QED
      BY <2>1, <2>2 DEF VersionKept
<1>9. CASE UNCHANGED vars
    BY <1>9 DEF vars, fileVars, history, VersionKept
<1> QED
    BY <1>1, <1>2, <1>3, <1>4, <1>6, <1>7, <1>8, <1>9, NextCases

\* Whatever fails at whatever stage, and whatever the import does meanwhile, the runtime and
\* the environment are of one release when no installation is under way; unless nothing finished
\* its rollback: a kill, a TERM within the rollback, or a copy back that failed.
THEOREM OneVersionInstalled == Spec => []OneVersion
<1>1. Init => VersionKept
    BY HostAssumption, JobsAre, StagesDiffer DEF Init, VersionKept, Installing, Undoing
<1>2. Typed /\ VersionKept /\ [Next]_vars => VersionKept'
    BY NextVersionKept
<1>3. VersionKept => OneVersion
    BY DEF VersionKept, OneVersion
<1> QED
    BY <1>1, <1>2, <1>3, InitTyped, NextTyped, PTL DEF Spec

-----------------------------------------------------------------------------
(* The credential *)

LEMMA ImportCredentialKept == ASSUME StagesTyped, CredentialsTyped, CredentialKept, Import PROVE CredentialKept'
<1> USE JobsAre DEF StagesTyped, CredentialsTyped, CredentialKept, Marked, Goto
<1>1. CASE BeginImport
    BY <1>1 DEF BeginImport, AfterImportFailure, importVars, history, Replacing, CannotReport
<1>2. CASE RefuseImport
    BY <1>2 DEF RefuseImport, AfterImportFailure, importVars, history, Replacing, CannotReport
<1>3. CASE Checked
    BY <1>3 DEF Checked, AfterImportFailure, importVars, history, Replacing, CannotReport
<1>4. CASE CopyAndStop
    BY <1>4 DEF CopyAndStop, AfterImportFailure, importVars, history, Replacing, CannotReport
<1>5. CASE SaveCredential
    BY <1>5 DEF SaveCredential, AfterImportFailure, importVars, history, Replacing, CannotReport
<1>6. CASE MoveCredential
    BY <1>6 DEF MoveCredential, AfterImportFailure, importVars, history, Replacing, CannotReport
<1>7. CASE MarkChanged
    BY <1>7 DEF MarkChanged, AfterImportFailure, importVars, history, Replacing, CannotReport
<1>8. CASE LoginAccepted
    BY <1>8 DEF LoginAccepted, AfterImportFailure, importVars, history, Replacing, CannotReport
<1>9. CASE AccountReady
    BY <1>9 DEF AccountReady, AfterImportFailure, importVars, history, Replacing, CannotReport
<1>10. CASE ApiHealthy
    BY <1>10 DEF ApiHealthy, AfterImportFailure, importVars, history, Replacing, CannotReport
<1>11. CASE ReportImported
    BY <1>11 DEF ReportImported, AfterImportFailure, importVars, history, Replacing, CannotReport
<1>12. CASE ImportRefused
    BY <1>12 DEF ImportRefused, AfterImportFailure, importVars, history, Replacing, CannotReport
<1>13. CASE ImportBreaks
    BY <1>13 DEF ImportBreaks, AfterImportFailure, importVars, history, Replacing, CannotReport
<1>14. CASE RestoreCredential
    BY <1>14 DEF RestoreCredential, AfterImportFailure, importVars, history, Replacing, CannotReport
<1>15. CASE CleanUpImport
    BY <1>15 DEF CleanUpImport, AfterImportFailure, importVars, history, Replacing, CannotReport
<1>16. CASE ImportExits
    BY <1>16 DEF ImportExits, AfterImportFailure, importVars, history, Replacing, CannotReport
<1>17. CASE EndImport
    BY <1>17 DEF EndImport, AfterImportFailure, importVars, history, Replacing, CannotReport
<1>18. CASE RestoreFails
    BY <1>18 DEF RestoreFails, AfterImportFailure, importVars, history, Replacing, CannotReport
<1> QED
    BY <1>1, <1>2, <1>3, <1>4, <1>5, <1>6, <1>7, <1>8, <1>9, <1>10, <1>11, <1>12, <1>13, <1>14, <1>15, <1>16, <1>17, <1>18 DEF Import

LEMMA ImportStagesAre ==
    ASSUME StagesTyped, stage["import"] \notin Undone
    PROVE  stage["import"] \in {"off", "taken", "checks", "copy", "save", "move", "done", "cleanup"}
BY DEF StagesTyped, ImportStage, Replacing, Undone

LEMMA NextCredentialKept == ASSUME Typed, CredentialKept, [Next]_vars PROVE CredentialKept'
<1>0. StagesTyped /\ CredentialsTyped
    BY TypesAreParts DEF Typed
<1>1. CASE Ask
    BY <1>1, AskFrame DEF RequestOnly, importVars, history, CredentialKept
<1>2. CASE TakeUpdate
    BY <1>0, <1>2, TakeFrame, JobsAre DEF TakeUpdate, importVars, CredentialKept
<1>3. CASE TakeImport
  <2>1. UNCHANGED <<cred, saved, changed, offered>> /\ due' = cred
      BY <1>0, <1>3, TakeFrame, JobsAre DEF TakeImport, importVars
  <2>2. stage["import"] = "off" /\ stage'["import"] = "taken"
      BY <1>0, <1>3, TakeFrame, JobsAre DEF TakeImport
  <2> QED
      BY <2>1, <2>2 DEF CredentialKept, Marked
<1>4. CASE Update
    BY <1>0, <1>4, UpdateFrame DEF UpdateOnly, importVars, CredentialKept
<1>5. CASE Import
    BY <1>0, <1>5, ImportCredentialKept
<1>6. ASSUME NEW jobs \in SUBSET Job, Die(jobs) PROVE CredentialKept'
  <2>1. UNCHANGED <<cred, due>> /\ cut' = cut \cup {j \in jobs : stage[j] \in Undone}
      BY <1>6 DEF Die
  <2>2. CASE "import" \in jobs
    <3>1. changed' = FALSE /\ stage'["import"] = "off"
        BY <1>6, <2>2, JobsAre DEF Die
    <3>2. stage["import"] \in Undone => "import" \in cut'
        BY <2>1, <2>2
    <3>3. stage["import"] \notin Undone /\ "import" \notin cut' => cred = due
        BY <1>0, <2>1, ImportStagesAre DEF CredentialKept, Undone
    <3> QED
        BY <2>1, <3>1, <3>2, <3>3 DEF CredentialKept, Marked
  <2>3. CASE "import" \notin jobs
    <3>1. UNCHANGED importVars /\ stage'["import"] = stage["import"]
        BY <1>6, <2>3, JobsAre DEF Die
    <3> QED
        BY <2>1, <2>3, <3>1 DEF importVars, CredentialKept
  <2> QED
      BY <2>2, <2>3
<1>7. CASE (\E j \in Job : Kill(j)) \/ Reboot
    BY <1>6, <1>7 DEF Kill, Reboot
<1>8. CASE TerminateRollback
  <2>1. UNCHANGED <<cred, due, importVars>> /\ stage'["import"] = stage["import"]
      BY <1>0, <1>8, RollbackFrame DEF UpdateOnly
  <2>2. "import" \in cut' <=> "import" \in cut
      BY <1>0, <1>8, RollbackFrame
  <2> QED
      BY <2>1, <2>2 DEF importVars, CredentialKept
<1>9. CASE TerminateCleanUp
  <2>1. UNCHANGED <<cred, due>> /\ changed' = FALSE /\ stage'["import"] = "off"
      BY <1>0, <1>9, CleanUpFrame
  <2>2. "import" \notin cut' => stage["import"] = "cleanup" /\ "import" \notin cut
      BY <1>0, <1>9, CleanUpFrame
  <2> QED
      BY <2>1, <2>2 DEF CredentialKept, Marked
<1>10. CASE UNCHANGED vars
    BY <1>10 DEF vars, importVars, history, CredentialKept
<1> QED
    BY <1>1, <1>2, <1>3, <1>4, <1>5, <1>7, <1>8, <1>9, <1>10, NextCases

\* An import that has ended has put in place what it reports or has left what was there,
\* whichever of its commands failed, outside the three windows of the script and the ways its
\* cleanup may not finish.
THEOREM CredentialWhole == Spec => []ImportAllOrNothing
<1>1. Init => CredentialKept
    BY JobsAre DEF Init, CredentialKept, Marked
<1>2. Typed /\ CredentialKept /\ [Next]_vars => CredentialKept'
    BY NextCredentialKept
<1>3. CredentialKept => ImportAllOrNothing
    BY DEF CredentialKept, ImportAllOrNothing
<1> QED
    BY <1>1, <1>2, <1>3, InitTyped, NextTyped, PTL DEF Spec

-----------------------------------------------------------------------------
(* The services *)

\* What is undisturbed after a step was undisturbed before it, or an update has been verified
\* while no import was under way.
LEMMA DisturbsFacts ==
    ASSUME Disturbs
    PROVE  /\ stage'["update"] \in Installing /\ stage'["import"] \in Replacing => disturbed'
           /\ ~disturbed' => \/ ~disturbed
                             \/ /\ stage["update"] = "verify" /\ stage'["update"] = "report success"
                                /\ stage["import"] \notin Replacing
BY DEF Disturbs

Calm == ~disturbed /\ ~refused

LEMMA AllRunning == ASSUME FilesTyped, AllRun PROVE Running = Service
BY ContentsRun DEF FilesTyped, AllRun, Running

LEMMA AllStarted ==
    \A names : OnlyCode /\ "api" \in names /\ svc' = Started(names, code) /\ code' = code => AllRun'
BY OnlyCodeStarted DEF AllRun

LEMMA UpdateServicesKept ==
    ASSUME Typed, ServicesKept, Update, Disturbs PROVE ServicesKept'
<1>0. /\ StagesTyped /\ FilesTyped /\ TargetKnown /\ Coupled(svc)
      /\ was' = was /\ stage'["import"] = stage["import"]
      /\ {"commit", "done"} \subseteq Replacing
    BY TypesAreParts, UpdateFrame DEF Typed, UpdateOnly, importVars, Replacing, FilesTyped
<1> USE <1>0, JobsAre, DisturbsFacts
    DEF StagesTyped, ServicesKept, Calm, AllRun, NoneRuns, OnlyCode, Goto, Installing, Building,
        Deploying, Undoing, fileVars, services
<1>1. CASE BeginUpdate
    BY <1>1 DEF BeginUpdate
<1>2. CASE RefuseUpdate
    BY <1>2 DEF RefuseUpdate
<1>3. CASE UpdateExits
    BY <1>3 DEF UpdateExits
<1>4. CASE Snapshot
  <2>1. backup'.ran = Running /\ UNCHANGED <<code, svc>> /\ stage'["update"] = "env"
      BY <1>4 DEF Snapshot
  <2>2. Calm' => AllRun /\ stage["import"] \notin Replacing
      BY <1>4 DEF Snapshot
  <2>3. Calm' => backup'.ran = Service
      BY <2>1, <2>2, AllRunning
  <2> QED
      BY <2>1, <2>2, <2>3
<1>5. CASE EnvironmentSet
    BY <1>5 DEF EnvironmentSet
<1>6. CASE StopForUpdate
  <2>1. /\ backup' = backup /\ refused' = refused
        /\ stage["update"] = "stop" /\ stage'["update"] = "sync"
      BY <1>6 DEF StopForUpdate
  <2>2. Calm' => Calm /\ stage["import"] \notin Replacing
      BY <2>1
  <2>3. Calm' => backup'.ran = Service
      BY <2>1, <2>2
  <2> QED
      BY <2>1, <2>2, <2>3
<1>7. CASE Synced
  <2>1. /\ backup' = backup /\ refused' = refused
        /\ stage["update"] = "sync" /\ stage'["update"] = "start"
      BY <1>7 DEF Synced
  <2>2. Calm' => Calm /\ stage["import"] \notin Replacing
      BY <2>1
  <2>3. Calm' => backup'.ran = Service
      BY <2>1, <2>2
  <2> QED
      BY <2>1, <2>2, <2>3
<1>8. CASE RestartServices
  <2>1. PICK ok \in Accepting : /\ svc' = [s \in Service |-> IF ok THEN code ELSE "off"]
                                /\ refused' = (refused \/ ~ok)
      BY <1>8 DEF RestartServices
  <2>2. /\ UNCHANGED <<code, backup>> /\ stage["update"] = "start" /\ stage'["update"] = "verify"
      BY <1>8 DEF RestartServices
  <2>3. OnlyCode'
      BY <2>1, <2>2
  <2> QED
      BY <2>1, <2>2, <2>3
<1>9. CASE Verified
  <2>1. UNCHANGED <<code, svc>> /\ stage["update"] = "verify" /\ stage'["update"] = "report success"
      BY <1>9 DEF Verified
  <2>2. svc["api"] \in Version
      BY <1>9 DEF Verified, TargetKnown
  <2>3. svc["api"] # "off" /\ svc["worker"] # "off"
      BY <2>2, HostAssumption DEF FilesTyped, Coupled
  <2>4. AllRun
      BY <2>1, <2>3 DEF Service
  <2> QED
      BY <2>1, <2>4
<1>10. CASE InstallFails
    BY <1>10 DEF InstallFails
<1>11. CASE UndoStop
  <2>1. svc' = [s \in Service |-> "off"] /\ backup' = backup /\ stage'["update"] = "undo files"
      BY <1>11, StoppedAll DEF UndoStop
  <2>2. NoneRuns'
      BY <2>1
  <2>3. stage["update"] = "undo stop"
      BY <1>11 DEF UndoStop
  <2>5. refused' = refused
      BY <1>11 DEF UndoStop
  <2>4. Calm' => Calm /\ stage["import"] \notin Replacing
      BY <2>1, <2>3, <2>5
  <2> QED
      BY <2>1, <2>2, <2>3, <2>4
<1>12. CASE UndoFiles
  <2>1. /\ UNCHANGED <<backup, svc, refused>>
        /\ stage["update"] = "undo files" /\ stage'["update"] = "undo env"
      BY <1>12 DEF UndoFiles
  <2>2. Calm' => Calm /\ stage["import"] \notin Replacing
      BY <2>1
  <2>3. Calm' => backup'.ran = Service /\ NoneRuns'
      BY <2>1, <2>2
  <2> QED
      BY <2>1, <2>2, <2>3
<1>13. CASE UndoEnvironment
    BY <1>13 DEF UndoEnvironment
<1>14. CASE UndoStart
  <2>0. /\ Start(backup.ran) /\ code' = code
        /\ stage["update"] = "undo start" /\ stage'["update"] = "report failed"
      BY <1>14 DEF UndoStart
  <2>1. /\ ~refused' => ~refused /\ svc' = Started(backup.ran, code)
        /\ code' = code /\ stage["update"] = "undo start" /\ stage'["update"] = "report failed"
      BY <2>0, StartedUnrefused
  <2>2. Calm' => Calm /\ stage["import"] \notin Replacing
      BY <2>1
  <2>3. Calm' => backup.ran = Service /\ NoneRuns
      BY <2>1, <2>2
  <2>4. NoneRuns /\ backup.ran = Service /\ Calm' => AllRun'
      BY <2>1 DEF Started
  <2> QED
      BY <2>1, <2>2, <2>3, <2>4
<1>15. CASE ReportUpdate
    BY <1>15 DEF ReportUpdate
<1>16. CASE TerminateUpdate
    BY <1>16 DEF TerminateUpdate
<1>17. CASE InstallCli
    BY <1>17 DEF InstallCli
<1>18. CASE UndoFails
    BY <1>18 DEF UndoFails
<1> QED
    BY <1>1, <1>2, <1>3, <1>4, <1>5, <1>6, <1>7, <1>8, <1>9, <1>10, <1>11, <1>12, <1>13, <1>14, <1>15, <1>16, <1>17, <1>18 DEF Update

LEMMA ImportServicesKept ==
    ASSUME Typed, ServicesKept, Import, Disturbs PROVE ServicesKept'
<1>0. /\ StagesTyped /\ FilesTyped /\ Coupled(svc)
      /\ UNCHANGED <<code, backup>> /\ stage'["update"] = stage["update"]
    BY TypesAreParts, ImportFrame DEF Typed, ImportOnly, fileVars, FilesTyped
<1>d. ~disturbed' => ~disturbed /\ ~(stage["update"] \in Installing /\ stage'["import"] \in Replacing)
    BY <1>0, DisturbsFacts
<1>s. \A names : /\ OnlyCode => \A s \in Service : Stopped(names)[s] \in {code, "off"}
                 /\ OnlyCode => \A s \in Service : Started(names, code)[s] \in {code, "off"}
                 /\ OnlyCode /\ "api" \in names => \A s \in Service : Started(names, code)[s] = code
    BY OnlyCodeStopped, OnlyCodeStarted
<1>a. "api" \in Service /\ (AllRun => OnlyCode)
    BY DEF Service, AllRun, OnlyCode
<1>i. /\ "verify" \in Installing /\ {"undo files", "undo env", "undo start"} \subseteq Installing
      /\ "commit" \in Replacing
    BY DEF Installing, Deploying, Undoing, Replacing
<1> USE <1>0, JobsAre, DisturbsFacts, <1>d, <1>s, <1>a, <1>i
    DEF StagesTyped, ServicesKept, Calm, AllRun, NoneRuns, OnlyCode, Goto, Replacing, services
<1>1. CASE BeginImport
    BY <1>1 DEF BeginImport, AfterImportFailure, importVars
<1>2. CASE RefuseImport
    BY <1>2 DEF RefuseImport, AfterImportFailure, importVars
<1>3. CASE Checked
  <2>1. was' = Running /\ UNCHANGED svc /\ stage["import"] = "checks" /\ stage'["import"] = "copy"
      BY <1>3 DEF Checked
  <2>r. refused' = refused
      BY <1>3 DEF Checked
  <2>2. Calm' => AllRun
      BY <2>1, <2>r
  <2>3. Calm' => was' = Service
      BY <2>1, <2>2, AllRunning
  <2> QED
      BY <2>1, <2>2, <2>3
<1>4. CASE CopyAndStop
    BY <1>4 DEF CopyAndStop, AfterImportFailure, importVars
<1>5. CASE SaveCredential
    BY <1>5 DEF SaveCredential, AfterImportFailure, importVars
<1>6. CASE MoveCredential
    BY <1>6 DEF MoveCredential, AfterImportFailure, importVars
<1>7. CASE MarkChanged
    BY <1>7 DEF MarkChanged, AfterImportFailure, importVars
<1>8. CASE LoginAccepted
  <2>0. /\ Start(was \cap {"worker"}) /\ was' = was /\ stage["import"] = "login"
        /\ stage'["import"] \in {"account", "health"}
      BY <1>8 DEF LoginAccepted, importVars
  <2>1. /\ ~refused' => ~refused
        /\ svc' = svc \/ svc' = Started(was \cap {"worker"}, code)
      BY <2>0, StartedUnrefused
  <2>2. OnlyCode => OnlyCode'
      BY <2>1
  <2> QED
      BY <2>0, <2>1, <2>2
<1>9. CASE AccountReady
    BY <1>9 DEF AccountReady, AfterImportFailure, importVars
<1>10. CASE ApiHealthy
  <2>0. /\ Start(was \cap {"api"}) /\ was' = was
        /\ stage["import"] = "health" /\ stage'["import"] = "commit"
      BY <1>10 DEF ApiHealthy, importVars
  <2>1. /\ ~refused' => ~refused /\ svc' = Started(was \cap {"api"}, code)
        /\ svc' = svc \/ svc' = Started(was \cap {"api"}, code)
        /\ was' = was /\ stage["import"] = "health" /\ stage'["import"] = "commit"
      BY <2>0, StartedUnrefused
  <2>2. Calm' => was = Service /\ OnlyCode
      BY <2>1
  <2>3. was = Service => "api" \in was \cap {"api"}
      BY DEF Service
  <2>a. OnlyCode /\ "api" \in was \cap {"api"} /\ ~refused' => AllRun'
      BY <2>1, AllStarted
  <2>4. Calm' => AllRun'
      BY <2>a, <2>2, <2>3
  <2>5. OnlyCode => OnlyCode'
      BY <2>1
  <2> QED
      BY <2>1, <2>2, <2>4, <2>5
<1>11. CASE ReportImported
    BY <1>11 DEF ReportImported, AfterImportFailure, importVars
<1>12. CASE ImportRefused
    BY <1>12 DEF ImportRefused, AfterImportFailure, importVars
<1>13. CASE ImportBreaks
    BY <1>13 DEF ImportBreaks, AfterImportFailure, importVars
<1>14. CASE RestoreCredential
    BY <1>14 DEF RestoreCredential, AfterImportFailure, importVars
<1>15. CASE CleanUpImport
  <2>0. Start(was) /\ stage["import"] = "cleanup" /\ stage'["import"] = "off"
      BY <1>15 DEF CleanUpImport
  <2>1. /\ ~refused' => ~refused /\ svc' = Started(was, code)
        /\ svc' = svc \/ svc' = Started(was, code)
        /\ stage["import"] = "cleanup" /\ stage'["import"] = "off"
      BY <2>0, StartedUnrefused
  <2>2. Calm' => was = Service /\ OnlyCode
      BY <2>1
  <2>a. OnlyCode /\ "api" \in was /\ ~refused' => AllRun'
      BY <2>1, AllStarted
  <2>3. Calm' => AllRun'
      BY <2>a, <2>2
  <2>4. OnlyCode => OnlyCode'
      BY <2>1
  <2>5. Calm' => stage["update"] \notin Installing
      BY <2>1
  <2> QED
      BY <2>1, <2>3, <2>4, <2>5
<1>16. CASE ImportExits
    BY <1>16 DEF ImportExits, AfterImportFailure, importVars
<1>17. CASE EndImport
    BY <1>17 DEF EndImport, AfterImportFailure, importVars
<1>18. CASE RestoreFails
    BY <1>18 DEF RestoreFails, AfterImportFailure, importVars
<1> QED
    BY <1>1, <1>2, <1>3, <1>4, <1>5, <1>6, <1>7, <1>8, <1>9, <1>10, <1>11, <1>12, <1>13, <1>14, <1>15, <1>16, <1>17, <1>18 DEF Import

LEMMA NextServicesKept == ASSUME Typed, ServicesKept, [Next]_vars PROVE ServicesKept'
<1>0. StagesTyped
    BY TypesAreParts DEF Typed
<1>1. ASSUME Disturbs, UNCHANGED <<code, backup, services, was>>, NEW k \in Job,
             \A j \in Job \ {k} : stage'[j] = stage[j],
             stage'[k] = stage[k] \/ (stage[k] = "off" /\ stage'[k] = "taken")
      PROVE  ServicesKept'
  <2>1. /\ stage'["update"] \in Installing => stage'["update"] = stage["update"]
        /\ stage["update"] \in Installing => stage'["update"] = stage["update"]
        /\ stage'["import"] \in Replacing => stage'["import"] = stage["import"]
        /\ stage["import"] \in Replacing => stage'["import"] = stage["import"]
      BY <1>1, JobsAre, StagesDiffer
  <2>2. stage'["update"] # "report success" \/ stage["update"] # "verify"
      BY <1>1, JobsAre
  <2>3. {"verify", "undo files", "undo env", "undo start"} \subseteq Installing /\ "commit" \in Replacing
      BY DEF Installing, Deploying, Undoing, Replacing
  <2>4. ~disturbed' => ~disturbed
      BY <1>1, <2>2, DisturbsFacts
  <2>5. stage["import"] = "done" => "done" \in Replacing
      BY DEF Replacing
  <2>6. /\ stage'["update"] \notin Installing <=> stage["update"] \notin Installing
        /\ stage'["import"] \notin Replacing <=> stage["import"] \notin Replacing
      BY <2>1
  <2>7. stage'["import"] \in {"commit", "done"} => stage["import"] = stage'["import"]
      BY <2>1 DEF Replacing
  <2> QED
      BY <1>1, <2>1, <2>3, <2>4, <2>6, <2>7, DisturbsFacts
      DEF ServicesKept, AllRun, NoneRuns, OnlyCode, services
<1>2. CASE Ask /\ Disturbs
  <2>1. UNCHANGED <<code, backup, services, was>> /\ stage' = stage
      BY <1>2, AskFrame DEF RequestOnly, fileVars, importVars, services
  <2>2. PICK k \in Job : stage'[k] = stage[k] /\ \A j \in Job \ {k} : stage'[j] = stage[j]
      BY <2>1, JobsAre
  <2> QED
      BY <1>1, <1>2, <2>1, <2>2
<1>3. CASE (TakeUpdate \/ TakeImport) /\ Disturbs
  <2>1. PICK j \in Job : Take(j)
      BY <1>3, JobsAre DEF TakeUpdate, TakeImport
  <2>2. /\ UNCHANGED <<code, backup, services, was>> /\ stage[j] = "off" /\ stage'[j] = "taken"
        /\ \A k \in Job \ {j} : stage'[k] = stage[k]
      BY <1>0, <2>1, TakeFrame DEF fileVars, importVars
  <2> QED
      BY <1>1, <1>3, <2>2
<1>4. CASE (Update \/ Import) /\ Disturbs
    BY <1>4, UpdateServicesKept, ImportServicesKept
<1>5. CASE \E j \in Job : Kill(j)
  <2>1. PICK j \in Job : Kill(j)
      BY <1>5
  <2>2. /\ UNCHANGED <<code, services>>
        /\ disturbed' = (disturbed \/ stage[j] \in Installing \cup Replacing)
      BY <2>1 DEF Kill, Die, fileVars
  <2>3. stage' = [k \in Job |-> IF k \in {j} THEN "off" ELSE stage[k]]
      BY <2>1 DEF Kill, Die
  <2>4. stage'["update"] = "verify" => stage["update"] = "verify"
      BY <2>3, JobsAre
  <2>5. \A k \in Job \ {j} : stage'[k] = stage[k]
      BY <2>3
  <2>6. /\ "update" \notin {j} => backup' = backup
        /\ "import" \notin {j} => was' = was
      BY <2>1 DEF Kill, Die, importVars
  <2>7. CASE disturbed'
      BY <2>2, <2>4, <2>7 DEF ServicesKept, OnlyCode, services
  <2>8. CASE ~disturbed'
    <3>1. ~disturbed /\ stage[j] \notin Installing \cup Replacing /\ stage'[j] = "off"
        BY <2>2, <2>3, <2>8
    <3>2. CASE j = "update"
        BY <2>2, <2>5, <2>6, <3>1, <3>2, JobsAre, StagesDiffer
        DEF ServicesKept, AllRun, NoneRuns, OnlyCode, services, Installing, Deploying, Undoing
    <3>3. CASE j = "import"
        BY <2>2, <2>5, <2>6, <3>1, <3>3, JobsAre, StagesDiffer
        DEF ServicesKept, AllRun, NoneRuns, OnlyCode, services, Replacing
    <3> QED
        BY <3>2, <3>3, JobsAre
  <2> QED
      BY <2>7, <2>8, <2>2
<1>6. CASE Reboot
  <2>0. PICK ok \in Accepting : /\ svc' = [s \in Service |-> IF ok THEN code ELSE "off"]
                                /\ refused' = ~ok
      BY <1>6 DEF Reboot
  <2>1. code' = code /\ (~refused' => svc' = [s \in Service |-> code])
      BY <1>6, <2>0 DEF Reboot, Die, fileVars
  <2>2. stage' = [j \in Job |-> IF j \in {k \in Job : stage[k] # "off"} THEN "off" ELSE stage[j]]
      BY <1>6 DEF Reboot, Die
  <2>3. stage'["update"] = "off" /\ stage'["import"] = "off"
      BY <2>2, JobsAre
  <2> QED
      BY <2>1, <2>3, StagesDiffer DEF ServicesKept, AllRun
<1>7. CASE TerminateRollback \/ TerminateCleanUp
  <2>1. disturbed' = TRUE /\ UNCHANGED <<code, services>>
      BY <1>0, <1>7, RollbackFrame, CleanUpFrame DEF ImportOnly, fileVars
  <2>2. stage'["update"] = "verify" => stage["update"] = "verify"
      BY <1>0, <1>7, RollbackFrame, CleanUpFrame
  <2> QED
      BY <2>1, <2>2 DEF ServicesKept, OnlyCode, services
<1>8. CASE UNCHANGED vars
    BY <1>8 DEF vars, fileVars, services, importVars, history, ServicesKept, AllRun, NoneRuns, OnlyCode
<1> QED
    BY <1>2, <1>3, <1>4, <1>5, <1>6, <1>7, <1>8, NextCases

\* Wherever an update or an import breaks off, what it stopped it starts again, with the release
\* that is then installed; unless the script is killed, or terminated while it cleans up, or an
\* import runs across an installation, or the worker refuses the CLI that a failed update left.
THEOREM ServicesRestored == Spec => []ServicesComeBack
<1>1. Init => ServicesKept
    BY JobsAre, StagesDiffer DEF Init, ServicesKept, AllRun
<1>2. Typed /\ ServicesKept /\ [Next]_vars => ServicesKept'
    BY NextServicesKept
<1>3. ServicesKept => ServicesComeBack
    BY DEF ServicesKept, ServicesComeBack, AllRun
<1> QED
    BY <1>1, <1>2, <1>3, InitTyped, NextTyped, PTL DEF Spec
=============================================================================
