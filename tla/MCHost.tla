-------------------------------- MODULE MCHost --------------------------------
(***************************************************************************)
(* Instance of HostJobs for TLC: one console handler beside the command    *)
(* line, two releases that need different Codex CLIs, two credentials. An  *)
(* update to the release that is installed is one that keeps the CLI.      *)
(***************************************************************************)
EXTENDS HostJobs, TLC

\* Each release names its own CLI.
OwnCodex == [v \in Version |-> v]

\* Installed and LoggedIn occur in Init alone: no action and no property tells one release
\* from another, or one credential, so what holds after one choice of the two at the
\* beginning holds after every other. OwnCodex is the same under every permutation.
Symmetry == Permutations(Version) \cup Permutations(Credential)

\* What no guard and no property tells apart: a status, except by whether it is "running" or
\* "failed"; the histories disturbed and refused, of which only the disjunction is read, and
\* reset; and due after an import was cut, until the next one begins.
View ==
    <<request, [j \in Job |-> IF status[j] \in {"running", "failed"} THEN status[j] ELSE "idle"],
      handler, stage, target, fileVars, backup, svc, cred, importVars,
      IF "import" \in cut THEN "none" ELSE due, mute, cut, stops, disturbed \/ refused>>
=============================================================================
