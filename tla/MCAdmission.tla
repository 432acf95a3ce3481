----------------------------- MODULE MCAdmission -----------------------------
(***************************************************************************)
(* Instance of Admission for TLC: three requests of one key, two policies  *)
(* between which an administrator moves the key while requests are under   *)
(* way, and a clock that crosses one UTC midnight.                         *)
(***************************************************************************)
EXTENDS Admission, TLC

CONSTANTS r1, r2, r3

\* Each policy lets the other's limits be what stops a request: Narrow its concurrency and
\* its balance, Metered its day and its tokens; under Metered alone three requests may run
\* at a time, which is one more than the gateway takes.
Narrow == [rpmLimit |-> 2, dailyRequestLimit |-> 2, maxConcurrency |-> 1,
           requestBudget |-> 2, tokenBudget |-> Unlimited]
Metered == [rpmLimit |-> 3, dailyRequestLimit |-> 1, maxConcurrency |-> 3,
            requestBudget |-> Unlimited, tokenBudget |-> 1]
TwoPolicies == {Narrow, Metered}

ReqSymmetry == Permutations(Req)
=============================================================================
