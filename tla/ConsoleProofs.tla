---------------------------- MODULE ConsoleProofs ----------------------------
(***************************************************************************)
(* What AdminConsole guarantees for every set of handlers, tokens,         *)
(* sessions, keys and fields: one administrator comes from the one token,  *)
(* and no write of a key undoes another.                                   *)
(***************************************************************************)
EXTENDS AdminConsole, TLAPS

-----------------------------------------------------------------------------
(* Policies *)

LEMMA PatchedIsPolicy ==
    ASSUME NEW policy \in Policy, NEW p \in Patch
    PROVE  Patched(policy, p) \in Policy
<1>1. PICK fs \in SUBSET Fields : p \in [fs -> Value]
    BY DEF Patch
<1> QED
    BY <1>1 DEF Policy, Patched

LEMMA NewKeyIsKey ==
    ASSUME NEW p \in Patch
    PROVE  NewKey(p) \in [policy : Policy, revoked : BOOLEAN]
<1>1. [f \in Fields |-> Initial] \in Policy
    BY ConsoleAssumption DEF Policy
<1> QED
    BY <1>1, PatchedIsPolicy DEF NewKey

-----------------------------------------------------------------------------
(* Types *)

Task ==
    {None} \cup [kind : {"setup"}, token : Token] \cup [kind : {"login"}]
    \cup [kind : {"create"}, patch : Patch]
    \cup [kind : {"patch"}, key : Key, patch : Patch]
    \cup [kind : {"write"}, key : Key, patch : Patch, policy : Policy]

\* The strengthening that types need: what a task is, written as a set.
Typed ==
    /\ bootstrap \in [token : Token, consumed : BOOLEAN]
    /\ admins \subseteq Handler
    /\ session \in [Session -> {"none", "live", "revoked", "expired"}]
    /\ key \in [Key -> {None} \cup [policy : Policy, revoked : BOOLEAN]]
    /\ task \in [Handler -> Task]

LEMMA TypedIsTypeOK == Typed => TypeOK
BY DEF Typed, TypeOK, Task

LEMMA InitTyped == Init => Typed
BY ConsoleAssumption DEF Init, Typed, Task

\* What a task that is awaited holds.
LEMMA TaskOfKind ==
    ASSUME Typed, NEW h \in Handler
    PROVE  /\ task[h].kind = "setup" => task[h].token \in Token
           /\ task[h].kind \in {"create", "patch", "write"} => task[h].patch \in Patch
           /\ task[h].kind \in {"patch", "write"} => task[h].key \in Key
           /\ task[h].kind = "write" => task[h].policy \in Policy
<1> task[h] \in Task
    BY DEF Typed
<1> QED
    BY DEF Task, None

LEMMA AnswerTyped ==
    ASSUME Typed, NEW h \in Handler, Answer(h)
    PROVE  task' \in [Handler -> Task]
BY DEF Typed, Answer, Task

LEMMA ReadPolicyTyped ==
    ASSUME Typed, NEW h \in Handler, NEW k \in Key, NEW p \in Patch, ReadPolicy(h, k, p)
    PROVE  task' \in [Handler -> Task]
<1> DEFINE w == [kind |-> "write", key |-> k, patch |-> p, policy |-> Patched(key[k].policy, p)]
<1>1. CASE key[k] = None
  <2>1. task' = [task EXCEPT ![h] = None]
      BY <1>1 DEF ReadPolicy
  <2> QED
      BY <2>1 DEF Typed, Task
<1>2. CASE key[k] # None
  <2>1. key[k].policy \in Policy
      BY <1>2 DEF Typed
  <2>2. w \in Task
      BY <2>1, PatchedIsPolicy DEF Task
  <2>3. task' = [task EXCEPT ![h] = w]
      BY <1>2 DEF ReadPolicy
  <2> HIDE DEF w
  <2> QED
      BY <2>2, <2>3 DEF Typed
<1> QED
    BY <1>1, <1>2

LEMMA NextTyped == Typed /\ [Next]_vars => Typed'
<1> SUFFICES ASSUME Typed, [Next]_vars PROVE Typed'
    OBVIOUS
<1>1. ASSUME NEW h \in Handler, NEW t \in Token, Setup(h, t) PROVE Typed'
    BY <1>1 DEF Setup, Await, Typed, Task
<1>2. ASSUME NEW h \in Handler, ConsumeBootstrap(h) PROVE Typed'
  <2>1. bootstrap' \in [token : Token, consumed : BOOLEAN] /\ admins' \subseteq Handler
      BY <1>2 DEF ConsumeBootstrap, Typed
  <2>2. task' \in [Handler -> Task]
      BY <1>2, AnswerTyped DEF ConsumeBootstrap
  <2> QED
      BY <1>2, <2>1, <2>2 DEF ConsumeBootstrap, Typed
<1>3. ASSUME NEW h \in Handler, Login(h) PROVE Typed'
    BY <1>3 DEF Login, Await, Typed, Task
<1>4. ASSUME NEW h \in Handler, WrongPassword(h) \/ ListRefused(h) PROVE Typed'
    BY <1>4, AnswerTyped DEF WrongPassword, ListRefused, Typed
<1>5. ASSUME NEW h \in Handler, NEW s \in Session, CreateSession(h, s) PROVE Typed'
    BY <1>5, AnswerTyped DEF CreateSession, Typed
<1>6. ASSUME NEW h \in Handler, NEW p \in Patch, CreateKey(h, p) PROVE Typed'
  <2>1. CASE "models" \in DOMAIN p
      BY <1>6, <2>1 DEF CreateKey, Await, Typed, Task
  <2>2. CASE "models" \notin DOMAIN p
      BY <1>6, <2>2, NewKeyIsKey DEF CreateKey, Insert, Typed
  <2> QED
      BY <2>1, <2>2
<1>7. ASSUME NEW h \in Handler, CreateListed(h) PROVE Typed'
  <2>1. NewKey(task[h].patch) \in [policy : Policy, revoked : BOOLEAN]
      BY <1>7, TaskOfKind, NewKeyIsKey DEF CreateListed
  <2> QED
      BY <1>7, <2>1, AnswerTyped DEF CreateListed, Insert, Typed
<1>8. ASSUME NEW h \in Handler, NEW k \in Key, NEW p \in Patch, PatchKey(h, k, p) PROVE Typed'
  <2>1. CASE "models" \in DOMAIN p
      BY <1>8, <2>1 DEF PatchKey, Await, Typed, Task
  <2>2. CASE "models" \notin DOMAIN p
      BY <1>8, <2>2, ReadPolicyTyped DEF PatchKey, Typed
  <2> QED
      BY <2>1, <2>2
<1>9. ASSUME NEW h \in Handler, PatchListed(h) PROVE Typed'
  <2>1. task[h].key \in Key /\ task[h].patch \in Patch
      BY <1>9, TaskOfKind DEF PatchListed
  <2> QED
      BY <1>9, <2>1, ReadPolicyTyped DEF PatchListed, Typed
<1>10. ASSUME NEW s \in Session, Logout(s) \/ Expire(s) PROVE Typed'
    BY <1>10 DEF Logout, Expire, Typed
<1>11. ASSUME NEW k \in Key, Revoke(k) PROVE Typed'
    BY <1>11 DEF Revoke, Typed
<1>12. ASSUME NEW h \in Handler, WritePolicy(h) PROVE Typed'
  <2>1. task[h].key \in Key /\ task[h].policy \in Policy
      BY <1>12, TaskOfKind DEF WritePolicy
  <2> DEFINE old == key[task[h].key]
             new == [old EXCEPT !.policy = task[h].policy]
  <2>2. key' = [key EXCEPT ![task[h].key] = new]
      BY <1>12 DEF WritePolicy
  <2>3. old \in {None} \cup [policy : Policy, revoked : BOOLEAN]
      BY <2>1 DEF Typed
  <2>4. ASSUME old = None PROVE new = None
      BY <2>4 DEF None
  <2>5. ASSUME old \in [policy : Policy, revoked : BOOLEAN]
        PROVE  new \in [policy : Policy, revoked : BOOLEAN]
      BY <2>1, <2>5
  <2>6. new \in {None} \cup [policy : Policy, revoked : BOOLEAN]
      BY <2>3, <2>4, <2>5, Zenon
  <2> HIDE DEF new
  <2>7. key' \in [Key -> {None} \cup [policy : Policy, revoked : BOOLEAN]]
      BY <2>2, <2>6 DEF Typed
  <2> QED
      BY <1>12, <2>7, AnswerTyped DEF WritePolicy, Typed
<1>13. ASSUME Restart PROVE Typed'
    BY <1>13 DEF Restart, Typed, Task
<1>14. ASSUME UNCHANGED vars PROVE Typed'
    BY <1>14 DEF vars, Typed
<1> QED
    BY <1>1, <1>2, <1>3, <1>4, <1>5, <1>6, <1>7, <1>8, <1>9, <1>10, <1>11, <1>12, <1>13, <1>14
    DEF Next

LEMMA AlwaysTyped == Spec => []Typed
BY InitTyped, NextTyped, PTL DEF Spec

\* The tables hold rows of their types, and a handler awaits with what its route has
\* validated before (admin-routes.ts 474-497; admin-auth-repository.ts 41-79).
THEOREM TypeCorrect == Spec => []TypeOK
BY AlwaysTyped, TypedIsTypeOK, PTL

-----------------------------------------------------------------------------
(* One administrator *)

\* A login has found a user, so the session that it creates comes after the setup.
Founded ==
    /\ OneAdministrator
    /\ \A h \in Handler : task[h].kind = "login" => admins # {}

LEMMA InitFounded == Init => Founded
BY DEF Init, Founded, OneAdministrator, None

LEMMA NextFounded == Typed /\ Founded /\ [Next]_vars => Founded'
<1> SUFFICES ASSUME Typed, Founded, [Next]_vars PROVE Founded'
    OBVIOUS
<1> USE DEF Founded, OneAdministrator
<1>1. ASSUME NEW h \in Handler, NEW t \in Token, Setup(h, t) PROVE Founded'
    BY <1>1 DEF Setup, Await, Typed
<1>2. ASSUME NEW h \in Handler, ConsumeBootstrap(h) PROVE Founded'
  <2>1. CASE CanConsume(task[h].token)
    <3>1. admins = {} /\ admins' = {h} /\ bootstrap'.consumed
        BY <1>2, <2>1 DEF ConsumeBootstrap, CanConsume, Typed
    <3> QED
        BY <3>1
  <2>2. CASE ~CanConsume(task[h].token)
      BY <1>2, <2>2 DEF ConsumeBootstrap, Answer, Typed, None
  <2> QED
      BY <2>1, <2>2
<1>3. ASSUME NEW h \in Handler, Login(h) PROVE Founded'
    BY <1>3 DEF Login, Await, Typed
<1>4. ASSUME NEW h \in Handler, WrongPassword(h) \/ ListRefused(h) PROVE Founded'
    BY <1>4 DEF WrongPassword, ListRefused, Answer, Typed, None
<1>5. ASSUME NEW h \in Handler, NEW s \in Session, CreateSession(h, s) PROVE Founded'
    BY <1>5 DEF CreateSession, Answer, Typed, None
<1>6. ASSUME NEW h \in Handler, NEW p \in Patch, CreateKey(h, p) PROVE Founded'
    BY <1>6 DEF CreateKey, Await, Typed
<1>7. ASSUME NEW h \in Handler, CreateListed(h) PROVE Founded'
    BY <1>7 DEF CreateListed, Answer, Typed, None
<1>8. ASSUME NEW h \in Handler, NEW k \in Key, NEW p \in Patch, PatchKey(h, k, p) PROVE Founded'
    BY <1>8 DEF PatchKey, Await, ReadPolicy, Typed, None
<1>9. ASSUME NEW h \in Handler, PatchListed(h) PROVE Founded'
    BY <1>9 DEF PatchListed, ReadPolicy, Typed, None
<1>10. ASSUME NEW s \in Session, Logout(s) \/ Expire(s) PROVE Founded'
    BY <1>10 DEF Logout, Expire, Typed
<1>11. ASSUME NEW k \in Key, Revoke(k) PROVE Founded'
    BY <1>11 DEF Revoke
<1>12. ASSUME NEW h \in Handler, WritePolicy(h) PROVE Founded'
    BY <1>12 DEF WritePolicy, Answer, Typed, None
<1>13. ASSUME Restart PROVE Founded'
    BY <1>13 DEF Restart, None
<1>14. ASSUME UNCHANGED vars PROVE Founded'
    BY <1>14 DEF vars
<1> QED
    BY <1>1, <1>2, <1>3, <1>4, <1>5, <1>6, <1>7, <1>8, <1>9, <1>10, <1>11, <1>12, <1>13, <1>14
    DEF Next

\* Of any number of setups that pass the token and hash their passwords at once, one creates
\* the administrator and consumes the token, and sessions come only after it
\* (admin-auth/src/index.ts 123-143; admin-auth-repository.ts 41-79).
THEOREM OneSetup == Spec => []OneAdministrator
<1>1. Founded => OneAdministrator
    BY DEF Founded
<1> QED
    BY <1>1, AlwaysTyped, InitFounded, NextFounded, PTL DEF Spec

-----------------------------------------------------------------------------
(* Writes of keys *)

\* A policy that is about to be written is the row's own with the patch: nothing has come
\* between the read and the write.
Fresh ==
    /\ WritesStay
    /\ \A h \in Handler : task[h].kind = "write" =>
           /\ key[task[h].key] # None
           /\ task[h].policy = Patched(key[task[h].key].policy, task[h].patch)
    /\ \A h, i \in Handler : task[h].kind = "write" /\ task[i].kind = "write" => h = i

LEMMA InitFresh == Init => Fresh
BY DEF Init, Fresh, WritesStay, None

LEMMA ReadPolicyFresh ==
    ASSUME Typed, Quiet, WritesStay, NEW h \in Handler, NEW k \in Key, NEW p \in Patch,
           ReadPolicy(h, k, p), UNCHANGED <<key, told>>
    PROVE  Fresh'
<1>1. \A i \in Handler : i # h => task'[i].kind # "write"
    BY DEF ReadPolicy, Quiet, Typed
<1>2. CASE key[k] = None
  <2>1. task'[h] = None
      BY <1>2 DEF ReadPolicy, Typed
  <2> QED
      BY <1>1, <2>1 DEF Fresh, WritesStay, None
<1>3. CASE key[k] # None
  <2>1. task'[h] = [kind |-> "write", key |-> k, patch |-> p,
                    policy |-> Patched(key[k].policy, p)]
      BY <1>3 DEF ReadPolicy, Typed
  <2>2. Patched(key[k].policy, p) = Patched(key'[k].policy, p)
      BY DEF Patched
  <2>3. /\ task'[h].key = k /\ task'[h].patch = p
        /\ task'[h].policy = Patched(key'[k].policy, p)
      BY <2>1, <2>2
  <2>4. (\A i \in Handler : task[i].kind = "write" =>
            /\ key[task[i].key] # None
            /\ task[i].policy = Patched(key[task[i].key].policy, task[i].patch))'
      BY <1>1, <1>3, <2>3
  <2> QED
      BY <1>1, <2>4 DEF Fresh, WritesStay
<1> QED
    BY <1>2, <1>3

\* While no policy waits to be written, a step that leaves none waiting keeps Fresh.
LEMMA QuietFresh ==
    ASSUME WritesStay', Quiet'
    PROVE  Fresh'
BY DEF Fresh, Quiet

LEMMA NextFresh == Typed /\ Fresh /\ [Next]_vars => Fresh'
<1> SUFFICES ASSUME Typed, Fresh, [Next]_vars PROVE Fresh'
    OBVIOUS
<1>1. ASSUME Quiet, NEW h \in Handler, NEW t \in Token, Setup(h, t) PROVE Fresh'
    BY <1>1, QuietFresh DEF Setup, Await, Typed, Quiet, Fresh, WritesStay
<1>2. ASSUME Quiet, NEW h \in Handler, ConsumeBootstrap(h) PROVE Fresh'
    BY <1>2, QuietFresh DEF ConsumeBootstrap, Answer, Typed, Quiet, Fresh, WritesStay, None
<1>3. ASSUME Quiet, NEW h \in Handler, Login(h) PROVE Fresh'
    BY <1>3, QuietFresh DEF Login, Await, Typed, Quiet, Fresh, WritesStay
<1>4. ASSUME Quiet, NEW h \in Handler, WrongPassword(h) \/ ListRefused(h) PROVE Fresh'
    BY <1>4, QuietFresh DEF WrongPassword, ListRefused, Answer, Typed, Quiet, Fresh, WritesStay, None
<1>5. ASSUME Quiet, NEW h \in Handler, NEW s \in Session, CreateSession(h, s) PROVE Fresh'
    BY <1>5, QuietFresh DEF CreateSession, Answer, Typed, Quiet, Fresh, WritesStay, None
<1>6. ASSUME Quiet, NEW h \in Handler, NEW p \in Patch, CreateKey(h, p) PROVE Fresh'
  <2>1. Quiet'
      BY <1>6 DEF CreateKey, Await, Typed, Quiet
  <2>2. WritesStay'
      BY <1>6 DEF CreateKey, Insert, Fresh, WritesStay
  <2> QED
      BY <2>1, <2>2, QuietFresh
<1>7. ASSUME Quiet, NEW h \in Handler, CreateListed(h) PROVE Fresh'
  <2>1. Quiet'
      BY <1>7 DEF CreateListed, Answer, Typed, Quiet, None
  <2>2. WritesStay'
      BY <1>7 DEF CreateListed, Insert, Fresh, WritesStay
  <2> QED
      BY <2>1, <2>2, QuietFresh
<1>8. ASSUME Quiet, NEW h \in Handler, NEW k \in Key, NEW p \in Patch, PatchKey(h, k, p)
      PROVE  Fresh'
  <2>1. CASE "models" \in DOMAIN p
      BY <1>8, <2>1, QuietFresh DEF PatchKey, Await, Typed, Quiet, Fresh, WritesStay
  <2>2. CASE "models" \notin DOMAIN p
      BY <1>8, <2>2, ReadPolicyFresh DEF PatchKey, Fresh
  <2> QED
      BY <2>1, <2>2
<1>9. ASSUME Quiet, NEW h \in Handler, PatchListed(h) PROVE Fresh'
  <2>1. task[h].key \in Key /\ task[h].patch \in Patch
      BY <1>9, TaskOfKind DEF PatchListed
  <2> QED
      BY <1>9, <2>1, ReadPolicyFresh DEF PatchListed, Fresh
<1>10. ASSUME Quiet, NEW s \in Session, Logout(s) \/ Expire(s) PROVE Fresh'
    BY <1>10, QuietFresh DEF Logout, Expire, Quiet, Fresh, WritesStay
<1>11. ASSUME Quiet, NEW k \in Key, Revoke(k) PROVE Fresh'
    BY <1>11, QuietFresh DEF Revoke, Quiet, Fresh, WritesStay
<1>12. ASSUME NEW h \in Handler, WritePolicy(h) PROVE Fresh'
  <2> DEFINE k == task[h].key
  <2>1. Quiet'
      BY <1>12 DEF WritePolicy, Answer, Typed, Quiet, Fresh, None
  <2>2. k \in Key /\ key[k] # None /\ key = told
      BY <1>12, TaskOfKind DEF WritePolicy, Fresh, WritesStay
  <2>3. key[k].policy \in Policy /\ "policy" \in DOMAIN key[k]
      BY <2>2 DEF Typed
  <2>4. key' = [key EXCEPT ![k] = [@ EXCEPT !.policy = Patched(key[k].policy, task[h].patch)]]
      BY <1>12, <2>2 DEF WritePolicy, Fresh
  <2>5. told' = [key EXCEPT ![k] = [@ EXCEPT !.policy = Patched(key[k].policy, task[h].patch)]]
      BY <1>12, <2>2, <2>3 DEF WritePolicy
  <2> QED
      BY <2>1, <2>4, <2>5, QuietFresh DEF WritesStay
<1>13. ASSUME Restart PROVE Fresh'
    BY <1>13, QuietFresh DEF Restart, Quiet, None, Fresh, WritesStay
<1>14. ASSUME UNCHANGED vars PROVE Fresh'
    BY <1>14 DEF vars, Fresh, WritesStay, Patched
<1> QED
    BY <1>1, <1>2, <1>3, <1>4, <1>5, <1>6, <1>7, <1>8, <1>9, <1>10, <1>11, <1>12, <1>13, <1>14
    DEF Next

\* A change of a policy writes all its columns, yet undoes neither a revocation nor another
\* change: between its read and its write nothing else is written
\* (admin-routes.ts 474-497; api-key-repository.ts 69-98).
THEOREM WritesAreKept == Spec => []WritesStay
<1>1. Fresh => WritesStay
    BY DEF Fresh
<1> QED
    BY <1>1, AlwaysTyped, InitFresh, NextFresh, PTL DEF Spec
=============================================================================
