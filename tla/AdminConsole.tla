----------------------------- MODULE AdminConsole -----------------------------
(***************************************************************************)
(* The administrator of the API: the one-time setup, sessions, and the     *)
(* keys that the console creates, changes and revokes. Every route is a    *)
(* handler; a handler gives way to others where it awaits: a password is   *)
(* hashed or verified, or the models are listed to validate a policy.      *)
(* SQLite runs a statement, and the transaction of the setup, at once. The *)
(* await between the read and the write of updatePolicy is of a promise    *)
(* that is resolved: only microtasks run there, no other handler.          *)
(***************************************************************************)
CONSTANTS
    Handler,   \* requests under way
    Token,     \* bootstrap tokens a request may carry
    Installed, \* the one in the file that the API reads at its start
    Session,   \* sessions that may be created
    Key,       \* keys that may be created
    Field,     \* the fields of a policy beside its models
    Value,     \* values of a field
    Initial    \* the value of a field that the request leaves out

ASSUME ConsoleAssumption ==
    Installed \in Token /\ "models" \notin Field /\ Initial \in Value

VARIABLES
    bootstrap, \* the row of bootstrap_state: the token, and whether it is consumed
    admins,    \* the rows of admin_users, by the handler that created them
    session,   \* the rows of admin_sessions
    key,       \* the rows of api_keys: policy and revoked_at, None without a row
    task,      \* what a handler awaits, None outside of an await
    told       \* history: of each key, the last answered write that names a field

vars == <<bootstrap, admins, session, key, task, told>>

None == [kind |-> "none"]
Fields == Field \cup {"models"}
Policy == [Fields -> Value]
Patch == UNION {[fs -> Value] : fs \in SUBSET Fields}

TypeOK ==
    /\ bootstrap \in [token : Token, consumed : BOOLEAN]
    /\ admins \subseteq Handler
    /\ session \in [Session -> {"none", "live", "revoked", "expired"}]
    /\ \A k \in Key : key[k] = None \/ key[k] \in [policy : Policy, revoked : BOOLEAN]
    /\ \A h \in Handler :
           \/ task[h] = None
           \/ task[h] \in [kind : {"setup"}, token : Token]
           \/ task[h] \in [kind : {"login"}]
           \/ task[h] \in [kind : {"create"}, patch : Patch]
           \/ task[h] \in [kind : {"patch"}, key : Key, patch : Patch]
           \/ task[h] \in [kind : {"write"}, key : Key, patch : Patch, policy : Policy]

\* The first start has installed the token.
Init ==
    /\ bootstrap = [token |-> Installed, consumed |-> FALSE]
    /\ admins = {}
    /\ session = [s \in Session |-> "none"]
    /\ key = [k \in Key |-> None] /\ told = [k \in Key |-> None]
    /\ task = [h \in Handler |-> None]

Idle(h) == task[h] = None
Await(h, what) == task' = [task EXCEPT ![h] = what]
Answer(h) == task' = [task EXCEPT ![h] = None]

(***************************************************************************)
(* Setup and sessions.                                                     *)
(***************************************************************************)

CanConsume(t) == bootstrap = [token |-> t, consumed |-> FALSE] /\ admins = {}

\* The token is good: the password is hashed.
Setup(h, t) ==
    /\ Idle(h) /\ CanConsume(t)
    /\ Await(h, [kind |-> "setup", token |-> t])
    /\ UNCHANGED <<bootstrap, admins, session, key, told>>

\* Seeded fault: what was tested before the password was hashed is not tested again.
ConsumeUntested(h) ==
    /\ task[h].kind = "setup"
    /\ bootstrap' = [bootstrap EXCEPT !.consumed = TRUE] /\ admins' = admins \cup {h}
    /\ Answer(h)
    /\ UNCHANGED <<session, key, told>>

\* consumeBootstrap() tests again, inserts the user and consumes the token, or refuses.
ConsumeBootstrap(h) ==
    /\ task[h].kind = "setup"
    /\ IF CanConsume(task[h].token)
       THEN bootstrap' = [bootstrap EXCEPT !.consumed = TRUE] /\ admins' = admins \cup {h}
       ELSE UNCHANGED <<bootstrap, admins>>
    /\ Answer(h)
    /\ UNCHANGED <<session, key, told>>

\* The user is found and the password is verified.
Login(h) ==
    /\ Idle(h) /\ admins # {}
    /\ Await(h, [kind |-> "login"])
    /\ UNCHANGED <<bootstrap, admins, session, key, told>>

CreateSession(h, s) ==
    /\ task[h].kind = "login" /\ session[s] = "none"
    /\ session' = [session EXCEPT ![s] = "live"]
    /\ Answer(h)
    /\ UNCHANGED <<bootstrap, admins, key, told>>

WrongPassword(h) ==
    /\ task[h].kind = "login"
    /\ Answer(h)
    /\ UNCHANGED <<bootstrap, admins, session, key, told>>

\* authenticate() and verifyCsrf() pass.
Authenticated == \E s \in Session : session[s] = "live"

Logout(s) ==
    /\ session[s] = "live"
    /\ session' = [session EXCEPT ![s] = "revoked"]
    /\ UNCHANGED <<bootstrap, admins, key, task, told>>

\* expires_at has come; touchSession does not move it.
Expire(s) ==
    /\ session[s] = "live"
    /\ session' = [session EXCEPT ![s] = "expired"]
    /\ UNCHANGED <<bootstrap, admins, key, task, told>>

(***************************************************************************)
(* Keys.                                                                   *)
(***************************************************************************)

Patched(policy, p) == [f \in Fields |-> IF f \in DOMAIN p THEN p[f] ELSE policy[f]]
NewKey(p) == [policy |-> Patched([f \in Fields |-> Initial], p), revoked |-> FALSE]

Insert(k, p) ==
    /\ key[k] = None
    /\ key' = [key EXCEPT ![k] = NewKey(p)] /\ told' = [told EXCEPT ![k] = NewKey(p)]

\* Seeded fault: the repository waits for its database, and other handlers run.
NotAtomic == TRUE
Quiet == \A h \in Handler : task[h].kind # "write"

\* updatePolicy() reads the row, of a revoked key too, and finds none or merges the patch.
ReadPolicy(h, k, p) ==
    task' = [task EXCEPT ![h] =
        IF key[k] = None THEN None
        ELSE [kind |-> "write", key |-> k, patch |-> p, policy |-> Patched(key[k].policy, p)]]

\* It writes the columns of the policy, all of them.
WritePolicy(h) ==
    /\ task[h].kind = "write"
    /\ key' = [key EXCEPT ![task[h].key].policy = task[h].policy]
    /\ told' = [told EXCEPT ![task[h].key].policy = Patched(@, task[h].patch)]
    /\ Answer(h)
    /\ UNCHANGED <<bootstrap, admins, session>>

\* A policy that names models waits for the list of them.
CreateKey(h, p) ==
    /\ Idle(h) /\ Authenticated
    /\ IF "models" \in DOMAIN p
       THEN Await(h, [kind |-> "create", patch |-> p]) /\ UNCHANGED <<key, told>>
       ELSE (\E k \in Key : Insert(k, p)) /\ UNCHANGED task
    /\ UNCHANGED <<bootstrap, admins, session>>

\* The models are known.
CreateListed(h) ==
    /\ task[h].kind = "create"
    /\ \E k \in Key : Insert(k, task[h].patch)
    /\ Answer(h)
    /\ UNCHANGED <<bootstrap, admins, session>>

PatchKey(h, k, p) ==
    /\ Idle(h) /\ Authenticated
    /\ IF "models" \in DOMAIN p
       THEN Await(h, [kind |-> "patch", key |-> k, patch |-> p])
       ELSE ReadPolicy(h, k, p)
    /\ UNCHANGED <<bootstrap, admins, session, key, told>>

\* The models are known: the row is read now, not before.
PatchListed(h) ==
    /\ task[h].kind = "patch"
    /\ ReadPolicy(h, task[h].key, task[h].patch)
    /\ UNCHANGED <<bootstrap, admins, session, key, told>>

\* The list fails, or does not have the model.
ListRefused(h) ==
    /\ task[h].kind \in {"create", "patch"}
    /\ Answer(h)
    /\ UNCHANGED <<bootstrap, admins, session, key, told>>

Revoke(k) ==
    /\ Authenticated /\ key[k] # None
    /\ key' = [key EXCEPT ![k].revoked = TRUE] /\ told' = [told EXCEPT ![k].revoked = TRUE]
    /\ UNCHANGED <<bootstrap, admins, session, task>>

(***************************************************************************)
(* The process.                                                            *)
(***************************************************************************)

\* The process ends; the next one installs its token only where no row is.
Restart ==
    /\ task' = [h \in Handler |-> None]
    /\ UNCHANGED <<bootstrap, admins, session, key, told>>

Next ==
    \/ /\ Quiet
       /\ \/ \E h \in Handler :
                 \/ \E t \in Token : Setup(h, t)
                 \/ ConsumeBootstrap(h)
                 \/ Login(h) \/ WrongPassword(h) \/ \E s \in Session : CreateSession(h, s)
                 \/ \E p \in Patch : CreateKey(h, p) \/ \E k \in Key : PatchKey(h, k, p)
                 \/ CreateListed(h) \/ PatchListed(h) \/ ListRefused(h)
          \/ \E s \in Session : Logout(s) \/ Expire(s)
          \/ \E k \in Key : Revoke(k)
    \/ \E h \in Handler : WritePolicy(h)
    \/ Restart

Spec == Init /\ [][Next]_vars

(***************************************************************************)
(* Properties.                                                             *)
(***************************************************************************)

\* However many setups hash their password at once, and whenever the process ends, one
\* administrator is created, the token is consumed with it, and there is no session before
\* (admin-auth/src/index.ts 123-143; admin-auth-repository.ts 41-79).
OneAdministrator ==
    /\ \A a, b \in admins : a = b
    /\ bootstrap.consumed <=> admins # {}
    /\ admins = {} => \A s \in Session : session[s] = "none"

\* A key is what the writes that were answered have made it: though a change writes every
\* column of the policy, and may have awaited the models before, it undoes neither a
\* revocation nor another change that came between
\* (admin-routes.ts 474-497; api-key-repository.ts 69-98).
WritesStay == key = told
=============================================================================
