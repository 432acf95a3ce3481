--------------------------- MODULE AdmissionProofs ---------------------------
(***************************************************************************)
(* What Admission guarantees for every set of requests, keys, policies and *)
(* limits: its types, the lease counters of RequestPolicyManager, the two  *)
(* concurrency limits, and that the leases are those of a LeasePool.       *)
(***************************************************************************)
EXTENDS Admission, FiniteSetTheorems, TLAPS

-----------------------------------------------------------------------------
(* Types *)

LEMMA InitTypeOK == Init => TypeOK
<1> SUFFICES ASSUME Init PROVE TypeOK
    OBVIOUS
<1>1. (CHOOSE k \in Key : TRUE) \in Key
    BY AdmissionAssumption
<1>2. (CHOOSE p \in Policies : TRUE) \in Policies
    BY AdmissionAssumption
<1>3. NoRow \in Row
    BY DEF NoRow, Row
<1> QED
    BY <1>1, <1>2, <1>3 DEF Init, TypeOK, Kinds

\* The parts of a step that several actions share keep the types of what they write.
LEMMA LeaseTypes ==
    ASSUME TypeOK, NEW r \in Req, TakeLease(r) \/ Release(r) \/ UNCHANGED leaseVars
    PROVE  /\ lease' \in [Req -> {"none", "held", "released"}]
           /\ active' \in [Key -> Nat]
           /\ globalActive' \in Nat
<1>1. CASE TakeLease(r)
    BY <1>1 DEF TypeOK, TakeLease
<1>2. CASE Release(r) /\ lease[r] = "held"
  <2>1. \A n \in Nat : OneLess(n) \in Nat
      BY DEF OneLess
  <2>2. keyOf[r] \in Key
      BY DEF TypeOK
  <2>3. OneLess(active[keyOf[r]]) \in Nat /\ OneLess(globalActive) \in Nat
      BY <2>1, <2>2 DEF TypeOK
  <2> QED
      BY <1>2, <2>3 DEF TypeOK, Release
<1>3. CASE UNCHANGED leaseVars
    BY <1>3 DEF TypeOK, leaseVars
<1> QED
    BY <1>1, <1>2, <1>3 DEF Release

\* A row with another status is a row.
LEMMA StatusTypes ==
    ASSUME NEW row \in Row, NEW status \in {"none", "in_progress", "completed", "failed"}
    PROVE  [row EXCEPT !.status = status] \in Row
BY DEF Row

LEMMA GrantedTypes ==
    ASSUME TypeOK, NEW r \in Req, Granted(r)
    PROVE  now' \in Nat /\ rpmWindows' \in [Key -> SUBSET (Req \X Nat)]
<1>1. PICK t \in PolicyClock : now' = t /\ CountPass(r, t)
    BY DEF Granted
<1>2. t \in Nat
    BY DEF PolicyClock, TypeOK
<1>3. FreshWindow(keyOf[r], t) \subseteq Req \X Nat
    BY DEF TypeOK, FreshWindow
<1> QED
    BY <1>1, <1>2, <1>3 DEF TypeOK, CountPass

LEMMA StepTypeOK == TypeOK /\ [Next]_vars => TypeOK'
<1> SUFFICES ASSUME TypeOK, [Next]_vars PROVE TypeOK'
    OBVIOUS
<1> USE AdmissionAssumption
<1>1. ASSUME NEW r \in Req, NEW k \in Key, NEW route \in Routes, Authenticate(r, k, route)
      PROVE  TypeOK'
    BY <1>1 DEF TypeOK, Authenticate, Kinds
<1>2. ASSUME NEW r \in Req, TurnAway(r) PROVE TypeOK'
    BY <1>2 DEF TypeOK, TurnAway, requestVars
<1>3. ASSUME NEW r \in Req, Deny(r) PROVE TypeOK'
  <2>1. PICK t \in PolicyClock : now' = t /\ (UNCHANGED rpmWindows \/ CountPass(r, t))
      BY <1>3 DEF Deny
  <2>2. t \in Nat
      BY DEF PolicyClock, TypeOK
  <2>3. rpmWindows' \in [Key -> SUBSET (Req \X Nat)]
    <3>1. FreshWindow(keyOf[r], t) \subseteq Req \X Nat
        BY DEF TypeOK, FreshWindow
    <3> QED
        BY <2>1, <2>2, <3>1 DEF TypeOK, CountPass
  <2>4. log' \in [Req -> Row]
    <3> DEFINE RowAs(status) == [status |-> status, billable |-> FALSE, startedAt |-> now]
    <3>1. log' = [log EXCEPT ![r] = RowAs("failed")]
          \/ log' = [log EXCEPT ![r] = RowAs("in_progress")] \/ log' = log
        BY <1>3 DEF Deny, LogDenied
    <3>2. RowAs("failed") \in Row /\ RowAs("in_progress") \in Row
        BY DEF TypeOK, Row
    <3> QED
        BY <3>1, <3>2 DEF TypeOK
  <2>5. unlogged' \subseteq Req
      BY <1>3 DEF TypeOK, Deny, LogDenied
  <2> QED
      BY <1>3, <2>1, <2>2, <2>3, <2>4, <2>5 DEF TypeOK, Deny, requestVars
<1>4. ASSUME NEW r \in Req, Admit(r) PROVE TypeOK'
  <2>1. log' \in [Req -> Row]
      BY <1>4 DEF TypeOK, Admit, BeginRow, Billable, Row
  <2>2. lease' \in [Req -> {"none", "held", "released"}]
        /\ active' \in [Key -> Nat] /\ globalActive' \in Nat
      BY <1>4, LeaseTypes DEF Admit
  <2> QED
      BY <1>4, <2>1, <2>2, GrantedTypes DEF TypeOK, Admit, requestVars
<1>5. ASSUME NEW r \in Req, AdmitWithoutRow(r) PROVE TypeOK'
  <2>1. lease' \in [Req -> {"none", "held", "released"}]
        /\ active' \in [Key -> Nat] /\ globalActive' \in Nat
      BY <1>5, LeaseTypes DEF AdmitWithoutRow
  <2> QED
      BY <1>5, <2>1, GrantedTypes DEF TypeOK, AdmitWithoutRow, requestVars
<1>6. ASSUME NEW r \in Req, Finish(r) PROVE TypeOK'
  <2>1. PICK status \in {"completed", "failed"}, tokens \in Reportable(r) :
           Answer(r, status, tokens)
      BY <1>6 DEF Finish
  <2>2. tokens \in Nat
      BY DEF Reportable
  <2>3. lease' \in [Req -> {"none", "held", "released"}]
        /\ active' \in [Key -> Nat] /\ globalActive' \in Nat
      BY <2>1, LeaseTypes DEF Answer
  <2>4. log' \in [Req -> Row]
    <3>1. log \in [Req -> Row] /\ [log[r] EXCEPT !.status = status] \in Row
        BY <2>1, StatusTypes DEF TypeOK
    <3>2. log' = [log EXCEPT ![r] = [log[r] EXCEPT !.status = status]]
        BY <2>1, <3>1 DEF Answer
    <3> QED
        BY <3>1, <3>2
  <2>5. tokenTotal' \in [Key -> Nat]
      BY <2>1, <2>2 DEF TypeOK, Answer
  <2> QED
      BY <1>6, <2>3, <2>4, <2>5 DEF TypeOK, Finish, requestVars
<1>7. ASSUME NEW r \in Req, FinishUnlogged(r) PROVE TypeOK'
  <2>1. lease' \in [Req -> {"none", "held", "released"}]
        /\ active' \in [Key -> Nat] /\ globalActive' \in Nat
      BY <1>7, LeaseTypes DEF FinishUnlogged
  <2> QED
      BY <1>7, <2>1 DEF TypeOK, FinishUnlogged, requestVars
<1>8. ASSUME NEW k \in Key, NEW p \in Policies, UpdatePolicy(k, p) PROVE TypeOK'
    BY <1>8 DEF TypeOK, UpdatePolicy, requestVars
<1>9. ASSUME NEW k \in Key, Revoke(k) PROVE TypeOK'
    BY <1>9 DEF TypeOK, Revoke, requestVars
<1>10. CASE Crash
    BY <1>10 DEF TypeOK, Crash, requestVars
<1>11. CASE Restart
  <2>1. \A r \in Req : log[r] \in Row /\ [log[r] EXCEPT !.status = "failed"] \in Row
      BY StatusTypes DEF TypeOK
  <2>2. log' \in [Req -> Row]
      BY <1>11, <2>1 DEF Restart, RecoverInterrupted
  <2> QED
      BY <1>11, <2>2 DEF TypeOK, Restart, requestVars
<1>12. CASE Tick
    BY <1>12 DEF TypeOK, Tick, requestVars
<1>13. CASE UNCHANGED vars
    BY <1>13 DEF TypeOK, vars
<1> QED
    BY <1>1, <1>2, <1>3, <1>4, <1>5, <1>6, <1>7, <1>8, <1>9, <1>10, <1>11, <1>12, <1>13 DEF Next

\* Every reachable state of the gateway has the types TypeOK states.
THEOREM TypeCorrect == Spec => []TypeOK
    BY InitTypeOK, StepTypeOK, PTL DEF Spec

-----------------------------------------------------------------------------
(* Leases *)

\* Where a handler stands and what it holds go together: no lease before acquire(), and
\* one for the whole backend call of a billable request.
LeaseLink ==
    \A r \in Req :
       /\ pc[r] \in {"idle", "authenticated"} => lease[r] = "none"
       /\ pc[r] = "running" /\ Billable(r) => lease[r] = "held"

\* A key's leases are taken one by one, each under the limit its handler had read, so every
\* set of them has a member that was allowed that many.
KeyLimitLink ==
    \A S \in SUBSET Req :
       /\ S # {}
       /\ \A q, r \in S : keyOf[q] = keyOf[r]
       /\ \A r \in S : lease[r] = "held"
       => \E r \in S : Cardinality(S) <= seen[r].maxConcurrency

LeaseInv ==
    /\ TypeOK
    /\ LeaseLink
    /\ LeaseAccounting
    /\ Cardinality(Holders) <= GlobalConcurrency
    /\ KeyLimitLink

\* A set that loses a member has one member less.
LEMMA OneRemoved ==
    ASSUME NEW S, IsFiniteSet(S), NEW x \in S
    PROVE  Cardinality(S \ {x}) = Cardinality(S) - 1 /\ Cardinality(S) \in Nat \ {0}
<1>1. S # {}
    OBVIOUS
<1>2. Cardinality(S) \in Nat /\ Cardinality(S) # 0
    BY <1>1, FS_CardinalityType, FS_EmptySet
<1>3. Cardinality(S \ {x}) = Cardinality(S) - 1
    BY FS_RemoveElement
<1> QED
    BY <1>2, <1>3

LEMMA HoldersFinite ==
    ASSUME NEW k
    PROVE  /\ IsFiniteSet(Holders) /\ Cardinality(Holders) \in Nat
           /\ IsFiniteSet(HoldersOf(k)) /\ Cardinality(HoldersOf(k)) \in Nat
    BY AdmissionAssumption, FS_Subset, FS_CardinalityType DEF Holders, HoldersOf

\* Every step leaves the leases and keys alone, takes a lease, returns one, forgets all, or
\* binds a request that holds none to its key.
SameLeases == UNCHANGED <<keyOf, seen, lease, active, globalActive>>
Binds(r) ==
    /\ lease[r] = "none"
    /\ \A q \in Req \ {r} : keyOf'[q] = keyOf[q] /\ seen'[q] = seen[q]
    /\ UNCHANGED <<lease, active, globalActive>>
Takes(r) ==
    /\ lease[r] = "none"
    /\ ~KeyBusy(r) /\ ~GatewayBusy
    /\ TakeLease(r)
    /\ UNCHANGED <<keyOf, seen>>
Returns(r) ==
    /\ lease[r] = "held"
    /\ Release(r)
    /\ UNCHANGED <<keyOf, seen>>
Forgets ==
    /\ lease' = [r \in Req |-> IF lease[r] = "held" THEN "released" ELSE lease[r]]
    /\ active' = [k \in Key |-> 0]
    /\ globalActive' = 0

LEMMA LeaseSteps ==
    ASSUME TypeOK, LeaseLink, [Next]_vars
    PROVE  \/ SameLeases
           \/ Forgets
           \/ \E r \in Req : Binds(r) \/ Takes(r) \/ Returns(r)
<1> USE DEF requestVars, leaseVars
<1>1. ASSUME NEW r \in Req, NEW k \in Key, NEW route \in Routes, Authenticate(r, k, route)
      PROVE  Binds(r)
    BY <1>1 DEF TypeOK, LeaseLink, Authenticate, Binds
<1>2. ASSUME NEW r \in Req, TurnAway(r) \/ Deny(r) PROVE SameLeases
    BY <1>2 DEF TurnAway, Deny, SameLeases
<1>3. ASSUME NEW r \in Req, Admit(r) PROVE SameLeases \/ Takes(r)
  <2>1. CASE Billable(r)
    <3>1. ~KeyBusy(r) /\ ~GatewayBusy
        BY <1>3, <2>1 DEF Admit, Granted, OverLimit
    <3> QED
        BY <1>3, <2>1, <3>1 DEF LeaseLink, Admit, Takes
  <2>2. CASE ~Billable(r)
      BY <1>3, <2>2 DEF Admit, SameLeases
  <2> QED
      BY <2>1, <2>2
<1>4. ASSUME NEW r \in Req, AdmitWithoutRow(r) PROVE SameLeases \/ Takes(r)
  <2>1. CASE kind[r] = "plain"
    <3>1. ~KeyBusy(r) /\ ~GatewayBusy
        BY <1>4, <2>1 DEF AdmitWithoutRow, Granted, OverLimit, Billable
    <3> QED
        BY <1>4, <2>1, <3>1 DEF LeaseLink, AdmitWithoutRow, Takes
  <2>2. CASE kind[r] # "plain"
      BY <1>4, <2>2 DEF AdmitWithoutRow, SameLeases
  <2> QED
      BY <2>1, <2>2
<1>5. ASSUME NEW r \in Req, Finish(r) \/ FinishUnlogged(r) PROVE SameLeases \/ Returns(r)
  <2>1. Release(r) /\ UNCHANGED <<keyOf, seen>>
      BY <1>5 DEF Finish, FinishUnlogged, Answer
  <2> QED
      BY <2>1 DEF Release, Returns, SameLeases
<1>6. ASSUME NEW k \in Key, NEW p \in Policies, UpdatePolicy(k, p)
      PROVE  SameLeases
    BY <1>6 DEF UpdatePolicy, SameLeases
<1>7. ASSUME NEW k \in Key, Revoke(k) PROVE SameLeases
    BY <1>7 DEF Revoke, SameLeases
<1>8. CASE Crash
    BY <1>8 DEF Crash, Forgets
<1>9. CASE Restart \/ Tick \/ UNCHANGED vars
    BY <1>9 DEF Restart, Tick, vars, SameLeases
<1> QED
    BY <1>1, <1>2, <1>3, <1>4, <1>5, <1>6, <1>7, <1>8, <1>9 DEF Next

LEMMA InitLeaseInv == Init => LeaseInv
<1> SUFFICES ASSUME Init PROVE LeaseInv
    OBVIOUS
<1>1. Holders = {} /\ \A k \in Key : HoldersOf(k) = {}
    BY DEF Init, Holders, HoldersOf
<1>2. Cardinality({}) = 0
    BY FS_EmptySet
<1>3. LeaseAccounting /\ Cardinality(Holders) <= GlobalConcurrency
  <2>1. LeaseAccounting
      BY <1>1, <1>2 DEF Init, LeaseAccounting
  <2>2. Cardinality(Holders) = 0 /\ GlobalConcurrency \in Nat
      BY <1>1, <1>2, AdmissionAssumption DEF Positive
  <2> QED
      BY <2>1, <2>2
<1> QED
    BY <1>3, InitTypeOK DEF Init, LeaseInv, LeaseLink, KeyLimitLink

LEMMA LinkStep == TypeOK /\ LeaseLink /\ [Next]_vars => LeaseLink'
<1> SUFFICES ASSUME TypeOK, LeaseLink, [Next]_vars PROVE LeaseLink'
    OBVIOUS
<1> USE DEF TypeOK, LeaseLink, Billable, requestVars, leaseVars
<1>1. ASSUME NEW r \in Req, NEW k \in Key, NEW route \in Routes, Authenticate(r, k, route)
      PROVE  LeaseLink'
    BY <1>1 DEF Authenticate
<1>2. ASSUME NEW r \in Req, TurnAway(r) \/ Deny(r) PROVE LeaseLink'
    BY <1>2 DEF TurnAway, Deny
<1>3. ASSUME NEW r \in Req, Admit(r) PROVE LeaseLink'
    BY <1>3 DEF Admit, TakeLease
<1>4. ASSUME NEW r \in Req, AdmitWithoutRow(r) PROVE LeaseLink'
  <2>1. CASE kind[r] = "plain"
      BY <1>4, <2>1 DEF AdmitWithoutRow, TakeLease
  <2>2. CASE kind[r] # "plain"
      BY <1>4, <2>2 DEF AdmitWithoutRow
  <2> QED
      BY <2>1, <2>2
<1>5. ASSUME NEW r \in Req, Finish(r) \/ FinishUnlogged(r) PROVE LeaseLink'
    BY <1>5 DEF Finish, FinishUnlogged, Answer, Release
<1>6. ASSUME NEW k \in Key, NEW p \in Policies, UpdatePolicy(k, p) PROVE LeaseLink'
    BY <1>6 DEF UpdatePolicy
<1>7. ASSUME NEW k \in Key, Revoke(k) PROVE LeaseLink'
    BY <1>7 DEF Revoke
<1>8. CASE Crash
    BY <1>8 DEF Crash
<1>9. CASE Restart \/ Tick \/ UNCHANGED vars
    BY <1>9 DEF Restart, Tick, vars
<1> QED
    BY <1>1, <1>2, <1>3, <1>4, <1>5, <1>6, <1>7, <1>8, <1>9 DEF Next

\* What each kind of step does to the leases of one key and of the gateway.
LEMMA TakesHolders ==
    ASSUME TypeOK, NEW r \in Req, Takes(r), NEW k \in Key
    PROVE  /\ Holders' = Holders \cup {r} /\ r \notin Holders
           /\ HoldersOf(k)' = IF keyOf[r] = k THEN HoldersOf(k) \cup {r} ELSE HoldersOf(k)
           /\ r \notin HoldersOf(k)
    BY DEF TypeOK, Takes, TakeLease, Holders, HoldersOf

LEMMA ReturnsHolders ==
    ASSUME TypeOK, NEW r \in Req, Returns(r), NEW k \in Key
    PROVE  /\ Holders' = Holders \ {r} /\ r \in Holders
           /\ HoldersOf(k)' = IF keyOf[r] = k THEN HoldersOf(k) \ {r} ELSE HoldersOf(k)
           /\ keyOf[r] = k => r \in HoldersOf(k)
    BY DEF TypeOK, Returns, Release, Holders, HoldersOf

LEMMA BindsHolders ==
    ASSUME TypeOK, NEW r \in Req, Binds(r), NEW k \in Key
    PROVE  Holders' = Holders /\ HoldersOf(k)' = HoldersOf(k)
<1>1. ASSUME NEW q \in Req PROVE q \in HoldersOf(k)' <=> q \in HoldersOf(k)
    BY DEF Binds, HoldersOf
<1> QED
    BY <1>1 DEF Binds, Holders, HoldersOf

LEMMA AccountingStep ==
    ASSUME TypeOK, LeaseAccounting, Cardinality(Holders) <= GlobalConcurrency,
           \/ SameLeases
           \/ Forgets
           \/ \E r \in Req : Binds(r) \/ Takes(r) \/ Returns(r)
    PROVE  LeaseAccounting' /\ (Cardinality(Holders) <= GlobalConcurrency)'
<1>1. CASE SameLeases
  <2>1. Holders' = Holders /\ \A k \in Key : HoldersOf(k)' = HoldersOf(k)
      BY <1>1 DEF SameLeases, Holders, HoldersOf
  <2> QED
      BY <1>1, <2>1 DEF SameLeases, LeaseAccounting
<1>2. CASE Forgets
  <2>1. Holders' = {} /\ \A k \in Key : HoldersOf(k)' = {}
      BY <1>2 DEF Forgets, Holders, HoldersOf
  <2>2. Cardinality({}) = 0
      BY FS_EmptySet
  <2> QED
      BY <1>2, <2>1, <2>2, AdmissionAssumption DEF Forgets, LeaseAccounting, Positive
<1>3. ASSUME NEW r \in Req, Binds(r)
      PROVE  LeaseAccounting' /\ (Cardinality(Holders) <= GlobalConcurrency)'
  <2>1. \A k \in Key : HoldersOf(k)' = HoldersOf(k)
      BY <1>3, BindsHolders
  <2>2. Holders' = Holders
      BY <1>3, BindsHolders, AdmissionAssumption
  <2> QED
      BY <1>3, <2>1, <2>2 DEF Binds, LeaseAccounting
<1>4. ASSUME NEW r \in Req, Takes(r)
      PROVE  LeaseAccounting' /\ (Cardinality(Holders) <= GlobalConcurrency)'
  <2>1. keyOf[r] \in Key
      BY DEF TypeOK
  <2>2. Cardinality(Holders)' = Cardinality(Holders) + 1
      BY <1>4, <2>1, TakesHolders, HoldersFinite, FS_AddElement
  <2>3. ASSUME NEW k \in Key PROVE active'[k] = Cardinality(HoldersOf(k))'
    <3>1. CASE k = keyOf[r]
      <4>1. Cardinality(HoldersOf(k))' = Cardinality(HoldersOf(k)) + 1
          BY <1>4, <3>1, TakesHolders, HoldersFinite, FS_AddElement
      <4> QED
          BY <1>4, <3>1, <4>1 DEF TypeOK, Takes, TakeLease, LeaseAccounting
    <3>2. CASE k # keyOf[r]
      <4>1. HoldersOf(k)' = HoldersOf(k)
          BY <1>4, <3>2, TakesHolders
      <4> QED
          BY <1>4, <3>2, <4>1 DEF TypeOK, Takes, TakeLease, LeaseAccounting
    <3> QED
        BY <3>1, <3>2
  <2>4. globalActive' = globalActive + 1 /\ globalActive < GlobalConcurrency
      BY <1>4, AdmissionAssumption DEF TypeOK, Takes, TakeLease, GatewayBusy, Positive
  <2> QED
      BY <2>2, <2>3, <2>4, AdmissionAssumption DEF TypeOK, LeaseAccounting, Positive
<1>5. ASSUME NEW r \in Req, Returns(r)
      PROVE  LeaseAccounting' /\ (Cardinality(Holders) <= GlobalConcurrency)'
  <2>1. keyOf[r] \in Key
      BY DEF TypeOK
  <2>2. Cardinality(Holders)' = Cardinality(Holders) - 1 /\ Cardinality(Holders) > 0
    <3>1. Holders' = Holders \ {r} /\ r \in Holders
        BY <1>5, <2>1, ReturnsHolders
    <3> QED
        BY <3>1, HoldersFinite, OneRemoved
  <2>3. ASSUME NEW k \in Key PROVE active'[k] = Cardinality(HoldersOf(k))'
    <3>1. CASE k = keyOf[r]
      <4>1. HoldersOf(k)' = HoldersOf(k) \ {r} /\ r \in HoldersOf(k)
          BY <1>5, <3>1, ReturnsHolders
      <4>2. Cardinality(HoldersOf(k))' = Cardinality(HoldersOf(k)) - 1
            /\ Cardinality(HoldersOf(k)) # 0
          BY <4>1, HoldersFinite, OneRemoved
      <4>3. active'[k] = OneLess(active[k])
          BY <1>5, <3>1 DEF TypeOK, Returns, Release
      <4> QED
          BY <4>2, <4>3 DEF TypeOK, OneLess, LeaseAccounting
    <3>2. CASE k # keyOf[r]
      <4>1. HoldersOf(k)' = HoldersOf(k)
          BY <1>5, <3>2, ReturnsHolders
      <4>2. active'[k] = active[k]
          BY <1>5, <3>2 DEF TypeOK, Returns, Release
      <4> QED
          BY <4>1, <4>2 DEF LeaseAccounting
    <3> QED
        BY <3>1, <3>2
  <2>4. globalActive' = OneLess(globalActive)
      BY <1>5 DEF Returns, Release
  <2>5. globalActive' = Cardinality(Holders)'
      BY <2>2, <2>4 DEF TypeOK, OneLess, LeaseAccounting
  <2> QED
      BY <2>2, <2>3, <2>5, HoldersFinite, AdmissionAssumption DEF LeaseAccounting, Positive
<1> QED
    BY <1>1, <1>2, <1>3, <1>4, <1>5

\* A subset S of Req with a common key, all holding: after a step, either it is such a set
\* before, or the step took the lease of one member, whose limit the whole key respects.
LEMMA KeyLimitStep ==
    ASSUME TypeOK, LeaseAccounting, KeyLimitLink,
           \/ SameLeases
           \/ Forgets
           \/ \E r \in Req : Binds(r) \/ Takes(r) \/ Returns(r)
    PROVE  KeyLimitLink'
<1> SUFFICES ASSUME NEW S \in SUBSET Req, S # {},
                    \A q, r \in S : keyOf'[q] = keyOf'[r],
                    \A r \in S : lease'[r] = "held"
             PROVE  \E r \in S : Cardinality(S) <= seen'[r].maxConcurrency
    BY DEF KeyLimitLink
<1>1. CASE SameLeases
    BY <1>1 DEF SameLeases, KeyLimitLink
<1>2. CASE Forgets
    BY <1>2 DEF Forgets
<1>3. ASSUME NEW r \in Req, Binds(r)
      PROVE  \E q \in S : Cardinality(S) <= seen'[q].maxConcurrency
  <2>1. \A q \in S : q # r /\ keyOf'[q] = keyOf[q] /\ seen'[q] = seen[q] /\ lease[q] = "held"
      BY <1>3 DEF Binds
  <2> QED
      BY <2>1 DEF KeyLimitLink
<1>4. ASSUME NEW r \in Req, Takes(r)
      PROVE  \E q \in S : Cardinality(S) <= seen'[q].maxConcurrency
  <2>1. UNCHANGED <<keyOf, seen>> /\ \A q \in Req \ {r} : lease'[q] = lease[q]
      BY <1>4 DEF TypeOK, Takes, TakeLease
  <2>2. CASE r \notin S
      BY <2>1, <2>2 DEF KeyLimitLink
  <2>3. CASE r \in S
    <3> DEFINE k == keyOf[r]
    <3>1. k \in Key
        BY DEF TypeOK
    <3>2. S \subseteq HoldersOf(k) \cup {r}
        BY <2>1, <2>3 DEF HoldersOf
    <3>3. IsFiniteSet(HoldersOf(k) \cup {r})
          /\ Cardinality(HoldersOf(k) \cup {r}) = Cardinality(HoldersOf(k)) + 1
        BY <1>4, <3>1, TakesHolders, HoldersFinite, FS_AddElement
    <3>4. Cardinality(S) <= Cardinality(HoldersOf(k)) + 1 /\ Cardinality(S) \in Nat
        BY <3>2, <3>3, FS_Subset, FS_CardinalityType
    <3>5. ~(active[k] >= seen[r].maxConcurrency)
        BY <1>4 DEF Takes, KeyBusy
    <3>6. seen[r].maxConcurrency \in Nat
        BY AdmissionAssumption DEF TypeOK, Policy, Positive
    <3>7. active[k] = Cardinality(HoldersOf(k)) /\ active[k] \in Nat
        BY <3>1 DEF TypeOK, LeaseAccounting
    <3>8. Cardinality(S) <= seen[r].maxConcurrency
        BY <3>4, <3>5, <3>6, <3>7
    <3> QED
        BY <2>1, <2>3, <3>8
  <2> QED
      BY <2>2, <2>3
<1>5. ASSUME NEW r \in Req, Returns(r)
      PROVE  \E q \in S : Cardinality(S) <= seen'[q].maxConcurrency
  <2>1. UNCHANGED <<keyOf, seen>> /\ \A q \in S : lease[q] = "held"
      BY <1>5 DEF TypeOK, Returns, Release
  <2> QED
      BY <2>1 DEF KeyLimitLink
<1> QED
    BY <1>1, <1>2, <1>3, <1>4, <1>5

LEMMA StepLeaseInv == LeaseInv /\ [Next]_vars => LeaseInv'
<1> SUFFICES ASSUME LeaseInv, [Next]_vars PROVE LeaseInv'
    OBVIOUS
<1>1. TypeOK' /\ LeaseLink'
    BY StepTypeOK, LinkStep DEF LeaseInv
<1>2. \/ SameLeases
      \/ Forgets
      \/ \E r \in Req : Binds(r) \/ Takes(r) \/ Returns(r)
    BY LeaseSteps DEF LeaseInv
<1>3. LeaseAccounting' /\ (Cardinality(Holders) <= GlobalConcurrency)'
    BY <1>2, AccountingStep DEF LeaseInv
<1>4. KeyLimitLink'
    BY <1>2, KeyLimitStep DEF LeaseInv
<1> QED
    BY <1>1, <1>3, <1>4 DEF LeaseInv

LEMMA LeaseInvariant == Spec => []LeaseInv
    BY InitLeaseInv, StepLeaseInv, PTL DEF Spec

\* RequestPolicyManager's counters are the leases outstanding, whatever requests end early,
\* fail to be logged or die with the process.
THEOREM LeasesAccounted == Spec => []LeaseAccounting
    BY LeaseInvariant, PTL DEF LeaseInv

\* MYTOKEN_MAX_GLOBAL_CONCURRENCY bounds the calls the backend has at any time.
THEOREM GlobalConcurrencySafe == Spec => []GlobalConcurrencyHonoured
<1>1. LeaseInv => GlobalConcurrencyHonoured
  <2> SUFFICES ASSUME LeaseInv PROVE GlobalConcurrencyHonoured
      OBVIOUS
  <2> DEFINE Running == {r \in Req : pc[r] = "running" /\ Billable(r)}
  <2>1. Running \subseteq Holders
      BY DEF LeaseInv, LeaseLink, Holders
  <2>2. IsFiniteSet(Holders) /\ Cardinality(Running) \in Nat /\ Cardinality(Holders) \in Nat
      BY <2>1, HoldersFinite, FS_Subset, FS_CardinalityType
  <2>3. Cardinality(Running) <= Cardinality(Holders)
      BY <2>1, <2>2, FS_Subset
  <2> QED
      BY <2>2, <2>3, AdmissionAssumption
      DEF LeaseInv, GlobalConcurrencyHonoured, Positive
<1> QED
    BY <1>1, LeaseInvariant, PTL

\* A key never has more leases than one of its requests was allowed, though the limit moves
\* between the read of the key's record and acquire().
THEOREM KeyConcurrencySafe == Spec => []KeyConcurrencyHonoured
<1>1. LeaseInv => KeyConcurrencyHonoured
  <2> SUFFICES ASSUME LeaseInv, NEW k \in Key, HoldersOf(k) # {}
               PROVE  \E r \in HoldersOf(k) :
                         Cardinality(HoldersOf(k)) <= seen[r].maxConcurrency
      BY DEF KeyConcurrencyHonoured
  <2>1. HoldersOf(k) \in SUBSET Req
        /\ (\A q, r \in HoldersOf(k) : keyOf[q] = keyOf[r])
        /\ (\A r \in HoldersOf(k) : lease[r] = "held")
      BY DEF HoldersOf
  <2> QED
      BY <2>1 DEF LeaseInv, KeyLimitLink
<1> QED
    BY <1>1, LeaseInvariant, PTL

\* The pool of leases: every step takes one, returns one, forgets all or stutters.
THEOREM LeasesArePool == Spec => PoolRefined
<1>1. Init => Pool!Init
    BY DEF Init, Pool!Init, Holders
<1>2. LeaseInv /\ [Next]_vars => [Pool!Next]_(Pool!vars)
  <2> SUFFICES ASSUME LeaseInv, [Next]_vars PROVE [Pool!Next]_(Pool!vars)
      OBVIOUS
  <2> DEFINE Taken == {r \in Req : lease[r] # "none"}
  <2> USE DEF LeaseInv, Pool!vars
  <2>1. CASE SameLeases
      BY <2>1 DEF SameLeases, Holders
  <2>2. CASE Forgets
    <3>1. Holders' = {} /\ Taken' = Taken
        BY <2>2 DEF Forgets, Holders
    <3> QED
        BY <3>1 DEF Pool!Next, Pool!Forget
  <2>3. ASSUME NEW r \in Req, Binds(r) PROVE Holders' = Holders /\ Taken' = Taken
      BY <2>3 DEF Binds, Holders
  <2>4. ASSUME NEW r \in Req, Takes(r) PROVE Pool!Take(r)
    <3>1. Holders' = Holders \cup {r} /\ Taken' = Taken \cup {r} /\ r \notin Taken
        BY <2>4 DEF TypeOK, Takes, TakeLease, Holders
    <3>2. Cardinality(Holders) < GlobalConcurrency
        BY <2>4, AdmissionAssumption
        DEF TypeOK, Takes, GatewayBusy, LeaseAccounting, Positive
    <3> QED
        BY <3>1, <3>2 DEF Pool!Take, Pool!Cardinality, Cardinality
  <2>5. ASSUME NEW r \in Req, Returns(r) PROVE Pool!Give(r)
    <3>1. Holders' = Holders \ {r} /\ Taken' = Taken /\ r \in Holders
        BY <2>5 DEF TypeOK, Returns, Release, Holders
    <3> QED
        BY <3>1 DEF Pool!Give
  <2> QED
      BY <2>1, <2>2, <2>3, <2>4, <2>5, LeaseSteps DEF Pool!Next
<1> QED
    BY <1>1, <1>2, LeaseInvariant, PTL DEF Spec, PoolRefined, Pool!Spec

-----------------------------------------------------------------------------
(* Rows *)

\* The row of a request is begun when it goes on to the backend, and open meanwhile.
RowLink ==
    \A r \in Req :
       /\ pc[r] \in {"idle", "authenticated"} => log[r] = NoRow
       /\ pc[r] = "running" => log[r].status = "in_progress"
       /\ ~up => pc[r] \in {"idle", "done"}

RowInv == TypeOK /\ LeaseLink /\ RowLink /\ LeaseReturned

LEMMA InitRowInv == Init => RowInv
    BY InitTypeOK DEF Init, RowInv, RowLink, LeaseLink, LeaseReturned

LEMMA StepRowInv == RowInv /\ [Next]_vars => RowInv'
<1> SUFFICES ASSUME RowInv, [Next]_vars PROVE RowLink' /\ LeaseReturned'
    BY StepTypeOK, LinkStep DEF RowInv
<1> USE DEF RowInv, TypeOK, LeaseLink, RowLink, LeaseReturned, requestVars, leaseVars
<1>1. ASSUME NEW r \in Req, NEW k \in Key, NEW route \in Routes, Authenticate(r, k, route)
      PROVE  RowLink' /\ LeaseReturned'
    BY <1>1 DEF Authenticate
<1>2. ASSUME NEW r \in Req, TurnAway(r) PROVE RowLink' /\ LeaseReturned'
    BY <1>2 DEF TurnAway
<1>3. ASSUME NEW r \in Req, Deny(r) PROVE RowLink' /\ LeaseReturned'
  <2>1. \A q \in Req \ {r} : log'[q] = log[q]
      BY <1>3 DEF Deny, LogDenied
  <2> QED
      BY <1>3, <2>1 DEF Deny
<1>4. ASSUME NEW r \in Req, Admit(r) PROVE RowLink' /\ LeaseReturned'
  <2>1. lease' \in [Req -> {"none", "held", "released"}]
        /\ \A q \in Req \ {r} : lease'[q] = lease[q]
      BY <1>4 DEF Admit, TakeLease
  <2>2. log'[r].status = "in_progress" /\ \A q \in Req \ {r} : log'[q] = log[q]
      BY <1>4 DEF Admit, BeginRow
  <2> QED
      BY <1>4, <2>1, <2>2 DEF Admit
<1>5. ASSUME NEW r \in Req, AdmitWithoutRow(r) PROVE RowLink' /\ LeaseReturned'
  <2>1. CASE kind[r] = "plain"
      BY <1>5, <2>1 DEF AdmitWithoutRow, TakeLease
  <2>2. CASE kind[r] # "plain"
      BY <1>5, <2>2 DEF AdmitWithoutRow
  <2> QED
      BY <2>1, <2>2
<1>6. ASSUME NEW r \in Req, Finish(r) \/ FinishUnlogged(r) PROVE RowLink' /\ LeaseReturned'
  <2>1. \A q \in Req \ {r} : log'[q] = log[q] /\ lease'[q] = lease[q]
      BY <1>6 DEF Finish, FinishUnlogged, Answer, Release
  <2>2. lease'[r] # "held"
      BY <1>6 DEF Finish, FinishUnlogged, Answer, Release
  <2>3. pc' = [pc EXCEPT ![r] = "done"] /\ UNCHANGED <<up, kind>>
      BY <1>6 DEF Finish, FinishUnlogged
  <2> QED
      BY <2>1, <2>2, <2>3
<1>7. ASSUME NEW k \in Key, NEW p \in Policies, UpdatePolicy(k, p)
      PROVE  RowLink' /\ LeaseReturned'
    BY <1>7 DEF UpdatePolicy
<1>8. ASSUME NEW k \in Key, Revoke(k) PROVE RowLink' /\ LeaseReturned'
    BY <1>8 DEF Revoke
<1>9. CASE Crash
    BY <1>9 DEF Crash
<1>10. CASE Restart
  <2>1. NoRow.status = "none"
      BY DEF NoRow
  <2>2. \A r \in Req : log[r] = NoRow => log'[r] = NoRow
      BY <1>10, <2>1 DEF Restart, RecoverInterrupted
  <2> QED
      BY <1>10, <2>2 DEF Restart
<1>11. CASE Tick \/ UNCHANGED vars
    BY <1>11 DEF Tick, vars
<1> QED
    BY <1>1, <1>2, <1>3, <1>4, <1>5, <1>6, <1>7, <1>8, <1>9, <1>10, <1>11 DEF Next

LEMMA RowInvariant == Spec => []RowInv
    BY InitRowInv, StepRowInv, PTL DEF Spec

\* A request that has ended holds a lease only if it is a plain call whose row could not be
\* begun: every other path through the handlers returns it.
THEOREM LeasesReturned == Spec => []LeaseReturned
    BY RowInvariant, PTL DEF RowInv

\* No write reopens, rewrites or bills a settled row, neither by a handler nor by a restart.
THEOREM SettledRowsStay == Spec => SettledRowsFinal
<1> DEFINE Kept == \A r \in Req : log[r].status \in {"completed", "failed"} => log'[r] = log[r]
<1>1. RowInv /\ [Next]_vars => [Kept]_vars
  <2> SUFFICES ASSUME RowInv, [Next]_vars PROVE Kept
      OBVIOUS
  <2> USE DEF RowInv, TypeOK, RowLink
  <2>1. \A r \in Req : log[r] = NoRow => log[r].status = "none"
      BY DEF NoRow
  <2>2. ASSUME NEW r \in Req, Deny(r) PROVE Kept
    <3>1. log[r].status = "none"
        BY <2>1, <2>2 DEF Deny
    <3>2. \A q \in Req \ {r} : log'[q] = log[q]
        BY <2>2 DEF Deny, LogDenied
    <3> QED
        BY <3>1, <3>2
  <2>3. ASSUME NEW r \in Req, Admit(r) PROVE Kept
    <3>1. log[r].status = "none"
        BY <2>1, <2>3 DEF Admit
    <3>2. \A q \in Req \ {r} : log'[q] = log[q]
        BY <2>3 DEF Admit, BeginRow
    <3> QED
        BY <3>1, <3>2
  <2>4. ASSUME NEW r \in Req, Finish(r) PROVE Kept
    <3>1. log[r].status = "in_progress"
        BY <2>4 DEF Finish
    <3>2. \A q \in Req \ {r} : log'[q] = log[q]
        BY <2>4 DEF Finish, Answer
    <3> QED
        BY <3>1, <3>2
  <2>5. CASE Restart
      BY <2>5 DEF Restart, RecoverInterrupted
  <2>6. CASE UNCHANGED log
      BY <2>6
  <2>7. \/ \E r \in Req : Deny(r) \/ Admit(r) \/ Finish(r)
        \/ Restart
        \/ UNCHANGED log
      BY DEF Next, Authenticate, TurnAway, AdmitWithoutRow, FinishUnlogged, UpdatePolicy,
             Revoke, Crash, Tick, vars
  <2> QED
      BY <2>2, <2>3, <2>4, <2>5, <2>6, <2>7
<1> QED
    BY <1>1, RowInvariant, PTL DEF Spec, SettledRowsFinal

LEMMA RecoveredStep ==
    ASSUME RowInv, NoRowLeftInProgress, [Next]_vars
    PROVE  NoRowLeftInProgress'
<1> USE DEF RowInv, TypeOK, RowLink, NoRowLeftInProgress
<1>0. NoRow.status = "none"
    BY DEF NoRow
<1>1. ASSUME NEW r \in Req, NEW k \in Key, NEW route \in Routes, Authenticate(r, k, route)
      PROVE  NoRowLeftInProgress'
    BY <1>0, <1>1 DEF Authenticate
<1>2. ASSUME NEW r \in Req, TurnAway(r) PROVE NoRowLeftInProgress'
    BY <1>0, <1>2 DEF TurnAway
<1>3. ASSUME NEW r \in Req, Deny(r) PROVE NoRowLeftInProgress'
  <2>1. log[r] = NoRow
      BY <1>3 DEF Deny
  <2>2. log'[r].status = "in_progress" => r \in unlogged'
      BY <1>0, <1>3, <2>1 DEF Deny, LogDenied
  <2>3. unlogged \subseteq unlogged' /\ \A q \in Req \ {r} : log'[q] = log[q] /\ pc'[q] = pc[q]
      BY <1>3 DEF Deny, LogDenied
  <2>4. up' = up
      BY <1>3 DEF Deny
  <2> QED
      BY <2>2, <2>3, <2>4
<1>4. ASSUME NEW r \in Req, Admit(r) PROVE NoRowLeftInProgress'
  <2>1. \A q \in Req \ {r} : log'[q] = log[q]
      BY <1>4 DEF Admit, BeginRow
  <2> QED
      BY <1>4, <2>1 DEF Admit
<1>5. ASSUME NEW r \in Req, Finish(r) PROVE NoRowLeftInProgress'
  <2>1. log'[r].status # "in_progress" /\ \A q \in Req \ {r} : log'[q] = log[q]
      BY <1>5 DEF Finish, Answer, Row
  <2> QED
      BY <1>5, <2>1 DEF Finish
<1>6. ASSUME NEW r \in Req, AdmitWithoutRow(r) \/ FinishUnlogged(r) PROVE NoRowLeftInProgress'
  <2>1. CASE AdmitWithoutRow(r)
      BY <1>0, <2>1 DEF AdmitWithoutRow
  <2>2. CASE FinishUnlogged(r)
      BY <2>2 DEF FinishUnlogged
  <2> QED
      BY <1>6, <2>1, <2>2
<1>7. CASE Crash
    BY <1>7 DEF Crash
<1>8. CASE Restart
  <2>1. \A r \in Req : log'[r].status # "in_progress"
      BY <1>8 DEF Restart, RecoverInterrupted, Row
  <2> QED
      BY <2>1
<1>9. CASE UNCHANGED <<up, pc, log, unlogged>>
    BY <1>9
<1> QED
    BY <1>1, <1>2, <1>3, <1>4, <1>5, <1>6, <1>7, <1>8, <1>9
       DEF Next, UpdatePolicy, Revoke, Tick, vars

\* No row is open but those of running requests and of those whose completion threw since the
\* start: a crash leaves none to the process that starts after it (NoRowLeftInProgress).
THEOREM RowsRecovered == Spec => []NoRowLeftInProgress
<1>1. Init => NoRowLeftInProgress
    BY DEF Init, NoRowLeftInProgress, NoRow
<1>2. RowInv /\ NoRowLeftInProgress /\ [Next]_vars => NoRowLeftInProgress'
    BY RecoveredStep
<1> QED
    BY <1>1, <1>2, RowInvariant, PTL DEF Spec
=============================================================================
