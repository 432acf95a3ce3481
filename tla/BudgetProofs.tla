---------------------------- MODULE BudgetProofs ----------------------------
(***************************************************************************)
(* What Admission guarantees of the limits that are counted in rows: the   *)
(* request budget, the token budget and the daily limit of a key, for      *)
(* every set of requests, keys and policies.                               *)
(***************************************************************************)
EXTENDS AdmissionProofs

-----------------------------------------------------------------------------
(* The billable rows *)

\* What is billed is no models list, and no row is stamped later than now.
RowBilled ==
    \A r \in Req : /\ log[r].billable => Billable(r)
                   /\ log[r].billable => log[r].startedAt <= now

\* A step bills nobody, or the one request it admits.
SameBills ==
    \A r \in Req :
       /\ log'[r].billable = log[r].billable
       /\ log[r].billable => /\ log'[r].startedAt = log[r].startedAt
                             /\ keyOf'[r] = keyOf[r] /\ seen'[r] = seen[r] /\ kind'[r] = kind[r]

Bills(r) ==
    /\ Billable(r)
    /\ Granted(r)
    /\ log[r] = NoRow
    /\ log'[r].billable /\ log'[r].startedAt = now
    /\ \A q \in Req \ {r} : log'[q] = log[q] /\ pc'[q] = pc[q]
    /\ UNCHANGED <<requestVars, tokenTotal>>

LEMMA BillSteps ==
    ASSUME RowInv, [Next]_vars
    PROVE  SameBills \/ \E r \in Req : Bills(r)
<1> USE DEF RowInv, TypeOK, RowLink, requestVars
<1>0. NoRow.billable = FALSE
    BY DEF NoRow
<1>1. ASSUME NEW r \in Req, NEW k \in Key, NEW route \in Routes, Authenticate(r, k, route)
      PROVE  SameBills
    BY <1>0, <1>1 DEF Authenticate, SameBills
<1>2. ASSUME NEW r \in Req, Deny(r) PROVE SameBills
  <2>1. log[r].billable = FALSE
      BY <1>0, <1>2 DEF Deny
  <2>2. log'[r].billable = FALSE /\ \A q \in Req \ {r} : log'[q] = log[q]
      BY <1>2, <2>1 DEF Deny, LogDenied
  <2> QED
      BY <1>2, <2>1, <2>2 DEF Deny, SameBills
<1>3. ASSUME NEW r \in Req, Admit(r) PROVE SameBills \/ Bills(r)
  <2>1. /\ log[r] = NoRow
        /\ log'[r].billable = Billable(r) /\ log'[r].startedAt = now
        /\ \A q \in Req \ {r} : log'[q] = log[q]
      BY <1>3 DEF Admit, BeginRow
  <2>2. CASE Billable(r)
      BY <1>3, <2>1, <2>2 DEF Admit, Bills
  <2>3. CASE ~Billable(r)
    <3>1. log'[r].billable = FALSE
        BY <2>1, <2>3 DEF Billable
    <3> QED
        BY <1>0, <1>3, <2>1, <3>1 DEF Admit, SameBills
  <2> QED
      BY <2>2, <2>3
<1>4. ASSUME NEW r \in Req, Finish(r) PROVE SameBills
  <2>1. /\ \A q \in Req \ {r} : log'[q] = log[q]
        /\ log'[r].billable = log[r].billable /\ log'[r].startedAt = log[r].startedAt
      BY <1>4 DEF Finish, Answer, Row
  <2> QED
      BY <1>4, <2>1 DEF Finish, SameBills
<1>5. CASE Restart
  <2>1. \A r \in Req : /\ log'[r].billable = log[r].billable
                       /\ log'[r].startedAt = log[r].startedAt
      BY <1>5 DEF Restart, RecoverInterrupted, Row
  <2> QED
      BY <1>5, <2>1 DEF Restart, SameBills
<1>6. CASE UNCHANGED <<log, requestVars>>
    BY <1>6 DEF SameBills
<1>7. \/ \E r \in Req, k \in Key, route \in Routes : Authenticate(r, k, route)
      \/ \E r \in Req : Deny(r) \/ Admit(r) \/ Finish(r)
      \/ Restart
      \/ UNCHANGED <<log, requestVars>>
    BY DEF Next, TurnAway, AdmitWithoutRow, FinishUnlogged, UpdatePolicy, Revoke, Crash, Tick, vars
<1> QED
    BY <1>1, <1>2, <1>3, <1>4, <1>5, <1>6, <1>7

LEMMA ClockSteps ==
    ASSUME TypeOK, [Next]_vars
    PROVE  now' = now \/ now' = now + 1
<1>1. ASSUME NEW r \in Req, Deny(r) \/ Granted(r) PROVE now' = now \/ now' = now + 1
    BY <1>1 DEF Deny, Granted, PolicyClock
<1> QED
    BY <1>1 DEF Next, Authenticate, TurnAway, Admit, AdmitWithoutRow, Finish, FinishUnlogged,
                UpdatePolicy, Revoke, Crash, Restart, Tick, vars

LEMMA RowBilledStep ==
    ASSUME RowInv, RowBilled, [Next]_vars
    PROVE  RowBilled'
<1>1. now \in Nat /\ (now' = now \/ now' = now + 1)
    BY ClockSteps DEF RowInv, TypeOK
<1>2. \A r \in Req : log[r].startedAt \in Nat
    BY DEF RowInv, TypeOK, Row
<1>3. CASE SameBills
    BY <1>1, <1>2, <1>3 DEF RowBilled, SameBills, Billable
<1>4. ASSUME NEW r \in Req, Bills(r) PROVE RowBilled'
    BY <1>1, <1>2, <1>4 DEF RowBilled, Bills, Billable, requestVars
<1> QED
    BY <1>3, <1>4, BillSteps

\* Every billable request that is at the backend has been billed.
RunningBilled == \A r \in Req : pc[r] = "running" /\ Billable(r) => log[r].billable

LEMMA RunningBilledStep ==
    ASSUME RowInv, RunningBilled, [Next]_vars
    PROVE  RunningBilled'
<1> USE DEF RowInv, TypeOK, RunningBilled, Billable, requestVars
<1>1. ASSUME NEW r \in Req, NEW k \in Key, NEW route \in Routes, Authenticate(r, k, route)
      PROVE  RunningBilled'
    BY <1>1 DEF Authenticate
<1>2. ASSUME NEW r \in Req, Admit(r) PROVE RunningBilled'
  <2>1. log'[r].billable = Billable(r) /\ \A q \in Req \ {r} : log'[q] = log[q]
      BY <1>2 DEF Admit, BeginRow
  <2> QED
      BY <1>2, <2>1 DEF Admit
<1>3. ASSUME NEW r \in Req, TurnAway(r) \/ Deny(r) \/ AdmitWithoutRow(r) \/ FinishUnlogged(r)
      PROVE  RunningBilled'
  <2>1. pc' = [pc EXCEPT ![r] = "done"] /\ kind' = kind
        /\ \A q \in Req \ {r} : log'[q] = log[q]
      BY <1>3 DEF TurnAway, Deny, LogDenied, AdmitWithoutRow, FinishUnlogged
  <2> QED
      BY <2>1
<1>4. ASSUME NEW r \in Req, Finish(r) PROVE RunningBilled'
  <2>1. \A q \in Req \ {r} : log'[q] = log[q]
      BY <1>4 DEF Finish, Answer
  <2> QED
      BY <1>4, <2>1 DEF Finish
<1>5. CASE Restart
  <2>1. \A r \in Req : log'[r].billable = log[r].billable
      BY <1>5 DEF Restart, RecoverInterrupted, Row
  <2> QED
      BY <1>5, <2>1 DEF Restart
<1>6. CASE Crash
    BY <1>6 DEF Crash
<1>7. CASE UNCHANGED <<pc, kind, log>>
    BY <1>7
<1> QED
    BY <1>1, <1>2, <1>3, <1>4, <1>5, <1>6, <1>7 DEF Next, UpdatePolicy, Revoke, Tick, vars

LEMMA RowsFinite ==
    ASSUME NEW k, NEW S \in SUBSET BillableRows(k)
    PROVE  IsFiniteSet(S) /\ Cardinality(S) \in Nat
    BY AdmissionAssumption, FS_Subset, FS_CardinalityType DEF BillableRows

\* Who is admitted adds itself to the rows of its own key, within the limits it was shown.
LEMMA BilledRows ==
    ASSUME RowInv, NEW r \in Req, Bills(r)
    PROVE  /\ r \notin BillableRows(keyOf[r])
           /\ BillableRows(keyOf[r])' = BillableRows(keyOf[r]) \cup {r}
           /\ \A k \in Key \ {keyOf[r]} : BillableRows(k)' = BillableRows(k)
           /\ seen' = seen
           /\ ~BalanceUsedUp(r) /\ ~TokensUsedUp(r)
<1>1. NoRow.billable = FALSE
    BY DEF NoRow
<1>2. seen' = seen /\ keyOf' = keyOf
    BY DEF Bills, requestVars
<1>3. ~BalanceUsedUp(r) /\ ~TokensUsedUp(r)
    BY DEF Bills, Granted, OverLimit
<1> QED
    BY <1>1, <1>2, <1>3 DEF Bills, BillableRows

LEMMA SameRows ==
    ASSUME SameBills, NEW k
    PROVE  /\ BillableRows(k)' = BillableRows(k)
           /\ \A r \in BillableRows(k) : seen'[r] = seen[r] /\ log'[r].startedAt = log[r].startedAt
    BY DEF SameBills, BillableRows

-----------------------------------------------------------------------------
(* The request budget *)

LEMMA RequestBudgetStep ==
    ASSUME RowInv, RequestBudgetHonoured, [Next]_vars
    PROVE  RequestBudgetHonoured'
<1>1. CASE SameBills
    BY <1>1, SameRows DEF RequestBudgetHonoured
<1>2. ASSUME NEW r \in Req, Bills(r) PROVE RequestBudgetHonoured'
  <2> DEFINE own == BillableRows(keyOf[r])
  <2>1. /\ own' = own \cup {r} /\ r \notin own
        /\ \A k \in Key \ {keyOf[r]} : BillableRows(k)' = BillableRows(k)
        /\ seen' = seen /\ keyOf' = keyOf
        /\ ~BalanceUsedUp(r)
      BY <1>2, BilledRows DEF Bills, requestVars
  <2>2. Cardinality(own) \in Nat /\ Cardinality(own \cup {r}) = Cardinality(own) + 1
      BY <2>1, RowsFinite, FS_AddElement
  <2>3. seen[r] \in Policy
      BY AdmissionAssumption DEF RowInv, TypeOK
  <2>4. Within(Cardinality(own \cup {r}), seen[r].requestBudget)
      BY <2>1, <2>2, <2>3 DEF Within, BalanceUsedUp, Policy, Budget, Positive
  <2>5. ASSUME NEW k \in Key, BillableRows(k)' # {}
        PROVE  \E q \in BillableRows(k)' :
                  Within(Cardinality(BillableRows(k)'), seen'[q].requestBudget)
    <3>1. CASE k = keyOf[r]
        BY <2>1, <2>4, <3>1
    <3>2. CASE k # keyOf[r]
        BY <2>1, <2>5, <3>2 DEF RequestBudgetHonoured
    <3> QED
        BY <3>1, <3>2
  <2> QED
      BY <2>5 DEF RequestBudgetHonoured, Within
<1> QED
    BY <1>1, <1>2, BillSteps

\* The billable rows of a key never exceed the budget that one of them was admitted under,
\* however many handlers of the key run between their reads and their writes.
THEOREM RequestBudgetSafe == Spec => []RequestBudgetHonoured
<1>1. Init => RequestBudgetHonoured
    BY DEF Init, RequestBudgetHonoured, BillableRows, NoRow
<1>2. RowInv /\ RequestBudgetHonoured /\ [Next]_vars => RequestBudgetHonoured'
    BY RequestBudgetStep
<1> QED
    BY <1>1, <1>2, RowInvariant, PTL DEF Spec

-----------------------------------------------------------------------------
(* The token budget *)

LEMMA TimesMonotone ==
    ASSUME NEW a \in Int, NEW b \in Int, NEW m \in Nat, a <= b
    PROVE  a * m <= b * m
    OBVIOUS

LEMMA RequestsFinite ==
    ASSUME NEW S \in SUBSET Req
    PROVE  IsFiniteSet(S) /\ Cardinality(S) \in Nat
    BY AdmissionAssumption, FS_Subset, FS_CardinalityType

LEMMA CallingFinite ==
    ASSUME NEW k
    PROVE  /\ IsFiniteSet(Calling(k)) /\ Cardinality(Calling(k)) \in Nat
           /\ IsFiniteSet(Calling(k)') /\ Cardinality(Calling(k)') \in Nat
<1>1. Calling(k) \in SUBSET Req /\ Calling(k)' \in SUBSET Req
    BY DEF Calling
<1> QED
    BY <1>1, RequestsFinite

\* Who is called for a key holds a lease, so the gateway bounds how many they are.
CallingWithin == \A k \in Key : Cardinality(Calling(k)) <= GlobalConcurrency

LEMMA CallingBounded == LeaseInv /\ RowBilled => CallingWithin
<1> SUFFICES ASSUME LeaseInv, RowBilled, NEW k \in Key
             PROVE  Cardinality(Calling(k)) <= GlobalConcurrency
    BY DEF CallingWithin
<1>1. Calling(k) \subseteq Holders
    BY DEF LeaseInv, LeaseLink, RowBilled, Calling, Holders
<1>2. IsFiniteSet(Holders) /\ Cardinality(Holders) \in Nat
    BY HoldersFinite
<1>3. Cardinality(Calling(k)) <= Cardinality(Holders)
    BY <1>1, <1>2, FS_Subset
<1> QED
    BY <1>2, <1>3, CallingFinite, AdmissionAssumption DEF LeaseInv, Positive

LEMMA DoneStays ==
    ASSUME TypeOK, [Next]_vars, NEW q \in Req, pc[q] = "done"
    PROVE  pc'[q] = "done"
<1> USE DEF TypeOK
<1>1. ASSUME NEW r \in Req, NEW k \in Key, NEW route \in Routes, Authenticate(r, k, route)
      PROVE  pc'[q] = "done"
    BY <1>1 DEF Authenticate
<1>2. ASSUME NEW r \in Req,
             \/ TurnAway(r) \/ Deny(r) \/ AdmitWithoutRow(r)
             \/ Finish(r) \/ FinishUnlogged(r)
      PROVE  pc'[q] = "done"
    BY <1>2 DEF TurnAway, Deny, AdmitWithoutRow, Finish, FinishUnlogged
<1>3. ASSUME NEW r \in Req, Admit(r) PROVE pc'[q] = "done"
    BY <1>3 DEF Admit
<1>4. CASE Crash
    BY <1>4 DEF Crash
<1>5. CASE UNCHANGED pc
    BY <1>5
<1> QED
    BY <1>1, <1>2, <1>3, <1>4, <1>5 DEF Next, UpdatePolicy, Revoke, Restart, Tick, vars

\* What a key has spent and what its calls under way may still report.
Exposure(k) == tokenTotal[k] + Cardinality(Calling(k)) * MaxTokens

LEMMA ExposureInt ==
    ASSUME TypeOK, NEW k \in Key
    PROVE  Exposure(k) \in Int
    BY CallingFinite, AdmissionAssumption DEF Exposure, TypeOK

\* A step that bills nobody exposes no key to more.
LEMMA ExposureStep ==
    ASSUME RowInv, RunningBilled, [Next]_vars, SameBills, NEW k \in Key
    PROVE  Exposure(k)' <= Exposure(k)
<1> USE DEF RowInv, TypeOK, RowLink, requestVars
<1>0. MaxTokens \in Nat /\ tokenTotal[k] \in Nat
    BY AdmissionAssumption
<1>1. CASE tokenTotal' = tokenTotal
  <2>1. Calling(k)' \subseteq Calling(k)
    <3> SUFFICES ASSUME NEW q \in Req, pc'[q] = "running", log'[q].billable, keyOf'[q] = k
                 PROVE  pc[q] = "running" /\ log[q].billable /\ keyOf[q] = k
        BY DEF Calling
    <3>1. log[q].billable /\ keyOf[q] = k
        BY DEF SameBills
    <3>2. pc[q] \in {"running", "done"}
        BY <3>1 DEF NoRow
    <3>3. pc[q] = "done" => pc'[q] = "done"
        BY DoneStays
    <3> QED
        BY <3>1, <3>2, <3>3
  <2>2. Cardinality(Calling(k)') <= Cardinality(Calling(k)) /\ Cardinality(Calling(k)') \in Nat
    <3> DEFINE before == Calling(k)
               after == Calling(k)'
    <3>1. IsFiniteSet(before) /\ after \in SUBSET before
        BY <2>1, CallingFinite
    <3> HIDE DEF before, after
    <3>2. IsFiniteSet(after) /\ Cardinality(after) <= Cardinality(before)
        BY <3>1, FS_Subset
    <3>3. Cardinality(after) \in Nat
        BY <3>2, FS_CardinalityType
    <3> QED
        BY <3>2, <3>3 DEF before, after
  <2>3. Cardinality(Calling(k)') * MaxTokens <= Cardinality(Calling(k)) * MaxTokens
    <3> DEFINE n == Cardinality(Calling(k))
               m == Cardinality(Calling(k)')
    <3>1. n \in Int /\ m \in Int /\ m <= n
        BY <2>2, CallingFinite
    <3> HIDE DEF n, m
    <3>2. m * MaxTokens <= n * MaxTokens
        BY <1>0, <3>1, TimesMonotone
    <3> QED
        BY <3>2 DEF n, m
  <2>4. Exposure(k)' = tokenTotal[k] + Cardinality(Calling(k)') * MaxTokens
      BY <1>1 DEF Exposure
  <2> QED
      BY <1>0, <2>2, <2>3, <2>4, CallingFinite DEF Exposure
<1>2. ASSUME NEW r \in Req, Finish(r) PROVE Exposure(k)' <= Exposure(k)
  <2>1. PICK status \in {"completed", "failed"}, tokens \in Reportable(r) :
             Answer(r, status, tokens)
      BY <1>2 DEF Finish
  <2>2. pc[r] = "running" /\ pc' = [pc EXCEPT ![r] = "done"] /\ keyOf' = keyOf
      BY <1>2 DEF Finish
  <2>3. tokens \in Nat /\ tokens <= MaxTokens /\ (~Billable(r) => tokens = 0)
      BY <1>0 DEF Reportable
  <2>4. \A q \in Req : log'[q].billable = log[q].billable
      BY DEF SameBills
  <2>5. Calling(k)' = Calling(k) \ {r}
      BY <2>2, <2>4 DEF Calling
  <2>6. tokenTotal'[k] = IF k = keyOf[r] THEN tokenTotal[k] + tokens ELSE tokenTotal[k]
      BY <2>1 DEF Answer
  <2> DEFINE n == Cardinality(Calling(k))
  <2>7. n \in Nat
      BY CallingFinite
  <2>8. CASE r \in Calling(k)
    <3>0. IsFiniteSet(Calling(k))
        BY CallingFinite
    <3>1. Cardinality(Calling(k)') = n - 1
      <4>1. Cardinality(Calling(k) \ {r}) = n - 1
          BY <2>8, <3>0, FS_RemoveElement
      <4> QED
          BY <2>5, <4>1
    <3>2. (n - 1) * MaxTokens = n * MaxTokens - MaxTokens
        BY <1>0, <2>7
    <3>3. tokenTotal'[k] <= tokenTotal[k] + MaxTokens
        BY <1>0, <2>3, <2>6
    <3>4. n * MaxTokens \in Nat /\ tokenTotal'[k] \in Nat
        BY <1>0, <2>3, <2>6, <2>7
    <3> QED
        BY <1>0, <3>1, <3>2, <3>3, <3>4 DEF Exposure
  <2>9. CASE r \notin Calling(k)
    <3>1. Calling(k)' = Calling(k)
        BY <2>5, <2>9
    <3>2. tokenTotal'[k] = tokenTotal[k]
      <4>1. k = keyOf[r] => ~log[r].billable
          BY <2>2, <2>9 DEF Calling
      <4>2. k = keyOf[r] => tokens = 0
          BY <2>2, <2>3, <4>1 DEF RunningBilled
      <4> QED
          BY <1>0, <2>6, <4>2
    <3> QED
        BY <1>0, <2>7, <3>1, <3>2 DEF Exposure
  <2> QED
      BY <2>8, <2>9
<1>3. tokenTotal' = tokenTotal \/ \E r \in Req : Finish(r)
    BY DEF Next, Authenticate, TurnAway, Deny, Admit, AdmitWithoutRow, FinishUnlogged,
           UpdatePolicy, Revoke, Crash, Restart, Tick, vars
<1> QED
    BY <1>1, <1>2, <1>3

LEMMA TokenOverrunStep ==
    ASSUME LeaseInv, RowInv, LeaseInv', RowBilled', RunningBilled, TokenOverrunBounded,
           [Next]_vars
    PROVE  TokenOverrunBounded'
<1> DEFINE slack == GlobalConcurrency * MaxTokens
<1>0. MaxTokens \in Nat /\ GlobalConcurrency \in Nat /\ slack \in Nat
    BY AdmissionAssumption DEF Positive
<1>1. \A k \in Key : Exposure(k) \in Int /\ Exposure(k)' \in Int
  <2>1. TypeOK /\ TypeOK'
      BY DEF LeaseInv
  <2>2. \A k \in Key : Cardinality(Calling(k)) \in Nat /\ Cardinality(Calling(k)') \in Nat
      BY CallingFinite
  <2> QED
      BY <1>0, <2>1, <2>2 DEF Exposure, TypeOK
<1>2. \A r \in Req : seen[r].tokenBudget = Unlimited \/ seen[r].tokenBudget \in Nat
    BY AdmissionAssumption DEF RowInv, TypeOK, Policy, Budget, Positive
<1>3. CASE SameBills
  <2> SUFFICES ASSUME NEW k \in Key, BillableRows(k)' # {}
               PROVE  \E r \in BillableRows(k)' : \/ seen'[r].tokenBudget = Unlimited
                                                 \/ Exposure(k)' < seen'[r].tokenBudget + slack
      BY DEF TokenOverrunBounded, Exposure
  <2>1. /\ BillableRows(k)' = BillableRows(k)
        /\ \A r \in BillableRows(k) : seen'[r] = seen[r]
      BY <1>3, SameRows
  <2>2. PICK r \in BillableRows(k) : \/ seen[r].tokenBudget = Unlimited
                                    \/ Exposure(k) < seen[r].tokenBudget + slack
      BY <2>1 DEF TokenOverrunBounded, Exposure
  <2>3. Exposure(k)' <= Exposure(k)
      BY <1>3, ExposureStep
  <2>4. r \in Req
      BY DEF BillableRows
  <2>5. CASE seen[r].tokenBudget = Unlimited
      BY <2>1, <2>5
  <2>6. CASE seen[r].tokenBudget \in Nat /\ Exposure(k) < seen[r].tokenBudget + slack
    <3>1. Exposure(k)' < seen[r].tokenBudget + slack
        BY <1>0, <1>1, <2>3, <2>6
    <3> QED
        BY <2>1, <3>1
  <2> QED
      BY <1>2, <2>2, <2>4, <2>5, <2>6
<1>4. CallingWithin'
    BY CallingBounded, PTL
<1>5. ASSUME NEW r \in Req, Bills(r) PROVE TokenOverrunBounded'
  <2> SUFFICES ASSUME NEW k \in Key, BillableRows(k)' # {}
               PROVE  \E q \in BillableRows(k)' : \/ seen'[q].tokenBudget = Unlimited
                                                 \/ Exposure(k)' < seen'[q].tokenBudget + slack
      BY DEF TokenOverrunBounded, Exposure
  <2>1. /\ BillableRows(keyOf[r])' = BillableRows(keyOf[r]) \cup {r}
        /\ \A j \in Key \ {keyOf[r]} : BillableRows(j)' = BillableRows(j)
        /\ seen' = seen /\ tokenTotal' = tokenTotal /\ keyOf' = keyOf
        /\ ~TokensUsedUp(r)
      BY <1>5, BilledRows DEF Bills, requestVars
  <2>2. CASE k = keyOf[r]
    <3> DEFINE n == Cardinality(Calling(k)')
    <3>1. n <= GlobalConcurrency /\ n \in Nat
        BY <1>4, CallingFinite DEF CallingWithin
    <3> HIDE DEF n
    <3>2. n * MaxTokens <= slack
        BY <1>0, <3>1, TimesMonotone
    <3>3. CASE seen[r].tokenBudget = Unlimited
        BY <2>1, <2>2, <3>3
    <3>4. CASE seen[r].tokenBudget \in Nat /\ tokenTotal[k] < seen[r].tokenBudget
      <4>1. tokenTotal[k] \in Nat /\ n * MaxTokens \in Nat
          BY <1>0, <3>1 DEF RowInv, TypeOK
      <4>2. Exposure(k)' = tokenTotal[k] + n * MaxTokens
          BY <2>1 DEF Exposure, n
      <4>3. Exposure(k)' < seen[r].tokenBudget + slack
          BY <1>0, <3>2, <3>4, <4>1, <4>2
      <4> QED
          BY <2>1, <2>2, <4>3
    <3>5. seen[r].tokenBudget # Unlimited => tokenTotal[k] < seen[r].tokenBudget
        BY <1>2, <2>1, <2>2 DEF TokensUsedUp, RowInv, TypeOK
    <3> QED
        BY <1>2, <3>3, <3>4, <3>5
  <2>3. CASE k # keyOf[r]
    <3>1. Calling(k)' = Calling(k)
      <4>1. \A q \in Req \ {r} : pc'[q] = pc[q] /\ log'[q] = log[q]
          BY <1>5 DEF Bills
      <4> QED
          BY <2>1, <2>3, <4>1 DEF Calling
    <3>2. Exposure(k)' = Exposure(k)
        BY <2>1, <3>1 DEF Exposure
    <3>3. BillableRows(k)' = BillableRows(k)
        BY <2>1, <2>3
    <3> QED
        BY <2>1, <3>2, <3>3 DEF TokenOverrunBounded, Exposure
  <2> QED
      BY <2>2, <2>3
<1> QED
    BY <1>3, <1>5, BillSteps

\* Everything the budget of tokens rests on.
BudgetInv == LeaseInv /\ RowInv /\ RowBilled /\ RunningBilled

LEMMA BudgetInvariant == Spec => []BudgetInv
<1>1. Init => RowBilled /\ RunningBilled
    BY DEF Init, RowBilled, RunningBilled, NoRow
<1>2. RowInv /\ RowBilled /\ [Next]_vars => RowBilled'
    BY RowBilledStep
<1>3. RowInv /\ RunningBilled /\ [Next]_vars => RunningBilled'
    BY RunningBilledStep
<1> QED
    BY <1>1, <1>2, <1>3, LeaseInvariant, RowInvariant, PTL DEF Spec, BudgetInv

\* A token budget is overrun by less than what the requests that the gateway takes at a time
\* report, whichever way the responses of the key overlap.
THEOREM TokenOverrunSafe == Spec => []TokenOverrunBounded
<1>1. Init => TokenOverrunBounded
    BY DEF Init, TokenOverrunBounded, BillableRows, NoRow
<1>2. BudgetInv /\ BudgetInv' /\ TokenOverrunBounded /\ [Next]_vars => TokenOverrunBounded'
    BY TokenOverrunStep DEF BudgetInv
<1> QED
    BY <1>1, <1>2, BudgetInvariant, PTL DEF Spec

-----------------------------------------------------------------------------
(* The daily limit *)

LEMMA DayBounds ==
    ASSUME NEW t \in Nat, NEW D \in Nat \ {0}
    PROVE  /\ t \div D \in Nat
           /\ (t \div D) * D <= t
           /\ t < (t \div D + 1) * D
    OBVIOUS

LEMMA DaysAscend ==
    ASSUME NEW t \in Nat, NEW u \in Nat, NEW D \in Nat \ {0}, t <= u
    PROVE  t \div D <= u \div D
<1>1. /\ t \div D \in Nat /\ u \div D \in Nat
      /\ (t \div D) * D <= t /\ u < (u \div D + 1) * D
    BY DayBounds
<1> DEFINE a == t \div D
           b == u \div D
<1>2. a \in Nat /\ b \in Nat /\ a * D <= t /\ u < (b + 1) * D
    BY <1>1
<1> HIDE DEF a, b
<1>3. ASSUME b + 1 <= a PROVE FALSE
  <2>1. (b + 1) * D <= a * D
      BY <1>2, <1>3, TimesMonotone
  <2>2. (b + 1) * D \in Int /\ a * D \in Int
      BY <1>2
  <2> QED
      BY <1>2, <2>1, <2>2
<1>4. a <= b
    BY <1>2, <1>3
<1> QED
    BY <1>4 DEF a, b

\* The limit holds as it stands for the rows of today, and gives way by one only when the day
\* has ended.
DailyLink ==
    \A k \in Key, d \in Nat : RowsOfDay(k, d) # {} =>
       \E r \in RowsOfDay(k, d) :
          /\ Cardinality(RowsOfDay(k, d)) <= seen[r].dailyRequestLimit + 1
          /\ now \div DayLength <= d =>
                Cardinality(RowsOfDay(k, d)) <= seen[r].dailyRequestLimit

LEMMA TodayAscends ==
    ASSUME TypeOK, [Next]_vars
    PROVE  /\ now \in Nat /\ now' \in Nat
           /\ now \div DayLength \in Nat /\ now' \div DayLength \in Nat
           /\ now \div DayLength <= now' \div DayLength
<1>1. now \in Nat /\ now' \in Nat /\ now <= now'
    BY ClockSteps DEF TypeOK
<1>2. DayLength \in Nat \ {0}
    BY AdmissionAssumption DEF Positive
<1> QED
    BY <1>1, <1>2, DayBounds, DaysAscend

LEMMA LimitsAreNat ==
    ASSUME TypeOK, NEW r \in Req
    PROVE  seen[r].dailyRequestLimit \in Nat /\ seen[r].dailyRequestLimit >= 1
    BY AdmissionAssumption DEF TypeOK, Policy, Positive

\* A day whose rows are left alone keeps its bound as the clock goes on.
LEMMA DayKept ==
    ASSUME TypeOK, DailyLink, [Next]_vars, NEW k \in Key, NEW d \in Nat,
           RowsOfDay(k, d)' = RowsOfDay(k, d),
           \A r \in RowsOfDay(k, d) : seen'[r] = seen[r],
           RowsOfDay(k, d)' # {}
    PROVE  \E r \in RowsOfDay(k, d)' :
              /\ Cardinality(RowsOfDay(k, d)') <= seen'[r].dailyRequestLimit + 1
              /\ now' \div DayLength <= d =>
                    Cardinality(RowsOfDay(k, d)') <= seen'[r].dailyRequestLimit
<1>1. PICK r \in RowsOfDay(k, d) :
         /\ Cardinality(RowsOfDay(k, d)) <= seen[r].dailyRequestLimit + 1
         /\ now \div DayLength <= d =>
               Cardinality(RowsOfDay(k, d)) <= seen[r].dailyRequestLimit
    BY DEF DailyLink
<1>2. now' \div DayLength <= d => now \div DayLength <= d
    BY TodayAscends
<1> QED
    BY <1>1, <1>2

LEMMA SameDays ==
    ASSUME SameBills, NEW k, NEW d
    PROVE  /\ RowsOfDay(k, d)' = RowsOfDay(k, d)
           /\ \A r \in RowsOfDay(k, d) : seen'[r] = seen[r]
    BY SameRows DEF RowsOfDay

\* The rows of a day are among those that acquire() counts on that day.
LEMMA DayCounted ==
    ASSUME TypeOK, NEW k, NEW t \in Nat
    PROVE  RowsOfDay(k, t \div DayLength) \subseteq TodayRows(k, t)
<1> SUFFICES ASSUME NEW q \in BillableRows(k), log[q].startedAt \div DayLength = t \div DayLength
             PROVE  log[q].startedAt >= (t \div DayLength) * DayLength
    BY DEF RowsOfDay, TodayRows, StartOfDay
<1>1. log[q].startedAt \in Nat
    BY DEF TypeOK, Row, BillableRows
<1>2. DayLength \in Nat \ {0}
    BY AdmissionAssumption DEF Positive
<1>3. (log[q].startedAt \div DayLength) * DayLength <= log[q].startedAt
    BY <1>1, <1>2, DayBounds
<1>4. (t \div DayLength) * DayLength <= log[q].startedAt
    BY <1>3
<1>5. (t \div DayLength) * DayLength \in Int
    BY <1>2, DayBounds
<1> QED
    BY <1>1, <1>4, <1>5

LEMMA DailyStep ==
    ASSUME RowInv, DailyLink, [Next]_vars
    PROVE  DailyLink'
<1> DEFINE today == now \div DayLength
           Bound(k, d) ==
              \E r \in RowsOfDay(k, d)' :
                 /\ Cardinality(RowsOfDay(k, d)') <= seen'[r].dailyRequestLimit + 1
                 /\ now' \div DayLength <= d =>
                       Cardinality(RowsOfDay(k, d)') <= seen'[r].dailyRequestLimit
<1>0. TypeOK
    BY DEF RowInv
<1>1. SUFFICES ASSUME NEW k \in Key, NEW d \in Nat, RowsOfDay(k, d)' # {}
               PROVE  Bound(k, d)
    BY DEF DailyLink
<1>2. CASE SameBills
    BY <1>0, <1>1, <1>2, SameDays, DayKept
<1>3. ASSUME NEW r \in Req, Bills(r) PROVE Bound(k, d)
  <2>1. /\ r \notin BillableRows(keyOf[r])
        /\ BillableRows(keyOf[r])' = BillableRows(keyOf[r]) \cup {r}
        /\ \A j \in Key \ {keyOf[r]} : BillableRows(j)' = BillableRows(j)
        /\ seen' = seen
      BY <1>3, BilledRows
  <2>2. log'[r].startedAt = now /\ \A q \in Req \ {r} : log'[q] = log[q]
      BY <1>3 DEF Bills
  <2>3. CASE k # keyOf[r] \/ d # today
    <3>1. RowsOfDay(k, d)' = RowsOfDay(k, d)
        BY <2>1, <2>2, <2>3, <1>3 DEF RowsOfDay, BillableRows, Bills, requestVars
    <3> QED
        BY <1>0, <1>1, <2>1, <3>1, DayKept
  <2>4. CASE k = keyOf[r] /\ d = today
    <3> DEFINE rows == RowsOfDay(k, d)
               limit == seen[r].dailyRequestLimit
    <3>1. rows' = rows \cup {r} /\ r \notin rows
      <4>1. keyOf' = keyOf /\ log'[r].billable
          BY <1>3 DEF Bills, requestVars
      <4>2. \A q \in Req : q \in rows' <=> q \in rows \/ q = r
          BY <2>2, <2>4, <4>1 DEF RowsOfDay, BillableRows
      <4>3. rows \subseteq Req /\ rows' \subseteq Req
          BY DEF RowsOfDay, BillableRows
      <4>4. r \notin rows
          BY <2>1, <2>4 DEF RowsOfDay
      <4> QED
          BY <4>2, <4>3, <4>4
    <3>2. IsFiniteSet(rows) /\ Cardinality(rows) \in Nat
        BY RequestsFinite DEF RowsOfDay, BillableRows
    <3>3. Cardinality(rows \cup {r}) = Cardinality(rows) + 1
        BY <3>1, <3>2, FS_AddElement
    <3>4. limit \in Nat /\ limit >= 1
        BY <1>0, LimitsAreNat
    <3>5. CASE now' \div DayLength = d
      <4>1. PICK t \in PolicyClock : now' = t /\ ~OverLimit(r, t)
          BY <1>3 DEF Bills, Granted
      <4>2. t \in Nat
          BY <1>0, <4>1, TodayAscends
      <4>3. rows \subseteq TodayRows(k, t)
          BY <1>0, <3>5, <4>1, <4>2, DayCounted
      <4>4. IsFiniteSet(TodayRows(k, t)) /\ Cardinality(TodayRows(k, t)) \in Nat
          BY RequestsFinite DEF TodayRows, BillableRows
      <4>5. Cardinality(rows) <= Cardinality(TodayRows(k, t))
          BY <4>3, <4>4, FS_Subset
      <4>6. Cardinality(TodayRows(k, t)) < limit
        <5>1. ~DayUsedUp(r, t)
            BY <1>3, <4>1 DEF Bills, OverLimit
        <5> QED
            BY <2>4, <3>4, <4>4, <5>1 DEF DayUsedUp
      <4>7. Cardinality(rows \cup {r}) <= limit
          BY <3>2, <3>3, <3>4, <4>4, <4>5, <4>6
      <4>8. Cardinality(rows \cup {r}) <= limit + 1
          BY <3>2, <3>3, <3>4, <4>7
      <4> QED
          BY <2>1, <3>1, <4>7, <4>8
    <3>6. CASE now' \div DayLength # d
      <4>1. ~(now' \div DayLength <= d)
          BY <1>0, <2>4, <3>6, TodayAscends
      <4>2. CASE rows = {}
        <5>1. Cardinality(rows \cup {r}) <= limit + 1
            BY <3>3, <3>4, <4>2, FS_EmptySet
        <5> QED
            BY <2>1, <3>1, <4>1, <5>1
      <4>3. CASE rows # {}
        <5>1. PICK w \in rows : Cardinality(rows) <= seen[w].dailyRequestLimit
          <6>1. now \div DayLength <= d
              BY <1>0, <2>4, TodayAscends
          <6> QED
              BY <4>3, <6>1 DEF DailyLink
        <5>2. w \in Req
            BY DEF RowsOfDay, BillableRows
        <5>3. Cardinality(rows \cup {r}) <= seen[w].dailyRequestLimit + 1
            BY <1>0, <3>2, <3>3, <5>1, <5>2, LimitsAreNat
        <5> QED
            BY <2>1, <3>1, <4>1, <5>1, <5>3
      <4> QED
          BY <4>2, <4>3
    <3> QED
        BY <3>5, <3>6
  <2> QED
      BY <2>3, <2>4
<1> QED
    BY <1>2, <1>3, BillSteps

\* On no UTC day a key is billed for more than one request beyond the daily limit that one of
\* them was admitted under, though the clock may pass midnight inside a handler.
THEOREM DailyLimitSafe == Spec => []DailyLimitHonoured
<1>1. Init => DailyLink
    BY DEF Init, DailyLink, RowsOfDay, BillableRows, NoRow
<1>2. RowInv /\ DailyLink /\ [Next]_vars => DailyLink'
    BY DailyStep
<1>3. DailyLink => DailyLimitHonoured
    BY DEF DailyLink, DailyLimitHonoured
<1> QED
    BY <1>1, <1>2, <1>3, RowInvariant, PTL DEF Spec
=============================================================================
