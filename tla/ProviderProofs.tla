---------------------------- MODULE ProviderProofs ----------------------------
(***************************************************************************)
(* What ProviderConfig guarantees for every set of providers, updates and  *)
(* handlers: its types with one update at a time, what is served, the two  *)
(* files of an update, and the probe cache.                                *)
(***************************************************************************)
EXTENDS ProviderConfig, Integers, SequenceTheorems, TLAPS

-----------------------------------------------------------------------------
(* Types and the queue *)

Waiting == {"queued"} \cup Running
Beginning == [config : [Provider -> Rev \cup {Absent}], key : Key \cup {Absent}]

FilesTyped ==
    /\ up \in BOOLEAN /\ restartDue \in BOOLEAN /\ unrestored \in BOOLEAN
    /\ config \in [Provider -> Rev \cup {Absent}]
    /\ secret \in [Provider -> Key \cup {Absent}]
    /\ expected \in [Provider -> SUBSET Entry]
    /\ contested \in SUBSET Provider

RoutesTyped ==
    /\ routing \in Route
    /\ probe \in [Probing -> Probe \cup {Absent}]
    /\ cache \in [fresh : BOOLEAN, of : Route, overtaken : BOOLEAN]
    \* The update whose reload probes has a probe under way.
    /\ \A u \in Update : pc[u] \in {"probe", "undo probe"} => probe[u] # Absent

\* An update that has not ended is in the queue, and the one that runs is its head; it has its
\* input, and what it has read when it began.
UpdatesTyped ==
    /\ pc \in [Update -> {"idle"} \cup Waiting \cup Ended]
    /\ input \in [Update -> Input \cup {Absent}]
    /\ before \in [Update -> Beginning \cup {Absent}]
    /\ queue \in Seq(Update)
    /\ \A u \in Update :
           /\ pc[u] \in Running => queue # <<>> /\ Head(queue) = u /\ before[u] \in Beginning
           /\ pc[u] \in Waiting => up /\ \E i \in 1..Len(queue) : queue[i] = u
           /\ pc[u] # "idle" => input[u] \in Input

Typed == FilesTyped /\ RoutesTyped /\ UpdatesTyped

LEMMA TypedIsTypeOK == Typed => TypeOK
BY DEF Typed, FilesTyped, RoutesTyped, UpdatesTyped, TypeOK, Waiting, Beginning

LEMMA StagesDiffer ==
    /\ Running \cap ({"idle", "queued"} \cup Ended) = {}
    /\ "idle" \notin Ended /\ "queued" \notin Ended
BY DEF Running, Ended

LEMMA LoadedIsRoute ==
    ASSUME NEW decls \in [Provider -> Rev \cup {Absent}], NEW keys \in [Provider -> Key \cup {Absent}]
    PROVE  Loaded(decls, keys) \in Route
BY DEF Loaded, Route

LEMMA InitTyped == Init => Typed
<1> SUFFICES ASSUME Init PROVE Typed
    OBVIOUS
<1>0. {[rev |-> Absent, key |-> Absent]} \in SUBSET Entry
    BY DEF Entry
<1>1. FilesTyped
  <2>1. Nowhere \in [Provider -> Rev \cup {Absent}] /\ Nowhere \in [Provider -> Key \cup {Absent}]
      BY DEF Nowhere
  <2>2. expected \in [Provider -> SUBSET Entry]
      BY <1>0 DEF Init
  <2> QED
      BY <2>1, <2>2 DEF Init, FilesTyped
<1>2. Nowhere \in Route /\ NoProbes \in [Probing -> Probe \cup {Absent}]
    BY DEF Nowhere, NoProbes, Route
<1>3. RoutesTyped
    BY <1>2 DEF Init, RoutesTyped
<1>4. <<>> \in Seq(Update)
    BY EmptySeq
<1>5. UpdatesTyped
    BY <1>4, StagesDiffer DEF Init, UpdatesTyped, Waiting
<1> QED
    BY <1>1, <1>3, <1>5 DEF Typed

\* The effects of the actions on the updates.

LEMMA SubmitTyped ==
    ASSUME UpdatesTyped, NEW u \in Update, Submit(u)
    PROVE  UpdatesTyped'
<1>1. PICK i \in Input : input' = [input EXCEPT ![u] = i]
    BY DEF Submit
<1>2. /\ up /\ up' = up /\ pc[u] = "idle" /\ before' = before
      /\ pc' = [pc EXCEPT ![u] = "queued"] /\ queue' = Append(queue, u)
    BY DEF Submit
<1>3. queue \in Seq(Update) /\ pc \in [Update -> {"idle"} \cup Waiting \cup Ended]
    BY DEF UpdatesTyped
<1>4. /\ queue' \in Seq(Update) /\ Len(queue') = Len(queue) + 1 /\ Len(queue) \in Nat
      /\ queue'[Len(queue) + 1] = u /\ \A j \in 1..Len(queue) : queue'[j] = queue[j]
      /\ queue # <<>> => queue' # <<>> /\ Head(queue') = Head(queue)
    BY <1>2, <1>3
<1>5. ASSUME NEW v \in Update, pc'[v] \in Waiting PROVE \E j \in 1..Len(queue') : queue'[j] = v
  <2>1. CASE v = u
      BY <1>4, <2>1
  <2>2. CASE v # u
    <3>1. PICK j \in 1..Len(queue) : queue[j] = v
        BY <1>2, <1>3, <1>5, <2>2 DEF UpdatesTyped
    <3> QED
        BY <1>4, <3>1
  <2> QED
      BY <2>1, <2>2
<1>6. ASSUME NEW v \in Update, pc'[v] \in Running PROVE v # u /\ pc[v] \in Running
    BY <1>2, <1>3, <1>6, StagesDiffer
<1>7. ASSUME NEW v \in Update, pc'[v] # "idle" PROVE input'[v] \in Input
    BY <1>1, <1>2, <1>3, <1>7 DEF UpdatesTyped
<1>8. pc' \in [Update -> {"idle"} \cup Waiting \cup Ended]
    BY <1>2, <1>3 DEF Waiting
<1>9. input' \in [Update -> Input \cup {Absent}]
    BY <1>1 DEF UpdatesTyped
<1>10. ASSUME NEW v \in Update, pc'[v] \in Running
       PROVE  queue' # <<>> /\ Head(queue') = v /\ before'[v] \in Beginning
    BY <1>2, <1>4, <1>6, <1>10 DEF UpdatesTyped
<1> QED
    BY <1>2, <1>4, <1>5, <1>7, <1>8, <1>9, <1>10 DEF UpdatesTyped

\* The update that runs goes on.
LEMMA GotoTyped ==
    ASSUME UpdatesTyped, NEW u \in Update, pc[u] \in Running, NEW where \in Running,
           Goto(u, where), up' = up
    PROVE  UpdatesTyped'
<1>1. /\ pc' = [pc EXCEPT ![u] = where] /\ UNCHANGED <<input, before, queue>>
      /\ pc \in [Update -> {"idle"} \cup Waiting \cup Ended]
    BY DEF Goto, UpdatesTyped
<1>2. pc' \in [Update -> {"idle"} \cup Waiting \cup Ended]
    BY <1>1 DEF Waiting
<1>3. \A v \in Update : /\ pc'[v] \in Running => pc[v] \in Running
                        /\ pc'[v] \in Waiting => pc[v] \in Waiting
                        /\ pc'[v] # "idle" => pc[v] # "idle"
    BY <1>1, StagesDiffer DEF Waiting
<1> QED
    BY <1>1, <1>2, <1>3 DEF UpdatesTyped

\* The head of the queue ends.
LEMMA EndTyped ==
    ASSUME UpdatesTyped, NEW u \in Update, pc[u] \in Waiting, Head(queue) = u,
           NEW how \in Ended, End(u, how), up' = up
    PROVE  UpdatesTyped'
<1>1. /\ pc' = [pc EXCEPT ![u] = how] /\ queue' = Tail(queue) /\ UNCHANGED <<input, before>>
      /\ pc \in [Update -> {"idle"} \cup Waiting \cup Ended] /\ queue \in Seq(Update)
    BY DEF End, UpdatesTyped
<1>2. queue # <<>> /\ Len(queue) \in Nat /\ queue[1] = u
    BY <1>1 DEF UpdatesTyped
<1>3. /\ queue' \in Seq(Update) /\ Len(queue') = Len(queue) - 1
      /\ \A i \in 1..Len(queue) - 1 : queue'[i] = queue[i + 1]
    BY <1>1, <1>2
<1>4. pc' \in [Update -> {"idle"} \cup Waiting \cup Ended]
    BY <1>1
<1>5. \A v \in Update : pc'[v] \in Waiting => v # u /\ pc[v] \in Waiting
    BY <1>1, StagesDiffer DEF Waiting
<1>6. ASSUME NEW v \in Update, pc'[v] \in Waiting
      PROVE  up' /\ \E i \in 1..Len(queue') : queue'[i] = v
  <2>1. PICK i \in 1..Len(queue) : queue[i] = v
      BY <1>5, <1>6 DEF UpdatesTyped
  <2>2. i - 1 \in 1..Len(queue) - 1 /\ (i - 1) + 1 = i
      BY <1>2, <1>5, <1>6, <2>1
  <2>3. i - 1 \in 1..Len(queue') /\ queue'[i - 1] = v
      BY <1>3, <2>1, <2>2
  <2> QED
      BY <1>5, <1>6, <2>3 DEF UpdatesTyped
<1>7. \A v \in Update : pc'[v] \notin Running
    BY <1>1, <1>5 DEF UpdatesTyped, Waiting
<1>8. \A v \in Update : pc'[v] # "idle" => pc[v] # "idle"
    BY <1>1, StagesDiffer DEF Waiting
<1> QED
    BY <1>1, <1>3, <1>4, <1>6, <1>7, <1>8 DEF UpdatesTyped

LEMMA BeginTyped ==
    ASSUME FilesTyped, UpdatesTyped, NEW u \in Update, Begin(u)
    PROVE  UpdatesTyped'
<1>1. /\ pc[u] = "queued" /\ Head(queue) = u /\ UNCHANGED <<up, input, queue>>
      /\ before' = [before EXCEPT ![u] = [config |-> config, key |-> secret[Of(u)]]]
      /\ pc' = [pc EXCEPT ![u] = IF input[u].key # Absent THEN "secret" ELSE "config"]
    BY DEF Begin
<1>2. pc \in [Update -> {"idle"} \cup Waiting \cup Ended] /\ queue \in Seq(Update)
    BY DEF UpdatesTyped
<1>3. input[u] \in Input /\ Of(u) \in Provider
    BY <1>1 DEF UpdatesTyped, Of, Input
<1>4. [config |-> config, key |-> secret[Of(u)]] \in Beginning
    BY <1>3 DEF FilesTyped, Beginning
<1>5. before' \in [Update -> Beginning \cup {Absent}] /\ before'[u] \in Beginning
    BY <1>1, <1>4 DEF UpdatesTyped
<1>6. pc'[u] \in Running /\ pc' \in [Update -> {"idle"} \cup Waiting \cup Ended]
    BY <1>1, <1>2 DEF Running, Waiting
<1>7. \A v \in Update : pc'[v] \in Running => v = u
    BY <1>1, <1>2 DEF UpdatesTyped
<1>8. \A v \in Update : /\ pc'[v] \in Waiting => pc[v] \in Waiting
                        /\ pc'[v] # "idle" => pc[v] # "idle"
    BY <1>1, <1>2 DEF Waiting
<1>9. queue # <<>>
    BY <1>1, <1>2 DEF UpdatesTyped, Waiting
<1> QED
    BY <1>1, <1>2, <1>5, <1>6, <1>7, <1>8, <1>9 DEF UpdatesTyped

\* What the update that is about to run, or runs, has to work with.
LEMMA UpdateHas ==
    ASSUME UpdatesTyped, NEW u \in Update, pc[u] \in Waiting
    PROVE  /\ input[u] \in Input /\ Of(u) \in Provider
           /\ input[u].rev \in Rev /\ input[u].key \in Key \cup {Absent}
           /\ pc[u] \in Running => Head(queue) = u /\ before[u] \in Beginning
<1>1. input[u] \in Input
    BY StagesDiffer DEF UpdatesTyped, Waiting
<1> QED
    BY <1>1 DEF UpdatesTyped, Input, Of

LEMMA FilesKept ==
    ASSUME FilesTyped, UNCHANGED <<up, fileVars, restartDue, historyVars>>
    PROVE  FilesTyped'
BY DEF FilesTyped, fileVars, historyVars

\* No update comes to a stage in which its reload probes.
LEMMA RoutesKept ==
    ASSUME RoutesTyped, UNCHANGED routeVars,
           \A u \in Update : pc'[u] \in {"probe", "undo probe"} => pc[u] \in {"probe", "undo probe"}
    PROVE  RoutesTyped'
BY DEF RoutesTyped, routeVars

\* The reload of u, or its second one, probes at once.
LEMMA ReplaceTyped ==
    ASSUME RoutesTyped, UpdatesTyped, NEW u \in Update, NEW routes \in Route,
           ReplaceExternal(u, routes), NEW where, Goto(u, where)
    PROVE  RoutesTyped'
<1>1. [of |-> routes, overtaken |-> FALSE] \in Probe /\ Absent \notin Probe
    BY ProviderAssumption DEF Probe
<1>2. \A q \in Probe : [q EXCEPT !.overtaken = TRUE] \in Probe
    BY DEF Probe
<1>3. \A y \in Probing : /\ probe'[y] \in Probe \cup {Absent}
                         /\ y = u \/ probe[y] # Absent => probe'[y] # Absent
  <2> TAKE y \in Probing
  <2>1. probe[y] \in Probe \cup {Absent}
      BY DEF RoutesTyped
  <2>2. CASE y = u
      BY <1>1, <2>2 DEF ReplaceExternal
  <2>3. CASE y # u /\ probe[y] = Absent
      BY <2>3 DEF ReplaceExternal
  <2>4. CASE y # u /\ probe[y] # Absent
    <3>1. probe'[y] = [probe[y] EXCEPT !.overtaken = TRUE]
        BY <2>4 DEF ReplaceExternal
    <3> QED
        BY <1>1, <1>2, <2>1, <2>4, <3>1
  <2> QED
      BY <2>2, <2>3, <2>4
<1>4. probe' \in [Probing -> Probe \cup {Absent}]
  <2>1. probe' = [y \in Probing |-> probe'[y]]
      BY DEF ReplaceExternal
  <2> QED
      BY <1>3, <2>1
<1>5. cache' \in [fresh : BOOLEAN, of : Route, overtaken : BOOLEAN]
    BY DEF RoutesTyped, ReplaceExternal
<1>6. \A v \in Update : pc'[v] \in {"probe", "undo probe"} =>
          v = u \/ pc[v] \in {"probe", "undo probe"}
    BY DEF Goto, UpdatesTyped
<1>7. \A v \in Update : pc'[v] \in {"probe", "undo probe"} => probe'[v] # Absent
    BY <1>3, <1>6 DEF RoutesTyped, Probing
<1> QED
    BY <1>4, <1>5, <1>7 DEF RoutesTyped, ReplaceExternal

\* A probe ends, which no update that stays in its stage waits for.
LEMMA StoreTyped ==
    ASSUME RoutesTyped, NEW x \in Probing, probe[x] # Absent, StoreProbe(x), UNCHANGED routing,
           \A v \in Update : pc'[v] \in {"probe", "undo probe"} =>
               v # x /\ pc[v] \in {"probe", "undo probe"}
    PROVE  RoutesTyped'
<1>1. probe[x] \in Probe
    BY DEF RoutesTyped
<1>2. /\ cache' = [fresh |-> TRUE, of |-> probe[x].of, overtaken |-> probe[x].overtaken]
      /\ probe' = [probe EXCEPT ![x] = Absent]
    BY DEF StoreProbe
<1>3. cache' \in [fresh : BOOLEAN, of : Route, overtaken : BOOLEAN]
    BY <1>1, <1>2 DEF Probe
<1>4. probe' \in [Probing -> Probe \cup {Absent}]
    BY <1>2 DEF RoutesTyped
<1>5. \A v \in Update : pc'[v] \in {"probe", "undo probe"} => probe'[v] # Absent
    BY <1>2 DEF RoutesTyped, Probing
<1> QED
    BY <1>3, <1>4, <1>5 DEF RoutesTyped

\* The entries that the files of a provider may come to say.
LEMMA EntriesTyped ==
    ASSUME FilesTyped, UpdatesTyped, NEW u \in Update, pc[u] \in Waiting
    PROVE  Applied(u) \subseteq Entry /\ Halfway(u) \subseteq Entry
<1>1. input[u].rev \in Rev /\ input[u].key \in Key \cup {Absent} /\ Of(u) \in Provider
    BY UpdateHas
<1>2. expected[Of(u)] \subseteq Entry
    BY <1>1 DEF FilesTyped
<1>3. \A e \in expected[Of(u)] :
         /\ e.rev \in Rev \cup {Absent}
         /\ (IF input[u].key # Absent THEN input[u].key ELSE e.key) \in Key \cup {Absent}
    BY <1>1, <1>2 DEF Entry
<1> QED
    BY <1>1, <1>3 DEF Applied, Halfway, Entry

LEMMA StepTyped ==
    ASSUME Typed, NEW u \in Update, Step(u)
    PROVE  Typed'
<1> USE DEF Typed
<1>a. /\ {"secret", "config", "reload", "probe", "list"} \subseteq Running
      /\ {"undo config", "undo secret", "undo reload", "undo probe"} \subseteq Running
      /\ Running \subseteq Waiting /\ "queued" \in Waiting
      /\ {"saved", "failed"} \subseteq Ended
    BY DEF Running, Waiting, Ended
<1>b. pc \in [Update -> {"idle"} \cup Waiting \cup Ended] /\ u \in Probing
    BY DEF UpdatesTyped, Probing
<1>c. pc[u] \in Running => Head(queue) = u
    BY DEF UpdatesTyped
<1>d. Loaded(config, secret) \in Route
    BY LoadedIsRoute DEF FilesTyped
<1>1. CASE Submit(u)
  <2>1. FilesTyped'
      BY <1>1, FilesKept DEF Submit
  <2>2. RoutesTyped'
      BY <1>1, <1>b, RoutesKept DEF Submit
  <2> QED
      BY <1>1, <2>1, <2>2, SubmitTyped
<1>2. CASE Begin(u)
  <2>1. FilesTyped'
      BY <1>2, FilesKept DEF Begin
  <2>2. RoutesTyped'
      BY <1>2, <1>b, RoutesKept DEF Begin
  <2> QED
      BY <1>2, <2>1, <2>2, BeginTyped
<1>3. CASE Refuse(u)
  <2>1. FilesTyped'
      BY <1>3, FilesKept DEF Refuse
  <2>2. RoutesTyped'
      BY <1>3, <1>b, RoutesKept DEF Refuse, End
  <2>3. UpdatesTyped'
      BY <1>3, <1>a, EndTyped DEF Refuse
  <2> QED
      BY <2>1, <2>2, <2>3
<1>4. CASE WriteSecret(u)
  <2>1. /\ pc[u] = "secret" /\ secret' = [secret EXCEPT ![Of(u)] = input[u].key]
        /\ Goto(u, "config") /\ UNCHANGED <<up, config, routeVars, restartDue, historyVars>>
      BY <1>4 DEF WriteSecret
  <2>2. input[u].key \in Key \cup {Absent}
      BY <1>a, <2>1, UpdateHas
  <2>3. secret' \in [Provider -> Key \cup {Absent}]
      BY <2>1, <2>2 DEF FilesTyped
  <2>4. FilesTyped'
      BY <2>1, <2>3 DEF FilesTyped, historyVars
  <2>5. RoutesTyped'
      BY <1>b, <2>1, RoutesKept DEF Goto
  <2>6. UpdatesTyped'
      BY <1>a, <2>1, GotoTyped
  <2> QED
      BY <2>4, <2>5, <2>6
<1>5. CASE WriteConfig(u)
  <2>1. /\ pc[u] = "config" /\ config' = [before[u].config EXCEPT ![Of(u)] = input[u].rev]
        /\ Goto(u, "reload") /\ UNCHANGED <<up, secret, routeVars, restartDue, historyVars>>
      BY <1>5 DEF WriteConfig
  <2>2. before[u] \in Beginning /\ input[u].rev \in Rev
      BY <1>a, <2>1, UpdateHas
  <2>3. config' \in [Provider -> Rev \cup {Absent}]
      BY <2>1, <2>2 DEF Beginning
  <2>4. FilesTyped'
      BY <2>1, <2>3 DEF FilesTyped, historyVars
  <2>5. RoutesTyped'
      BY <1>b, <2>1, RoutesKept DEF Goto
  <2>6. UpdatesTyped'
      BY <1>a, <2>1, GotoTyped
  <2> QED
      BY <2>4, <2>5, <2>6
<1>6. CASE Reload(u)
  <2>1. /\ pc[u] = "reload" /\ ReplaceExternal(u, Loaded(config, secret)) /\ Goto(u, "probe")
        /\ expected' = [expected EXCEPT ![Of(u)] = Applied(u)] /\ unrestored' = FALSE
        /\ UNCHANGED <<up, fileVars, restartDue, contested>>
      BY <1>6 DEF Reload
  <2>2. Applied(u) \subseteq Entry
      BY <1>a, <2>1, EntriesTyped
  <2>3. FilesTyped'
      BY <2>1, <2>2 DEF FilesTyped, fileVars
  <2>4. RoutesTyped'
      BY <1>d, <2>1, ReplaceTyped
  <2>5. UpdatesTyped'
      BY <1>a, <2>1, GotoTyped
  <2> QED
      BY <2>3, <2>4, <2>5
<1>7. CASE StepFails(u)
  <2>1. FilesTyped'
      BY <1>7, FilesKept DEF StepFails
  <2>2. RoutesTyped'
      BY <1>7, <1>b, RoutesKept DEF StepFails, Goto
  <2>3. UpdatesTyped'
      BY <1>7, <1>a, GotoTyped DEF StepFails
  <2> QED
      BY <2>1, <2>2, <2>3
<1>8. CASE Probed(u)
  <2>1. /\ pc[u] = "probe" /\ StoreProbe(u) /\ Goto(u, "list")
        /\ UNCHANGED <<up, fileVars, routing, restartDue, historyVars>>
      BY <1>8 DEF Probed
  <2>2. FilesTyped'
      BY <2>1, FilesKept
  <2>3. RoutesTyped'
    <3>1. probe[u] # Absent
        BY <2>1 DEF RoutesTyped
    <3>2. \A v \in Update : pc'[v] \in {"probe", "undo probe"} =>
              v # u /\ pc[v] \in {"probe", "undo probe"}
        BY <1>b, <2>1 DEF Goto
    <3> QED
        BY <1>b, <2>1, <3>1, <3>2, StoreTyped
  <2>4. UpdatesTyped'
      BY <1>a, <2>1, GotoTyped
  <2> QED
      BY <2>2, <2>3, <2>4
<1>9. CASE Answer(u)
  <2>1. PICK how \in {"saved", "failed"} : End(u, how)
      BY <1>9 DEF Answer
  <2>2. FilesTyped'
      BY <1>9, FilesKept DEF Answer
  <2>3. RoutesTyped'
      BY <1>9, <1>b, <2>1, RoutesKept DEF Answer, End
  <2>4. UpdatesTyped'
      BY <1>9, <1>a, <1>c, <2>1, EndTyped DEF Answer
  <2> QED
      BY <2>2, <2>3, <2>4
<1>10. CASE UndoConfig(u)
  <2>1. /\ pc[u] = "undo config" /\ config' = before[u].config
        /\ UNCHANGED <<up, secret, routeVars, restartDue, historyVars>>
      BY <1>10 DEF UndoConfig
  <2>2. PICK where \in {"undo secret", "undo reload"} : Goto(u, where)
      BY <1>10 DEF UndoConfig
  <2>3. config' \in [Provider -> Rev \cup {Absent}]
      BY <1>a, <2>1, UpdateHas DEF Beginning
  <2>4. FilesTyped'
      BY <2>1, <2>3 DEF FilesTyped, historyVars
  <2>5. RoutesTyped'
      BY <1>b, <2>1, <2>2, RoutesKept DEF Goto
  <2>6. UpdatesTyped'
      BY <1>a, <2>1, <2>2, GotoTyped
  <2> QED
      BY <2>4, <2>5, <2>6
<1>11. CASE UndoSecret(u)
  <2>1. /\ pc[u] = "undo secret" /\ secret' = [secret EXCEPT ![Of(u)] = before[u].key]
        /\ Goto(u, "undo reload") /\ UNCHANGED <<up, config, routeVars, restartDue, historyVars>>
      BY <1>11 DEF UndoSecret
  <2>2. before[u].key \in Key \cup {Absent}
      BY <1>a, <2>1, UpdateHas DEF Beginning
  <2>3. secret' \in [Provider -> Key \cup {Absent}]
      BY <2>1, <2>2 DEF FilesTyped
  <2>4. FilesTyped'
      BY <2>1, <2>3 DEF FilesTyped, historyVars
  <2>5. RoutesTyped'
      BY <1>b, <2>1, RoutesKept DEF Goto
  <2>6. UpdatesTyped'
      BY <1>a, <2>1, GotoTyped
  <2> QED
      BY <2>4, <2>5, <2>6
<1>12. CASE UndoFails(u)
  <2>1. /\ pc[u] \in {"undo config", "undo secret"} /\ End(u, "failed")
        /\ expected' = [expected EXCEPT ![Of(u)] = @ \cup Halfway(u) \cup Applied(u)]
        /\ unrestored' = TRUE /\ UNCHANGED <<up, fileVars, routeVars, restartDue, contested>>
      BY <1>12 DEF UndoFails
  <2>2. Halfway(u) \cup Applied(u) \subseteq Entry /\ Of(u) \in Provider
      BY <1>a, <2>1, EntriesTyped, UpdateHas
  <2>3. expected[Of(u)] \cup Halfway(u) \cup Applied(u) \in SUBSET Entry
      BY <2>2 DEF FilesTyped
  <2>4. FilesTyped'
      BY <2>1, <2>3 DEF FilesTyped, fileVars
  <2>5. RoutesTyped'
      BY <1>b, <2>1, RoutesKept DEF End
  <2>6. UpdatesTyped'
      BY <1>a, <1>c, <2>1, EndTyped
  <2> QED
      BY <2>4, <2>5, <2>6
<1>13. CASE UndoReload(u)
  <2>1. /\ pc[u] = "undo reload" /\ ReplaceExternal(u, Loaded(config, secret))
        /\ Goto(u, "undo probe") /\ unrestored' = FALSE
        /\ UNCHANGED <<up, fileVars, restartDue, expected, contested>>
      BY <1>13 DEF UndoReload
  <2>2. FilesTyped'
      BY <2>1 DEF FilesTyped, fileVars
  <2>3. RoutesTyped'
      BY <1>d, <2>1, ReplaceTyped
  <2>4. UpdatesTyped'
      BY <1>a, <2>1, GotoTyped
  <2> QED
      BY <2>2, <2>3, <2>4
<1>14. CASE UndoReloadFails(u)
  <2>1. FilesTyped'
      BY <1>14, FilesKept DEF UndoReloadFails
  <2>2. RoutesTyped'
      BY <1>14, <1>b, RoutesKept DEF UndoReloadFails, End
  <2>3. UpdatesTyped'
      BY <1>14, <1>a, <1>c, EndTyped DEF UndoReloadFails
  <2> QED
      BY <2>1, <2>2, <2>3
<1>15. CASE UndoProbed(u)
  <2>1. /\ pc[u] = "undo probe" /\ StoreProbe(u) /\ End(u, "failed")
        /\ UNCHANGED <<up, fileVars, routing, restartDue, historyVars>>
      BY <1>15 DEF UndoProbed
  <2>2. FilesTyped'
      BY <2>1, FilesKept
  <2>3. RoutesTyped'
    <3>1. probe[u] # Absent
        BY <2>1 DEF RoutesTyped
    <3>2. \A v \in Update : pc'[v] \in {"probe", "undo probe"} =>
              v # u /\ pc[v] \in {"probe", "undo probe"}
        BY <1>b, <2>1 DEF End
    <3> QED
        BY <1>b, <2>1, <3>1, <3>2, StoreTyped
  <2>4. UpdatesTyped'
      BY <1>a, <1>c, <2>1, EndTyped
  <2> QED
      BY <2>2, <2>3, <2>4
<1> QED
    BY <1>1, <1>2, <1>3, <1>4, <1>5, <1>6, <1>7, <1>8, <1>9, <1>10, <1>11, <1>12, <1>13, <1>14,
       <1>15 DEF Step

\* What the handlers, the operator and the crash leave the updates.
LEMMA UpdatesKept ==
    ASSUME UpdatesTyped, UNCHANGED updateVars, up => up'
    PROVE  UpdatesTyped'
BY DEF UpdatesTyped, updateVars

\* A start of the API, while no update waits or runs.
LEMMA ServeTyped ==
    ASSUME Typed, Serve, \A u \in Update : pc[u] \notin Waiting
    PROVE  Typed'
<1> USE DEF Typed
<1>1. /\ up' = TRUE /\ routing' = Loaded(config, secret) /\ probe' = NoProbes
      /\ cache' = [fresh |-> TRUE, of |-> Loaded(config, secret), overtaken |-> FALSE]
      /\ restartDue' = FALSE /\ unrestored' = FALSE
      /\ UNCHANGED <<fileVars, updateVars, expected, contested>>
    BY DEF Serve
<1>2. Loaded(config, secret) \in Route
    BY LoadedIsRoute DEF FilesTyped
<1>3. FilesTyped'
    BY <1>1 DEF FilesTyped, fileVars
<1>4. probe' \in [Probing -> Probe \cup {Absent}]
    BY <1>1 DEF NoProbes
<1>5. \A u \in Update : pc'[u] \notin {"probe", "undo probe"}
    BY <1>1 DEF updateVars, Waiting, Running
<1>6. RoutesTyped'
    BY <1>1, <1>2, <1>4, <1>5 DEF RoutesTyped
<1>7. UpdatesTyped'
    BY <1>1, UpdatesKept
<1> QED
    BY <1>3, <1>6, <1>7

\* The API serves again only when nothing waits or runs: systemctl restart lets the handlers
\* end, and a crash has cut them.
LEMMA ServesAlone ==
    ASSUME UpdatesTyped, OperatorRestart \/ Restart
    PROVE  Serve /\ \A u \in Update : pc[u] \notin Waiting
BY DEF UpdatesTyped, OperatorRestart, Restart

LEMMA CrashTyped ==
    ASSUME Typed, Crash
    PROVE  Typed'
<1> USE DEF Typed
<1>1. /\ up' = FALSE /\ routing' = Nowhere /\ probe' = NoProbes
      /\ cache' = [fresh |-> FALSE, of |-> Nowhere, overtaken |-> FALSE]
      /\ pc' = [u \in Update |-> IF pc[u] \in {"queued"} \cup Running THEN "lost" ELSE pc[u]]
      /\ queue' = <<>>
      /\ UNCHANGED <<fileVars, input, before, restartDue, contested, unrestored>>
    BY DEF Crash
<1>2. \A u \in Update :
         /\ pc'[u] \in {"idle"} \cup Ended
         /\ pc'[u] # "idle" => pc[u] # "idle"
    BY <1>1, StagesDiffer DEF UpdatesTyped, Waiting, Ended
<1>3. UpdatesTyped'
  <2>1. pc' \in [Update -> {"idle"} \cup Waiting \cup Ended]
      BY <1>1, <1>2
  <2>2. \A u \in Update : pc'[u] \notin Waiting /\ pc'[u] \notin Running
      BY <1>2, StagesDiffer DEF Waiting
  <2>3. queue' \in Seq(Update)
      BY <1>1, EmptySeq
  <2> QED
      BY <1>1, <1>2, <2>1, <2>2, <2>3 DEF UpdatesTyped
<1>4. RoutesTyped'
  <2>1. probe' \in [Probing -> Probe \cup {Absent}] /\ Nowhere \in Route
      BY <1>1 DEF NoProbes, Nowhere, Route
  <2>2. \A u \in Update : pc'[u] \notin {"probe", "undo probe"}
      BY <1>2 DEF Ended
  <2> QED
      BY <1>1, <2>1, <2>2 DEF RoutesTyped
<1>5. expected' \in [Provider -> SUBSET Entry]
  <2> DEFINE Left(p) == {v \in Update : /\ pc[v] \in {"config", "reload", "undo config", "undo secret"}
                                        /\ Of(v) = p}
             Files(p) == expected[p] \cup UNION {LeftByCrash(u) : u \in Left(p)}
  <2>1. expected' = [p \in Provider |-> Files(p)]
      BY DEF Crash
  <2>2. \A p \in Provider : Files(p) \subseteq Entry
    <3>1. ASSUME NEW p \in Provider, NEW u \in Left(p) PROVE LeftByCrash(u) \subseteq Entry
      <4>1. pc[u] \in Waiting
          BY DEF Waiting, Running
      <4>2. Applied(u) \subseteq Entry /\ Halfway(u) \subseteq Entry /\ Of(u) \in Provider
          BY <4>1, EntriesTyped, UpdateHas
      <4> QED
          BY <4>2 DEF LeftByCrash, FilesTyped
    <3>2. \A p \in Provider : expected[p] \subseteq Entry
        BY DEF FilesTyped
    <3> QED
        BY <3>1, <3>2
  <2> HIDE DEF Files
  <2> QED
      BY <2>1, <2>2
<1>6. FilesTyped'
    BY <1>1, <1>5 DEF FilesTyped, fileVars
<1> QED
    BY <1>3, <1>4, <1>6

LEMMA NextTyped == Typed /\ [Next]_vars => Typed'
<1> SUFFICES ASSUME Typed, [Next]_vars PROVE Typed'
    OBVIOUS
<1> USE DEF Typed
<1>1. CASE \E u \in Update : Step(u)
    BY <1>1, StepTyped
<1>2. ASSUME NEW h \in Prober, StartProbe(h) PROVE Typed'
  <2>1. /\ probe' = [probe EXCEPT ![h] = [of |-> routing, overtaken |-> FALSE]]
        /\ UNCHANGED <<up, fileVars, routing, cache, updateVars, restartDue, historyVars>>
      BY <1>2 DEF StartProbe
  <2>2. [of |-> routing, overtaken |-> FALSE] \in Probe /\ h \in Probing
      BY DEF RoutesTyped, Probe, Probing
  <2>3. /\ probe' \in [Probing -> Probe \cup {Absent}]
        /\ \A x \in Probing : probe[x] # Absent => probe'[x] # Absent
      BY <2>1, <2>2, ProviderAssumption DEF RoutesTyped
  <2>4. RoutesTyped'
      BY <2>1, <2>3 DEF RoutesTyped, updateVars, Probing
  <2> QED
      BY <2>1, <2>4, FilesKept, UpdatesKept
<1>3. ASSUME NEW h \in Prober, EndProbe(h) PROVE Typed'
  <2>1. /\ probe[h] # Absent /\ StoreProbe(h)
        /\ UNCHANGED <<up, fileVars, routing, updateVars, restartDue, historyVars>>
      BY <1>3 DEF EndProbe
  <2>2. h \in Probing /\ h \notin Update
      BY ProviderAssumption DEF Probing
  <2>3. RoutesTyped'
      BY <2>1, <2>2, StoreTyped DEF updateVars
  <2> QED
      BY <2>1, <2>3, FilesKept, UpdatesKept
<1>4. CASE CacheExpires
  <2>1. RoutesTyped'
      BY <1>4 DEF CacheExpires, RoutesTyped, updateVars
  <2> QED
      BY <1>4, <2>1, FilesKept, UpdatesKept DEF CacheExpires
<1>5. ASSUME NEW p \in Provider, NEW k \in Key, OperatorSetsKey(p, k) PROVE Typed'
  <2>1. /\ secret' = [secret EXCEPT ![p] = k] /\ restartDue' = TRUE
        /\ UNCHANGED <<up, config, routeVars, updateVars, unrestored>>
      BY <1>5 DEF OperatorSetsKey
  <2>2. secret' \in [Provider -> Key \cup {Absent}]
      BY <2>1 DEF FilesTyped
  <2>3. contested' \in SUBSET Provider
      BY <1>5 DEF OperatorSetsKey, FilesTyped
  <2>4. {[rev |-> e.rev, key |-> k] : e \in expected[p]} \in SUBSET Entry
      BY DEF FilesTyped, Entry
  <2>5. expected' \in [Provider -> SUBSET Entry]
      BY <1>5, <2>4 DEF OperatorSetsKey, FilesTyped
  <2>6. FilesTyped'
      BY <2>1, <2>2, <2>3, <2>5 DEF FilesTyped
  <2>7. RoutesTyped'
      BY <2>1, RoutesKept DEF updateVars
  <2> QED
      BY <2>1, <2>6, <2>7, UpdatesKept
<1>6. CASE OperatorRestart \/ Restart
    BY <1>6, ServesAlone, ServeTyped
<1>7. CASE Crash
    BY <1>7, CrashTyped
<1>8. CASE UNCHANGED vars
    BY <1>8, FilesKept, RoutesKept, UpdatesKept DEF vars, updateVars
<1> QED
    BY <1>1, <1>2, <1>3, <1>4, <1>5, <1>6, <1>7, <1>8 DEF Next

\* Every variable keeps its type, and of the updates only the first that has not ended runs:
\* #mutationQueue lets one upsert begin after another (provider-management-service.ts 80-87).
THEOREM TypeCorrect == Spec => []TypeOK
<1>1. Spec => []Typed
    BY InitTyped, NextTyped, PTL DEF Spec
<1> QED
    BY <1>1, TypedIsTypeOK, PTL

-----------------------------------------------------------------------------
(* The probes *)

\* A probe asks the providers that are served, or was overtaken.
Probes ==
    /\ StaleOnlyByOverlap
    /\ \A x \in Probing : probe[x] # Absent => probe[x].of = routing \/ probe[x].overtaken

LEMMA ProbesKept ==
    ASSUME Probes, UNCHANGED routeVars
    PROVE  Probes'
BY DEF Probes, StaleOnlyByOverlap, routeVars

LEMMA ProbesReplace ==
    ASSUME RoutesTyped, Probes, NEW u \in Update, NEW routes \in Route, ReplaceExternal(u, routes)
    PROVE  Probes'
<1>1. /\ routing' = routes /\ cache' = [cache EXCEPT !.fresh = FALSE]
      /\ probe' = [y \in Probing |->
                     IF y = u THEN [of |-> routes, overtaken |-> FALSE]
                     ELSE IF probe[y] = Absent THEN Absent
                     ELSE [probe[y] EXCEPT !.overtaken = TRUE]]
    BY DEF ReplaceExternal
<1>2. ~cache'.fresh
    BY <1>1 DEF RoutesTyped
<1>3. ASSUME NEW x \in Probing, probe'[x] # Absent
      PROVE  probe'[x].of = routing' \/ probe'[x].overtaken
  <2>1. probe[x] \in Probe \cup {Absent}
      BY DEF RoutesTyped
  <2>2. \A q \in Probe : [q EXCEPT !.overtaken = TRUE].overtaken
      BY DEF Probe
  <2> QED
      BY <1>1, <1>3, <2>1, <2>2
<1> QED
    BY <1>2, <1>3 DEF Probes, StaleOnlyByOverlap

LEMMA ProbesStore ==
    ASSUME RoutesTyped, Probes, NEW x \in Probing, probe[x] # Absent, StoreProbe(x),
           UNCHANGED routing
    PROVE  Probes'
<1>1. /\ cache' = [fresh |-> TRUE, of |-> probe[x].of, overtaken |-> probe[x].overtaken]
      /\ probe' = [probe EXCEPT ![x] = Absent]
    BY DEF StoreProbe
<1>2. cache'.of = routing' \/ cache'.overtaken
    BY <1>1 DEF Probes
<1>3. \A y \in Probing : probe'[y] # Absent => probe'[y] = probe[y]
    BY <1>1 DEF RoutesTyped
<1> QED
    BY <1>2, <1>3 DEF Probes, StaleOnlyByOverlap

LEMMA NextProbes == Typed /\ Probes /\ [Next]_vars => Probes'
<1> SUFFICES ASSUME Typed, Probes, [Next]_vars PROVE Probes'
    OBVIOUS
<1> USE DEF Typed
<1>1. ASSUME NEW u \in Update, Step(u) PROVE Probes'
  <2>1. Loaded(config, secret) \in Route /\ u \in Probing
      BY LoadedIsRoute DEF FilesTyped, Probing
  <2>2. CASE Reload(u) \/ UndoReload(u)
      BY <2>1, <2>2, ProbesReplace DEF Reload, UndoReload
  <2>3. CASE Probed(u) \/ UndoProbed(u)
    <3>1. probe[u] # Absent /\ StoreProbe(u) /\ UNCHANGED routing
        BY <2>3 DEF Probed, UndoProbed, RoutesTyped
    <3> QED
        BY <2>1, <3>1, ProbesStore
  <2>4. CASE \/ Submit(u) \/ Begin(u) \/ Refuse(u) \/ WriteSecret(u) \/ WriteConfig(u)
             \/ StepFails(u) \/ Answer(u)
      BY <2>4, ProbesKept DEF Submit, Begin, Refuse, WriteSecret, WriteConfig, StepFails, Answer
  <2>5. CASE \/ UndoConfig(u) \/ UndoSecret(u) \/ UndoFails(u) \/ UndoReloadFails(u)
      BY <2>5, ProbesKept DEF UndoConfig, UndoSecret, UndoFails, UndoReloadFails
  <2> QED
      BY <1>1, <2>2, <2>3, <2>4, <2>5 DEF Step
<1>2. ASSUME NEW h \in Prober, StartProbe(h) PROVE Probes'
  <2>1. /\ ~cache.fresh /\ UNCHANGED <<routing, cache>>
        /\ probe' = [probe EXCEPT ![h] = [of |-> routing, overtaken |-> FALSE]]
      BY <1>2 DEF StartProbe
  <2> QED
      BY <2>1 DEF Probes, StaleOnlyByOverlap, RoutesTyped
<1>3. ASSUME NEW h \in Prober, EndProbe(h) PROVE Probes'
    BY <1>3, ProbesStore DEF EndProbe, Probing
<1>4. CASE CacheExpires
    BY <1>4 DEF CacheExpires, Probes, StaleOnlyByOverlap, RoutesTyped
<1>5. ASSUME NEW p \in Provider, NEW k \in Key, OperatorSetsKey(p, k) PROVE Probes'
    BY <1>5, ProbesKept DEF OperatorSetsKey
<1>6. CASE OperatorRestart \/ Restart
    BY <1>6 DEF OperatorRestart, Restart, Serve, Probes, StaleOnlyByOverlap, NoProbes
<1>7. CASE Crash
    BY <1>7 DEF Crash, Probes, StaleOnlyByOverlap, NoProbes
<1>8. CASE UNCHANGED vars
    BY <1>8, ProbesKept DEF vars
<1> QED
    BY <1>1, <1>2, <1>3, <1>4, <1>5, <1>6, <1>7, <1>8 DEF Next

\* A probe result that is served as fresh though the providers are others by now was under way
\* when they were replaced: replaceExternal clears the cache, and only a probe it has overtaken
\* can fill it with the old providers again (multi-provider-backend.ts 36-44, 64-77).
THEOREM StaleProbesOverlap == Spec => []StaleOnlyByOverlap
<1>1. Init => Probes
    BY DEF Init, Probes, StaleOnlyByOverlap, NoProbes
<1>2. Spec => []Typed
    BY InitTyped, NextTyped, PTL DEF Spec
<1>3. Spec => []Probes
    BY <1>1, <1>2, NextProbes, PTL DEF Spec
<1>4. Probes => StaleOnlyByOverlap
    BY DEF Probes
<1> QED
    BY <1>3, <1>4, PTL

-----------------------------------------------------------------------------
(* What is served *)

\* The stages in which the files may have been written and the providers are still those of
\* what the update read.
Writing == {"config", "reload", "undo config", "undo secret", "undo reload"}

ReadBy(u) == Loaded(before[u].config, [secret EXCEPT ![Of(u)] = before[u].key])

\* What the stage of a running update says of what it read: the declarations are those again or
\* still, the key is where it has not been written or was restored, and that is what is served.
AsRead(u) ==
    /\ pc[u] = "secret" => input[u].key # Absent
    /\ pc[u] \in {"secret", "config", "undo secret", "undo reload"} => config = before[u].config
    /\ ~restartDue /\ (pc[u] \in {"secret", "undo reload"} \/ input[u].key = Absent)
           => secret[Of(u)] = before[u].key
    /\ ~restartDue /\ ~unrestored => routing = ReadBy(u)

Served ==
    /\ ServedIsStored
    /\ \A u \in Update : pc[u] \in {"secret"} \cup Writing => AsRead(u)

LEMMA OneRuns ==
    ASSUME UpdatesTyped, NEW u \in Update, pc[u] \in Running \/ (pc[u] = "queued" /\ Head(queue) = u)
    PROVE  \A v \in Update : pc[v] \in Running => v = u
BY DEF UpdatesTyped

LEMMA WritingRuns == {"secret"} \cup Writing \subseteq Running \ {"probe", "undo probe", "list"}
BY DEF Writing, Running

\* Nothing changes but handlers and probes, or an update that waits.
LEMMA ServedKept ==
    ASSUME Served, UNCHANGED <<up, fileVars, routing, before, restartDue, unrestored>>,
           \A v \in Update : /\ pc'[v] \in {"secret"} \cup Writing <=> pc[v] \in {"secret"} \cup Writing
                             /\ pc[v] \in {"secret"} \cup Writing => pc'[v] = pc[v] /\ input'[v] = input[v]
    PROVE  Served'
<1>1. \A v \in Update : pc'[v] \in {"secret"} \cup Writing => AsRead(v)'
    BY DEF Served, AsRead, ReadBy, Of, fileVars
<1>2. (\A v \in Update : pc'[v] \notin Writing) => (\A v \in Update : pc[v] \notin Writing)
    BY DEF Writing
<1>3. ServedIsStored'
    BY <1>2 DEF Served, ServedIsStored, fileVars, Writing
<1> QED
    BY <1>1, <1>3 DEF Served

\* A step of the update that runs, or begins, leaves the others out of their stages.
LEMMA ServedByStep ==
    ASSUME UpdatesTyped, NEW u \in Update,
           pc[u] \in Running \/ (pc[u] = "queued" /\ Head(queue) = u),
           NEW where, pc' = [pc EXCEPT ![u] = where],
           where \in {"secret"} \cup Writing => AsRead(u)',
           where \in Writing \/ ServedIsStored'
    PROVE  Served'
<1>1. \A v \in Update : pc'[v] \in {"secret"} \cup Writing => v = u
    BY OneRuns, WritingRuns DEF UpdatesTyped
<1>2. pc'[u] = where
    BY DEF UpdatesTyped
<1>3. ServedIsStored'
    BY <1>2 DEF ServedIsStored, Writing
<1> QED
    BY <1>1, <1>2, <1>3 DEF Served

LEMMA StepServed ==
    ASSUME Typed, Served, NEW u \in Update, Step(u)
    PROVE  Served'
<1> USE DEF Typed
<1>a. /\ pc \in [Update -> {"idle"} \cup Waiting \cup Ended]
      /\ secret \in [Provider -> Key \cup {Absent}]
    BY DEF UpdatesTyped, FilesTyped
<1>b. pc[u] \in Waiting => Of(u) \in Provider
    BY UpdateHas
<1>c. Running \subseteq Waiting /\ "queued" \in Waiting
    BY DEF Waiting
<1>1. CASE Submit(u)
  <2>1. \A v \in Update : /\ pc'[v] \in {"secret"} \cup Writing <=> pc[v] \in {"secret"} \cup Writing
                          /\ pc[v] \in {"secret"} \cup Writing => pc'[v] = pc[v] /\ input'[v] = input[v]
      BY <1>1, <1>a DEF Submit, Writing, UpdatesTyped
  <2> QED
      BY <1>1, <2>1, ServedKept DEF Submit, routeVars, historyVars
<1>2. CASE Begin(u)
  <2>1. /\ up /\ pc[u] = "queued" /\ Head(queue) = u
        /\ before' = [before EXCEPT ![u] = [config |-> config, key |-> secret[Of(u)]]]
        /\ pc' = [pc EXCEPT ![u] = IF input[u].key # Absent THEN "secret" ELSE "config"]
        /\ UNCHANGED <<up, fileVars, routeVars, input, queue, restartDue, historyVars>>
      BY <1>2 DEF Begin
  <2>2. before'[u] = [config |-> config, key |-> secret[Of(u)]]
      BY <2>1 DEF UpdatesTyped
  <2>3. \A v \in Update : pc[v] \notin Writing
      BY <2>1, OneRuns, WritingRuns, StagesDiffer
  <2>4. ~restartDue /\ ~unrestored => routing = Loaded(config, secret)
      BY <2>1, <2>3 DEF Served, ServedIsStored, Writing
  <2>5. [secret EXCEPT ![Of(u)] = secret[Of(u)]] = secret
      BY <1>a, <1>b, <1>c, <2>1
  <2>6. pc'[u] = "secret" => input[u].key # Absent
      BY <1>a, <2>1
  <2>7. AsRead(u)'
    <3>1. ReadBy(u)' = Loaded(config, [secret EXCEPT ![Of(u)] = secret[Of(u)]])
      <4>1. /\ before'[u].config = config /\ before'[u].key = secret[Of(u)]
            /\ Of(u)' = Of(u) /\ secret' = secret
          BY <2>1, <2>2 DEF Of, fileVars
      <4> QED
          BY <4>1 DEF ReadBy
    <3>2. /\ (config = before[u].config)' /\ (secret[Of(u)] = before[u].key)'
          /\ (~restartDue /\ ~unrestored => routing = ReadBy(u))'
        BY <2>1, <2>2, <2>4, <2>5, <3>1 DEF Of, fileVars, routeVars, historyVars
    <3> QED
        BY <2>1, <2>6, <3>2 DEF AsRead
  <2>8. ServedIsStored'
      BY <2>1, <2>4 DEF ServedIsStored, fileVars, routeVars, historyVars
  <2> QED
      BY <2>1, <2>7, <2>8, ServedByStep
<1>3. CASE Refuse(u)
  <2>1. /\ pc[u] = "queued" /\ pc' = [pc EXCEPT ![u] = "failed"]
        /\ UNCHANGED <<up, fileVars, routeVars, restartDue, historyVars, input, before>>
      BY <1>3 DEF Refuse, End
  <2>2. \A v \in Update : /\ pc'[v] \in {"secret"} \cup Writing <=> pc[v] \in {"secret"} \cup Writing
                          /\ pc[v] \in {"secret"} \cup Writing => pc'[v] = pc[v] /\ input'[v] = input[v]
      BY <1>a, <2>1 DEF Writing
  <2> QED
      BY <2>1, <2>2, ServedKept DEF routeVars, historyVars
<1>4. CASE WriteSecret(u)
  <2>1. /\ pc[u] = "secret" /\ secret' = [secret EXCEPT ![Of(u)] = input[u].key]
        /\ pc' = [pc EXCEPT ![u] = "config"]
        /\ UNCHANGED <<up, config, routeVars, restartDue, historyVars, input, before>>
      BY <1>4 DEF WriteSecret, Goto
  <2>2. AsRead(u) /\ pc[u] \in Running
      BY <2>1, WritingRuns DEF Served
  <2>3. [secret' EXCEPT ![Of(u)] = before[u].key] = [secret EXCEPT ![Of(u)] = before[u].key]
      BY <1>a, <1>b, <1>c, <2>1, <2>2
  <2>4. ReadBy(u)' = ReadBy(u)
      BY <2>1, <2>3 DEF ReadBy, Of
  <2>5. AsRead(u)'
      BY <1>a, <2>1, <2>2, <2>4 DEF AsRead, routeVars, historyVars
  <2> QED
      BY <2>1, <2>2, <2>5, ServedByStep DEF Writing
<1>5. CASE WriteConfig(u)
  <2>1. /\ pc[u] = "config" /\ pc' = [pc EXCEPT ![u] = "reload"]
        /\ UNCHANGED <<up, secret, routeVars, restartDue, historyVars, input, before>>
      BY <1>5 DEF WriteConfig, Goto
  <2>2. AsRead(u) /\ pc[u] \in Running
      BY <2>1, WritingRuns DEF Served, Writing
  <2>3. AsRead(u)'
      BY <1>a, <2>1, <2>2 DEF AsRead, ReadBy, Of, routeVars, historyVars
  <2> QED
      BY <2>1, <2>2, <2>3, ServedByStep DEF Writing
<1>6. CASE Reload(u) \/ UndoReload(u)
  <2>1. /\ pc[u] \in Running /\ routing' = Loaded(config, secret)
        /\ UNCHANGED fileVars
      BY <1>6 DEF Reload, UndoReload, ReplaceExternal, Running
  <2>2. PICK where \in {"probe", "undo probe"} : pc' = [pc EXCEPT ![u] = where]
      BY <1>6 DEF Reload, UndoReload, Goto
  <2>3. ServedIsStored'
      BY <2>1 DEF ServedIsStored, fileVars
  <2> QED
      BY <2>1, <2>2, <2>3, WritingRuns, ServedByStep
<1>7. CASE StepFails(u)
  <2>1. /\ pc[u] \in {"secret", "config", "reload"} /\ pc' = [pc EXCEPT ![u] = "undo config"]
        /\ UNCHANGED <<up, fileVars, routeVars, restartDue, historyVars, input, before>>
      BY <1>7 DEF StepFails, Goto
  <2>2. AsRead(u) /\ pc[u] \in Running
      BY <2>1, WritingRuns DEF Served, Writing
  <2>3. AsRead(u)'
      BY <1>a, <2>1, <2>2 DEF AsRead, ReadBy, Of, fileVars, routeVars, historyVars
  <2> QED
      BY <2>1, <2>2, <2>3, ServedByStep DEF Writing
<1>8. CASE Probed(u) \/ UndoProbed(u) \/ Answer(u)
  <2>1. /\ pc[u] \in {"probe", "undo probe", "list"}
        /\ UNCHANGED <<up, fileVars, routing, restartDue, unrestored, input, before>>
      BY <1>8 DEF Probed, UndoProbed, Answer, Goto, End, routeVars, historyVars
  <2>2. PICK where \in {"list", "failed", "saved"} : pc' = [pc EXCEPT ![u] = where]
      BY <1>8 DEF Probed, UndoProbed, Answer, Goto, End
  <2>3. \A v \in Update : /\ pc'[v] \in {"secret"} \cup Writing <=> pc[v] \in {"secret"} \cup Writing
                          /\ pc[v] \in {"secret"} \cup Writing => pc'[v] = pc[v] /\ input'[v] = input[v]
      BY <1>a, <2>1, <2>2 DEF Writing
  <2> QED
      BY <2>1, <2>3, ServedKept
<1>9. CASE UndoConfig(u)
  <2>1. /\ pc[u] = "undo config" /\ config' = before[u].config
        /\ UNCHANGED <<up, secret, routeVars, restartDue, historyVars, input, before>>
      BY <1>9 DEF UndoConfig, Goto
  <2>2. pc' = [pc EXCEPT ![u] = IF input[u].key # Absent THEN "undo secret" ELSE "undo reload"]
      BY <1>9 DEF UndoConfig, Goto
  <2>3. AsRead(u) /\ pc[u] \in Running
      BY <2>1, WritingRuns DEF Served, Writing
  <2>4. pc'[u] = "undo reload" => input[u].key = Absent
      BY <1>a, <2>2
  <2>5. pc'[u] \in {"undo secret", "undo reload"}
      BY <1>a, <2>2
  <2>6. AsRead(u)'
      BY <2>1, <2>3, <2>4, <2>5 DEF AsRead, ReadBy, Of, routeVars, historyVars
  <2> QED
      BY <2>2, <2>3, <2>6, ServedByStep DEF Writing
<1>10. CASE UndoSecret(u)
  <2>1. /\ pc[u] = "undo secret" /\ secret' = [secret EXCEPT ![Of(u)] = before[u].key]
        /\ pc' = [pc EXCEPT ![u] = "undo reload"]
        /\ UNCHANGED <<up, config, routeVars, restartDue, historyVars, input, before>>
      BY <1>10 DEF UndoSecret, Goto
  <2>2. AsRead(u) /\ pc[u] \in Running
      BY <2>1, WritingRuns DEF Served, Writing
  <2>3. /\ [secret' EXCEPT ![Of(u)] = before[u].key] = [secret EXCEPT ![Of(u)] = before[u].key]
        /\ secret'[Of(u)] = before[u].key
      BY <1>a, <1>b, <1>c, <2>1, <2>2
  <2>4. ReadBy(u)' = ReadBy(u) /\ (secret[Of(u)])' = before[u].key
      BY <2>1, <2>3 DEF ReadBy, Of
  <2>5. AsRead(u)'
      BY <1>a, <2>1, <2>2, <2>4 DEF AsRead, routeVars, historyVars
  <2> QED
      BY <2>1, <2>2, <2>5, ServedByStep DEF Writing
<1>11. CASE UndoFails(u)
  <2>1. /\ pc[u] \in Running /\ pc' = [pc EXCEPT ![u] = "failed"] /\ unrestored' = TRUE
      BY <1>11 DEF UndoFails, End, Running
  <2>2. ServedIsStored'
      BY <2>1 DEF ServedIsStored
  <2> QED
      BY <2>1, <2>2, ServedByStep DEF Writing
<1>12. CASE UndoReloadFails(u)
  <2>1. /\ pc[u] = "undo reload" /\ pc' = [pc EXCEPT ![u] = "failed"]
        /\ UNCHANGED <<up, fileVars, routeVars, restartDue, historyVars>>
      BY <1>12 DEF UndoReloadFails, End
  <2>2. AsRead(u) /\ pc[u] \in Running
      BY <2>1, WritingRuns DEF Served, Writing
  <2>3. ~restartDue => [secret EXCEPT ![Of(u)] = before[u].key] = secret
      BY <1>a, <1>b, <1>c, <2>1, <2>2 DEF AsRead
  <2>4. ~restartDue /\ ~unrestored => routing = Loaded(config, secret)
      BY <2>1, <2>2, <2>3 DEF AsRead, ReadBy
  <2>5. ServedIsStored'
      BY <2>1, <2>4 DEF ServedIsStored, fileVars, routeVars, historyVars
  <2> QED
      BY <2>1, <2>2, <2>5, ServedByStep DEF Writing
<1> QED
    BY <1>1, <1>2, <1>3, <1>4, <1>5, <1>6, <1>7, <1>8, <1>9, <1>10, <1>11, <1>12 DEF Step

LEMMA InitServed == Init => Served
<1> SUFFICES ASSUME Init PROVE Served
    OBVIOUS
<1>1. Loaded(Nowhere, Nowhere) = Nowhere
    BY ProviderAssumption DEF Loaded, Nowhere
<1>2. ServedIsStored
    BY <1>1 DEF Init, ServedIsStored
<1>3. \A u \in Update : pc[u] = "idle"
    BY DEF Init
<1> QED
    BY <1>2, <1>3 DEF Served, Writing

LEMMA NextServed == Typed /\ Served /\ [Next]_vars => Served'
<1> SUFFICES ASSUME Typed, Served, [Next]_vars PROVE Served'
    OBVIOUS
<1> USE DEF Typed
<1>1. CASE \E u \in Update : Step(u)
    BY <1>1, StepServed
<1>2. CASE (\E h \in Prober : StartProbe(h) \/ EndProbe(h)) \/ CacheExpires \/ UNCHANGED vars
  <2>1. UNCHANGED <<up, fileVars, routing, restartDue, unrestored, pc, input, before>>
      BY <1>2 DEF StartProbe, EndProbe, CacheExpires, vars, routeVars, updateVars, historyVars
  <2> QED
      BY <2>1, ServedKept
<1>3. ASSUME NEW p \in Provider, NEW k \in Key, OperatorSetsKey(p, k) PROVE Served'
  <2>1. restartDue' /\ UNCHANGED <<config, pc, input, before>>
      BY <1>3 DEF OperatorSetsKey, updateVars
  <2>2. ServedIsStored'
      BY <2>1 DEF ServedIsStored
  <2> QED
      BY <2>1, <2>2 DEF Served, AsRead
<1>4. CASE OperatorRestart \/ Restart
  <2>1. /\ routing' = Loaded(config, secret) /\ UNCHANGED <<fileVars, pc>>
        /\ \A u \in Update : pc[u] \notin Waiting
      BY <1>4, ServesAlone DEF Serve, updateVars
  <2>2. ServedIsStored'
      BY <2>1 DEF ServedIsStored, fileVars
  <2> QED
      BY <2>1, <2>2, WritingRuns DEF Served, Waiting
<1>5. CASE Crash
  <2>1. ServedIsStored'
      BY <1>5 DEF Crash, ServedIsStored
  <2>2. \A u \in Update : pc'[u] \notin Running
      BY <1>5, StagesDiffer DEF Crash, Ended
  <2> QED
      BY <2>1, <2>2, WritingRuns DEF Served
<1> QED
    BY <1>1, <1>2, <1>3, <1>4, <1>5 DEF Next

\* Whenever no update is between its first write and the end of its reload, the API routes to what
\* its files say: after a save, after a rollback whose second reload failed too, after a restart.
\* The stages of a rollback restore what the update read before its first write, and that was
\* served (provider-management-service.ts 93-130).
THEOREM FilesServed == Spec => []ServedIsStored
<1>1. Init => Served
    BY InitServed
<1>2. Spec => []Typed
    BY InitTyped, NextTyped, PTL DEF Spec
<1>3. Spec => []Served
    BY <1>1, <1>2, NextServed, PTL DEF Spec
<1>4. Served => ServedIsStored
    BY DEF Served
<1> QED
    BY <1>3, <1>4, PTL

-----------------------------------------------------------------------------
(* The two files of an update *)

InFiles(p) == [rev |-> config[p], key |-> secret[p]]
NewKey(u) == IF input[u].key # Absent THEN input[u].key ELSE before[u].key

\* What the files of its provider say before the update, between its writes, and after them.
Former(u) == [rev |-> before[u].config[Of(u)], key |-> before[u].key]
Half(u) == [rev |-> before[u].config[Of(u)], key |-> NewKey(u)]
Asked(u) == [rev |-> input[u].rev, key |-> NewKey(u)]

\* What they say at a stage: former, half, asked, or what is expected after the reload.
At(stage, former, half, asked, after) ==
    CASE stage \in {"secret", "undo reload", "undo probe"} -> {former}
      [] stage = "config" -> {half}
      [] stage = "reload" -> {asked}
      [] stage = "undo secret" -> {former, half}
      [] stage = "undo config" -> {former, half, asked}
      [] stage \in {"probe", "list"} -> after

AtStage(u) == At(pc[u], Former(u), Half(u), Asked(u), expected[Of(u)])

\* The stages before the reload has applied the update, or after it was given up.
Open == Running \ {"probe", "list"}

Revs(S) == {e.rev : e \in S}

\* The declaration is one of S, also where the operator has set the key while an update ran; the
\* key goes with it where he has not.
FilesAs(p, S) ==
    /\ config[p] \in Revs(S)
    /\ p \notin contested => InFiles(p) \in S

\* An update that may have to be undone: it can restore what is expected, and it alone writes.
Restorable(u) ==
    /\ \A p \in Provider \ {Of(u)} : config[p] = before[u].config[p]
    /\ Former(u).rev \in Revs(expected[Of(u)])
    /\ Of(u) \notin contested => Former(u) \in expected[Of(u)]

Atomic ==
    /\ \A p \in Provider :
           (\A u \in Update : pc[u] \in Running => Of(u) # p) => FilesAs(p, expected[p])
    /\ \A u \in Update : pc[u] \in Running => FilesAs(Of(u), AtStage(u))
    /\ \A u \in Update : pc[u] \in Open => Restorable(u)

LEMMA StageIs ==
    ASSUME NEW u \in Update
    PROVE  /\ pc[u] \in {"secret", "undo reload", "undo probe"} => AtStage(u) = {Former(u)}
           /\ pc[u] = "config" => AtStage(u) = {Half(u)}
           /\ pc[u] = "reload" => AtStage(u) = {Asked(u)}
           /\ pc[u] = "undo secret" => AtStage(u) = {Former(u), Half(u)}
           /\ pc[u] = "undo config" => AtStage(u) = {Former(u), Half(u), Asked(u)}
           /\ pc[u] \in {"probe", "list"} => AtStage(u) = expected[Of(u)]
           /\ pc[u] \in Open => AtStage(u) \subseteq {Former(u), Half(u), Asked(u)}
BY DEF AtStage, At, Open, Running

LEMMA StageWillBe ==
    ASSUME NEW u \in Update
    PROVE  /\ pc'[u] \in {"secret", "undo reload", "undo probe"} => AtStage(u)' = {Former(u)'}
           /\ pc'[u] = "config" => AtStage(u)' = {Half(u)'}
           /\ pc'[u] = "reload" => AtStage(u)' = {Asked(u)'}
           /\ pc'[u] = "undo secret" => AtStage(u)' = {Former(u)', Half(u)'}
           /\ pc'[u] = "undo config" => AtStage(u)' = {Former(u)', Half(u)', Asked(u)'}
           /\ pc'[u] \in {"probe", "list"} => AtStage(u)' = expected'[Of(u)']
BY DEF AtStage, At

\* The files of an update that may have to be undone are one of what a restore that fails, or a
\* crash, leaves.
LEMMA LeftOpen ==
    ASSUME Atomic, NEW u \in Update, pc[u] \in Open
    PROVE  FilesAs(Of(u), expected[Of(u)] \cup Halfway(u) \cup Applied(u))
<1> DEFINE E == expected[Of(u)]
<1>1. pc[u] \in Running /\ FilesAs(Of(u), AtStage(u)) /\ Restorable(u)
    BY DEF Atomic, Open
<1>2. AtStage(u) \subseteq {Former(u), Half(u), Asked(u)}
    BY StageIs
<1>3. PICK e \in E : e.rev = Former(u).rev
    BY <1>1 DEF Restorable, Revs
<1>4. ASSUME NEW f \in E
      PROVE  /\ [rev |-> f.rev, key |-> IF input[u].key # Absent THEN input[u].key ELSE f.key] \in Halfway(u)
             /\ [rev |-> input[u].rev, key |-> IF input[u].key # Absent THEN input[u].key ELSE f.key] \in Applied(u)
    BY DEF Halfway, Applied
<1>5. config[Of(u)] \in {Former(u).rev, input[u].rev}
    BY <1>1, <1>2 DEF FilesAs, Revs, Former, Half, Asked
<1>6. config[Of(u)] \in Revs(E \cup Halfway(u) \cup Applied(u))
  <2>1. CASE config[Of(u)] = Former(u).rev
      BY <1>3, <2>1 DEF Revs
  <2>2. CASE config[Of(u)] = input[u].rev
    <3>1. PICK a \in Applied(u) : a.rev = input[u].rev
        BY <1>3, <1>4
    <3> QED
        BY <2>2, <3>1 DEF Revs
  <2> QED
      BY <1>5, <2>1, <2>2
<1>7. ASSUME Of(u) \notin contested PROVE InFiles(Of(u)) \in E \cup Halfway(u) \cup Applied(u)
  <2>1. Former(u) \in E /\ InFiles(Of(u)) \in {Former(u), Half(u), Asked(u)}
      BY <1>1, <1>2, <1>7 DEF Restorable, FilesAs
  <2>2. Half(u) \in Halfway(u) /\ Asked(u) \in Applied(u)
      BY <1>4, <2>1 DEF Half, Asked, Former, NewKey
  <2> QED
      BY <2>1, <2>2
<1> QED
    BY <1>6, <1>7 DEF FilesAs

LEMMA SameEntries ==
    ASSUME NEW u \in Update, input'[u] = input[u], before'[u] = before[u]
    PROVE  /\ Of(u)' = Of(u) /\ Former(u)' = Former(u)
           /\ Half(u)' = Half(u) /\ Asked(u)' = Asked(u)
BY DEF Of, Former, Half, Asked, NewKey

\* Nothing changes but what is served, or an update that waits.
LEMMA AtomicKept ==
    ASSUME Atomic, UNCHANGED <<config, secret, expected, contested>>,
           \A v \in Update :
               /\ pc'[v] \in Running <=> pc[v] \in Running
               /\ pc[v] \in Running => pc'[v] = pc[v] /\ input'[v] = input[v] /\ before'[v] = before[v]
    PROVE  Atomic'
<1>1. ASSUME NEW v \in Update, pc[v] \in Running
      PROVE  /\ Of(v)' = Of(v) /\ AtStage(v)' = AtStage(v) /\ Former(v)' = Former(v)
             /\ before'[v] = before[v]
    BY <1>1, SameEntries DEF AtStage
<1>2. \A v \in Update : pc'[v] \in Open => pc[v] \in Open
    BY DEF Open
<1>3. \A v \in Update : pc'[v] \in Running => FilesAs(Of(v), AtStage(v))'
    BY <1>1 DEF Atomic, FilesAs, InFiles
<1>4. ASSUME NEW v \in Update, pc'[v] \in Open PROVE Restorable(v)'
    BY <1>1, <1>2, <1>4 DEF Atomic, Restorable, Open
<1>5. ASSUME NEW p \in Provider, \A v \in Update : pc'[v] \in Running => Of(v)' # p
      PROVE  FilesAs(p, expected[p])'
  <2>1. FilesAs(p, expected[p])
      BY <1>1, <1>5 DEF Atomic
  <2> QED
      BY <2>1 DEF FilesAs, InFiles
<1> QED
    BY <1>3, <1>4, <1>5 DEF Atomic

\* A step of the update that runs, or begins, touches one provider.
LEMMA AtomicByStep ==
    ASSUME UpdatesTyped, Atomic, NEW u \in Update,
           pc[u] \in Running \/ (pc[u] = "queued" /\ Head(queue) = u),
           NEW where, pc' = [pc EXCEPT ![u] = where], UNCHANGED <<input, contested>>,
           \A p \in Provider \ {Of(u)} :
               config'[p] = config[p] /\ secret'[p] = secret[p] /\ expected'[p] = expected[p],
           where \in Running => FilesAs(Of(u), AtStage(u))',
           where \notin Running => FilesAs(Of(u), expected[Of(u)])',
           where \in Open => Restorable(u)'
    PROVE  Atomic'
<1>1. \A v \in Update : pc[v] \in Running \/ pc'[v] \in Running => v = u
    BY OneRuns DEF UpdatesTyped
<1>2. pc'[u] = where /\ Of(u)' = Of(u)
    BY DEF UpdatesTyped, Of
<1>3. ASSUME NEW p \in Provider, \A v \in Update : pc'[v] \in Running => Of(v)' # p
      PROVE  FilesAs(p, expected[p])'
  <2>1. CASE p = Of(u)
      BY <1>2, <1>3, <2>1
  <2>2. CASE p # Of(u)
    <3>1. FilesAs(p, expected[p])
        BY <1>1, <2>2 DEF Atomic
    <3> QED
        BY <2>2, <3>1 DEF FilesAs, InFiles
  <2> QED
      BY <2>1, <2>2
<1>4. \A v \in Update : pc'[v] \in Open => v = u
    BY <1>1 DEF Open
<1> QED
    BY <1>1, <1>2, <1>3, <1>4 DEF Atomic

\* The stages of the update that runs, or begins.
LEMMA StepAtomic ==
    ASSUME Typed, Served, Atomic, NEW u \in Update, Step(u)
    PROVE  Atomic'
<1> USE DEF Typed
<1>a. /\ pc \in [Update -> {"idle"} \cup Waiting \cup Ended]
      /\ config \in [Provider -> Rev \cup {Absent}] /\ secret \in [Provider -> Key \cup {Absent}]
      /\ expected \in [Provider -> SUBSET Entry]
    BY DEF UpdatesTyped, FilesTyped
<1>b. pc[u] \in Waiting => Of(u) \in Provider /\ input[u].rev \in Rev
    BY UpdateHas
<1>c. pc[u] \in Running => before[u].config \in [Provider -> Rev \cup {Absent}]
    BY DEF UpdatesTyped, Beginning
<1>d. Running \subseteq Waiting /\ "queued" \in Waiting
    BY DEF Waiting
<1>e. pc[u] \in Running => FilesAs(Of(u), AtStage(u)) /\ (pc[u] \in Open => Restorable(u))
    BY DEF Atomic
<1>f. /\ Open = {"secret", "config", "reload", "undo config", "undo secret", "undo reload", "undo probe"}
      /\ Open \subseteq Running /\ {"probe", "list"} \subseteq Running
      /\ {"queued", "saved", "failed"} \cap Running = {}
    BY DEF Open, Running
<1>1. CASE Submit(u)
  <2>1. /\ pc[u] = "idle" /\ pc' = [pc EXCEPT ![u] = "queued"]
        /\ \E i \in Input : input' = [input EXCEPT ![u] = i]
        /\ UNCHANGED <<config, secret, expected, contested, before>>
      BY <1>1 DEF Submit, fileVars, historyVars
  <2>2. \A v \in Update :
           /\ pc'[v] \in Running <=> pc[v] \in Running
           /\ pc[v] \in Running => pc'[v] = pc[v] /\ input'[v] = input[v] /\ before'[v] = before[v]
      BY <1>a, <2>1, StagesDiffer DEF UpdatesTyped
  <2> QED
      BY <2>1, <2>2, AtomicKept
<1>2. CASE Begin(u)
  <2>1. /\ pc[u] = "queued" /\ Head(queue) = u
        /\ before' = [before EXCEPT ![u] = [config |-> config, key |-> secret[Of(u)]]]
        /\ pc' = [pc EXCEPT ![u] = IF input[u].key # Absent THEN "secret" ELSE "config"]
        /\ UNCHANGED <<config, secret, expected, contested, input>>
      BY <1>2 DEF Begin, fileVars, historyVars
  <2>2. before'[u].config = config /\ before'[u].key = secret[Of(u)] /\ Of(u)' = Of(u)
      BY <2>1 DEF UpdatesTyped, Of
  <2>3. Former(u)' = InFiles(Of(u)) /\ InFiles(Of(u))' = InFiles(Of(u))
      BY <2>1, <2>2 DEF Former, InFiles
  <2>4. input[u].key = Absent => Half(u)' = InFiles(Of(u))
      BY <2>1, <2>2 DEF Half, NewKey, InFiles
  <2>5. FilesAs(Of(u), expected[Of(u)])
    <3>1. \A v \in Update : pc[v] \notin Running
        BY <2>1, OneRuns, StagesDiffer
    <3> QED
        BY <1>b, <1>d, <2>1, <3>1 DEF Atomic
  <2>6. pc'[u] = (IF input[u].key # Absent THEN "secret" ELSE "config")
      BY <1>a, <2>1
  <2>7. AtStage(u)' = {InFiles(Of(u))}
    <3>1. CASE input[u].key # Absent
        BY <2>3, <2>6, <3>1, StageWillBe
    <3>2. CASE input[u].key = Absent
        BY <2>4, <2>6, <3>2, StageWillBe
    <3> QED
        BY <3>1, <3>2
  <2>8. FilesAs(Of(u), AtStage(u))'
      BY <2>1, <2>2, <2>3, <2>7 DEF FilesAs, Revs, InFiles
  <2>9. Restorable(u)'
    <3>1. \A p \in Provider : (config[p] = before[u].config[p])'
        BY <2>1, <2>2
    <3>2. Former(u)'.rev = config[Of(u)]
        BY <2>3 DEF InFiles
    <3> QED
        BY <2>1, <2>2, <2>3, <2>5, <3>1, <3>2 DEF Restorable, FilesAs
  <2>10. (IF input[u].key # Absent THEN "secret" ELSE "config") \in Running
      BY <1>f
  <2> QED
      BY <2>1, <2>8, <2>9, <2>10, AtomicByStep
<1>3. CASE Refuse(u)
  <2>1. /\ pc[u] = "queued" /\ pc' = [pc EXCEPT ![u] = "failed"]
        /\ UNCHANGED <<config, secret, expected, contested, input, before>>
      BY <1>3 DEF Refuse, End, fileVars, historyVars
  <2>2. \A v \in Update : /\ pc'[v] \in Running <=> pc[v] \in Running
                          /\ pc[v] \in Running => pc'[v] = pc[v]
      BY <1>a, <1>f, <2>1
  <2> QED
      BY <2>1, <2>2, AtomicKept
<1>4. CASE WriteSecret(u)
  <2>1. /\ pc[u] = "secret" /\ secret' = [secret EXCEPT ![Of(u)] = input[u].key]
        /\ pc' = [pc EXCEPT ![u] = "config"]
        /\ UNCHANGED <<config, expected, contested, input, before>>
      BY <1>4 DEF WriteSecret, Goto, historyVars
  <2>2. input[u].key # Absent
      BY <2>1 DEF Served, AsRead
  <2>3. config[Of(u)] = Former(u).rev
      BY <1>e, <1>f, <2>1, StageIs DEF FilesAs, Revs
  <2>4. secret'[Of(u)] = NewKey(u) /\ pc'[u] = "config"
      BY <1>a, <1>b, <1>d, <1>f, <2>1, <2>2 DEF NewKey
  <2>5. AtStage(u)' = {Half(u)} /\ Of(u)' = Of(u) /\ Former(u)' = Former(u)
      BY <2>1, <2>4, SameEntries, StageWillBe
  <2>6. InFiles(Of(u))' = Half(u) /\ Half(u).rev = Former(u).rev
      BY <2>1, <2>3, <2>4, <2>5 DEF InFiles, Half, Former
  <2>7. FilesAs(Of(u), AtStage(u))'
      BY <2>1, <2>3, <2>5, <2>6 DEF FilesAs, Revs
  <2>8. Restorable(u)'
      BY <1>e, <1>f, <2>1, <2>5 DEF Restorable
  <2>9. \A p \in Provider \ {Of(u)} : secret'[p] = secret[p]
      BY <1>a, <2>1
  <2> QED
      BY <1>f, <2>1, <2>7, <2>8, <2>9, AtomicByStep
<1>5. CASE WriteConfig(u)
  <2>1. /\ pc[u] = "config" /\ config' = [before[u].config EXCEPT ![Of(u)] = input[u].rev]
        /\ pc' = [pc EXCEPT ![u] = "reload"]
        /\ UNCHANGED <<secret, expected, contested, input, before>>
      BY <1>5 DEF WriteConfig, Goto, historyVars
  <2>2. config'[Of(u)] = input[u].rev /\ \A p \in Provider \ {Of(u)} : config'[p] = before[u].config[p]
      BY <1>b, <1>c, <1>d, <1>f, <2>1
  <2>3. pc'[u] = "reload"
      BY <1>a, <2>1
  <2>4. AtStage(u)' = {Asked(u)} /\ Of(u)' = Of(u) /\ Former(u)' = Former(u)
      BY <2>1, <2>3, SameEntries, StageWillBe
  <2>5. Of(u) \notin contested => secret[Of(u)] = NewKey(u)
    <3>1. Of(u) \notin contested => InFiles(Of(u)) = Half(u)
        BY <1>e, <1>f, <2>1, StageIs DEF FilesAs
    <3> QED
        BY <3>1 DEF InFiles, Half
  <2>6. FilesAs(Of(u), AtStage(u))'
      BY <2>1, <2>2, <2>4, <2>5 DEF FilesAs, Revs, InFiles, Asked
  <2>7. Restorable(u)'
      BY <1>e, <1>f, <2>1, <2>2, <2>4 DEF Restorable
  <2>8. \A p \in Provider \ {Of(u)} : config'[p] = config[p]
      BY <1>e, <1>f, <2>1, <2>2 DEF Restorable
  <2> QED
      BY <1>f, <2>1, <2>6, <2>7, <2>8, AtomicByStep
<1>6. CASE Reload(u)
  <2>1. /\ pc[u] = "reload" /\ pc' = [pc EXCEPT ![u] = "probe"]
        /\ expected' = [expected EXCEPT ![Of(u)] = Applied(u)]
        /\ UNCHANGED <<config, secret, contested, input, before>>
      BY <1>6 DEF Reload, Goto, fileVars
  <2>2. pc'[u] = "probe" /\ expected'[Of(u)] = Applied(u)
      BY <1>a, <1>b, <1>d, <1>f, <2>1
  <2>3. AtStage(u)' = Applied(u) /\ Of(u)' = Of(u)
      BY <2>1, <2>2, StageWillBe DEF Of
  <2>4. /\ config[Of(u)] = input[u].rev
        /\ Of(u) \notin contested => InFiles(Of(u)) = Asked(u)
    <3>1. FilesAs(Of(u), {Asked(u)})
        BY <1>e, <1>f, <2>1, StageIs
    <3>2. Asked(u).rev = input[u].rev
        BY DEF Asked
    <3> QED
        BY <3>1, <3>2 DEF FilesAs, Revs
  <2>5. \A f \in expected[Of(u)] :
           [rev |-> input[u].rev, key |-> IF input[u].key # Absent THEN input[u].key ELSE f.key] \in Applied(u)
      BY DEF Applied
  <2>6. input[u].rev \in Revs(Applied(u))
    <3>1. PICK f \in expected[Of(u)] : f.rev = Former(u).rev
        BY <1>e, <1>f, <2>1 DEF Restorable, Revs
    <3>2. PICK a \in Applied(u) : a.rev = input[u].rev
        BY <2>5, <3>1
    <3> QED
        BY <3>2 DEF Revs
  <2>7. Of(u) \notin contested => Asked(u) \in Applied(u)
    <3>1. Of(u) \notin contested => Former(u) \in expected[Of(u)]
        BY <1>e, <1>f, <2>1 DEF Restorable
    <3> QED
        BY <2>5, <3>1 DEF Asked, Former, NewKey
  <2>8. FilesAs(Of(u), AtStage(u))'
      BY <2>1, <2>3, <2>4, <2>6, <2>7 DEF FilesAs, InFiles
  <2>9. \A p \in Provider \ {Of(u)} : expected'[p] = expected[p]
      BY <1>a, <2>1
  <2>10. "probe" \notin Open
      BY <1>f
  <2> QED
      BY <1>f, <2>1, <2>8, <2>9, <2>10, AtomicByStep
<1>7. CASE StepFails(u)
  <2>1. /\ pc[u] \in {"secret", "config", "reload"} /\ pc' = [pc EXCEPT ![u] = "undo config"]
        /\ UNCHANGED <<config, secret, expected, contested, input, before>>
      BY <1>7 DEF StepFails, Goto, fileVars, historyVars
  <2>2. pc'[u] = "undo config"
      BY <1>a, <2>1
  <2>3. /\ AtStage(u)' = {Former(u), Half(u), Asked(u)} /\ Of(u)' = Of(u) /\ Former(u)' = Former(u)
      BY <2>1, <2>2, SameEntries, StageWillBe
  <2>4. AtStage(u) \subseteq AtStage(u)'
      BY <1>f, <2>1, <2>3, StageIs, StageWillBe
  <2>5. FilesAs(Of(u), AtStage(u))'
      BY <1>e, <1>f, <2>1, <2>3, <2>4 DEF FilesAs, Revs, InFiles
  <2>6. Restorable(u)'
      BY <1>e, <1>f, <2>1, <2>3 DEF Restorable
  <2> QED
      BY <1>f, <2>1, <2>5, <2>6, AtomicByStep
<1>8. CASE Probed(u)
  <2>1. /\ pc[u] = "probe" /\ pc' = [pc EXCEPT ![u] = "list"]
        /\ UNCHANGED <<config, secret, expected, contested, input, before>>
      BY <1>8 DEF Probed, Goto, fileVars, historyVars
  <2>2. pc'[u] = "list"
      BY <1>a, <2>1
  <2>3. AtStage(u)' = AtStage(u) /\ Of(u)' = Of(u)
      BY <2>1, <2>2, StageIs, StageWillBe DEF Of
  <2>4. FilesAs(Of(u), AtStage(u))'
      BY <1>e, <1>f, <2>1, <2>3 DEF FilesAs, InFiles
  <2>5. "list" \notin Open
      BY <1>f
  <2> QED
      BY <1>f, <2>1, <2>4, <2>5, AtomicByStep
<1>9. CASE Answer(u)
  <2>1. /\ pc[u] = "list" /\ UNCHANGED <<config, secret, expected, contested, input, before>>
      BY <1>9 DEF Answer, End, fileVars, historyVars
  <2>2. PICK how \in {"saved", "failed"} : pc' = [pc EXCEPT ![u] = how]
      BY <1>9 DEF Answer, End
  <2>3. AtStage(u) = expected[Of(u)] /\ Of(u)' = Of(u)
      BY <2>1, StageIs DEF Of
  <2>4. FilesAs(Of(u), expected[Of(u)])'
      BY <1>e, <1>f, <2>1, <2>3 DEF FilesAs, InFiles
  <2>5. how \notin Running /\ how \notin Open
      BY <1>f
  <2> QED
      BY <1>f, <2>1, <2>2, <2>4, <2>5, AtomicByStep
<1>10. CASE UndoConfig(u)
  <2>1. /\ pc[u] = "undo config" /\ config' = before[u].config
        /\ pc' = [pc EXCEPT ![u] = IF input[u].key # Absent THEN "undo secret" ELSE "undo reload"]
        /\ UNCHANGED <<secret, expected, contested, input, before>>
      BY <1>10 DEF UndoConfig, Goto, historyVars
  <2>2. Of(u)' = Of(u) /\ Former(u)' = Former(u) /\ Half(u)' = Half(u)
      BY <2>1, SameEntries
  <2>3. pc'[u] = IF input[u].key # Absent THEN "undo secret" ELSE "undo reload"
      BY <1>a, <2>1
  <2>4. AtStage(u)' = IF input[u].key # Absent THEN {Former(u), Half(u)} ELSE {Former(u)}
      BY <2>2, <2>3, StageWillBe
  <2>5. Former(u).rev = config'[Of(u)] /\ InFiles(Of(u))' = [rev |-> Former(u).rev, key |-> secret[Of(u)]]
      BY <2>1, <2>2 DEF Former, InFiles
  <2>6. Of(u) \notin contested => secret[Of(u)] \in {before[u].key, NewKey(u)}
    <3>1. Of(u) \notin contested => InFiles(Of(u)) \in {Former(u), Half(u), Asked(u)}
        BY <1>e, <1>f, <2>1, StageIs DEF FilesAs
    <3>2. /\ InFiles(Of(u)).key = secret[Of(u)] /\ Former(u).key = before[u].key
          /\ Half(u).key = NewKey(u) /\ Asked(u).key = NewKey(u)
        BY DEF InFiles, Former, Half, Asked
    <3> QED
        BY <3>1, <3>2
  <2>7. Of(u) \notin contested => InFiles(Of(u))' \in {Former(u), Half(u)}
      BY <2>5, <2>6 DEF Former, Half
  <2>8. input[u].key = Absent => Half(u) = Former(u)
      BY DEF Former, Half, NewKey
  <2>9. FilesAs(Of(u), AtStage(u))'
    <3>1. config'[Of(u)] \in Revs(AtStage(u)')
        BY <2>4, <2>5 DEF Revs
    <3>2. Of(u) \notin contested => InFiles(Of(u))' \in AtStage(u)'
        BY <2>4, <2>7, <2>8
    <3> QED
        BY <2>1, <2>2, <3>1, <3>2 DEF FilesAs, Revs
  <2>10. \A p \in Provider \ {Of(u)} : config'[p] = config[p]
      BY <1>e, <1>f, <2>1 DEF Restorable
  <2>11. Restorable(u)'
      BY <1>e, <1>f, <2>1, <2>2 DEF Restorable
  <2>12. (IF input[u].key # Absent THEN "undo secret" ELSE "undo reload") \in Open
      BY <1>f
  <2> QED
      BY <1>f, <2>1, <2>9, <2>10, <2>11, <2>12, AtomicByStep
<1>11. CASE UndoSecret(u)
  <2>1. /\ pc[u] = "undo secret" /\ secret' = [secret EXCEPT ![Of(u)] = before[u].key]
        /\ pc' = [pc EXCEPT ![u] = "undo reload"]
        /\ UNCHANGED <<config, expected, contested, input, before>>
      BY <1>11 DEF UndoSecret, Goto, historyVars
  <2>2. Of(u)' = Of(u) /\ Former(u)' = Former(u)
      BY <2>1, SameEntries
  <2>3. pc'[u] = "undo reload" /\ secret'[Of(u)] = before[u].key
      BY <1>a, <1>b, <1>d, <1>f, <2>1
  <2>4. AtStage(u)' = {Former(u)}
      BY <2>2, <2>3, StageWillBe
  <2>5. config[Of(u)] = Former(u).rev
    <3>1. config[Of(u)] \in Revs({Former(u), Half(u)})
        BY <1>e, <1>f, <2>1, StageIs DEF FilesAs
    <3> QED
        BY <3>1 DEF Revs, Former, Half
  <2>6. InFiles(Of(u))' = Former(u)
      BY <2>1, <2>2, <2>3, <2>5 DEF InFiles, Former
  <2>7. FilesAs(Of(u), AtStage(u))'
      BY <2>1, <2>2, <2>4, <2>5, <2>6 DEF FilesAs, Revs
  <2>8. Restorable(u)'
      BY <1>e, <1>f, <2>1, <2>2 DEF Restorable
  <2>9. \A p \in Provider \ {Of(u)} : secret'[p] = secret[p]
      BY <1>a, <2>1
  <2> QED
      BY <1>f, <2>1, <2>7, <2>8, <2>9, AtomicByStep
<1>12. CASE UndoFails(u)
  <2>1. /\ pc[u] \in {"undo config", "undo secret"} /\ pc' = [pc EXCEPT ![u] = "failed"]
        /\ expected' = [expected EXCEPT ![Of(u)] = @ \cup Halfway(u) \cup Applied(u)]
        /\ UNCHANGED <<config, secret, contested, input, before>>
      BY <1>12 DEF UndoFails, End, fileVars
  <2>2. Of(u)' = Of(u) /\ Of(u) \in Provider
      BY <1>b, <1>d, <1>f, <2>1 DEF Of
  <2>3. expected'[Of(u)] = expected[Of(u)] \cup Halfway(u) \cup Applied(u)
      BY <1>a, <2>1, <2>2
  <2>4. FilesAs(Of(u), expected[Of(u)] \cup Halfway(u) \cup Applied(u))
      BY <1>f, <2>1, LeftOpen
  <2>5. FilesAs(Of(u), expected[Of(u)])'
      BY <2>1, <2>2, <2>3, <2>4 DEF FilesAs, InFiles
  <2>6. \A p \in Provider \ {Of(u)} : expected'[p] = expected[p]
      BY <1>a, <2>1
  <2>7. "failed" \notin Running /\ "failed" \notin Open
      BY <1>f
  <2> QED
      BY <1>f, <2>1, <2>5, <2>6, <2>7, AtomicByStep
<1>13. CASE UndoReload(u)
  <2>1. /\ pc[u] = "undo reload" /\ pc' = [pc EXCEPT ![u] = "undo probe"]
        /\ UNCHANGED <<config, secret, expected, contested, input, before>>
      BY <1>13 DEF UndoReload, Goto, fileVars
  <2>2. pc'[u] = "undo probe" /\ Of(u)' = Of(u) /\ Former(u)' = Former(u)
      BY <1>a, <2>1, SameEntries
  <2>3. AtStage(u) = {Former(u)} /\ AtStage(u)' = {Former(u)}
      BY <2>1, <2>2, StageIs, StageWillBe
  <2>4. FilesAs(Of(u), AtStage(u))'
      BY <1>e, <1>f, <2>1, <2>2, <2>3 DEF FilesAs, InFiles
  <2>5. Restorable(u)'
      BY <1>e, <1>f, <2>1, <2>2 DEF Restorable
  <2> QED
      BY <1>f, <2>1, <2>4, <2>5, AtomicByStep
<1>14. CASE UndoReloadFails(u) \/ UndoProbed(u)
  <2>1. /\ pc[u] \in {"undo reload", "undo probe"} /\ pc' = [pc EXCEPT ![u] = "failed"]
        /\ UNCHANGED <<config, secret, expected, contested, input, before>>
      BY <1>14 DEF UndoReloadFails, UndoProbed, End, fileVars, historyVars
  <2>2. AtStage(u) = {Former(u)}
      BY <2>1, StageIs
  <2>3. FilesAs(Of(u), expected[Of(u)])
    <3>1. config[Of(u)] = Former(u).rev /\ Restorable(u)
        BY <1>e, <1>f, <2>1, <2>2 DEF FilesAs, Revs
    <3>2. Of(u) \notin contested => InFiles(Of(u)) = Former(u)
        BY <1>e, <1>f, <2>1, <2>2 DEF FilesAs
    <3> QED
        BY <3>1, <3>2 DEF FilesAs, Restorable
  <2>4. FilesAs(Of(u), expected[Of(u)])'
      BY <2>1, <2>3 DEF FilesAs, InFiles, Of
  <2>5. "failed" \notin Running /\ "failed" \notin Open
      BY <1>f
  <2> QED
      BY <1>f, <2>1, <2>4, <2>5, AtomicByStep
<1> QED
    BY <1>1, <1>2, <1>3, <1>4, <1>5, <1>6, <1>7, <1>8, <1>9, <1>10, <1>11, <1>12, <1>13, <1>14 DEF Step

LEMMA NextAtomic == Typed /\ Served /\ Atomic /\ [Next]_vars => Atomic'
<1> SUFFICES ASSUME Typed, Served, Atomic, [Next]_vars PROVE Atomic'
    OBVIOUS
<1> USE DEF Typed
<1>1. CASE \E u \in Update : Step(u)
    BY <1>1, StepAtomic
<1>2. CASE \/ (\E h \in Prober : StartProbe(h) \/ EndProbe(h)) \/ CacheExpires
           \/ OperatorRestart \/ Restart \/ UNCHANGED vars
  <2>1. UNCHANGED <<config, secret, expected, contested, pc, input, before>>
      BY <1>2 DEF StartProbe, EndProbe, CacheExpires, OperatorRestart, Restart, Serve, vars,
                  fileVars, updateVars, historyVars
  <2> QED
      BY <2>1, AtomicKept
<1>3. ASSUME NEW p \in Provider, NEW k \in Key, OperatorSetsKey(p, k) PROVE Atomic'
  <2>1. /\ secret' = [secret EXCEPT ![p] = k] /\ UNCHANGED <<config, pc, input, before>>
        /\ secret \in [Provider -> Key \cup {Absent}] /\ expected \in [Provider -> SUBSET Entry]
      BY <1>3 DEF OperatorSetsKey, updateVars, FilesTyped
  <2>2. \A v \in Update : Of(v)' = Of(v) /\ Former(v)' = Former(v)
      BY <2>1, SameEntries
  <2>3. CASE \E u \in Update : pc[u] \in Running /\ Of(u) = p
    <3>1. contested' = contested \cup {p} /\ expected' = expected
        BY <1>3, <2>3 DEF OperatorSetsKey
    <3>2. ASSUME NEW q \in Provider, NEW S, FilesAs(q, S) PROVE config'[q] \in Revs(S)
              /\ (q \notin contested' => q \notin contested /\ secret'[q] = secret[q])
        BY <2>1, <3>1, <3>2 DEF FilesAs
    <3>3. \A v \in Update : AtStage(v)' = AtStage(v)
        BY <2>1, <3>1, SameEntries DEF AtStage
    <3>4. ASSUME NEW q \in Provider, NEW S, FilesAs(q, S), q \notin contested'
          PROVE  [rev |-> config'[q], key |-> secret'[q]] \in S
        BY <2>1, <3>2, <3>4 DEF FilesAs, InFiles
    <3>5. \A v \in Update : pc'[v] \in Running => FilesAs(Of(v), AtStage(v))'
      <4> TAKE v \in Update
      <4>1. pc[v] \in Running => Of(v) \in Provider /\ FilesAs(Of(v), AtStage(v))
          BY UpdateHas DEF Atomic, Waiting
      <4> QED
          BY <2>1, <2>2, <3>2, <3>3, <3>4, <4>1 DEF FilesAs, InFiles, Revs
    <3>6. \A q \in Provider : (\A v \in Update : pc'[v] \in Running => Of(v)' # q)
              => FilesAs(q, expected[q])'
      <4> TAKE q \in Provider
      <4>1. (\A v \in Update : pc'[v] \in Running => Of(v)' # q) => FilesAs(q, expected[q])
          BY <2>1, <2>2 DEF Atomic
      <4> QED
          BY <2>1, <3>1, <3>2, <3>4, <4>1 DEF FilesAs, InFiles, Revs
    <3>7. \A v \in Update : pc'[v] \in Open => Restorable(v)'
        BY <2>1, <2>2, <3>1 DEF Atomic, Restorable
    <3> QED
        BY <3>5, <3>6, <3>7 DEF Atomic
  <2>4. CASE ~\E u \in Update : pc[u] \in Running /\ Of(u) = p
    <3>1. /\ contested' = contested \ {p}
          /\ expected' = [expected EXCEPT ![p] = {[rev |-> e.rev, key |-> k] : e \in @}]
        BY <1>3, <2>4 DEF OperatorSetsKey
    <3>2. /\ expected'[p] = {[rev |-> e.rev, key |-> k] : e \in expected[p]} /\ secret'[p] = k
          /\ \A q \in Provider \ {p} : expected'[q] = expected[q] /\ secret'[q] = secret[q]
        BY <2>1, <3>1
    <3>3. FilesAs(p, expected[p])'
      <4>1. PICK e \in expected[p] : e.rev = config[p]
          BY <2>4 DEF Atomic, FilesAs, Revs
      <4>2. [rev |-> config[p], key |-> k] \in expected'[p]
          BY <3>2, <4>1
      <4>3. InFiles(p)' = [rev |-> config[p], key |-> k]
          BY <2>1, <3>2 DEF InFiles
      <4>4. [rev |-> config[p], key |-> k].rev \in Revs(expected'[p])
          BY <4>2 DEF Revs
      <4> QED
          BY <2>1, <4>2, <4>3, <4>4 DEF FilesAs, Revs
    <3>4. ASSUME NEW q \in Provider \ {p}, NEW S, FilesAs(q, S)
          PROVE  /\ config'[q] \in Revs(S)
                 /\ q \notin contested' => [rev |-> config'[q], key |-> secret'[q]] \in S
        BY <2>1, <3>1, <3>2, <3>4 DEF FilesAs, InFiles
    <3>5. \A v \in Update : pc'[v] \in Running => FilesAs(Of(v), AtStage(v))'
      <4> TAKE v \in Update
      <4>1. pc[v] \in Running =>
                Of(v) \in Provider \ {p} /\ FilesAs(Of(v), AtStage(v)) /\ AtStage(v)' = AtStage(v)
          BY <2>1, <2>4, <3>2, UpdateHas, SameEntries DEF Atomic, Waiting, AtStage
      <4> QED
          BY <2>1, <2>2, <3>4, <4>1 DEF FilesAs, InFiles, Revs
    <3>6. \A q \in Provider : (\A v \in Update : pc'[v] \in Running => Of(v)' # q)
              => FilesAs(q, expected[q])'
      <4> TAKE q \in Provider
      <4>1. (\A v \in Update : pc'[v] \in Running => Of(v)' # q) => FilesAs(q, expected[q])
          BY <2>1, <2>2 DEF Atomic
      <4>2. CASE q # p
          BY <2>1, <3>2, <3>4, <4>1, <4>2 DEF FilesAs, InFiles, Revs
      <4> QED
          BY <3>3, <4>2
    <3>7. \A v \in Update : pc'[v] \in Open => Restorable(v)'
      <4> TAKE v \in Update
      <4>1. pc[v] \in Open => Of(v) \in Provider \ {p} /\ Restorable(v)
          BY <2>4, UpdateHas DEF Atomic, Waiting, Open
      <4> QED
          BY <2>1, <2>2, <3>1, <3>2, <4>1 DEF Restorable
    <3> QED
        BY <3>5, <3>6, <3>7 DEF Atomic
  <2> QED
      BY <2>3, <2>4
<1>4. CASE Crash
  <2> DEFINE Stages == {"config", "reload", "undo config", "undo secret"}
             Left(p) == {v \in Update : pc[v] \in Stages /\ Of(v) = p}
  <2>1. /\ expected' = [p \in Provider |-> expected[p] \cup UNION {LeftByCrash(u) : u \in Left(p)}]
        /\ pc' = [u \in Update |-> IF pc[u] \in {"queued"} \cup Running THEN "lost" ELSE pc[u]]
        /\ UNCHANGED <<config, secret, contested>>
      BY <1>4 DEF Crash, fileVars
  <2>2. \A u \in Update : pc'[u] \notin Running /\ pc'[u] \notin Open
      BY <2>1, StagesDiffer DEF Ended, Open
  <2>3. ASSUME NEW p \in Provider
        PROVE  /\ expected[p] \subseteq expected'[p]
               /\ \A u \in Left(p) : LeftByCrash(u) \subseteq expected'[p]
      BY <2>1
  <2> HIDE DEF Left
  <2>4. ASSUME NEW p \in Provider PROVE \E S \in SUBSET expected'[p] : FilesAs(p, S)
    <3>1. CASE \A u \in Update : pc[u] \in Running => Of(u) # p
        BY <2>3, <3>1 DEF Atomic
    <3>2. ASSUME NEW u \in Update, pc[u] \in Running, Of(u) = p
          PROVE  \E S \in SUBSET expected'[p] : FilesAs(p, S)
      <4>1. FilesAs(p, AtStage(u)) /\ (pc[u] \in Open => Restorable(u))
          BY <3>2 DEF Atomic
      <4>2. CASE pc[u] \in {"probe", "list"}
          BY <2>3, <3>2, <4>1, <4>2, StageIs
      <4>3. CASE pc[u] \in Stages
        <5>1. u \in Left(p) /\ pc[u] \in Open
            BY <3>2, <4>3 DEF Left, Open, Running
        <5>2. FilesAs(p, LeftByCrash(u))
            BY <3>2, <5>1, LeftOpen DEF LeftByCrash
        <5> QED
            BY <2>3, <5>1, <5>2
      <4>4. CASE pc[u] \in {"secret", "undo reload", "undo probe"}
        <5>1. pc[u] \in Open /\ AtStage(u) = {Former(u)}
            BY <4>4, StageIs DEF Open, Running
        <5>2. config[p] = Former(u).rev /\ (p \notin contested => InFiles(p) = Former(u))
            BY <4>1, <5>1 DEF FilesAs, Revs
        <5>3. FilesAs(p, expected[p])
            BY <3>2, <4>1, <5>1, <5>2 DEF FilesAs, Restorable
        <5> QED
            BY <2>3, <5>3
      <4> QED
          BY <3>2, <4>2, <4>3, <4>4 DEF Running
    <3> QED
        BY <3>1, <3>2
  <2>5. ASSUME NEW p \in Provider PROVE FilesAs(p, expected[p])'
    <3>1. PICK S \in SUBSET expected'[p] : FilesAs(p, S)
        BY <2>4
    <3>2. Revs(S) \subseteq Revs(expected'[p])
        BY DEF Revs
    <3>3. config'[p] \in Revs(expected'[p])
        BY <2>1, <3>1, <3>2 DEF FilesAs
    <3>4. p \notin contested' => [rev |-> config'[p], key |-> secret'[p]] \in expected'[p]
        BY <2>1, <3>1 DEF FilesAs, InFiles
    <3> QED
        BY <3>3, <3>4 DEF FilesAs, InFiles, Revs
  <2> QED
      BY <2>2, <2>5 DEF Atomic
<1> QED
    BY <1>1, <1>2, <1>3, <1>4 DEF Next

-----------------------------------------------------------------------------
(* What the history of the files leaves open *)

\* The files of a provider may say one thing only.
Exact(p) == \E e : expected[p] = {e}

\* The steps that leave half an update behind: a crash between its first write and the end of
\* its reload or of its restores, and a restore that throws.
Interrupts(p) ==
    \E u \in Update :
        /\ Of(u) = p
        /\ \/ UndoFails(u)
           \/ Crash /\ pc[u] \in {"config", "reload", "undo config", "undo secret"}

OnlyInterruptionsBlur == \A p \in Provider : Exact(p) => Exact(p)' \/ Interrupts(p)

LEMMA ExactKept ==
    ASSUME NEW p \in Provider, Exact(p), expected'[p] = expected[p]
    PROVE  Exact(p)'
BY DEF Exact

\* The reload of an update replaces what is expected by what it asked for.
LEMMA ReloadExact ==
    ASSUME Typed, NEW u \in Update, Reload(u), NEW p \in Provider, Exact(p)
    PROVE  Exact(p)'
<1>1. expected' = [expected EXCEPT ![Of(u)] = Applied(u)] /\ expected \in [Provider -> SUBSET Entry]
    BY DEF Reload, Typed, FilesTyped
<1>2. CASE Of(u) = p
  <2>1. PICK e : expected[p] = {e}
      BY DEF Exact
  <2>2. expected'[p] = Applied(u)
      BY <1>1, <1>2
  <2>3. Applied(u) = {[rev |-> input[u].rev,
                       key |-> IF input[u].key # Absent THEN input[u].key ELSE e.key]}
      BY <1>2, <2>1 DEF Applied
  <2> QED
      BY <2>2, <2>3 DEF Exact
<1>3. CASE Of(u) # p
    BY <1>1, <1>3, ExactKept
<1> QED
    BY <1>2, <1>3

\* So does the operator's key.
LEMMA OperatorExact ==
    ASSUME Typed, NEW q \in Provider, NEW k \in Key, OperatorSetsKey(q, k), NEW p \in Provider, Exact(p)
    PROVE  Exact(p)'
<1>1. expected \in [Provider -> SUBSET Entry]
    BY DEF Typed, FilesTyped
<1>2. \/ expected' = expected
      \/ expected' = [expected EXCEPT ![q] = {[rev |-> e.rev, key |-> k] : e \in expected[q]}]
    BY DEF OperatorSetsKey
<1>3. CASE expected' = expected
    BY <1>3, ExactKept
<1>4. CASE q = p /\ expected' = [expected EXCEPT ![q] = {[rev |-> e.rev, key |-> k] : e \in expected[q]}]
  <2>1. PICK e : expected[p] = {e}
      BY DEF Exact
  <2>2. expected'[p] = {[rev |-> e.rev, key |-> k]}
      BY <1>1, <1>4, <2>1
  <2> QED
      BY <2>2 DEF Exact
<1>5. CASE q # p /\ expected' = [expected EXCEPT ![q] = {[rev |-> e.rev, key |-> k] : e \in expected[q]}]
    BY <1>1, <1>5, ExactKept
<1> QED
    BY <1>2, <1>3, <1>4, <1>5

LEMMA CrashExact ==
    ASSUME Typed, Crash, NEW p \in Provider, Exact(p), ~Interrupts(p)
    PROVE  Exact(p)'
<1> DEFINE cut == {v \in Update : /\ pc[v] \in {"config", "reload", "undo config", "undo secret"}
                                  /\ Of(v) = p}
<1>1. cut = {}
    BY DEF Interrupts
<1>2. expected'[p] = expected[p] \cup UNION {LeftByCrash(u) : u \in cut}
    BY DEF Crash
<1> HIDE DEF cut
<1>3. expected'[p] = expected[p]
    BY <1>1, <1>2
<1> QED
    BY <1>3, ExactKept

LEMMA NextExact ==
    ASSUME Typed, [Next]_vars, NEW p \in Provider, Exact(p), ~Interrupts(p)
    PROVE  Exact(p)'
<1>1. ASSUME NEW u \in Update, Step(u) PROVE Exact(p)'
  <2>1. CASE Reload(u)
      BY <2>1, ReloadExact
  <2>2. CASE UndoFails(u)
    <3>1. Of(u) # p
        BY <2>2 DEF Interrupts
    <3>2. expected'[p] = expected[p]
        BY <2>2, <3>1 DEF UndoFails, Typed, FilesTyped
    <3> QED
        BY <3>2, ExactKept
  <2>3. CASE ~Reload(u) /\ ~UndoFails(u)
    <3>1. expected' = expected
        BY <1>1, <2>3 DEF Step, Submit, Begin, Refuse, WriteSecret, WriteConfig, StepFails, Probed,
            Answer, UndoConfig, UndoSecret, UndoReload, UndoReloadFails, UndoProbed, historyVars
    <3> QED
        BY <3>1, ExactKept
  <2> QED
      BY <2>1, <2>2, <2>3
<1>2. ASSUME \/ \E h \in Prober : StartProbe(h) \/ EndProbe(h)
             \/ CacheExpires
             \/ OperatorRestart
             \/ Restart
             \/ UNCHANGED vars
      PROVE  Exact(p)'
  <2>1. expected' = expected
      BY <1>2 DEF StartProbe, EndProbe, CacheExpires, OperatorRestart, Restart, Serve, historyVars, vars
  <2> QED
      BY <2>1, ExactKept
<1> QED
    BY <1>1, <1>2, OperatorExact, CrashExact DEF Next

\* The files of a provider say one of the things expected of them whenever none of its updates
\* runs, and one thing only is expected, what the last applied update asked for with the last
\* key, until a crash or a failing restore interrupts an update of that provider: all or nothing
\* otherwise, in any number of queued updates that fail at any step. After an interruption the
\* key of the update may stand with the older declaration (Halfway), which the code does not
\* prevent. What an update reads is still true when it writes, because it alone writes the
\* configuration; a key that the operator sets meanwhile is the case left open
\* (provider-management-service.ts 93-129).
THEOREM UpdatesAreAtomic ==
    Spec => /\ \A p \in Provider : Exact(p)
            /\ []UpdatesAtomic
            /\ [][OnlyInterruptionsBlur]_vars
<1>1. Init => Atomic
  <2> SUFFICES ASSUME Init PROVE Atomic
      OBVIOUS
  <2>1. \A u \in Update : pc[u] = "idle"
      BY DEF Init
  <2>2. ASSUME NEW p \in Provider PROVE FilesAs(p, expected[p])
    <3>1. /\ config[p] = Absent /\ secret[p] = Absent
          /\ expected[p] = {[rev |-> Absent, key |-> Absent]}
        BY DEF Init, Nowhere
    <3> QED
        BY <3>1 DEF FilesAs, InFiles, Revs
  <2> QED
      BY <2>1, <2>2, StagesDiffer DEF Atomic, Open
<1>3. Spec => []Typed
    BY InitTyped, NextTyped, PTL DEF Spec
<1>4. Spec => []Served
    BY <1>3, InitServed, NextServed, PTL DEF Spec
<1>5. Spec => []Atomic
    BY <1>1, <1>3, <1>4, NextAtomic, PTL DEF Spec
<1>6. Atomic => UpdatesAtomic
    BY DEF Atomic, UpdatesAtomic, FilesAs, InFiles
<1>7. Init => \A p \in Provider : Exact(p)
    BY DEF Init, Exact
<1>8. Typed /\ [Next]_vars => [OnlyInterruptionsBlur]_vars
    BY NextExact DEF OnlyInterruptionsBlur
<1> QED
    BY <1>3, <1>5, <1>6, <1>7, <1>8, PTL DEF Spec
=============================================================================
