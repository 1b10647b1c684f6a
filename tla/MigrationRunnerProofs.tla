------------------------- MODULE MigrationRunnerProofs -------------------------
(***************************************************************************)
(* Proofs about the migration runner, for any number of processes,         *)
(* packaged versions and editions.                                         *)
(***************************************************************************)
EXTENDS MigrationRunner, TLAPS

(* An operation that leaves keeps the state well typed.                    *)
LEMMA LeavesType ==
  ASSUME TypeOK, NEW p \in Processes, Leaves(p)
  PROVE  TypeOK'
<1>1. /\ step' \in [Processes -> Steps] /\ at' \in [Processes -> 0 .. Latest + 1]
      /\ known' \in [Processes -> Versions] /\ target' \in [Processes -> 0 .. Latest]
  BY RunnerConstants DEF Leaves, GoTo, TypeOK, Steps, Versions
<1>2. \A q \in Processes : step'[q] # "idle" =>
        q # p /\ at'[q] = at[q] /\ step'[q] = step[q]
  BY DEF Leaves, GoTo, TypeOK
<1>3. \A q \in Processes : step'[q] \in {"script", "record", "commit"} => lock' = q
  BY <1>2 DEF Leaves, TypeOK
<1>4. \A q \in Processes : target'[q] <= known'[q]
  BY DEF Leaves, TypeOK, Versions
<1> QED BY <1>1, <1>2, <1>3, <1>4 DEF Leaves, TypeOK

(* The type invariant is preserved by every step.                          *)
LEMMA TypeStep == TypeOK /\ [Next]_vars => TypeOK'
<1> SUFFICES ASSUME TypeOK, [Next]_vars PROVE TypeOK'
  OBVIOUS
<1> USE RunnerConstants DEF Versions
<1>1. ASSUME NEW p \in Processes, NEW o \in {"apply", "rollback"}, NEW e \in Editions,
             NEW n \in Versions, NEW t \in 0 .. Latest, Call(p, o, e, n, t)
      PROVE  TypeOK'
  BY <1>1 DEF Call, GoTo, TypeOK, Steps, store
<1>2. ASSUME NEW p \in Processes, EnsureTable(p) PROVE TypeOK'
  BY <1>2 DEF EnsureTable, GoTo, TypeOK, Steps, store, request
<1>3. ASSUME NEW p \in Processes, ReadApplied(p) PROVE TypeOK'
  <2>1. CASE Leaves(p)
    BY <2>1, LeavesType
  <2>2. CASE ~Leaves(p)
    <3>1. PICK k \in 0 .. Latest :
            /\ at' = [at EXCEPT ![p] = IF op[p] = "apply" THEN k + 1 ELSE k]
            /\ GoTo(p, "loop") /\ UNCHANGED <<store, request, history>>
      BY <1>3, <2>2 DEF ReadApplied
    <3>2. at' \in [Processes -> 0 .. Latest + 1]
      BY <3>1 DEF TypeOK
    <3> QED BY <3>1, <3>2 DEF GoTo, TypeOK, Steps, store, request
  <2> QED BY <2>1, <2>2
<1>4. ASSUME NEW p \in Processes, BeginImmediate(p) PROVE TypeOK'
  <2>1. at[p] \in Versions
    BY <1>4 DEF BeginImmediate, Pending, TypeOK
  <2>2. \A q \in Processes : step'[q] \in {"script", "record", "commit"} => q = p
    BY <1>4 DEF BeginImmediate, GoTo, TypeOK
  <2> QED BY <1>4, <2>1, <2>2 DEF BeginImmediate, GoTo, TypeOK, Steps, request
<1>5. ASSUME NEW p \in Processes, Busy(p) \/ Return(p) \/ Crash(p) PROVE TypeOK'
  BY <1>5, LeavesType DEF Busy, Return, Crash
<1>6. ASSUME NEW p \in Processes, ExecuteScript(p) PROVE TypeOK'
  <2>1. ASSUME step[p] = "script", GoTo(p, "record"),
               draftSchema' = draftSchema \cup {at[p]} \/ draftSchema' = draftSchema \ {at[p]},
               UNCHANGED <<recorded, schema, lock, draftRecorded, request, at, history>>
        PROVE  TypeOK'
    BY <2>1 DEF GoTo, TypeOK, Steps, request
  <2> QED BY <1>6, <2>1, LeavesType DEF ExecuteScript
<1>7. ASSUME NEW p \in Processes, RecordVersion(p) PROVE TypeOK'
  <2>1. ASSUME step[p] = "record", GoTo(p, "commit"),
               draftRecorded' = [draftRecorded EXCEPT ![at[p]] =
                                   IF op[p] = "apply" THEN edition[p] ELSE Unapplied],
               UNCHANGED <<recorded, schema, lock, draftSchema, request, at, history>>
        PROVE  TypeOK'
    BY <2>1 DEF GoTo, TypeOK, Steps, request
  <2> QED BY <1>7, <2>1, LeavesType DEF RecordVersion
<1>8. ASSUME NEW p \in Processes, Commit(p) PROVE TypeOK'
  <2>1. \A q \in Processes : step'[q] \notin {"script", "record", "commit"}
    BY <1>8 DEF Commit, GoTo, TypeOK
  <2>2. at' \in [Processes -> 0 .. Latest + 1]
    BY <1>8 DEF Commit, TypeOK
  <2> QED BY <1>8, <2>1, <2>2 DEF Commit, GoTo, TypeOK, Steps, request
<1>9. CASE UNCHANGED vars
  BY <1>9 DEF vars, TypeOK
<1> QED BY <1>1, <1>2, <1>3, <1>4, <1>5, <1>6, <1>7, <1>8, <1>9 DEF Next, Run

(* The initial state is well typed.                                        *)
LEMMA InitType == Init => TypeOK
  BY RunnerConstants DEF Init, TypeOK, Steps, Versions

(* The state is well typed, and only the holder of the write lock is in a  *)
(* transaction.                                                            *)
THEOREM TypeCorrect == Spec => []TypeOK
  BY InitType, TypeStep, PTL DEF Spec

-----------------------------------------------------------------------------
(* What the open transaction has changed so far, relative to what is       *)
(* committed.                                                              *)
DraftOf(p) ==
  /\ step[p] \in {"script", "record"} => draftRecorded = recorded
  /\ step[p] = "script" => draftSchema = schema
  /\ step[p] \in {"record", "commit"} =>
       draftSchema = IF op[p] = "apply" THEN schema \cup {at[p]} ELSE schema \ {at[p]}
  /\ step[p] = "commit" =>
       draftRecorded = [recorded EXCEPT ![at[p]] =
                          IF op[p] = "apply" THEN edition[p] ELSE Unapplied]

DraftInv == SchemaMatchesRecord /\ \A p \in Processes : DraftOf(p)

(* The steps that are not in a transaction, or leave it, change nothing    *)
(* that another process' draft is compared with.                           *)
LEMMA DraftStep == TypeOK /\ DraftInv /\ [Next]_vars => DraftInv'
<1> SUFFICES ASSUME TypeOK, DraftInv, [Next]_vars PROVE DraftInv'
  OBVIOUS
<1> USE RunnerConstants DEF Versions
<1>1. ASSUME NEW p \in Processes, NEW s, GoTo(p, s),
             s \notin {"script", "record", "commit"},
             UNCHANGED <<recorded, schema, draftRecorded, draftSchema>>,
             \A q \in Processes \ {p} :
               op'[q] = op[q] /\ edition'[q] = edition[q] /\ at'[q] = at[q]
      PROVE  DraftInv'
  <2>1. ASSUME NEW q \in Processes PROVE DraftOf(q)'
    BY <1>1 DEF DraftInv, DraftOf, GoTo, TypeOK
  <2> QED BY <1>1, <2>1 DEF DraftInv, SchemaMatchesRecord
<1>2. ASSUME NEW p \in Processes, Leaves(p) PROVE DraftInv'
  BY <1>1, <1>2 DEF Leaves, TypeOK
<1>3. ASSUME NEW p \in Processes, NEW o, NEW e, NEW n, NEW t, Call(p, o, e, n, t)
      PROVE  DraftInv'
  BY <1>1, <1>3 DEF Call, store, TypeOK
<1>4. ASSUME NEW p \in Processes, EnsureTable(p) PROVE DraftInv'
  BY <1>1, <1>4 DEF EnsureTable, store, request
<1>5. ASSUME NEW p \in Processes, ReadApplied(p) PROVE DraftInv'
  BY <1>1, <1>2, <1>5 DEF ReadApplied, store, request, TypeOK
<1>6. ASSUME NEW p \in Processes, BeginImmediate(p) PROVE DraftInv'
  <2>1. ASSUME NEW q \in Processes PROVE DraftOf(q)'
    BY <1>6 DEF BeginImmediate, DraftOf, GoTo, TypeOK
  <2> QED BY <1>6, <2>1 DEF BeginImmediate, DraftInv, SchemaMatchesRecord
<1>7. ASSUME NEW p \in Processes, Busy(p) \/ Return(p) \/ Crash(p) PROVE DraftInv'
  BY <1>2, <1>7 DEF Busy, Return, Crash
<1>8. ASSUME NEW p \in Processes, ExecuteScript(p), ~Leaves(p) PROVE DraftInv'
  <2>1. /\ step[p] = "script" /\ GoTo(p, "record")
        /\ draftSchema' = IF op[p] = "apply" THEN draftSchema \cup {at[p]}
                                             ELSE draftSchema \ {at[p]}
        /\ UNCHANGED <<recorded, schema, lock, draftRecorded, op, edition, at>>
    BY <1>8 DEF ExecuteScript, TypeOK, request
  <2>2. ASSUME NEW q \in Processes PROVE DraftOf(q)'
    BY <2>1 DEF DraftInv, DraftOf, GoTo, TypeOK
  <2> QED BY <2>1, <2>2 DEF DraftInv, SchemaMatchesRecord
<1>9. ASSUME NEW p \in Processes, RecordVersion(p), ~Leaves(p) PROVE DraftInv'
  <2>1. /\ step[p] = "record" /\ GoTo(p, "commit")
        /\ draftRecorded' = [draftRecorded EXCEPT ![at[p]] =
                               IF op[p] = "apply" THEN edition[p] ELSE Unapplied]
        /\ UNCHANGED <<recorded, schema, lock, draftSchema, op, edition, at>>
    BY <1>9 DEF RecordVersion, request
  <2>2. ASSUME NEW q \in Processes PROVE DraftOf(q)'
    BY <2>1 DEF DraftInv, DraftOf, GoTo, TypeOK
  <2> QED BY <2>1, <2>2 DEF DraftInv, SchemaMatchesRecord
<1>10. ASSUME NEW p \in Processes, Commit(p) PROVE DraftInv'
  <2>1. \A q \in Processes : step'[q] \notin {"script", "record", "commit"}
    BY <1>10 DEF Commit, GoTo, TypeOK
  <2>2. at[p] \in Versions /\ DraftOf(p) /\ edition[p] # Unapplied
    BY <1>10 DEF Commit, TypeOK, DraftInv
  <2>3. SchemaMatchesRecord'
    BY <1>10, <2>2 DEF Commit, DraftInv, DraftOf, SchemaMatchesRecord, TypeOK
  <2> QED BY <2>1, <2>3 DEF DraftInv, DraftOf
<1>11. CASE UNCHANGED vars
  BY <1>11 DEF vars, DraftInv, DraftOf, SchemaMatchesRecord
<1> QED
  BY <1>2, <1>3, <1>4, <1>5, <1>6, <1>7, <1>8, <1>9, <1>10, <1>11 DEF Next, Run

(* The record of a migration and its objects come and go together, for any *)
(* processes that apply, roll back and are killed.                         *)
THEOREM RecordsAreAtomic == Spec => []SchemaMatchesRecord
<1>1. Init => DraftInv
  BY DEF Init, DraftInv, DraftOf, SchemaMatchesRecord
<1>2. DraftInv => SchemaMatchesRecord
  BY DEF DraftInv
<1> QED BY <1>1, <1>2, InitType, TypeStep, DraftStep, PTL DEF Spec

-----------------------------------------------------------------------------
(* What a process has found out and relies on: an apply, that everything   *)
(* below its migration is applied from its own edition; a rollback, that   *)
(* nothing above its migration is applied.                                 *)
Knows(p) ==
  /\ op[p] = "apply" /\ step[p] \in {"loop", "script", "record", "commit"} =>
       at[p] >= 1 /\ \A v \in Versions : v < at[p] => recorded[v] = edition[p]
  /\ op[p] = "apply" /\ step[p] = "commit" => recorded[at[p]] = Unapplied
  /\ op[p] = "rollback" /\ step[p] \in {"loop", "script", "record", "commit"} =>
       \A v \in Versions : v > at[p] => recorded[v] = Unapplied

OneKind ==
  \A p, q \in Processes : step[p] # "idle" /\ step[q] # "idle" => op[p] = op[q]

OrderInv ==
  /\ PrefixApplied /\ OneEdition
  /\ history = "apart" => OneKind /\ \A p \in Processes : Knows(p)

(* A step that leaves the records alone, and gives no process a place it   *)
(* knows nothing about, preserves OrderInv.                                *)
LEMMA OrderUndisturbed ==
  ASSUME TypeOK, OrderInv, history = "apart", UNCHANGED recorded, OneKind',
         \A p \in Processes : Knows(p)'
  PROVE  OrderInv'
  BY DEF OrderInv, PrefixApplied, OneEdition, Prefix

(* OrderInv is preserved by every step.  While applies run by themselves a *)
(* commit appends the next version, and while rollbacks do it takes the    *)
(* last one away or nothing.                                               *)
LEMMA OrderStep == TypeOK /\ DraftInv /\ OrderInv /\ [Next]_vars => OrderInv'
<1> SUFFICES ASSUME TypeOK, DraftInv, OrderInv, [Next]_vars PROVE OrderInv'
  OBVIOUS
<1> USE RunnerConstants DEF Versions
<1>a. CASE history' # "apart"
  BY <1>a DEF OrderInv, PrefixApplied, OneEdition
<1>b. CASE history' = "apart" /\ vars' # vars
  <2>0. history = "apart"
    BY <1>b DEF Next, Run, Call, EnsureTable, ReadApplied, BeginImmediate, Busy, Return,
                ExecuteScript, RecordVersion, Commit, Crash, Leaves, TypeOK
  <2>k. OneKind /\ \A q \in Processes : Knows(q)
    BY <2>0 DEF OrderInv
  <2>1. ASSUME NEW p \in Processes, Leaves(p) PROVE OrderInv'
    <3>1. ASSUME NEW q \in Processes PROVE Knows(q)'
      BY <2>1, <2>k DEF Leaves, GoTo, Knows, TypeOK
    <3>2. OneKind'
      BY <2>1, <2>k DEF Leaves, GoTo, OneKind, TypeOK
    <3> QED BY <2>0, <2>1, <3>1, <3>2, OrderUndisturbed DEF Leaves
  <2>2. ASSUME NEW p \in Processes, NEW o \in {"apply", "rollback"}, NEW e \in Editions,
               NEW n \in Versions, NEW t \in 0 .. Latest, Call(p, o, e, n, t)
        PROVE  OrderInv'
    <3>1. ASSUME NEW q \in Processes PROVE Knows(q)'
      BY <2>2, <2>k DEF Call, GoTo, Knows, TypeOK, store
    <3>2. \A q \in Processes : step[q] # "idle" => op[q] = o
      BY <1>b, <2>2 DEF Call
    <3>3. OneKind'
      BY <2>2, <3>2 DEF Call, GoTo, OneKind, TypeOK
    <3> QED BY <2>0, <2>2, <3>1, <3>3, OrderUndisturbed DEF Call, store
  <2>3. ASSUME NEW p \in Processes, NEW s, GoTo(p, s), step[p] # "idle",
               UNCHANGED <<recorded, op, edition>>,
               at' \in [Processes -> 0 .. Latest + 1],
               \A q \in Processes \ {p} : at'[q] = at[q], Knows(p)'
        PROVE  OrderInv'
    <3>1. ASSUME NEW q \in Processes PROVE Knows(q)'
      BY <2>3, <2>k DEF GoTo, Knows, TypeOK
    <3>2. OneKind'
      BY <2>3, <2>k DEF GoTo, OneKind, TypeOK
    <3> QED BY <2>0, <2>3, <3>1, <3>2, OrderUndisturbed
  <2>4. ASSUME NEW p \in Processes, EnsureTable(p) PROVE OrderInv'
    BY <2>3, <2>4 DEF EnsureTable, GoTo, Knows, TypeOK, store, request
  <2>5. ASSUME NEW p \in Processes, ReadApplied(p), ~Leaves(p) PROVE OrderInv'
    <3>1. PICK k \in 0 .. Latest :
            /\ Valid(p, k)
            /\ at' = [at EXCEPT ![p] = IF op[p] = "apply" THEN k + 1 ELSE k]
            /\ GoTo(p, "loop")
            /\ UNCHANGED <<store, request>>
      BY <2>5 DEF ReadApplied
    <3>2. /\ \A v \in Versions : v <= k => recorded[v] = edition[p]
          /\ \A v \in Versions : v > k => recorded[v] = Unapplied
      BY <3>1 DEF Valid, Prefix
    <3>3. at' \in [Processes -> 0 .. Latest + 1]
          /\ at'[p] = IF op[p] = "apply" THEN k + 1 ELSE k
      BY <3>1 DEF TypeOK
    <3>4. Knows(p)'
      BY <3>1, <3>2, <3>3 DEF GoTo, Knows, TypeOK, store, request
    <3> QED BY <2>3, <2>5, <3>1, <3>3, <3>4 DEF ReadApplied, store, request
  <2>6. ASSUME NEW p \in Processes, BeginImmediate(p) PROVE OrderInv'
    <3>1. Knows(p)'
      BY <2>6, <2>k DEF BeginImmediate, GoTo, Knows, TypeOK, request
    <3> QED BY <2>3, <2>6, <3>1 DEF BeginImmediate, TypeOK, request
  <2>7. ASSUME NEW p \in Processes, Busy(p) \/ Return(p) \/ Crash(p) PROVE OrderInv'
    BY <2>1, <2>7 DEF Busy, Return, Crash
  <2>8. ASSUME NEW p \in Processes, ExecuteScript(p), ~Leaves(p) PROVE OrderInv'
    <3>1. step[p] = "script" /\ GoTo(p, "record") /\ UNCHANGED <<recorded, op, edition, at>>
      BY <2>8 DEF ExecuteScript, request
    <3>2. Knows(p)'
      BY <3>1, <2>k DEF GoTo, Knows, TypeOK
    <3> QED BY <2>3, <3>1, <3>2 DEF TypeOK
  <2>9. ASSUME NEW p \in Processes, RecordVersion(p), ~Leaves(p) PROVE OrderInv'
    <3>1. /\ step[p] = "record" /\ GoTo(p, "commit")
          /\ UNCHANGED <<recorded, op, edition, at>>
          /\ op[p] = "apply" => draftRecorded[at[p]] = Unapplied
      BY <2>9 DEF RecordVersion, request
    <3>2. draftRecorded = recorded
      BY <3>1 DEF DraftInv, DraftOf
    <3>3. Knows(p)'
      BY <3>1, <3>2, <2>k DEF GoTo, Knows, TypeOK
    <3> QED BY <2>3, <3>1, <3>3 DEF TypeOK
  <2>10. ASSUME NEW p \in Processes, Commit(p) PROVE OrderInv'
    <3> DEFINE n == at[p]
    <3>1. /\ n \in Versions /\ edition[p] \in Editions /\ step[p] = "commit"
          /\ op[p] \in {"apply", "rollback"}
      BY <2>10 DEF Commit, TypeOK
    <3>2. recorded' = [recorded EXCEPT ![n] =
                         IF op[p] = "apply" THEN edition[p] ELSE Unapplied]
      BY <2>10 DEF Commit, DraftInv, DraftOf
    <3>3. \A v \in Versions :
            recorded'[v] = IF v # n THEN recorded[v]
                           ELSE IF op[p] = "apply" THEN edition[p] ELSE Unapplied
      BY <3>1, <3>2 DEF TypeOK
    <3>4. at' \in [Processes -> 0 .. Latest + 1]
          /\ at'[p] = IF op[p] = "apply" THEN n + 1 ELSE n - 1
      BY <2>10, <3>1 DEF Commit, TypeOK
    <3>5. PICK k \in 0 .. Latest : Prefix(recorded, k)
      BY <2>0 DEF OrderInv, PrefixApplied
    <3>6. ASSUME op[p] = "apply" PROVE (PrefixApplied /\ OneEdition)'
      <4>1. /\ recorded[n] = Unapplied
            /\ \A v \in Versions : v < n => recorded[v] = edition[p]
        BY <2>k, <3>1, <3>6 DEF Knows
      <4>2. \A v \in Versions : v < n => recorded[v] # Unapplied
        BY <3>1, <4>1
      <4>3. \A v \in Versions : v > n => recorded[v] = Unapplied
        BY <3>1, <3>5, <4>1 DEF Prefix
      <4>4. Prefix(recorded', n)
        BY <3>1, <3>3, <3>6, <4>2, <4>3 DEF Prefix
      <4>5. \A v \in Versions : recorded'[v] # Unapplied => recorded'[v] = edition[p]
        BY <3>1, <3>3, <3>6, <4>1, <4>3
      <4>6. \E j \in 0 .. Latest : Prefix(recorded', j)
        BY <3>1, <4>4
      <4> QED BY <4>5, <4>6 DEF PrefixApplied, OneEdition, Prefix
    <3>7. ASSUME op[p] = "rollback" PROVE (PrefixApplied /\ OneEdition)'
      <4>1. \A v \in Versions : v > n => recorded[v] = Unapplied
        BY <2>k, <3>1, <3>7 DEF Knows
      <4>2. \E j \in 0 .. Latest : Prefix(recorded', j)
        <5>1. CASE k < n
          BY <3>1, <3>3, <3>5, <3>7, <5>1 DEF Prefix
        <5>2. CASE k >= n
          <6>1. Prefix(recorded', n - 1)
            BY <3>1, <3>3, <3>5, <3>7, <4>1, <5>2 DEF Prefix
          <6> QED BY <3>1, <6>1
        <5> QED BY <5>1, <5>2, <3>1
      <4>3. \A v, w \in Versions :
              recorded'[v] # Unapplied /\ recorded'[w] # Unapplied => recorded'[v] = recorded'[w]
        BY <2>0, <3>3, <3>7 DEF OrderInv, OneEdition
      <4> QED BY <4>2, <4>3 DEF PrefixApplied, OneEdition, Prefix
    <3>8. OneKind'
      BY <2>10, <2>k DEF Commit, GoTo, OneKind, TypeOK, request
    <3>9. ASSUME NEW q \in Processes PROVE Knows(q)'
      <4>1. CASE q = p
        BY <2>10, <2>k, <3>1, <3>3, <3>4, <4>1 DEF Commit, GoTo, Knows, TypeOK, request
      <4>2. CASE q # p
        <5>1. /\ step'[q] = step[q] /\ at'[q] = at[q]
              /\ edition'[q] = edition[q] /\ op'[q] = op[q]
          BY <2>10, <4>2 DEF Commit, GoTo, TypeOK, request
        <5>2. step[q] \notin {"script", "record", "commit"} /\ Knows(q)
          BY <2>10, <2>k, <4>2 DEF Commit, TypeOK
        <5>3. step[q] = "loop" => op[q] = op[p]
          BY <2>k, <3>1 DEF OneKind
        <5>4. ASSUME op[p] = "apply", NEW v \in Versions, recorded[v] = edition[q]
              PROVE  recorded'[v] = edition[q]
          <6>1. recorded[n] = Unapplied
            BY <2>k, <3>1, <5>4 DEF Knows
          <6>2. edition[q] # Unapplied
            BY DEF TypeOK
          <6> QED BY <3>3, <5>4, <6>1, <6>2
        <5>5. op[p] = "rollback" =>
                \A v \in Versions : recorded[v] = Unapplied => recorded'[v] = Unapplied
          BY <3>3
        <5> QED BY <5>1, <5>2, <5>3, <5>4, <5>5 DEF Knows
      <4> QED BY <4>1, <4>2
    <3> QED BY <3>1, <3>6, <3>7, <3>8, <3>9 DEF OrderInv
  <2> QED
    BY <1>b, <2>1, <2>2, <2>4, <2>5, <2>6, <2>7, <2>8, <2>9, <2>10 DEF Next, Run
<1>c. CASE UNCHANGED vars
  BY <1>c DEF vars, OrderInv, OneKind, Knows, PrefixApplied, OneEdition, Prefix
<1> QED BY <1>a, <1>b, <1>c

(* OrderInv holds throughout.                                              *)
LEMMA OrderCorrect == Spec => [](TypeOK /\ OrderInv)
<1>1. Init => DraftInv /\ OrderInv
  <2>1. Init => Prefix(recorded, 0)
    BY DEF Init, Prefix, Versions
  <2>2. Init => DraftInv
    BY DEF Init, DraftInv, DraftOf, SchemaMatchesRecord
  <2> QED BY <2>1, <2>2, RunnerConstants
            DEF Init, OrderInv, OneKind, Knows, PrefixApplied, OneEdition
<1>2. TypeOK /\ DraftInv /\ OrderInv /\ [Next]_vars => (TypeOK /\ DraftInv /\ OrderInv)'
  BY TypeStep, DraftStep, OrderStep
<1> QED BY <1>1, <1>2, InitType, PTL DEF Spec

(* As long as no apply and rollback overlap, the applied migrations are a  *)
(* contiguous prefix: any number of either may run concurrently and be     *)
(* killed.                                                                 *)
THEOREM PrefixKept == Spec => []PrefixApplied
<1>1. OrderInv => PrefixApplied
  BY DEF OrderInv
<1> QED BY <1>1, OrderCorrect, PTL

(* And they come from one edition: concurrent applies of different         *)
(* packages never mix their migrations.                                    *)
THEOREM EditionKept == Spec => []OneEdition
<1>1. OrderInv => OneEdition
  BY DEF OrderInv
<1> QED BY <1>1, OrderCorrect, PTL

(* And an operation that returns has reached its target.                   *)
THEOREM TargetReached == Spec => ReturnsAtTarget
<1>1. TypeOK /\ OrderInv /\ [Next]_vars =>
        [\A p \in Processes : Return(p) /\ history = "apart" => AtTarget(p)]_vars
  <2> SUFFICES ASSUME TypeOK, OrderInv, NEW p \in Processes, Return(p), history = "apart"
               PROVE  AtTarget(p)
    OBVIOUS
  <2>1. step[p] = "loop" /\ Knows(p)
    BY DEF Return, OrderInv
  <2>2. /\ op[p] = "apply" => at[p] > target[p]
        /\ op[p] = "rollback" => at[p] <= target[p]
    BY RunnerConstants DEF Return, Pending, TypeOK
  <2> QED BY <2>1, <2>2, RunnerConstants DEF AtTarget, Knows, TypeOK, Versions
<1> QED BY <1>1, OrderCorrect, PTL DEF Spec, ReturnsAtTarget

-----------------------------------------------------------------------------
(* How far an operation is from its end: four steps for each version it    *)
(* has still to migrate, and what is left of the present one.              *)

VersionsLeft(p) ==
  IF ~Pending(p) THEN 0
    ELSE IF op[p] = "apply" THEN target[p] + 1 - at[p] ELSE at[p] - target[p]

StepsLeft(p) ==
  CASE step[p] = "ensure" -> 4 * Latest + 7
    [] step[p] = "read"   -> 4 * Latest + 6
    [] step[p] = "loop"   -> 4 * VersionsLeft(p) + 1
    [] step[p] = "script" -> 4 * VersionsLeft(p)
    [] step[p] = "record" -> 4 * VersionsLeft(p) - 1
    [] step[p] = "commit" -> 4 * VersionsLeft(p) - 2
    [] OTHER              -> 0

AtWork(p) == step[p] \in {"script", "record", "commit"} => Pending(p)

LeftInv == \A p \in Processes : AtWork(p)

place(p) == <<step[p], op[p], at[p], target[p]>>

LEMMA VersionsLeftBound ==
  ASSUME TypeOK, NEW p \in Processes
  PROVE  /\ VersionsLeft(p) \in Nat /\ VersionsLeft(p) <= Latest + 1
         /\ Pending(p) => VersionsLeft(p) >= 1
<1>1. /\ Latest \in Nat /\ target[p] \in 0 .. Latest /\ at[p] \in 0 .. Latest + 1
      /\ op[p] \in {"apply", "rollback"}
  BY RunnerConstants DEF TypeOK
<1> QED BY <1>1 DEF VersionsLeft, Pending

(* The same after a step.                                                  *)
LEMMA VersionsLeftNext ==
  ASSUME TypeOK', NEW p \in Processes
  PROVE  VersionsLeft(p)' \in Nat /\ VersionsLeft(p)' <= Latest + 1
<1>1. /\ Latest \in Nat /\ target'[p] \in 0 .. Latest /\ at'[p] \in 0 .. Latest + 1
      /\ op'[p] \in {"apply", "rollback"}
  BY RunnerConstants DEF TypeOK
<1> QED BY <1>1 DEF VersionsLeft, Pending

(* A step of another process does not move this one.                       *)
LEMMA OthersStand ==
  ASSUME TypeOK, NEW q \in Processes, NEW p \in Processes, p # q,
         \/ \E o \in {"apply", "rollback"}, e \in Editions, n \in Versions, t \in 0 .. Latest :
              Call(q, o, e, n, t)
         \/ Run(q) \/ Crash(q)
  PROVE  place(p)' = place(p)
BY DEF TypeOK, Run, Call, EnsureTable, ReadApplied, BeginImmediate, Busy, Return, ExecuteScript,
       RecordVersion, Commit, Crash, Leaves, GoTo, store, request, place

(* An operation that leaves has nothing left, and the others stand.        *)
LEMMA LeavesLeft ==
  ASSUME TypeOK, LeftInv, NEW p \in Processes, Leaves(p)
  PROVE  LeftInv' /\ StepsLeft(p)' = 0
<1>1. step'[p] = "idle"
  BY DEF Leaves, GoTo, TypeOK
<1>2. ASSUME NEW q \in Processes, q # p PROVE AtWork(q)'
  BY <1>2 DEF Leaves, GoTo, TypeOK, LeftInv, AtWork, Pending
<1> QED BY <1>1, <1>2 DEF LeftInv, AtWork, StepsLeft

(* What is left of an operation in progress is a positive number.          *)
LEMMA StepsLeftPositive ==
  ASSUME TypeOK, LeftInv, NEW p \in Processes, step[p] # "idle"
  PROVE  StepsLeft(p) \in Nat \ {0}
<1>1. step[p] \in Steps /\ Latest \in Nat
  BY RunnerConstants DEF TypeOK
<1>2. step[p] \in {"script", "record", "commit"} => VersionsLeft(p) >= 1
  BY VersionsLeftBound DEF LeftInv, AtWork
<1> QED BY <1>1, <1>2, VersionsLeftBound DEF StepsLeft, Steps

(* Every step of an operation in progress takes it nearer to its end, and  *)
(* only an operation with a version to migrate is in a transaction.        *)
LEMMA RunsDown ==
  ASSUME TypeOK, LeftInv, NEW p \in Processes, step[p] # "idle", Run(p) \/ Crash(p)
  PROVE  AtWork(p)' /\ StepsLeft(p)' < StepsLeft(p)
<1>0. Latest \in Nat /\ TypeOK'
  <2>1. Next
    BY DEF Next
  <2> QED BY <2>1, TypeStep, RunnerConstants
<1>1. CASE Leaves(p)
  <2>1. StepsLeft(p)' = 0 /\ LeftInv'
    BY <1>1, LeavesLeft
  <2> QED BY <2>1, StepsLeftPositive DEF LeftInv
<1>2. CASE EnsureTable(p)
  <2>1. step[p] = "ensure" /\ step'[p] = "read"
    BY <1>2 DEF EnsureTable, GoTo, TypeOK
  <2> QED BY <2>1, <1>0 DEF StepsLeft, AtWork
<1>3. CASE ReadApplied(p) /\ ~Leaves(p)
  <2>1. step[p] = "read" /\ step'[p] = "loop"
    BY <1>3 DEF ReadApplied, GoTo, TypeOK
  <2>2. VersionsLeft(p)' \in Nat /\ VersionsLeft(p)' <= Latest + 1
    BY <1>0, VersionsLeftNext
  <2> QED BY <2>1, <2>2, <1>0 DEF StepsLeft, AtWork
<1>4. CASE BeginImmediate(p)
  <2>1. step[p] = "loop" /\ step'[p] = "script" /\ Pending(p)
    BY <1>4 DEF BeginImmediate, GoTo, TypeOK
  <2>2. VersionsLeft(p)' = VersionsLeft(p) /\ Pending(p)'
    BY <1>4, <2>1 DEF BeginImmediate, request, VersionsLeft, Pending
  <2> QED BY <2>1, <2>2, VersionsLeftBound DEF StepsLeft, AtWork
<1>5. CASE ExecuteScript(p) /\ ~Leaves(p)
  <2>1. step[p] = "script" /\ step'[p] = "record" /\ UNCHANGED <<request, at>>
    BY <1>5 DEF ExecuteScript, GoTo, TypeOK
  <2>2. VersionsLeft(p)' = VersionsLeft(p) /\ Pending(p)
    BY <2>1 DEF request, VersionsLeft, Pending, LeftInv, AtWork
  <2>3. Pending(p)'
    BY <2>1, <2>2 DEF request, Pending
  <2> QED BY <2>1, <2>2, <2>3, VersionsLeftBound DEF StepsLeft, AtWork
<1>6. CASE RecordVersion(p) /\ ~Leaves(p)
  <2>1. step[p] = "record" /\ step'[p] = "commit" /\ UNCHANGED <<request, at>>
    BY <1>6 DEF RecordVersion, GoTo, TypeOK
  <2>2. VersionsLeft(p)' = VersionsLeft(p) /\ Pending(p)
    BY <2>1 DEF request, VersionsLeft, Pending, LeftInv, AtWork
  <2>3. Pending(p)'
    BY <2>1, <2>2 DEF request, Pending
  <2> QED BY <2>1, <2>2, <2>3, VersionsLeftBound DEF StepsLeft, AtWork
<1>7. CASE Commit(p)
  <2>1. /\ step[p] = "commit" /\ step'[p] = "loop" /\ UNCHANGED request
        /\ at'[p] = IF op[p] = "apply" THEN at[p] + 1 ELSE at[p] - 1
    BY <1>7 DEF Commit, GoTo, TypeOK
  <2>2. Pending(p)
    BY <2>1 DEF LeftInv, AtWork
  <2>3. /\ target[p] \in Nat /\ at[p] \in Nat /\ op[p] \in {"apply", "rollback"}
        /\ op'[p] = op[p] /\ target'[p] = target[p]
    BY <2>1, <1>0 DEF TypeOK, request
  <2>4. VersionsLeft(p)' = VersionsLeft(p) - 1
    BY <2>1, <2>2, <2>3 DEF VersionsLeft, Pending
  <2> QED BY <2>1, <2>2, <2>4, VersionsLeftBound DEF StepsLeft, AtWork
<1> QED BY <1>1, <1>2, <1>3, <1>4, <1>5, <1>6, <1>7 DEF Run, Crash, Busy, Return

(* Only an operation with a version to migrate is in a transaction.        *)
LEMMA LeftStep == TypeOK /\ LeftInv /\ [Next]_vars => LeftInv'
<1> SUFFICES ASSUME TypeOK, LeftInv, [Next]_vars, NEW p \in Processes PROVE AtWork(p)'
  BY DEF LeftInv
<1>1. ASSUME place(p)' = place(p) PROVE AtWork(p)'
  BY <1>1 DEF place, LeftInv, AtWork, Pending
<1>2. CASE UNCHANGED vars
  BY <1>2, <1>1 DEF vars, place
<1>3. CASE Next
  <2>1. PICK q \in Processes :
          \/ \E o \in {"apply", "rollback"}, e \in Editions, n \in Versions, t \in 0 .. Latest :
               Call(q, o, e, n, t)
          \/ Run(q) \/ Crash(q)
    BY <1>3 DEF Next
  <2>2. CASE p # q
    BY <2>1, <2>2, <1>1, OthersStand
  <2>3. CASE p = q /\ (Run(p) \/ Crash(p))
    <3>1. step[p] # "idle"
      BY <2>3 DEF Run, EnsureTable, ReadApplied, BeginImmediate, Busy, Return, ExecuteScript,
                  RecordVersion, Commit, Crash
    <3> QED BY <2>3, <3>1, RunsDown
  <2>4. CASE p = q /\ ~(Run(p) \/ Crash(p))
    <3>1. step'[p] = "ensure"
      BY <2>1, <2>4 DEF Call, GoTo, TypeOK
    <3> QED BY <3>1 DEF AtWork
  <2> QED BY <2>1, <2>2, <2>3, <2>4
<1> QED BY <1>2, <1>3

(* Every operation runs out: whatever the others do, each step either      *)
(* leaves an operation in progress where it is or lowers what it has left  *)
(* to do, so no operation runs, retries or loops for ever.                 *)
THEOREM MigrationsRunOut ==
  Spec => [][\A p \in Processes :
               step[p] # "idle" =>
                 /\ StepsLeft(p) \in Nat \ {0}
                 /\ place(p)' = place(p) \/ StepsLeft(p)' < StepsLeft(p)]_vars
<1>1. Init => LeftInv
  BY DEF Init, LeftInv, AtWork
<1>2. TypeOK /\ LeftInv /\ [Next]_vars =>
        [\A p \in Processes :
           step[p] # "idle" =>
             /\ StepsLeft(p) \in Nat \ {0}
             /\ place(p)' = place(p) \/ StepsLeft(p)' < StepsLeft(p)]_vars
  <2> SUFFICES ASSUME TypeOK, LeftInv, Next, NEW p \in Processes, step[p] # "idle"
               PROVE  place(p)' = place(p) \/ StepsLeft(p)' < StepsLeft(p)
    BY StepsLeftPositive
  <2>1. PICK q \in Processes :
          \/ \E o \in {"apply", "rollback"}, e \in Editions, n \in Versions, t \in 0 .. Latest :
               Call(q, o, e, n, t)
          \/ Run(q) \/ Crash(q)
    BY DEF Next
  <2>2. CASE p # q
    BY <2>1, <2>2, OthersStand
  <2>3. CASE p = q
    <3>1. Run(p) \/ Crash(p)
      BY <2>1, <2>3 DEF Call
    <3> QED BY <3>1, RunsDown
  <2> QED BY <2>2, <2>3
<1> QED BY <1>1, <1>2, LeftStep, InitType, TypeStep, PTL DEF Spec
=============================================================================
