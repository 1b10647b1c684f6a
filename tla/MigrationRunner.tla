---------------------------- MODULE MigrationRunner ----------------------------
(***************************************************************************)
(* The migration runner of the operational store (store/migration.py) on   *)
(* the transactions of store/connection.py: processes that apply or roll   *)
(* back the packaged migrations of one database file.  A process looks at  *)
(* the applied migrations once, outside any transaction, and then runs     *)
(* one BEGIN IMMEDIATE transaction for each migration it decided on.       *)
(*                                                                         *)
(* A migration's script stands for the schema objects it creates: its up   *)
(* script fails when they are there, its down script drops them if they    *)
(* are.  No script is assumed to need the objects of another version.  The *)
(* edition of a package stands for the names and checksums of its scripts. *)
(***************************************************************************)
EXTENDS Naturals

CONSTANTS
  Processes,
  Latest,      \* bound on the versions a package holds
  Editions,
  Nobody, Unapplied

ASSUME RunnerConstants ==
  /\ Latest \in Nat \ {0}
  /\ Nobody \notin Processes
  /\ Unapplied \notin Editions

Versions == 1 .. Latest

VARIABLES
  recorded,       \* the migrations table: version -> edition
  schema,         \* the versions whose objects exist
  lock,           \* the process in a write transaction
  draftRecorded, draftSchema,  \* what that transaction has changed so far
  step, op,       \* per process: where it is, and in which operation
  edition, known, \* its package and that package's latest version
  target, at,     \* the version it goes to and the migration it is at
  history         \* auxiliary: were an apply and a rollback ever under way at once?

vars == <<recorded, schema, lock, draftRecorded, draftSchema, step, op, edition,
          known, target, at, history>>

store == <<recorded, schema, lock, draftRecorded, draftSchema>>

request == <<op, edition, known, target>>

Steps == {"idle", "ensure", "read", "loop", "script", "record", "commit"}

TypeOK ==
  /\ recorded \in [Versions -> Editions \cup {Unapplied}]
  /\ draftRecorded \in [Versions -> Editions \cup {Unapplied}]
  /\ schema \subseteq Versions /\ draftSchema \subseteq Versions
  /\ lock \in Processes \cup {Nobody}
  /\ step \in [Processes -> Steps]
  /\ op \in [Processes -> {"apply", "rollback"}]
  /\ edition \in [Processes -> Editions]
  /\ known \in [Processes -> Versions]
  /\ target \in [Processes -> 0 .. Latest]
  /\ at \in [Processes -> 0 .. Latest + 1]
  /\ history \in {"apart", "mixed"}
  /\ \A p \in Processes :
       /\ target[p] <= known[p]
       /\ step[p] = "loop" => IF op[p] = "apply" THEN at[p] >= 1 ELSE at[p] <= Latest
       /\ step[p] \in {"script", "record", "commit"} => lock = p /\ at[p] \in Versions

Init ==
  /\ recorded = [v \in Versions |-> Unapplied] /\ draftRecorded = recorded
  /\ schema = {} /\ draftSchema = {}
  /\ lock = Nobody
  /\ step = [p \in Processes |-> "idle"]
  /\ op = [p \in Processes |-> "apply"]
  /\ edition \in [Processes -> Editions]
  /\ known = [p \in Processes |-> 1]
  /\ target = [p \in Processes |-> 0]
  /\ at = [p \in Processes |-> 0]
  /\ history = "apart"

GoTo(p, s) == step' = [step EXCEPT ![p] = s]

(* The operation returns, raises or is killed.  transaction() rolls back;  *)
(* so does SQLite for a process that is gone; its variables are gone too.  *)
Leaves(p) ==
  /\ GoTo(p, "idle")
  /\ lock' = IF lock = p THEN Nobody ELSE lock
  /\ known' = [known EXCEPT ![p] = 1]
  /\ target' = [target EXCEPT ![p] = 0]
  /\ at' = [at EXCEPT ![p] = 0]
  /\ UNCHANGED <<recorded, schema, draftRecorded, draftSchema, op, edition, history>>

(* apply_migrations or rollback_migrations is called with a target version *)
(* that the package has.                                                   *)
Call(p, o, e, n, t) ==
  /\ step[p] = "idle"
  /\ t <= n
  /\ GoTo(p, "ensure")
  /\ op' = [op EXCEPT ![p] = o]
  /\ edition' = [edition EXCEPT ![p] = e]
  /\ known' = [known EXCEPT ![p] = n]
  /\ target' = [target EXCEPT ![p] = t]
  /\ history' = IF \E q \in Processes : step[q] # "idle" /\ op[q] # o
                  THEN "mixed" ELSE history
  /\ UNCHANGED <<store, at>>

(* _ensure_migration_table: a transaction of its own, that creates the     *)
(* bookkeeping table if it is missing                                      *)
EnsureTable(p) ==
  /\ step[p] = "ensure" /\ lock = Nobody
  /\ GoTo(p, "read")
  /\ UNCHANGED <<store, request, at, history>>

Prefix(table, k) == \A v \in Versions : table[v] # Unapplied <=> v <= k

(* Mutant of Valid: the checksums are not compared.                        *)
ValidVersions(p, k) == Prefix(recorded, k) /\ k <= known[p]

(* _validate_applied                                                       *)
Valid(p, k) ==
  /\ Prefix(recorded, k)
  /\ k <= known[p]
  /\ \A v \in 1 .. k : recorded[v] = edition[p]

(* Mutant of ReadApplied: the first pending migration is skipped.          *)
ReadPastNext(p) ==
  /\ step[p] = "read"
  /\ \/ \E k \in 0 .. Latest :
          /\ Valid(p, k)
          /\ op[p] = "apply" => target[p] >= k
          /\ at' = [at EXCEPT ![p] = IF op[p] = "apply" THEN k + 2 ELSE k]
          /\ GoTo(p, "loop")
          /\ UNCHANGED <<store, request, history>>
     \/ /\ \A k \in 0 .. Latest : Valid(p, k) => op[p] = "apply" /\ target[p] < k
        /\ Leaves(p)

ReadApplied(p) ==
  /\ step[p] = "read"
  /\ \/ \E k \in 0 .. Latest :
          /\ Valid(p, k)
          /\ op[p] = "apply" => target[p] >= k
          /\ at' = [at EXCEPT ![p] = IF op[p] = "apply" THEN k + 1 ELSE k]
          /\ GoTo(p, "loop")
          /\ UNCHANGED <<store, request, history>>
     \/ /\ \A k \in 0 .. Latest : Valid(p, k) => op[p] = "apply" /\ target[p] < k
        /\ Leaves(p)

(* Mutant of Pending: the target itself is not reached.                    *)
PendingBelow(p) == IF op[p] = "apply" THEN at[p] < target[p] ELSE at[p] > target[p]

Pending(p) == IF op[p] = "apply" THEN at[p] <= target[p] ELSE at[p] > target[p]

(* Mutant of BeginImmediate: the write lock is not taken at BEGIN.         *)
BeginDeferred(p) ==
  /\ step[p] = "loop" /\ Pending(p)
  /\ lock' = p
  /\ draftRecorded' = recorded /\ draftSchema' = schema
  /\ GoTo(p, "script")
  /\ UNCHANGED <<recorded, schema, request, at, history>>

BeginImmediate(p) ==
  /\ step[p] = "loop" /\ Pending(p) /\ lock = Nobody
  /\ lock' = p
  /\ draftRecorded' = recorded /\ draftSchema' = schema
  /\ GoTo(p, "script")
  /\ UNCHANGED <<recorded, schema, request, at, history>>

(* The busy timeout expires.                                               *)
Busy(p) ==
  /\ lock # Nobody
  /\ step[p] = "ensure" \/ (step[p] = "loop" /\ Pending(p))
  /\ Leaves(p)

Return(p) == step[p] = "loop" /\ ~Pending(p) /\ Leaves(p)

(* Mutant of ExecuteScript: executescript commits what it did.             *)
ExecuteAndCommit(p) ==
  /\ step[p] = "script"
  /\ op[p] = "apply" => at[p] \notin draftSchema
  /\ draftSchema' = IF op[p] = "apply" THEN draftSchema \cup {at[p]}
                                       ELSE draftSchema \ {at[p]}
  /\ schema' = draftSchema'
  /\ GoTo(p, "record")
  /\ UNCHANGED <<recorded, lock, draftRecorded, request, at, history>>

(* Mutant of ExecuteScript: a script that fails is tried again.            *)
ExecuteRetrying(p) ==
  /\ step[p] = "script"
  /\ IF op[p] = "apply" /\ at[p] \in draftSchema
       THEN lock' = Nobody /\ GoTo(p, "loop") /\ UNCHANGED draftSchema
       ELSE /\ draftSchema' = IF op[p] = "apply" THEN draftSchema \cup {at[p]}
                                                  ELSE draftSchema \ {at[p]}
            /\ GoTo(p, "record")
            /\ UNCHANGED lock
  /\ UNCHANGED <<recorded, schema, draftRecorded, request, at, history>>

(* _execute_script, statement by statement in the open transaction         *)
ExecuteScript(p) ==
  /\ step[p] = "script"
  /\ \/ /\ op[p] = "apply" /\ at[p] \notin draftSchema
        /\ draftSchema' = draftSchema \cup {at[p]}
        /\ GoTo(p, "record")
        /\ UNCHANGED <<recorded, schema, lock, draftRecorded, request, at, history>>
     \/ /\ op[p] = "rollback"
        /\ draftSchema' = draftSchema \ {at[p]}
        /\ GoTo(p, "record")
        /\ UNCHANGED <<recorded, schema, lock, draftRecorded, request, at, history>>
     \/ op[p] = "apply" /\ at[p] \in draftSchema /\ Leaves(p)

RecordVersion(p) ==
  /\ step[p] = "record"
  /\ \/ /\ op[p] = "apply" /\ draftRecorded[at[p]] # Unapplied
        /\ Leaves(p)
     \/ /\ op[p] = "apply" => draftRecorded[at[p]] = Unapplied
        /\ draftRecorded' = [draftRecorded EXCEPT ![at[p]] =
                               IF op[p] = "apply" THEN edition[p] ELSE Unapplied]
        /\ GoTo(p, "commit")
        /\ UNCHANGED <<recorded, schema, lock, draftSchema, request, at, history>>

Commit(p) ==
  /\ step[p] = "commit"
  /\ recorded' = draftRecorded /\ schema' = draftSchema
  /\ lock' = Nobody
  /\ at' = [at EXCEPT ![p] = IF op[p] = "apply" THEN @ + 1 ELSE @ - 1]
  /\ GoTo(p, "loop")
  /\ UNCHANGED <<draftRecorded, draftSchema, request, history>>

Crash(p) == step[p] # "idle" /\ Leaves(p)

Run(p) ==
  \/ EnsureTable(p) \/ ReadApplied(p)
  \/ BeginImmediate(p) \/ Busy(p) \/ Return(p)
  \/ ExecuteScript(p) \/ RecordVersion(p) \/ Commit(p)

Next ==
  \E p \in Processes :
    \/ \E o \in {"apply", "rollback"}, e \in Editions, n \in Versions, t \in 0 .. Latest :
         Call(p, o, e, n, t)
    \/ Run(p)
    \/ Crash(p)

Spec == Init /\ [][Next]_vars

(* An operation in progress goes on; BEGIN waits no longer than the busy   *)
(* timeout.                                                                *)
FairSpec == Spec /\ \A p \in Processes : WF_vars(Run(p))

-----------------------------------------------------------------------------
(* Properties                                                              *)

(* A version is recorded exactly when its objects are in the schema, also  *)
(* after a process was killed between the script and its record.           *)
SchemaMatchesRecord == \A v \in Versions : v \in schema <=> recorded[v] # Unapplied

(* The applied migrations are a contiguous prefix, which is what every     *)
(* operation demands before it does anything (_validate_applied): a        *)
(* database that is not can be neither migrated nor rolled back.  Any      *)
(* number of applies may run at once, and any number of rollbacks, but the *)
(* two must not overlap: the versions are read before the transactions     *)
(* that rely on them.                                                      *)
PrefixApplied == history = "apart" => \E k \in 0 .. Latest : Prefix(recorded, k)

(* The applied migrations all come from one edition of the package, though *)
(* the checksums are compared only before the first transaction.           *)
OneEdition ==
  history = "apart" =>
    \A v, w \in Versions :
      recorded[v] # Unapplied /\ recorded[w] # Unapplied => recorded[v] = recorded[w]

(* An operation that returns has brought the database to its target,       *)
(* whoever else was doing the same.                                        *)
AtTarget(p) ==
  \A v \in Versions :
    /\ op[p] = "apply" /\ v <= target[p] => recorded[v] = edition[p]
    /\ op[p] = "rollback" /\ v > target[p] => recorded[v] = Unapplied

ReturnsAtTarget ==
  [][\A p \in Processes : Return(p) /\ history = "apart" => AtTarget(p)]_vars

(* Every operation comes to an end: none waits for another for good.       *)
OperationsEnd == \A p \in Processes : step[p] # "idle" ~> step[p] = "idle"
=============================================================================
