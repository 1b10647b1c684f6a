# Hermes for Obsidian: a verification development

TLA+ models of the Hermes bridge for Obsidian (`src/src/obsidian_hermes`) and of
its Obsidian plugin (`src/apps/obsidian-hermes`), TLC configurations that check
them on small instances, and TLAPS proofs of theorems that hold for every value
of the constants. The code is the reference throughout; a document is quoted only
where a run shows that the code does something else.

Everything runs inside this directory: `tlc -config <cfg> <module>` for a run,
`tlapm <module>.tla` for the proofs. `PROJECT.json` lists the runs, a mutant for
each property, the source lines behind each definition, the findings, the hazards
and the theorems.

## 1. The system

A vault of Markdown notes is the durable record of tasks, routines, runs and
approvals. A bridge process beside it validates the notes; a SQLite store is to
coordinate the execution of what they ask for; a loopback HTTP server shows both
as a *control room*; a plugin shows the control room inside Obsidian. A lifecycle
tool puts the plugin and a set of reference notes into a vault.

The repository is a first phase. The bridge only validates, and nothing writes
the coordination tables yet: the schema is the part of the future dispatcher that
exists, and it was written to be the last line of defence. That is why the schema
is modelled as a state machine of its own, with any legal statement from any
caller.

| Component | Code | State | Operations | Hard behaviour |
|---|---|---|---|---|
| Operational store | `store/migrations/0001_initial.up.sql` | nine tables tied by foreign keys, CHECKs and 15 triggers | INSERT, UPDATE, DELETE | any order of legal statements by several writers; takeover of the fence; NULL in CHECKs |
| Transition policy | `domain/transitions.py`, `enums.py` | none (a table) | `can_transition`, `require_transition` | agreement with what the schema accepts; loops |
| Migration runner | `store/migration.py`, `connection.py` | the `migrations` table and the schema | `apply_migrations`, `rollback_migrations` | concurrent processes, packages of different editions, crashes inside a transaction, busy timeouts |
| Lifecycle manager | `lifecycle/manager.py` | plugin files, notes, manifest, backups | install, update, repair, uninstall, doctor | crash between any two file-system calls; users and sync clients writing the same files; no lock |
| Control-room snapshot | `control_room/{snapshot,store_overlay,vault}.py` | none but that of the request | `snapshot` | notes and four SELECTs that are no common snapshot; limits; a store that goes away half-way |
| Control-room server | `control_room/api.py` | none | `GET` | an answer over its budget is refused |
| Validation-only bridge | `bridge/validation.py`, `security/paths.py` | none but that of the scan | `scan_once`, `run_forever` | a tree that changes under the scan, or that it may not read; the entry limit; restart by systemd, up to a limit |
| Obsidian plugin | `apps/obsidian-hermes/src/{main,api,vault}.ts` | settings, one interval, one view | refresh, save settings, open, close, load, unload, capture | timer, button, save and open while a request is awaited; failed saves; answers that cannot be rendered |
| Configuration and command line | `config.py`, `cli.py` | that of one process: the configuration it loaded, the database it opened, its exit status | `load_config`, `main` and its commands | paths that lead elsewhere than they say, and that change after they were checked; a look and an act that are two calls; an interrupt anywhere |
| Resource formats and vault paths | `resources/`, `security/paths.py`, `schemas/` | none | `load_resource`, `VaultPath.parse`, the specification hash | rules that relate fields; two spellings of one path; an approval written into what it approves |
| Ids and schedules | `domain/ids.py`, `schedule.py` | none | pure functions | formats |
| Interfaces | `phase_one/`, `hermes/`, `migration/v1.py` | none | none (protocols and tables) | |

How they interact: the command line calls one component per invocation. The
control-room server reads the vault and opens the store read-only; the plugin
polls the server over loopback and falls back to reading the vault itself. The
bridge reads the vault and tells nobody but its exit status. The lifecycle tool
and the user share the vault's file system, with no lock. All processes share one
database file, through `BEGIN IMMEDIATE`.

### What makes each of them correct

* **Store**: a task generation is decided once, and only what was decided is ever
  announced; what was executed or approved is never rewritten; a lease never
  outlives the epoch it was taken under; evidence never loses its subject.
* **Policy on the store**: no shorter way to `completed`; whatever outcome the
  store accepted, the policy lets the command get there.
* **Migrations**: schema and record agree, versions are a prefix of one edition,
  an apply that returns is at its target, every operation ends.
* **Lifecycle**: the manifest tells the truth when it is written and is given up
  last; nothing a user wrote is lost.
* **Snapshot**: nothing is hidden without being marked as truncated or degraded;
  what is labelled live was live; tasks and queue of one answer agree.
* **Bridge**: a scan that ends safe has missed nothing that was wrong all through
  it and could be read; a problem stops it, a tree in order never does, and a
  repair lets it run on until its start limit is used up.
* **Configuration and command line**: zones are apart and the database is in none
  of them, whatever links lead there; a database comes into being only where it was
  asked for.
* **Formats**: an approval covers what was approved and nothing else; a task that is
  validated names nothing outside its grants.
* **Plugin**: one refresh at a time, labels that match their data, one timer, and
  settings that reach the view.

## 2. The modules

| Module | Models | Its state and actions in the code |
|---|---|---|
| `OperationalStore` | the schema | a variable per table; an action per statement, whose guard is what keys, CHECKs, foreign keys and triggers demand of it |
| `GenerationLedger` | *abstract*: what the store promises about a task generation | decided once, then announced as decided; implemented by `OperationalStore` (`LedgerSpec`) |
| `CommandLifecycle` | `transitions.py` composed with `OperationalStore` | a move asks `CanTransition`, then issues the UPDATE; every other statement stays possible |
| `MigrationRunner` | `migration.py` on `connection.py` | per process a step: ensure the table, read, then per version BEGIN, script, record, commit; the transaction's changes are drafts until COMMIT |
| `LifecycleManager` | `manager.py` | one step per file-system call; `disk`, `manifest`, `backups` are the files, `step`, `todo`, `file` the place in the operation |
| `VaultCustody` | *abstract*: what the lifecycle tool promises about files | provide, withdraw, save, discard; implemented by `LifecycleManager` (`CustodySpec`) |
| `ControlRoomSnapshot` | one control-room request against a changing vault and store | one step per note read and per SELECT; auxiliary variables remember what was so all through the request |
| `ControlRoomView` | `main.ts` | one action per callback; the code after an `await` is an action of its own |
| `ValidationBridge` | `validation.py` under `deploy/service/obsidian-hermes-bridge.service` | one step per directory listed and per candidate checked; the zone changes between any two; the unit restarts what failed, up to its start limit |
| `PathSegments` | `os.path.commonpath` and prefixes of vault paths | a path is the sequence of its segments; `Within` |
| `VaultPath` | `VaultPath.parse`, `_scope_allows`, `find_case_unicode_collisions` | operators on paths |
| `DeploymentConfig` | `config.py` | one operator per table of the configuration, `Accepted` for `load_config` |
| `ResourceRules` | `validation.py`, `canonical.py`, `loader.py` of `resources/` | what is accepted of tasks and routines, and `SpecificationHash` |
| `CommandLine` | `cli.py` on the four above | one process after another: `step` is the place in the command; the configuration, the links, the databases and the note change beside it |
| `OperationalStoreProofs`, `CommandLifecycleProofs`, `LifecycleManagerProofs`, `MigrationRunnerProofs`, `ControlRoomSnapshotProofs`, `ControlRoomViewProofs`, `ValidationBridgeProofs`, `CommandLineProofs` | theorems | each about the module of its name; `CommandLifecycleProofs` builds on `OperationalStoreProofs` |
| `MC*` | constants and symmetry for TLC | |

### Choices worth knowing

*Store.* A statement the schema refuses is no step. `open_database` turns foreign
keys on, and every one is RESTRICT and immediate, so each statement is checked on
its own and one step is one statement; writers hold `BEGIN IMMEDIATE`, so no
transaction sees another's middle. Columns nothing compares (payloads, times,
token counts, the state of a run, `max_attempts`) are left out. The UPDATE of a
key column of a row that no other row references is a DELETE followed by an
INSERT. `INSERT OR REPLACE` would delete without firing the DELETE triggers
(`recursive_triggers` is off); no code uses it, and the model has plain INSERTs.

*Policy.* Nothing outside the tests calls `require_transition`. The module says
what a dispatcher that asks it before each UPDATE would get. Commands enter as
`queued`, where the policy starts. Approvals and events may be written at any time,
as in the store; the run has no ids for them, which would multiply its states
without touching a command, and the theorems cover them. `Reach` is the least set of
states that a state is in and no move of the policy leaves.

*Migrations.* A script stands for the objects it creates or drops, an edition for
the names and checksums of a package. No script is assumed to need the objects of
another version. The auxiliary variable `history` tells whether an apply and a
rollback have ever overlapped. What an operation read before its transactions is
stale after such an overlap: an apply that computed its versions before a rollback
removed an earlier one leaves a gap that every later operation refuses
(`migration.py:234`; latent, as one version ships and the command line has no
rollback). `PrefixApplied`, `OneEdition` and `ReturnsAtTarget` are stated for every
other history; the objects and their records stay together in all of them.

*Lifecycle.* A file's content is named by the release that ships it or is a
user's; digests compare contents. One process runs at a time: two lifecycle
commands at once are a hazard on the list, not in the model. The user may edit any
file at any moment. The auxiliary variable `touched` holds the files edited since
the running operation began: between the look at a file and the call that acts on
it nothing holds the file still, so for a touched file the tool can promise
nothing (what is written between the backup and `os.replace`, or between the
digest and `unlink`, is lost). The properties speak of every other file. The
manifest is loaded when an operation begins and written when it ends; in between,
`listed` holds the seeded notes it is to name: those it loaded and those it planted.

*Snapshot.* Runs stand for runs, approvals and activity, which are read and merged
in the same way; commands stand for the queue, which has no notes; tasks have
notes only, and are joined with the queue by `queue_by_task` and with a runtime by
`task_runtime`, the queue with tasks by `task_links`. Which of several commands a
task is shown with depends on their `not_before` and is left open. Two notes may
name one run or task: copies are what a synchronisation leaves behind, and the
last one read counts. The properties speak of what was so for as long as the
request took. A note that moves from a zone not yet listed into one already listed
is missed without a mark; no reader of a living tree could do better, and the
promises are about notes that stay.

*Configuration.* The paths of a configuration are names, and `layout` is what
`resolve()` answers for each: two names may lead to one place, and what a name leads
to changes when somebody relinks a directory. A field that is refused by itself
(missing, unknown, of the wrong form) puts its table into `broken`; the checks that
relate fields are written out. `load_config` reads one file once and then looks at
nothing but the links, and is one step.

*Command line.* A command is a handful of steps, with the world free to move between
any two: load, look (`exists`), open (`mkdir`, connect), migrate version by version,
close. What a scan, a migration or a lifecycle command does inside is the subject of
the modules of those names; here a scan is safe or not, and a migration has done
its next version or failed. `steady` says that since the configuration was loaded
no link has changed and no database has gone: nothing in the code holds either
still, so `StoresAppearWhereAsked` promises nothing of a command for which it is false
(`db status` then creates a database it had only looked for, `cli.py:195`).

*Notes.* A note is the record of the fields that rules compare, and `broken` when one
field by itself, its frontmatter or its bytes are refused. Paths are sequences of
segments; a trailing slash is the segment `"/"`, and `"**"` at the end of a grant a
segment too, because how these two are cut on either side of the comparison is what
`TaskStaysInScope` is about. The hash is the function of the fields that are not
excluded: equal hashes are equal fields, as for SHA-256 of canonical bytes.
`approved` remembers what was reported when it was approved, so that an edit between
report and approval is not taken for approved.

*View.* A closed view is a dead object; an answer it still waits for is not seen.

*Bridge.* What the checks of one file look at is one kind, `invalid`; only the
collision of names, the symlinks, the directories and the entry limit relate
several files to each other and are told apart. `root.rglob` passes over a directory
that it may not list and raises nothing: what is below one is `hidden`, yields no
entry and no issue, and **a scan ends safe with invalid files and symlinks in it
overlooked** (`bridge/validation.py:97`). If such a directory may be listed but not
searched, `is_symlink` raises on what is in it and the scan fails (`Denied`). The properties
therefore speak of what is wrong *and can be read*; of hidden files no promise is
made, as the code makes none. The unit restarts a failed bridge after ten
seconds, but three times in sixty seconds at most: `starts` counts the starts of the present
interval, which may be over at any restart. A unit that has used them up is `failed`
until an operator starts it (`StartByHand`), which nobody has to. The
auxiliary variables remember what was wrong (`persisting`) and which entries were
there (`steady`, kept while they are too many, as `Crowd` says) since the scan
began, and whether anything changed at all (`undisturbed`).

## 3. What the runs show

Runs that must pass, with their bounds. Every property has a mutant in
`PROJECT.json`: a plausible bug in a mapped definition for which TLC finds the
property violated under the same configuration.

| Run | Shows | Bounds |
|---|---|---|
| `store_outcome` | `OutcomeBacked`, `OutcomeFinal`, `ExecutedGenerationFrozen`, refinement of the ledger | 1 task, 2 generations, 2 hashes, 2 commands, 2 traces, 2 receipts, 2 runs, states queued/verifying/completed/failed |
| `store_evidence` | `EvidenceCoherent`, `LeaseAuthority`, `TakeoverOnlyWhenIdle`, `OneCurrent`, `DecisionFinal` | 2 resources (one a task), generations 0..2, 2 paths, 2 commands, 2 traces, 2 runs, 2 executors, epochs 1..3, 1 approval, 2 events, sequences 0..2, 1 destination; `Focus` |
| `command_lifecycle` | `CompletedTheWholeWay`, `DecisionReachable` | all 13 states, all 7 statuses, 2 commands, 1 receipt, 1 run, 1 lease |
| `lifecycle` | `RecordsWhatIsThere`, `ForgetsOnlyWhenGone`, `CallsRunOut`, refinement of the custody | 2 plugin files, 1 note, 2 releases, 1 user content, directories and symlinks in the way, 1 file touched per operation; `Scope` |
| `migrations` | `SchemaMatchesRecord`, `PrefixApplied`, `OneEdition`, `ReturnsAtTarget`, `OperationsEnd` | 2 processes, 2 versions, 2 editions, apply and rollback |
| `snapshot` | `DurableShown`, `LiveStateIsLive`, `NothingHidden`, `TasksAgreeWithQueue` | 1 path in each zone, 3 run ids, 2 tasks, 3 commands, 2 run states, 2 runtimes, limits 1 and 2; `Scope`, `MovesWhenRead` |
| `view_refresh` | `LabelMatchesSource`, `OneRefreshAtATime`, `TimersAreTracked`, `SettingsReachTheView` | 2 addresses, 2 settings changes |
| `bridge` | `SafeScanMissesNothing`, `NoFalseAlarm`, `ProblemStopsBridge`, `RepairLetsItRun` | 3 paths in 2 directories, 2 of them colliding, each of 6 kinds; limit 2; 2 starts in an interval |
| `command_line` | `StoresAppearWhereAsked`, `ApprovalTellsEdits`, `TaskStaysInScope` | 14 configurations, among them one that fails each check that relates fields or bounds a number on one side; 2 layouts, in one of which a directory links into a zone; 3 places of a database; schema version 2; tasks over every form of root and grant, ingest tasks over ports and hosts, 16 routines; `Scope` |

Why these bounds are enough to be interesting. Each property of the store relates
at most two rows of a table and the rows those point at; two of everything, and a
generation or an epoch more where a row must leave and another take its place, is
what it takes to violate one. A gap in the migrations needs two versions, and two
editions to meet. The limits of the snapshot and the bridge are such
that exactly full, one over and cut all happen. Two starts in an interval are the least
for a unit that is restarted and then given up. The view needs
a second address for a change to be visible, and two saves to overlap. Symmetry is
declared only for constants that no definition orders, and only in runs without
liveness properties.

Four runs explore part of the state space only, by a `CONSTRAINT` of their MC
module; none of them checks liveness. `Focus` of `store_evidence` opens many tables
and fills them one question at a time: resources that are renamed; commands with
leases and fences; approvals; events. The questions share their resources,
commands and runs, and what a guard of one table asks of another is within one
question. No receipts are written in this run and there is one hash, so the parts of
`EvidenceCoherent` about receipts and hashes are empty in it: those are covered by the
theorem `EvidenceStaysCoherent`. `Scope` of `lifecycle` bounds the sum of the backups, the obstacles
and the touched files by three, so that a crash, an upgrade, an edit, an obstacle
and a repair meet in every combination of up to three of these. `Scope` of
`snapshot` has tasks and their commands in play or runs and their rows, not both: the
two are fetched and cut independently and meet only in the flags, which each of
them sets alone; of the runs one has notes and a row, one only a row, one only
notes, which are the cases the merge tells apart. `MovesWhenRead` lets a note or a
row change only before a request and right before the step that reads it: an earlier
change could have come just then, and a later one only takes away from what was
steady. `Scope` of `command_line` varies either the configuration and the databases
or the note: `validate resource` is the one command that reads the note, and it
reads nothing else.

`CHECK_DEADLOCK FALSE` appears in the store's runs only. The store has no
schedule of its own: with all ids used up no statement may be legal, and that is
no error. Everywhere else deadlock is checked.

### Where the code and its documents disagree

These runs check a sentence of a document, a docstring, a message or a test, and
TLC shows how the code breaks it. `PROJECT.json` quotes each sentence.

| Run | What happens |
|---|---|
| `store_attestation` | the CHECK of a decided approval compares NULL columns, and NULL passes: a decision without decider, method, key or signature |
| `lifecycle_overwrite` | a note that appears between `exists()` and `os.replace` is overwritten |
| `view_unrenderable` | an answer that passes `decodeSnapshot` and makes `render` throw leaves `refreshing` set for good |

Seen while modelling, and left without a run because the definition itself shows
it:

* the monotonic-epoch trigger watches UPDATE only: DELETE and INSERT of the fence
  row bring an old epoch back, though never under a lease that holds one
  (`0001_initial.up.sql:219`; `LeaseAuthority` holds all the same);
* the policy has no way from `running` back to `validated`, which
  `docs/specification/v2.0.md:1025-1027` asks for an expired lease;
* `update` seeds again the notes a user has deleted or moved, as it looks at the
  disk and not at the manifest (`manager.py:280`, against lines 3-4);
* a note that lags behind its row is merged with projection status `current`
  (`snapshot.py:85`);
* a bridge that accepts the connection and never answers keeps an open view blank,
  although the vault was already read (`main.ts:138`);
* a candidate that vanishes between walk and `stat` raises out of the loop
  (`bridge/validation.py:129`);
* what is below a directory that the bridge may not list is passed over without an
  issue (`bridge/validation.py:97`);
* paths are compared for collisions as they are written, so `ReadWrite/Notes/` and
  `ReadWrite/notes` do not collide (`security/paths.py:109`).

### Fairness

* `MigrationRunner`: weak fairness of the steps of a running operation, per process.
  It is straight-line code that makes its next call; `BEGIN IMMEDIATE` gives up
  after the busy timeout, so a process never waits for good. No operation is
  obliged to start, and crashes are not obliged to happen or to stop.
* `LifecycleManager`: none. That an operation ends is stated as `CallsRunOut`: each
  call brings it closer to its end in a well-founded order, and the user cannot
  take it back. It is also proved.
* `ControlRoomView`: weak fairness of the interval, of `onLayoutReady`, and of a
  save ending one way or the other: the event loop runs what is due. `Spec` adds
  that a request ends, which is so for a server that is up and for a closed port.
* `ValidationBridge`: weak fairness of the process and of the service manager, which
  restarts a failed bridge (`Restart=on-failure`) or gives it up
  (`StartLimitBurst`), as it sees fit. Nothing obliges an operator to start a unit
  that was given up: `RepairLetsItRun` has that as its second outcome.
* The store, the policy, the snapshot and the command line have safety properties
  only, and no fairness: a command may be interrupted or hang anywhere.

## 4. What is proved

All theorems are about any finite or infinite constants that satisfy the modules'
named assumptions (`StoreConstants`, `LifecycleConstants`, `ManagerConstants`,
`RunnerConstants`, `SnapshotConstants`, `ViewConstants`, `BridgeConstants`,
`CommandLineConstants`, `NamesAreSegments`, `NotesAreTyped`), which TLC evaluates in
the runs. They say of the constants only
what separates them: a sentinel is no row, releases are no user contents, a
generation is a number, a name is neither `"/"` nor `"**"`. `BridgeConstants`
also has finitely many paths, as the entries of a scan are counted, and
`ManagerConstants` finitely many files, as both loops go through a constant tuple or
a directory tree. `SnapshotConstants` has paths and ids in the order of the queries,
but neither a finite vault nor finite tables: what a request reads is finite because
of its limits, which is part of what is proved. `NotesAreTyped`
says that the fields of notes are of the kinds their rules compare.

**Store** (`OperationalStoreProofs`). `TypeCorrect` says that rows keep their types and
no more; that references hold is `NoReferenceDangles`.
`Frames` says what each kind of statement leaves alone; the lemmas `...Kept` and
`...Origin` say which statement can remove, change or create a row of each table
and under which guard. On them rest

* `EvidenceStaysCoherent`: the five parts of `EvidenceCoherent` are inductive one
  after the other. Each rests on the RESTRICT guards of the tables below it, which
  is the argument a reader of the SQL would have to make for every pair of tables;
* `LeasesHoldCurrentEpoch` (inductive with the types), and `TakeoverNeedsIdle`
  from it: the fence can move only when no lease holds its key, and no lease holds
  another;
* `TerminalStatesAreBacked`, `OutcomesAreFinal`, from `OutcomeInv`: types,
  coherence, one terminal receipt per command, one command per task generation and
  `OutcomeBacked`. The strengthening is needed because the trigger on a state
  looks for *a* receipt: that no second one can name another state is a fact about
  the receipts' unique index;
* `ExecutedGenerationsAreFrozen`: the receipt holds its command, the command the
  resource, and the unique index on commands the generation;
* `DecisionsAreFinal`, from coherence and `RoutineApprovalsHaveNoSubject`;
* `CurrentIsUnique`, inductive with the types;
* `NoReferenceDangles` (`ReferencesHold`): whatever row of another table a row names is there, for
  every foreign key of the nine tables. Commands, runs, receipts, approvals, events and
  leases have it from coherence and `LeaseAuthority`, for an approval without a run
  from `RoutineApprovalsHaveNoSubject`; the outbox from `OutboxHolds`, as events stay;
* `StoreKeepsLedger`: every statement maps to a step of `GenerationLedger` or to a
  stutter. A generation has at most one command and that one terminal receipt
  (both in `OutcomeInv`), so what the mapping reads off the tables with `CHOOSE`
  does not depend on the choice; a receipt then decides a generation that was not
  decided, and a command announces what its receipt decided.

**Policy** (`CommandLifecycleProofs`). `PolicyIsStore` says that the policy only leaves
statements of the store out, so every theorem above holds under it too, and
`PolicyKeepsLedger` is one line. `DecisionsStayReachable` (`DecisionReachable`) from
`OutcomeInv`: a command with its receipt is live, or already in the state the receipt
names, because the store refuses any other terminal state; and from every live state
every terminal one is in `Reach` (`EveryEndInReach`: any set that the moves do not
leave contains them, along `running` and `verifying`). `CompletionTakesTheWholeWay`
(`CompletedTheWholeWay`) from `OnTheWay`: in every state of the way the trail of a
command is exactly the way to it. That is what makes a claim given back harmless
(`claimed` to `validated` shortens the trail), and the retry and the approval, which
both go through `queued`, start it anew.

**Lifecycle** (`LifecycleManagerProofs`). Everything holds with crashes and edits at
any moment. `RecordsAreTrue`, `ForgetsLast` and `CustodyKept` rest on `PlaceInv`,
which says, for each place in an operation, what it has learned about the files
that were not touched since: the plugin files behind it are the release's, the file
it is about to replace is saved, the note it is about to plant is not there, what
it has passed in an uninstall is gone or kept. Nothing in the code re-reads these
facts, so the invariant is what makes the last call safe. `CustodyKept` maps every
step to a step of `VaultCustody` or to a stutter; `TouchedSteps` says which steps
change the touched files. `OperationsRunOut` (`CallsRunOut`) is the safety half of
termination: loops, files and calls ahead, in lexicographic order, get less with every
call. The files are counted, so it needs `FiniteInv`: the backups are finite, as they
were written one by one.

**Migrations** (`MigrationRunnerProofs`). `RecordsAreAtomic`, with crashes and
rollbacks, from `DraftInv`: the draft of the process in a transaction differs from
the database in its one version, by objects only between script and record.
`PrefixKept`, `EditionKept` and `TargetReached` from `OrderInv`: as long as no
apply and rollback have overlapped, the processes that run are all of one kind, and
what each knows of the versions it has passed is still so, however many others do
the same meanwhile. `MigrationsRunOut` is the safety half of termination: `StepsLeft`
counts four steps for each version an operation has still to migrate and what is left of
the present one; each of its own steps lowers that number, the steps of others, crashes
and lock waits included, leave it alone (`LeftInv`: only an operation with a version to
migrate is in a transaction). That a fair operation is never blocked for good stays
with TLC (`OperationsEnd`).

**Snapshot** (`ControlRoomSnapshotProofs`). First what `LIMIT` does, for any set of
numbers: `FirstOf(S, k)` has at most `k` members (`FirstOfBound`, as the rank of a row is
an injection into `0 .. k - 1`), it is `S` if `S` has at most `k` (`FirstOfAll`), and,
the reason for fetching one more than is shown, it is `S` if it has less members than
were asked for (`FirstOfCut`). The five theorems are one invariant, `RequestInv`, which TLC
has confirmed on the states of the run `snapshot` before it was proved:

* `NotesInv`: a note that was readable since the request began is in a zone not walked
  yet, is listed, or has been read as a note of the same resource, or `truncated` or a
  warning of a zone is already certain. Notes may be rewritten between the walk and the
  reading and after it, but only to the same resource, or they are not steady;
* `QueueInv` and `RowsInv`: what was fetched is all that was there, or more than may be
  shown; each statement sees its own state of the store, so this is all that can be
  carried from one to the next;
* `NoAnswerYet` and `AnswerStands`: nothing moves between an answer and its delivery.

`NotesAreShown`, `AnswersHideNothing`, `LiveIsRecent` and `JoinsAgree` follow where the
answer is assembled (`DurableAssembled` and the lemmas after it). `MergedFinite` is
needed there: with finitely many notes there are finitely many runs to merge, so that
an answer which is not truncated has left none of them out; and `ToldIs`, that of
several copies of a note there is a last.

**View** (`ControlRoomViewProofs`). `TypeCorrect` and `LabelsMatch` are inductive or
nearly so. `TimersTracked` holds for any number of overlapping saves: the running
intervals are none or the one whose handle is held, and it is the order of clear and
set within `saveSettings` that keeps it so. `OneRefresh` assumes that every answer
can be rendered, without which `view_unrenderable` shows it false; it rests on
`WaitInv`: the flag is up exactly while there is one request, and down when the view
is closed.

**Bridge** (`ValidationBridgeProofs`). `NothingMissed` is `SafeScanMissesNothing` for
any tree, any directories and any limit, with changes at any moment; `Problems` has
what can be read in it and nothing that is hidden. The problems
that have been there since the scan began only get fewer, and `ScanInv` says where
each of them that has not raised an issue still is: before the comparison
(`Listed`), in a directory that is not listed yet or among the candidates; after it
(`Compared`), invalid files among the candidates not yet loaded, and nothing else.
The count is carried along: as long as there is no issue, the entries that have been
there all the time in the directories already listed are no more than `seen`.
`TypeCorrect` has the limit on the candidates in it. `NoAlarmWithoutCause`
(`NoFalseAlarm`) is the other direction: `Calm` says that an undisturbed scan of a tree
in order has counted exactly the entries of the directories it has listed, which are
no more than the limit, and has taken nothing but valid files; `Idle`, that nothing is left
of an earlier scan when one begins.

**Command line** (`CommandLineProofs`). `ZonesApart`: what `load_config` compares pair
by pair is enough for everything below, as two roots that hold one place lie one in
the other. `StoresWhereAsked` (`StoresAppearWhereAsked`) from `StillSo`: what was
checked and looked for is still so when the database is opened, if nothing went.

**Notes** (also `CommandLineProofs`). `ApprovalsTellEdits` from `ReviewInv`: a note whose
approval has not been replaced carries the hash of a routine that was validated, and
what was approved are the fields its author wrote in that one; edits and repeated
approvals keep this. That hashes are equal exactly if these fields are is `SameHash`.
`TasksStayInScope` rests on `GrantsReach`: for any path and any grant that parse,
`_scope_allows`, which cuts slashes and the terminal `/**` by two different rules,
says yes only if the path without its slashes is the grant or is below its
directory.

### Only model-checked

* Liveness (`OperationsEnd` of the migrations, `SettingsReachTheView`,
  `ProblemStopsBridge`, `RepairLetsItRun`) is beyond the prover, as `ENABLED` is. Every
  other property of a passing run is a theorem.

`TypeOK` of the view, the bridge and the command line is a theorem and is not among
the properties of their runs.

## 5. What is not modelled, and why

* Of `resources/`: frontmatter, bytes, the form of single fields, the normalisation
  of `canonical.py` before hashing, and the schemas of runs, approvals and executors.
  They are pure functions of one document without relations to anything else, and
  unit tests reach them; a note they refuse is `broken`.
* `domain/ids.py`, `schedule.py`: pure functions on strings.
* `security/paths.py`: `resolve_existing` and `same_filesystem` have no caller yet.
* Of the command line: `validate schemas` and `migrate-v1`, which change nothing and
  read nothing that changes; the text of the reports.
* `control_room/runtimes.py`, `reference-preview.ts`, `types.ts`: constants.
* `phase_one/`, `hermes/protocol.py`, `migration/v1.py`: interfaces without an
  implementation and constant tables.
* Authentication and routing of the HTTP server: stateless.
* `doctor` of the lifecycle is the predicate `Healthy`. Validation of paths and of
  the manifest's shape is left out of the lifecycle: the files of the model have
  safe paths.
* In the snapshot: the runtime catalogue and the formats of fields.
* In the plugin: the panels, the capture dialogue, `decodeSnapshot` field by field.

## 6. Plan

Done, in this order: the store and its ledger; the lifecycle manager and its custody;
the migration runner; the policy on the store; the snapshot; the view; the bridge;
proofs for the first three; tasks, copies and the queue in the snapshot;
configuration, notes and the command line; proofs for the view, the bridge, the
command line and the notes; for the policy, the snapshot, and the measures by
which lifecycle operations and migrations end.

To come:

1. *Proofs*: the snapshot's promises over a store instead of free rows, once it is
   composed (3).
2. *Modelling*: the capture dialogue (`writeProposal`, `ensureFolder`) beside the
   view; two lifecycle processes, with the promise that would hold for them.
3. *Composition*: the snapshot reading an `OperationalStore` instead of free rows; the
   view polling the snapshot.
