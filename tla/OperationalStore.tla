--------------------------- MODULE OperationalStore ---------------------------
(***************************************************************************)
(* The operational store of the Hermes bridge: the SQLite schema of        *)
(* store/migrations/0001_initial.up.sql, read as a state machine.  The     *)
(* tables are variables, and an INSERT, UPDATE or DELETE is an action      *)
(* whose guard is what the schema demands of the statement: its PRIMARY    *)
(* KEY, UNIQUE, CHECK and FOREIGN KEY clauses and its RAISE(ABORT)         *)
(* triggers.  A statement the schema refuses changes nothing and is no     *)
(* step.                                                                   *)
(*                                                                         *)
(* open_database turns foreign keys on and the schema declares every one   *)
(* RESTRICT, so each statement is checked when it runs and every state     *)
(* inside a transaction obeys the constraints too; one step is one         *)
(* statement.  Writers hold BEGIN IMMEDIATE, so statements of different    *)
(* transactions never interleave.  An UPDATE of a key column of a row no   *)
(* other row references is a DELETE followed by an INSERT and has no       *)
(* action of its own; statements with a conflict clause (INSERT OR         *)
(* REPLACE) are not used on these tables and are not modelled.             *)
(*                                                                         *)
(* A table is a function from the values of its primary key to rows;       *)
(* NoRow marks the key values no row has.  Null is SQL's NULL.  Columns    *)
(* that no constraint and no property tells apart (payloads, timestamps,   *)
(* token counts, the state of a run) are left out of the rows.             *)
(***************************************************************************)
EXTENDS Naturals

CONSTANTS
  ResourceIds,     \* (schema_name, resource_id) pairs
  TaskIds,         \* those of them with schema hermes.task/v2
  Generations,     \* bound on resources.generation
  Hashes,          \* specification hashes
  Paths,           \* vault paths
  CommandIds, TraceIds,
  CommandStates,   \* the states of the enumeration a run distinguishes
  RunIds, AttemptNumbers,
  Executors,       \* (profile, vault_id, executor_id) triples of the fence
  Epochs,          \* bound on fence.epoch
  ReceiptIds, StepIds, IdempotencyKeys,
  ReceiptStatuses, \* the statuses of the enumeration a run distinguishes
  ApprovalIds, EventIds,
  Sequences,       \* bound on events.sequence
  Destinations,
  NoRow, Null

TerminalStates ==
  {"completed", "blocked", "failed", "cancelled", "dead_letter", "superseded"}

LiveStates ==
  {"queued", "validated", "claimed", "running", "awaiting_approval",
   "retry_scheduled", "verifying"}

ReceiptKinds == {"step", "terminal", "dedupe"}

ActionClasses == {"bulk_vault_write", "external_write", "routine_change"}

ResourceRow == [hash: Hashes, path: Paths, current: BOOLEAN]

CommandRow ==
  [task: TaskIds, generation: Generations \ {0}, trace: TraceIds,
   hash: Hashes, state: CommandStates]

RunRow ==
  [command: CommandIds, task: TaskIds, generation: Generations \ {0},
   trace: TraceIds, attempt: AttemptNumbers]

FenceRow == [executor: Executors, epoch: Epochs]

LeaseRow == [run: RunIds, epoch: Epochs]

ReceiptRow ==
  [command: CommandIds, trace: TraceIds, run: RunIds \cup {Null},
   step: StepIds, kind: ReceiptKinds, key: IdempotencyKeys,
   status: ReceiptStatuses]

(* task, generation and run are Null for the routine-spec subject.  signer  *)
(* stands for decided_by, attestation_key_id and attestation_signature.    *)
ApprovalRow ==
  [class: ActionClasses, trace: TraceIds, run: RunIds \cup {Null},
   task: TaskIds \cup {Null}, generation: Generations \cup {Null},
   decision: {"pending", "approved", "rejected"},
   decidedAt: {Null, "set"}, method: {Null, "local-bridge", "signature"},
   signer: {Null, "set"}]

EventRow ==
  [trace: TraceIds, sequence: Sequences, command: CommandIds \cup {Null},
   run: RunIds \cup {Null}, task: TaskIds \cup {Null},
   generation: Generations \cup {Null}]

OutboxRow == {"pending", "delivered"}

ASSUME StoreConstants ==
  /\ TaskIds \subseteq ResourceIds
  /\ Generations \subseteq Nat /\ Epochs \subseteq Nat \ {0}
  /\ Sequences \subseteq Nat /\ AttemptNumbers \subseteq Nat \ {0}
  /\ CommandStates \subseteq TerminalStates \cup LiveStates
  /\ ReceiptStatuses \subseteq TerminalStates \cup {"deduplicated"}
  /\ Null \notin RunIds \cup CommandIds \cup ResourceIds
  /\ Null \notin Generations /\ Null \notin {"set", "local-bridge", "signature"}
  /\ NoRow \notin ResourceRow \cup CommandRow \cup RunRow \cup FenceRow
                  \cup LeaseRow \cup ReceiptRow \cup ApprovalRow
                  \cup EventRow \cup OutboxRow \cup TerminalStates

VARIABLES resources, commands, runs, fence, leases, receipts, approvals,
          events, outbox

vars == <<resources, commands, runs, fence, leases, receipts, approvals,
          events, outbox>>

TypeOK ==
  /\ resources \in [ResourceIds \X Generations -> ResourceRow \cup {NoRow}]
  /\ commands  \in [CommandIds -> CommandRow \cup {NoRow}]
  /\ runs      \in [RunIds -> RunRow \cup {NoRow}]
  /\ fence     \in FenceRow \cup {NoRow}
  /\ leases    \in [CommandIds -> LeaseRow \cup {NoRow}]
  /\ receipts  \in [ReceiptIds -> ReceiptRow \cup {NoRow}]
  /\ approvals \in [ApprovalIds -> ApprovalRow \cup {NoRow}]
  /\ events    \in [EventIds -> EventRow \cup {NoRow}]
  /\ outbox    \in [EventIds \X Destinations -> OutboxRow \cup {NoRow}]

Init ==
  /\ resources = [rg \in ResourceIds \X Generations |-> NoRow]
  /\ commands  = [c \in CommandIds |-> NoRow]
  /\ runs      = [r \in RunIds |-> NoRow]
  /\ fence     = NoRow
  /\ leases    = [c \in CommandIds |-> NoRow]
  /\ receipts  = [rc \in ReceiptIds |-> NoRow]
  /\ approvals = [a \in ApprovalIds |-> NoRow]
  /\ events    = [e \in EventIds |-> NoRow]
  /\ outbox    = [ed \in EventIds \X Destinations |-> NoRow]

-----------------------------------------------------------------------------
(* Foreign keys: the composite keys the child tables reference.            *)

(* How a terminal receipt's status names the state it decides.             *)
Outcome(status) == IF status = "deduplicated" THEN "completed" ELSE status

ResourceExists(t, g) == resources[<<t, g>>] # NoRow

CommandHasTrace(c, trace) == commands[c] # NoRow /\ commands[c].trace = trace

CommandIs(c, t, g, trace) ==
  /\ CommandHasTrace(c, trace)
  /\ commands[c].task = t /\ commands[c].generation = g

RunIs(r, c, trace) ==
  runs[r] # NoRow /\ runs[r].command = c /\ runs[r].trace = trace

(* The status of a terminal receipt that admits the terminal state s.      *)
Admits(status, s) == status = s \/ (s = "completed" /\ status = "deduplicated")

TerminalReceipt(rc, c) ==
  receipts[rc] # NoRow /\ receipts[rc].command = c
    /\ receipts[rc].kind = "terminal"

-----------------------------------------------------------------------------
(* resources.  resources_specification_is_immutable leaves only the path,  *)
(* the currency flag and the observed columns to UPDATE.                   *)

(* Mutant of MayBeCurrent: resources_one_current_path is missing.          *)
MayBeCurrentAnyPath(r, g, p) ==
  \A rg \in (ResourceIds \X Generations) \ {<<r, g>>} :
    resources[rg] # NoRow /\ resources[rg].current => rg[1] # r

(* resources_one_current_generation, resources_one_current_path            *)
MayBeCurrent(r, g, p) ==
  \A rg \in (ResourceIds \X Generations) \ {<<r, g>>} :
    resources[rg] # NoRow /\ resources[rg].current =>
      rg[1] # r /\ resources[rg].path # p

InsertResource(r, g, h, p, current) ==
  /\ resources[<<r, g>>] = NoRow
  /\ current => MayBeCurrent(r, g, p)
  /\ resources' = [resources EXCEPT
                     ![<<r, g>>] = [hash |-> h, path |-> p, current |-> current]]
  /\ UNCHANGED <<commands, runs, fence, leases, receipts, approvals, events, outbox>>

UpdateResource(r, g, p, current) ==
  /\ resources[<<r, g>>] # NoRow
  /\ current => MayBeCurrent(r, g, p)
  /\ resources' = [resources EXCEPT ![<<r, g>>] =
                     [hash |-> @.hash, path |-> p, current |-> current]]
  /\ UNCHANGED <<commands, runs, fence, leases, receipts, approvals, events, outbox>>

(* Mutant of ResourceReferenced: commands cascade instead of RESTRICT.     *)
ResourceReferencedByRecords(r, g) ==
  \/ \E a \in ApprovalIds : approvals[a] # NoRow /\ approvals[a].task = r
                              /\ approvals[a].generation = g
  \/ \E e \in EventIds : events[e] # NoRow /\ events[e].task = r
                           /\ events[e].generation = g

ResourceReferenced(r, g) ==
  \/ \E c \in CommandIds : commands[c] # NoRow /\ commands[c].task = r
                             /\ commands[c].generation = g
  \/ \E a \in ApprovalIds : approvals[a] # NoRow /\ approvals[a].task = r
                              /\ approvals[a].generation = g
  \/ \E e \in EventIds : events[e] # NoRow /\ events[e].task = r
                           /\ events[e].generation = g

DeleteResource(r, g) ==
  /\ resources[<<r, g>>] # NoRow
  /\ ~ResourceReferenced(r, g)
  /\ resources' = [resources EXCEPT ![<<r, g>>] = NoRow]
  /\ UNCHANGED <<commands, runs, fence, leases, receipts, approvals, events, outbox>>

-----------------------------------------------------------------------------
(* commands.  commands_specification_is_immutable leaves state and the     *)
(* retry columns to UPDATE.                                                *)

InsertCommand(c, t, g, trace, h, s) ==
  /\ commands[c] = NoRow
  /\ \A d \in CommandIds : commands[d] # NoRow =>
       commands[d].trace # trace
         /\ (commands[d].task # t \/ commands[d].generation # g)
  /\ ResourceExists(t, g) /\ resources[<<t, g>>].hash = h
  /\ s \notin TerminalStates
  /\ commands' = [commands EXCEPT ![c] =
                    [task |-> t, generation |-> g, trace |-> trace,
                     hash |-> h, state |-> s]]
  /\ UNCHANGED <<resources, runs, fence, leases, receipts, approvals, events, outbox>>

(* Mutant of HasReceiptFor: the trigger asks for some terminal receipt.    *)
HasSomeTerminalReceipt(c, s) == \E rc \in ReceiptIds : TerminalReceipt(rc, c)

HasReceiptFor(c, s) ==
  \E rc \in ReceiptIds :
    TerminalReceipt(rc, c) /\ Admits(receipts[rc].status, s)

(* Mutant of UpdateCommandState: the state is copied from the receipt, and  *)
(* "deduplicated" is not a state.                                          *)
CopyReceiptStatus(c, s) ==
  /\ commands[c] # NoRow
  /\ commands[c].state \in TerminalStates => s = commands[c].state
  /\ \/ s \in LiveStates
     \/ \E rc \in ReceiptIds : TerminalReceipt(rc, c) /\ receipts[rc].status = s
     \/ s = "completed" /\ HasReceiptFor(c, s)
  /\ commands' = [commands EXCEPT ![c].state =
                    IF s \in LiveStates THEN s
                    ELSE receipts[CHOOSE rc \in ReceiptIds : TerminalReceipt(rc, c)].status]
  /\ UNCHANGED <<resources, runs, fence, leases, receipts, approvals, events, outbox>>

(* commands_require_terminal_receipt, commands_terminal_state_is_immutable *)
UpdateCommandState(c, s) ==
  /\ commands[c] # NoRow
  /\ commands[c].state \in TerminalStates => s = commands[c].state
  /\ s \in TerminalStates /\ commands[c].state \notin TerminalStates =>
       HasReceiptFor(c, s)
  /\ commands' = [commands EXCEPT ![c].state = s]
  /\ UNCHANGED <<resources, runs, fence, leases, receipts, approvals, events, outbox>>

(* Mutant of CommandReferenced: a pre-run receipt does not pin its command. *)
CommandReferencedByRuns(c) ==
  \/ \E r \in RunIds : runs[r] # NoRow /\ runs[r].command = c
  \/ leases[c] # NoRow
  \/ \E e \in EventIds : events[e] # NoRow /\ events[e].command = c

CommandReferenced(c) ==
  \/ \E r \in RunIds : runs[r] # NoRow /\ runs[r].command = c
  \/ leases[c] # NoRow
  \/ \E rc \in ReceiptIds : receipts[rc] # NoRow /\ receipts[rc].command = c
  \/ \E e \in EventIds : events[e] # NoRow /\ events[e].command = c

DeleteCommand(c) ==
  /\ commands[c] # NoRow
  /\ ~CommandReferenced(c)
  /\ commands' = [commands EXCEPT ![c] = NoRow]
  /\ UNCHANGED <<resources, runs, fence, leases, receipts, approvals, events, outbox>>

-----------------------------------------------------------------------------
(* runs.  No trigger protects a run; its key columns are pinned only by    *)
(* the rows that reference them.                                           *)

FreshAttempt(r, c, n) ==
  \A q \in RunIds \ {r} : runs[q] # NoRow =>
    runs[q].command # c \/ runs[q].attempt # n

InsertRun(r, c, t, g, trace, n) ==
  /\ runs[r] = NoRow
  /\ FreshAttempt(r, c, n)
  /\ CommandIs(c, t, g, trace)
  /\ runs' = [runs EXCEPT ![r] = [command |-> c, task |-> t, generation |-> g,
                                  trace |-> trace, attempt |-> n]]
  /\ UNCHANGED <<resources, commands, fence, leases, receipts, approvals, events, outbox>>

UpdateRunAttempt(r, n) ==
  /\ runs[r] # NoRow
  /\ FreshAttempt(r, runs[r].command, n)
  /\ runs' = [runs EXCEPT ![r].attempt = n]
  /\ UNCHANGED <<resources, commands, fence, leases, receipts, approvals, events, outbox>>

(* Mutant of RunReferenced: approvals do not pin the run they are for.     *)
RunReferencedByExecution(r) ==
  \/ \E c \in CommandIds : leases[c] # NoRow /\ leases[c].run = r
  \/ \E rc \in ReceiptIds : receipts[rc] # NoRow /\ receipts[rc].run = r
  \/ \E e \in EventIds : events[e] # NoRow /\ events[e].run = r

RunReferenced(r) ==
  \/ \E c \in CommandIds : leases[c] # NoRow /\ leases[c].run = r
  \/ \E rc \in ReceiptIds : receipts[rc] # NoRow /\ receipts[rc].run = r
  \/ \E a \in ApprovalIds : approvals[a] # NoRow /\ approvals[a].run = r
  \/ \E e \in EventIds : events[e] # NoRow /\ events[e].run = r

DeleteRun(r) ==
  /\ runs[r] # NoRow
  /\ ~RunReferenced(r)
  /\ runs' = [runs EXCEPT ![r] = NoRow]
  /\ UNCHANGED <<resources, commands, fence, leases, receipts, approvals, events, outbox>>

-----------------------------------------------------------------------------
(* fence and leases.  leases.fence_epoch references the epoch of the one   *)
(* fence row, so a lease pins it: no trigger refuses DELETE on fence.      *)

(* Mutant of EpochLeased: the key of leases compared with the wrong epoch. *)
NextEpochLeased(e) ==
  \E c \in CommandIds : leases[c] # NoRow /\ leases[c].epoch = e + 1

EpochLeased(e) == \E c \in CommandIds : leases[c] # NoRow /\ leases[c].epoch = e

InsertFence(x, e) ==
  /\ fence = NoRow
  /\ fence' = [executor |-> x, epoch |-> e]
  /\ UNCHANGED <<resources, commands, runs, leases, receipts, approvals, events, outbox>>

(* fence_epoch_is_monotonic, fence_owner_change_requires_new_epoch         *)
UpdateFence(x, e) ==
  /\ fence # NoRow
  /\ e > fence.epoch
  /\ ~EpochLeased(fence.epoch)
  /\ fence' = [executor |-> x, epoch |-> e]
  /\ UNCHANGED <<resources, commands, runs, leases, receipts, approvals, events, outbox>>

DeleteFence ==
  /\ fence # NoRow
  /\ ~EpochLeased(fence.epoch)
  /\ fence' = NoRow
  /\ UNCHANGED <<resources, commands, runs, leases, receipts, approvals, events, outbox>>

InsertLease(c, r, e) ==
  /\ leases[c] = NoRow
  /\ \A d \in CommandIds : leases[d] # NoRow => leases[d].run # r
  /\ commands[c] # NoRow
  /\ runs[r] # NoRow /\ runs[r].command = c
  /\ fence # NoRow /\ fence.epoch = e
  /\ leases' = [leases EXCEPT ![c] = [run |-> r, epoch |-> e]]
  /\ UNCHANGED <<resources, commands, runs, fence, receipts, approvals, events, outbox>>

DeleteLease(c) ==
  /\ leases[c] # NoRow
  /\ leases' = [leases EXCEPT ![c] = NoRow]
  /\ UNCHANGED <<resources, commands, runs, fence, receipts, approvals, events, outbox>>

-----------------------------------------------------------------------------
(* receipts.  receipts_are_immutable_on_update and _on_delete refuse every *)
(* other statement.                                                        *)

(* Mutant of Undecided: receipts_one_terminal_per_command covers only      *)
(* commands that have not terminated.                                      *)
NotTerminated(c) ==
  commands[c] # NoRow => commands[c].state \notin TerminalStates

(* receipts_one_terminal_per_command                                       *)
Undecided(c) == \A q \in ReceiptIds : ~TerminalReceipt(q, c)

InsertReceipt(rc, c, trace, r, step, kind, key, status) ==
  /\ receipts[rc] = NoRow
  /\ kind = "terminal" \/ r # Null
  /\ \A q \in ReceiptIds : receipts[q] # NoRow =>
       /\ receipts[q].key # key
       /\ receipts[q].command # c \/ receipts[q].step # step
  /\ kind = "terminal" => Undecided(c)
  /\ CommandHasTrace(c, trace)
  /\ r # Null => RunIs(r, c, trace)
  /\ receipts' = [receipts EXCEPT ![rc] =
                    [command |-> c, trace |-> trace, run |-> r, step |-> step,
                     kind |-> kind, key |-> key, status |-> status]]
  /\ UNCHANGED <<resources, commands, runs, fence, leases, approvals, events, outbox>>

-----------------------------------------------------------------------------
(* approvals                                                               *)

(* The CHECK over the decision columns.  Its conjuncts compare columns     *)
(* that may be NULL, and a CHECK only refuses a row when it is FALSE: a    *)
(* conjunct that is NULL refuses nothing.  Only decided_at is tested with  *)
(* IS NOT NULL; method and signer pass when they are NULL.                 *)
DecisionCheck(a) ==
  IF a.decision = "pending"
    THEN a.decidedAt = Null /\ a.method = Null /\ a.signer = Null
    ELSE /\ a.decidedAt # Null
         /\ a.class = "routine_change" => a.method \in {Null, "signature"}

(* A task plan is approved for one run; a routine specification for none.  *)
SubjectCheck(a) ==
  IF a.class = "routine_change"
    THEN a.run = Null /\ a.task = Null /\ a.generation = Null
    ELSE /\ a.run # Null /\ runs[a.run] # NoRow
         /\ runs[a.run].task = a.task /\ runs[a.run].generation = a.generation
         /\ runs[a.run].trace = a.trace
         /\ ResourceExists(a.task, a.generation)

InsertApproval(a, row) ==
  /\ approvals[a] = NoRow
  /\ DecisionCheck(row)
  /\ SubjectCheck(row)
  /\ approvals' = [approvals EXCEPT ![a] = row]
  /\ UNCHANGED <<resources, commands, runs, fence, leases, receipts, events, outbox>>

(* Mutant of MayDecide: a rejection may be reconsidered.                   *)
NotYetApproved(old) == old # "approved"

MayDecide(old) == old = "pending"

(* approvals_subject_is_immutable, approvals_decision_is_one_way,          *)
(* approvals_are_immutable_on_delete: one decision, and nothing else       *)
DecideApproval(a, decision, method, signer) ==
  /\ approvals[a] # NoRow
  /\ MayDecide(approvals[a].decision)
  /\ decision \in {"approved", "rejected"}
  /\ LET row == [approvals[a] EXCEPT !.decision = decision, !.decidedAt = "set",
                                     !.method = method, !.signer = signer]
     IN  /\ DecisionCheck(row)
         /\ approvals' = [approvals EXCEPT ![a] = row]
  /\ UNCHANGED <<resources, commands, runs, fence, leases, receipts, events, outbox>>

-----------------------------------------------------------------------------
(* events and outbox.  events_are_append_only_on_update and _on_delete     *)
(* refuse every statement but INSERT.                                      *)

EventSubjectExists(row) ==
  /\ row.task = Null <=> row.generation = Null
  /\ row.task # Null => ResourceExists(row.task, row.generation)
  /\ row.run # Null => row.command # Null /\ RunIs(row.run, row.command, row.trace)
  /\ row.command # Null => CommandHasTrace(row.command, row.trace)

(* events_sequence_is_monotonic                                            *)
InSequence(row) ==
  \A f \in EventIds : events[f] # NoRow /\ events[f].trace = row.trace =>
    row.sequence > events[f].sequence

InsertEvent(e, row) ==
  /\ events[e] = NoRow
  /\ InSequence(row)
  /\ EventSubjectExists(row)
  /\ events' = [events EXCEPT ![e] = row]
  /\ UNCHANGED <<resources, commands, runs, fence, leases, receipts, approvals, outbox>>

InsertOutbox(e, d, s) ==
  /\ outbox[<<e, d>>] = NoRow
  /\ events[e] # NoRow
  /\ outbox' = [outbox EXCEPT ![<<e, d>>] = s]
  /\ UNCHANGED <<resources, commands, runs, fence, leases, receipts, approvals, events>>

UpdateOutbox(e, d, s) ==
  /\ outbox[<<e, d>>] # NoRow
  /\ outbox' = [outbox EXCEPT ![<<e, d>>] = s]
  /\ UNCHANGED <<resources, commands, runs, fence, leases, receipts, approvals, events>>

DeleteOutbox(e, d) ==
  /\ outbox[<<e, d>>] # NoRow
  /\ outbox' = [outbox EXCEPT ![<<e, d>>] = NoRow]
  /\ UNCHANGED <<resources, commands, runs, fence, leases, receipts, approvals, events>>

-----------------------------------------------------------------------------
ResourceStatement ==
  \E r \in ResourceIds, g \in Generations :
    \/ \E h \in Hashes, p \in Paths, current \in BOOLEAN :
         InsertResource(r, g, h, p, current)
    \/ \E p \in Paths, current \in BOOLEAN : UpdateResource(r, g, p, current)
    \/ DeleteResource(r, g)

CommandStatement ==
  \E c \in CommandIds :
    \/ \E t \in TaskIds, g \in Generations \ {0}, trace \in TraceIds,
          h \in Hashes, s \in CommandStates : InsertCommand(c, t, g, trace, h, s)
    \/ \E s \in CommandStates : UpdateCommandState(c, s)
    \/ DeleteCommand(c)

RunStatement ==
  \E r \in RunIds :
    \/ \E c \in CommandIds, t \in TaskIds, g \in Generations \ {0},
          trace \in TraceIds, n \in AttemptNumbers : InsertRun(r, c, t, g, trace, n)
    \/ \E n \in AttemptNumbers : UpdateRunAttempt(r, n)
    \/ DeleteRun(r)

FenceStatement ==
  \/ \E x \in Executors, e \in Epochs : InsertFence(x, e) \/ UpdateFence(x, e)
  \/ DeleteFence

LeaseStatement ==
  \E c \in CommandIds :
    \/ \E r \in RunIds, e \in Epochs : InsertLease(c, r, e)
    \/ DeleteLease(c)

ReceiptStatement ==
  \E rc \in ReceiptIds, c \in CommandIds, trace \in TraceIds,
     r \in RunIds \cup {Null}, step \in StepIds, kind \in ReceiptKinds,
     key \in IdempotencyKeys, status \in ReceiptStatuses :
    InsertReceipt(rc, c, trace, r, step, kind, key, status)

ApprovalStatement ==
  \E a \in ApprovalIds :
    \/ \E row \in ApprovalRow : InsertApproval(a, row)
    \/ \E decision \in {"approved", "rejected"},
          method \in {Null, "local-bridge", "signature"}, signer \in {Null, "set"} :
         DecideApproval(a, decision, method, signer)

EventStatement ==
  \E e \in EventIds :
    \/ \E row \in EventRow : InsertEvent(e, row)
    \/ \E d \in Destinations :
         \/ \E s \in OutboxRow : InsertOutbox(e, d, s) \/ UpdateOutbox(e, d, s)
         \/ DeleteOutbox(e, d)

Next ==
  \/ ResourceStatement
  \/ CommandStatement
  \/ RunStatement
  \/ FenceStatement
  \/ LeaseStatement
  \/ ReceiptStatement
  \/ ApprovalStatement
  \/ EventStatement

Spec == Init /\ [][Next]_vars
-----------------------------------------------------------------------------
(* Properties                                                              *)

(* Whatever is recorded about an execution leads back to the one           *)
(* specification that was executed: a run, receipt, approval or event      *)
(* agrees with its run and command on trace and task generation, and the   *)
(* resource generation the command was compiled from is still there with   *)
(* the hash the command carries.  No single constraint says so: it takes   *)
(* the composite keys of the children and RESTRICT on each parent.         *)
CommandSpecified(c) ==
  /\ commands[c] # NoRow
  /\ ResourceExists(commands[c].task, commands[c].generation)
  /\ resources[<<commands[c].task, commands[c].generation>>].hash = commands[c].hash

RunTraced(r) ==
  /\ runs[r] # NoRow
  /\ CommandIs(runs[r].command, runs[r].task, runs[r].generation, runs[r].trace)

CommandsCoherent ==
  \A c \in CommandIds : commands[c] # NoRow => CommandSpecified(c)

RunsCoherent == \A r \in RunIds : runs[r] # NoRow => RunTraced(r)

ReceiptsCoherent ==
  \A rc \in ReceiptIds : receipts[rc] # NoRow =>
    LET row == receipts[rc]
    IN  /\ CommandHasTrace(row.command, row.trace)
        /\ row.run # Null => RunIs(row.run, row.command, row.trace)

ApprovalsCoherent ==
  \A a \in ApprovalIds :
    approvals[a] # NoRow /\ approvals[a].class # "routine_change" =>
      LET row == approvals[a]
      IN  /\ row.run \in RunIds /\ RunTraced(row.run)
          /\ runs[row.run].task = row.task
          /\ runs[row.run].generation = row.generation
          /\ runs[row.run].trace = row.trace

EventsCoherent ==
  \A e \in EventIds : events[e] # NoRow =>
    LET row == events[e]
    IN  /\ row.command # Null => CommandHasTrace(row.command, row.trace)
        /\ row.run # Null => RunIs(row.run, row.command, row.trace)
        /\ row.task = Null <=> row.generation = Null
        /\ row.task # Null => ResourceExists(row.task, row.generation)

EvidenceCoherent ==
  /\ CommandsCoherent
  /\ RunsCoherent
  /\ ReceiptsCoherent
  /\ ApprovalsCoherent
  /\ EventsCoherent

(* A command is in a terminal state only with exactly one terminal         *)
(* receipt, and that receipt names the state.  UPDATE consults the         *)
(* receipts once, when the state changes; that the answer stays true is    *)
(* the work of the receipts' own triggers and of the unique index.         *)
OutcomeBacked ==
  \A c \in CommandIds : commands[c] # NoRow /\ commands[c].state \in TerminalStates =>
    \E rc \in ReceiptIds :
      /\ TerminalReceipt(rc, c)
      /\ commands[c].state = Outcome(receipts[rc].status)
      /\ \A q \in ReceiptIds : TerminalReceipt(q, c) => q = rc

(* Every lease is held for a run of the command it is on, by that run      *)
(* alone, and under the epoch the fence has now: no lease outlives the     *)
(* epoch it was taken under, whichever way the fence changed.              *)
LeaseAuthority ==
  \A c \in CommandIds : leases[c] # NoRow =>
    /\ runs[leases[c].run] # NoRow /\ runs[leases[c].run].command = c
    /\ fence # NoRow /\ fence.epoch = leases[c].epoch
    /\ \A d \in CommandIds \ {c} : leases[d] # NoRow => leases[d].run # leases[c].run

(* A resource has at most one current generation, and a vault path belongs *)
(* to the current generation of at most one resource.                      *)
OneCurrent ==
  \A rg, sh \in ResourceIds \X Generations :
    /\ resources[rg] # NoRow /\ resources[rg].current
    /\ resources[sh] # NoRow /\ resources[sh].current
    /\ rg[1] = sh[1] \/ resources[rg].path = resources[sh].path
    => rg = sh

(* Once a terminal receipt is written the outcome of its command is        *)
(* decided: receipt and command stay for good, and the only terminal state *)
(* the command can ever reach is the one the receipt names.                *)
OutcomeFinal ==
  [][\A rc \in ReceiptIds, c \in CommandIds : TerminalReceipt(rc, c) =>
       /\ receipts'[rc] = receipts[rc]
       /\ commands'[c] # NoRow
       /\ commands'[c].state \in TerminalStates =>
            commands'[c].state = Outcome(receipts[rc].status)
       /\ commands[c].state \in TerminalStates => commands'[c] = commands[c]]_vars

(* A task generation that was acted on is never rewritten: while a command *)
(* has a receipt its identity, trace and hash stay, the resource it was    *)
(* compiled from keeps that hash, and no other command is ever queued for  *)
(* the same generation.  Deleting and inserting again, two tables up, is   *)
(* the way around the triggers that RESTRICT has to close.                 *)
ExecutedGenerationFrozen ==
  [][\A rc \in ReceiptIds : receipts[rc] # NoRow =>
       LET c == receipts[rc].command
           row == commands[c]
       IN  /\ commands'[c] # NoRow
           /\ [commands'[c] EXCEPT !.state = row.state] = row
           /\ resources'[<<row.task, row.generation>>] # NoRow
           /\ resources'[<<row.task, row.generation>>].hash = row.hash
           /\ \A d \in CommandIds \ {c} : commands'[d] # NoRow =>
                commands'[d].task # row.task
                  \/ commands'[d].generation # row.generation]_vars

(* A decision is taken once, and what it was taken about stays: the row    *)
(* never changes again, and its run still belongs to the same command.     *)
DecisionFinal ==
  [][\A a \in ApprovalIds :
       approvals[a] # NoRow /\ approvals[a].decision # "pending" =>
         /\ approvals'[a] = approvals[a]
         /\ approvals[a].run # Null =>
              /\ runs'[approvals[a].run] # NoRow
              /\ runs'[approvals[a].run].command = runs[approvals[a].run].command]_vars

(* A decided approval says who decided it and how it was attested: the     *)
(* CHECK of the table lists decided_by, attestation_method and the key and *)
(* signature as what a decision must have.  NULL slips through it.         *)
DecisionsAttested ==
  \A a \in ApprovalIds : approvals[a] # NoRow /\ approvals[a].decision # "pending" =>
    approvals[a].method # Null /\ approvals[a].signer # Null

(* The fence changes hands, moves its epoch or disappears only while no    *)
(* command is leased: nothing taken under one epoch runs into another.     *)
TakeoverOnlyWhenIdle ==
  [][fence # NoRow /\ fence' # fence =>
       \A c \in CommandIds : leases[c] = NoRow /\ leases'[c] = NoRow]_vars

-----------------------------------------------------------------------------
(* What the store promises about a task generation: it is decided at most  *)
(* once, and announces what was decided.                                   *)

CommandFor(c, k) ==
  commands[c] # NoRow /\ commands[c].task = k[1] /\ commands[c].generation = k[2]

TaskGenerations == TaskIds \X (Generations \ {0})

Decides(rc, k) == \E c \in CommandIds : CommandFor(c, k) /\ TerminalReceipt(rc, c)

DecidedOutcome ==
  [k \in TaskGenerations |->
     IF \E rc \in ReceiptIds : Decides(rc, k)
       THEN Outcome(receipts[CHOOSE rc \in ReceiptIds : Decides(rc, k)].status)
       ELSE NoRow]

Terminated(c, k) == CommandFor(c, k) /\ commands[c].state \in TerminalStates

AnnouncedOutcome ==
  [k \in TaskGenerations |->
     IF \E c \in CommandIds : Terminated(c, k)
       THEN commands[CHOOSE c \in CommandIds : Terminated(c, k)].state
       ELSE NoRow]

Ledger == INSTANCE GenerationLedger WITH
  Keys <- TaskGenerations, Outcomes <- TerminalStates, None <- NoRow,
  decided <- DecidedOutcome, announced <- AnnouncedOutcome

(* The store implements the ledger of task generations.                    *)
LedgerSpec == Ledger!Spec
=============================================================================
