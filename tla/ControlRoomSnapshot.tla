------------------------- MODULE ControlRoomSnapshot -------------------------
(***************************************************************************)
(* One control-room request: ControlRoomSnapshotAssembler walks the two    *)
(* zones of the vault, reads the notes it found one by one, then the       *)
(* coordination store with one SELECT after the other, none of them in a   *)
(* common transaction, and merges what it got.  Users, agents and the      *)
(* bridge go on writing, copying and moving notes and rows meanwhile, and  *)
(* the store may go away between any two statements.                       *)
(*                                                                         *)
(* Runs stand for the three collections that are merged from notes and     *)
(* rows (runs, approvals, activity).  Tasks have notes only and are joined *)
(* with the queue, which has rows only.  Ids are numbers, and their order  *)
(* is the order of the ORDER BY clauses; paths are numbers in the order of *)
(* their names.  Two notes may name the same run or task: a copy, or what  *)
(* a synchronisation left behind.  A note that is not a v2 resource is     *)
(* invisible to the reader and left out.                                   *)
(***************************************************************************)
EXTENDS Naturals, FiniteSets

CONSTANTS
  ReadOnlyPaths, ReadWritePaths,
  RunIds, TaskIds, CommandIds,
  TaskOf,      \* the task of each command
  RunStates,
  Runtimes,    \* runtimes the profiles of tasks are mapped to
  Limits,      \* what SnapshotLimits.max_items_per_collection may be
  NoNote, Unreadable, NoRow, NoSnapshot

Paths == ReadOnlyPaths \cup ReadWritePaths

VARIABLES
  limit,      \* max_items_per_collection of this server
  notes,      \* what is at each path
  runs,       \* rows of the runs table
  queued,     \* commands in a state that is not terminal
  step,       \* where the request is
  todo,       \* listed notes it has not read
  documents,  \* what it has read of the notes, and of the two tables
  queueRows, runRows,
  cut,        \* VaultState.truncated
  warnings,
  snapshot,   \* the answer
  steadyNotes, steadyQueued,  \* auxiliary: readable, queued since it began
  watched, held               \* auxiliary: what the row of one run was since then

world == <<limit, notes, runs, queued>>

reader == <<step, todo, documents, queueRows, runRows, cut, warnings, snapshot>>

history == <<steadyNotes, steadyQueued, watched, held>>

vars == <<world, reader, history>>

RunNotes == [run: RunIds, state: RunStates]

TaskNotes == [task: TaskIds, runtime: Runtimes]

Notes == RunNotes \cup TaskNotes

ASSUME SnapshotConstants ==
  /\ Paths \subseteq Nat /\ RunIds \subseteq Nat /\ CommandIds \subseteq Nat
  /\ \A p \in ReadOnlyPaths, q \in ReadWritePaths : p < q
  /\ TaskOf \in [CommandIds -> TaskIds]
  /\ Limits \subseteq Nat \ {0}
  /\ NoNote \notin Notes /\ NoRow \notin Runtimes

(* Both are notes of one and the same resource.                            *)
SameResource(m, n) ==
  \/ m \in RunNotes /\ n \in RunNotes /\ m.run = n.run
  \/ m \in TaskNotes /\ n \in TaskNotes /\ m.task = n.task

PartialFunctions(S, T) == UNION {[D -> T] : D \in SUBSET S}

ShownRun == [state: RunStates, source: {"markdown", "sqlite-overlay"}]

ShownTask == [task: TaskIds, runtime: Runtimes, queued: CommandIds \cup {NoRow}]

TooMany(S) == Cardinality(S) > limit

Warnings == {"zone", "note", "store"} \X (Paths \cup {0, 1})

TypeOK ==
  /\ limit \in Limits
  /\ notes \in [Paths -> Notes \cup {NoNote, Unreadable}]
  /\ runs \in [RunIds -> RunStates \cup {NoRow}]
  /\ queued \subseteq CommandIds
  /\ step \in {"idle", "ReadOnly", "ReadWrite", "notes", "connect", "queue", "runs",
               "rest", "assemble", "answered"}
  /\ todo \subseteq Paths
  /\ documents \in PartialFunctions(Paths, Notes)
  /\ ~TooMany(DOMAIN documents)
  /\ queueRows \subseteq CommandIds /\ Cardinality(queueRows) <= limit + 1
  /\ runRows \in PartialFunctions(RunIds, RunStates)
  /\ Cardinality(DOMAIN runRows) <= limit + 1
  /\ cut \in BOOLEAN /\ warnings \subseteq Warnings
  /\ snapshot # NoSnapshot =>
       /\ snapshot.queue \in PartialFunctions(CommandIds, Runtimes \cup {NoRow})
       /\ snapshot.tasks \in PartialFunctions(Paths, ShownTask)
       /\ snapshot.runs \in PartialFunctions(RunIds, ShownRun)
       /\ \A shown \in {DOMAIN snapshot.queue, DOMAIN snapshot.tasks, DOMAIN snapshot.runs} :
            ~TooMany(shown)

Nothing == [x \in {} |-> NoRow]

NothingRead ==
  /\ todo' = {} /\ documents' = Nothing /\ queueRows' = {} /\ runRows' = Nothing
  /\ cut' = FALSE /\ warnings' = {}

Init ==
  /\ limit \in Limits
  /\ notes = [p \in Paths |-> NoNote]
  /\ runs = [r \in RunIds |-> NoRow]
  /\ queued = {}
  /\ step = "idle" /\ todo = {} /\ documents = Nothing
  /\ queueRows = {} /\ runRows = Nothing
  /\ cut = FALSE /\ warnings = {} /\ snapshot = NoSnapshot
  /\ steadyNotes = {} /\ steadyQueued = {}
  /\ watched \in RunIds /\ held = {}

-----------------------------------------------------------------------------
(* The vault.  The paths of both zones are listed first; each is opened    *)
(* when its turn comes, and one that is gone by then is a warning like any *)
(* other error.                                                            *)

Begin ==
  /\ step = "idle"
  /\ step' = "ReadOnly"
  /\ steadyNotes' = {p \in Paths : notes[p] \in Notes}
  /\ steadyQueued' = queued
  /\ held' = {runs[watched]}
  /\ UNCHANGED <<world, todo, documents, queueRows, runRows, cut, warnings, snapshot, watched>>

Present(zone) ==
  {p \in IF zone = "ReadOnly" THEN ReadOnlyPaths ELSE ReadWritePaths : notes[p] # NoNote}

AfterZone(zone) == IF zone = "ReadOnly" THEN "ReadWrite" ELSE "notes"

WalkZone ==
  /\ step \in {"ReadOnly", "ReadWrite"}
  /\ todo' = todo \cup Present(step)
  /\ step' = AfterZone(step)
  /\ UNCHANGED <<world, documents, queueRows, runRows, cut, warnings, snapshot, history>>

(* A zone, a directory or an entry of it that cannot be read.              *)
WalkZoneInPart ==
  /\ step \in {"ReadOnly", "ReadWrite"}
  /\ \E found \in SUBSET Present(step) : found # Present(step) /\ todo' = todo \cup found
  /\ step' = AfterZone(step)
  /\ warnings' = warnings \cup {<<"zone", IF step = "ReadOnly" THEN 0 ELSE 1>>}
  /\ UNCHANGED <<world, documents, queueRows, runRows, cut, snapshot, history>>

(* max_scanned_entries, in which entries of every kind count: the walk may *)
(* end anywhere.                                                           *)
WalkCut ==
  /\ step \in {"ReadOnly", "ReadWrite"}
  /\ \E found \in SUBSET Present(step) : todo' = todo \cup found
  /\ step' = "notes" /\ cut' = TRUE
  /\ UNCHANGED <<world, documents, queueRows, runRows, warnings, snapshot, history>>

ReadNote(p) ==
  /\ step = "notes" /\ p \in todo /\ \A q \in todo : p <= q
  /\ Cardinality(DOMAIN documents) < limit
  /\ IF notes[p] \in Notes
       THEN /\ documents' = [q \in DOMAIN documents \cup {p} |->
                               IF q = p THEN notes[p] ELSE documents[q]]
            /\ UNCHANGED warnings
       ELSE warnings' = warnings \cup {<<"note", p>>} /\ UNCHANGED documents
  /\ todo' = todo \ {p}
  /\ UNCHANGED <<world, step, queueRows, runRows, cut, snapshot, history>>

NotesDone ==
  /\ step = "notes"
  /\ todo = {} \/ Cardinality(DOMAIN documents) >= limit
  /\ cut' = (cut \/ todo # {})
  /\ step' = "connect" /\ todo' = {}
  /\ UNCHANGED <<world, documents, queueRows, runRows, warnings, snapshot, history>>

-----------------------------------------------------------------------------
(* The coordination store                                                  *)

(* Mutant of FirstOf: one too many.                                        *)
FirstWithOneMore(S, k) == {x \in S : Cardinality({y \in S : y < x}) <= k}

(* The first k of S in the order of the query.                             *)
FirstOf(S, k) == {x \in S : Cardinality({y \in S : y < x}) < k}

(* Mutant of Fetched: LIMIT without the extra row.                         *)
FetchedNoMore(S) == FirstOf(S, limit)

(* LIMIT limit + 1: one row more than is shown tells that there are more.  *)
Fetched(S) == FirstOf(S, limit + 1)

Connect ==
  /\ step = "connect"
  /\ step' = "queue"
  /\ UNCHANGED <<world, todo, documents, queueRows, runRows, cut, warnings, snapshot, history>>

SelectQueue ==
  /\ step = "queue"
  /\ queueRows' = Fetched(queued)
  /\ step' = "runs"
  /\ UNCHANGED <<world, todo, documents, runRows, cut, warnings, snapshot, history>>

SelectRuns ==
  /\ step = "runs"
  /\ runRows' = [r \in Fetched({r \in RunIds : runs[r] # NoRow}) |-> runs[r]]
  /\ step' = "rest"
  /\ UNCHANGED <<world, todo, documents, queueRows, cut, warnings, snapshot, history>>

(* Approvals and events, which are merged as the runs are: only that their *)
(* statements can fail matters here.                                       *)
SelectRest ==
  /\ step = "rest"
  /\ step' = "assemble"
  /\ UNCHANGED <<world, todo, documents, queueRows, runRows, cut, warnings, snapshot, history>>

(* The store cannot be opened, or sqlite3.Error in any statement: what was *)
(* fetched so far is dropped.                                              *)
StoreFails ==
  /\ step \in {"connect", "queue", "runs", "rest"}
  /\ queueRows' = {} /\ runRows' = Nothing
  /\ warnings' = warnings \cup {<<"store", 0>>}
  /\ step' = "assemble"
  /\ UNCHANGED <<world, todo, documents, cut, snapshot, history>>

-----------------------------------------------------------------------------
(* The answer                                                              *)

Told(r) == {p \in DOMAIN documents : documents[p] \in RunNotes /\ documents[p].run = r}

ToldOfTask(t) == {p \in DOMAIN documents : documents[p] \in TaskNotes /\ documents[p].task = t}

(* Records are collected in a dictionary: of several notes the last counts. *)
Last(S) == CHOOSE p \in S : \A q \in S : q <= p

OverlayRuns == FirstOf(DOMAIN runRows, limit)

(* Mutant of MergedIds: rows alone.                                        *)
OverlayIds == OverlayRuns

MergedIds == {r \in RunIds : Told(r) # {}} \cup OverlayRuns

(* Mutant of Merged: the note's word is kept.                              *)
MergedNoteFirst(r) ==
  IF Told(r) = {}
    THEN [state |-> runRows[r], source |-> "sqlite-overlay"]
    ELSE [state |-> documents[Last(Told(r))].state, source |-> "markdown"]

(* The row's state in place of the note's, where there are both.           *)
Merged(r) ==
  IF r \in OverlayRuns
    THEN [state |-> runRows[r], source |-> "sqlite-overlay"]
    ELSE [state |-> documents[Last(Told(r))].state, source |-> "markdown"]

ShownQueue == FirstOf(queueRows, limit)

RuntimeOf(t) == IF ToldOfTask(t) = {} THEN NoRow ELSE documents[Last(ToldOfTask(t))].runtime

(* Mutant of CommandsOf: the queue as fetched, not as shown.               *)
FetchedCommandsOf(t) == {c \in queueRows : TaskOf[c] = t}

CommandsOf(t) == {c \in ShownQueue : TaskOf[c] = t}

TaskPaths == {p \in DOMAIN documents : documents[p] \in TaskNotes}

Truncated ==
  \/ cut
  \/ TooMany(queueRows) \/ TooMany(DOMAIN runRows) \/ TooMany(MergedIds) \/ TooMany(warnings)

(* A task is joined with one of its commands: which one depends on their   *)
(* not_before, which is left open here.                                    *)
Assemble ==
  /\ step = "assemble"
  /\ \E pick \in [TaskIds -> CommandIds \cup {NoRow}] :
       /\ \A t \in TaskIds : IF CommandsOf(t) = {} THEN pick[t] = NoRow ELSE pick[t] \in CommandsOf(t)
       /\ snapshot' =
            [queue |-> [c \in ShownQueue |-> RuntimeOf(TaskOf[c])],
             tasks |-> [p \in TaskPaths |->
                         [task |-> documents[p].task, runtime |-> RuntimeOf(documents[p].task),
                          queued |-> pick[documents[p].task]]],
             runs |-> [r \in FirstOf(MergedIds, limit) |-> Merged(r)],
             truncated |-> Truncated,
             degraded |-> warnings # {},
             zonesRead |-> \A w \in warnings : w[1] # "zone"]
  /\ step' = "answered" /\ NothingRead
  /\ UNCHANGED <<world, history>>

Deliver ==
  /\ step = "answered"
  /\ step' = "idle" /\ snapshot' = NoSnapshot
  /\ steadyNotes' = {} /\ steadyQueued' = {} /\ held' = {}
  /\ UNCHANGED <<world, todo, documents, queueRows, runRows, cut, warnings, watched>>

(* 503: an error of the file system outside of what is caught, or an       *)
(* answer larger than max_response_bytes.                                  *)
Refuse ==
  /\ step \in {"ReadOnly", "ReadWrite", "assemble"}
  /\ step' = "idle" /\ NothingRead
  /\ steadyNotes' = {} /\ steadyQueued' = {} /\ held' = {}
  /\ UNCHANGED <<world, snapshot, watched>>

ReaderStep ==
  \/ Begin \/ WalkZone \/ WalkZoneInPart \/ WalkCut \/ NotesDone
  \/ \E p \in Paths : ReadNote(p)
  \/ Connect \/ SelectQueue \/ SelectRuns \/ SelectRest \/ StoreFails
  \/ Assemble \/ Deliver \/ Refuse

-----------------------------------------------------------------------------
(* Everyone else.  What the world does between an answer and the next      *)
(* request is left to the next request.                                    *)

NoteWritten(p, content) ==
  /\ step # "answered" /\ notes[p] # content
  /\ notes' = [notes EXCEPT ![p] = content]
  /\ steadyNotes' = IF SameResource(notes[p], content) THEN steadyNotes ELSE steadyNotes \ {p}
  /\ UNCHANGED <<limit, runs, queued, reader, steadyQueued, watched, held>>

(* A run keeps its row once it has one.                                    *)
RowWritten(r, state) ==
  /\ step # "answered" /\ runs[r] # state
  /\ runs' = [runs EXCEPT ![r] = state]
  /\ held' = IF r = watched /\ step # "idle" THEN held \cup {state} ELSE held
  /\ UNCHANGED <<limit, notes, queued, reader, steadyNotes, steadyQueued, watched>>

QueueChanges(commands) ==
  /\ step # "answered" /\ queued # commands
  /\ queued' = commands
  /\ steadyQueued' = steadyQueued \cap commands
  /\ UNCHANGED <<limit, notes, runs, reader, steadyNotes, watched, held>>

Elsewhere ==
  \/ \E p \in Paths, content \in Notes \cup {NoNote, Unreadable} : NoteWritten(p, content)
  \/ \E r \in RunIds, state \in RunStates : RowWritten(r, state)
  \/ \E commands \in SUBSET CommandIds : QueueChanges(commands)

Next == ReaderStep \/ Elsewhere

Spec == Init /\ [][Next]_vars

-----------------------------------------------------------------------------
(* What an answer promises.  The parts of the answer are read at different *)
(* times: a promise can only be about what stood still, or about what      *)
(* something was at some time since the request began.                     *)

Answered == snapshot # NoSnapshot

Complete == Answered /\ ~snapshot.truncated /\ ~snapshot.degraded

(* Notes that can be read are never lost on the way, even if the store is  *)
(* away or another note is broken: in an answer that is not truncated and  *)
(* had both zones to read, a note that was there all the time is shown,    *)
(* under its id if it is a run's.                                          *)
DurableShown ==
  Answered /\ ~snapshot.truncated /\ snapshot.zonesRead =>
    \A p \in steadyNotes :
      IF notes[p] \in RunNotes THEN notes[p].run \in DOMAIN snapshot.runs
                               ELSE p \in DOMAIN snapshot.tasks

(* An answer that says neither truncated nor degraded hides nothing: the   *)
(* commands queued all along are in the queue, and so is the run that had  *)
(* a row all along.                                                        *)
NothingHidden ==
  Complete =>
    /\ steadyQueued \subseteq DOMAIN snapshot.queue
    /\ NoRow \notin held => watched \in DOMAIN snapshot.runs

(* What an answer says of a run in the name of the store is a state its    *)
(* row had since the request began; a state from before, or one no row had *)
(* at all, is never shown as live.  A complete answer says what the row    *)
(* said if it had one all along.                                           *)
LiveStateIsLive ==
  /\ Answered /\ watched \in DOMAIN snapshot.runs /\ snapshot.runs[watched].source = "sqlite-overlay" =>
       snapshot.runs[watched].state \in held
  /\ Complete /\ NoRow \notin held =>
       snapshot.runs[watched].source = "sqlite-overlay"

(* The two joins of an answer agree.  The command a task is shown with is  *)
(* in the queue of the same answer and belongs to that task; a task with   *)
(* commands in the queue is shown with one of them; they are given the     *)
(* runtime of the task, whichever of its copies a reader looks at; and in  *)
(* a complete answer no command is left without the task whose note was    *)
(* there all the time.                                                     *)
TasksAgreeWithQueue ==
  Answered =>
    /\ \A p \in DOMAIN snapshot.tasks :
         LET shown == snapshot.tasks[p]
             commands == {c \in DOMAIN snapshot.queue : TaskOf[c] = shown.task}
         IN  /\ IF commands = {} THEN shown.queued = NoRow ELSE shown.queued \in commands
             /\ \A c \in commands : snapshot.queue[c] = shown.runtime
    /\ Complete =>
         \A c \in DOMAIN snapshot.queue, p \in steadyNotes :
           notes[p] \in TaskNotes /\ notes[p].task = TaskOf[c] => snapshot.queue[c] # NoRow
=============================================================================
