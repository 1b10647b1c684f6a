----------------------------- MODULE CommandLine -----------------------------
(***************************************************************************)
(* One process of the command line after another, from main to its exit    *)
(* status, in a world that users change at any moment: the configuration,  *)
(* the links its paths lead through, the databases, and the note that      *)
(* "validate resource" reads.  The commands of "lifecycle" are the subject *)
(* of LifecycleManager, and what a scan or a migration does inside that of *)
(* ValidationBridge and MigrationRunner; here they succeed or fail.        *)
(***************************************************************************)
EXTENDS DeploymentConfig, ResourceRules

CONSTANTS
  Configs,    \* contents of the configuration file
  Layouts,    \* functions from the paths in it to where they lead
  Locations,  \* where a database can be
  Notes,      \* notes as their authors write them
  Latest,     \* version of the packaged schema
  None

ASSUME CommandLineConstants ==
  /\ Latest \in Nat /\ None \notin Nat
  /\ \A c \in Configs, l \in Layouts : l[c.database_path] \in Locations

(* Fields of a routine, as far as they are told apart                      *)
RoutineFields ==
  {"schema", "broken", "revision", "specification", "read", "write",
   "approval_id", "approved_spec_hash", "observed", "body"}

TypedNote(n) ==
  \/ /\ n.schema = "hermes.task/v2"
     /\ n.context_roots \cup n.read \cup n.write \cup {n.output} \subseteq Seq(STRING)
  \/ /\ n.schema = "hermes.routine/v2" /\ n.broken \in BOOLEAN
     /\ n = [f \in RoutineFields |-> n[f]]

ASSUME NotesAreTyped == \A n \in Notes : TypedNote(n)

VARIABLES
  config, layout,
  stores,      \* version of the database at each location, None where there is none
  note,
  command, step,
  loaded,      \* the configuration of the command under way
  opened,      \* where the database is that it has open
  exit,        \* exit status of the last command
  hash,        \* the last hash that was reported
  steady,      \* auxiliary: no link and no database went since the configuration was loaded
  approved,    \* auxiliary: what was approved of the note, as it was when its hash was reported
  checked      \* auxiliary: the note that was validated last, and what was approved of it then

process == <<command, step, loaded, opened, exit>>

review == <<note, hash, approved, checked>>

vars == <<config, layout, stores, steady, process, review>>

Scans == {"doctor", "validate vault", "bridge run --once", "bridge run"}

DatabaseCommands == {"db status", "db migrate"}

Commands == Scans \cup DatabaseCommands \cup {"validate resource", "control-room serve"}

Steps == {"idle", "starting", "looking", "opening", "open", "scanning", "serving"}

TypeOK ==
  /\ config \in Configs /\ layout \in Layouts
  /\ stores \in [Locations -> {None} \cup 0 .. Latest]
  /\ command \in Commands \cup {None} /\ step \in Steps
  /\ loaded \in Configs \cup {None} /\ opened \in Locations \cup {None}
  /\ exit \in {None, 0, 2, 130} /\ steady \in BOOLEAN

Init ==
  /\ config \in Configs /\ layout \in Layouts /\ note \in Notes
  /\ stores = [l \in Locations |-> None]
  /\ command = None /\ step = "idle" /\ loaded = None /\ opened = None /\ exit = None
  /\ steady = FALSE
  /\ hash = None /\ approved = None /\ checked = None

-----------------------------------------------------------------------------
(* The process                                                             *)

Finish(status) ==
  /\ step' = "idle" /\ command' = None /\ loaded' = None /\ opened' = None
  /\ exit' = status

GoTo(s) == step' = s /\ UNCHANGED <<command, exit>>

Start(c) ==
  /\ step = "idle"
  /\ command' = c /\ step' = "starting" /\ exit' = None
  /\ UNCHANGED <<config, layout, stores, steady, loaded, opened, review>>

ValidateResource ==
  /\ step = "starting" /\ command = "validate resource"
  /\ IF NoteAccepted(note)
       THEN /\ hash' = SpecificationHash(note)
            /\ checked' = [note |-> note, approved |-> approved]
            /\ Finish(0)
       ELSE Finish(2) /\ UNCHANGED <<hash, checked>>
  /\ UNCHANGED <<config, layout, stores, steady, note, approved>>

(* The scaffold's refusal to do anything but validate                      *)
ValidatesOnly(c) == c.validation_only /\ ~c.dispatch_enabled

LoadConfig ==
  /\ step = "starting" /\ command # "validate resource"
  /\ IF Accepted(config, layout) /\ (command \in DatabaseCommands \/ ValidatesOnly(config))
       THEN /\ loaded' = config /\ steady' = TRUE /\ UNCHANGED opened
            /\ GoTo(CASE command \in DatabaseCommands -> "looking"
                      [] command \in Scans -> "scanning"
                      [] OTHER -> "serving")
       ELSE Finish(2) /\ UNCHANGED steady
  /\ UNCHANGED <<config, layout, stores, review>>

Place == layout[loaded.database_path]

(* exists(), for db status only                                            *)
LookForDatabase ==
  /\ step = "looking"
  /\ IF command = "db status" /\ stores[Place] = None
       THEN Finish(0)
       ELSE GoTo("opening") /\ UNCHANGED <<loaded, opened>>
  /\ UNCHANGED <<config, layout, stores, steady, review>>

(* mkdir and open_database: a database that is not there is created.       *)
OpenDatabase ==
  /\ step = "opening"
  /\ stores' = [stores EXCEPT ![Place] = IF @ = None THEN 0 ELSE @]
  /\ opened' = Place
  /\ GoTo("open")
  /\ UNCHANGED <<config, layout, steady, loaded, review>>

(* One transaction of apply_migrations                                     *)
Migrate ==
  /\ step = "open" /\ command = "db migrate" /\ opened # None
  /\ stores[opened] < Latest
  /\ stores' = [stores EXCEPT ![opened] = @ + 1]
  /\ UNCHANGED <<config, layout, steady, process, review>>

(* A database that was removed meanwhile is migrated where nobody can find *)
(* it any more.                                                            *)
CloseDatabase ==
  /\ step = "open"
  /\ command = "db migrate" /\ opened # None => stores[opened] = Latest
  /\ Finish(0)
  /\ UNCHANGED <<config, layout, stores, steady, review>>

(* A scan that is safe; run_forever goes on.                               *)
SafeScan ==
  /\ step = "scanning"
  /\ IF command = "bridge run" THEN UNCHANGED process ELSE Finish(0)
  /\ UNCHANGED <<config, layout, stores, steady, review>>

(* A scan that is not, a port in use, a directory that cannot be made, a   *)
(* database that is locked or refuses to open: the transaction is rolled   *)
(* back, and the connection closed.                                        *)
Fail ==
  /\ step \in {"looking", "opening", "open", "scanning", "serving"}
  /\ Finish(2)
  /\ UNCHANGED <<config, layout, stores, steady, review>>

Interrupt ==
  /\ step # "idle"
  /\ Finish(130)
  /\ UNCHANGED <<config, layout, stores, steady, review>>

Process ==
  \/ ValidateResource \/ LoadConfig \/ LookForDatabase \/ OpenDatabase
  \/ Migrate \/ CloseDatabase \/ SafeScan \/ Fail \/ Interrupt

-----------------------------------------------------------------------------
(* The world                                                               *)

EditConfig(c) ==
  /\ config' = c
  /\ UNCHANGED <<layout, stores, steady, process, review>>

Relink(l) ==
  /\ layout' = l /\ steady' = FALSE
  /\ UNCHANGED <<config, stores, process, review>>

RemoveDatabase(l) ==
  /\ stores[l] # None
  /\ stores' = [stores EXCEPT ![l] = None]
  /\ opened' = IF opened = l THEN None ELSE opened
  /\ steady' = FALSE
  /\ UNCHANGED <<config, layout, command, step, loaded, exit, review>>

ReplaceNote(n) ==
  /\ note' = n /\ approved' = None
  /\ UNCHANGED <<config, layout, stores, steady, process, hash, checked>>

(* All that an author or the bridge may write but for the approval         *)
EditRoutine(n) ==
  /\ note.schema = "hermes.routine/v2" /\ n.schema = "hermes.routine/v2"
  /\ note' = [n EXCEPT !.approval_id = note.approval_id,
                       !.approved_spec_hash = note.approved_spec_hash]
  /\ UNCHANGED <<config, layout, stores, steady, process, hash, approved, checked>>

(* What the author has written                                             *)
Authored(r) == <<r.revision, r.specification, r.read, r.write>>

(* The hash that was reported last is approved and written into the note,  *)
(* which may have been edited since.                                       *)
Approve ==
  /\ note.schema = "hermes.routine/v2"
  /\ checked # None /\ checked.note.schema = "hermes.routine/v2"
  /\ note' = [note EXCEPT !.approval_id = "approval", !.approved_spec_hash = hash]
  /\ approved' = Authored(checked.note)
  /\ UNCHANGED <<config, layout, stores, steady, process, hash, checked>>

World ==
  \/ \E c \in Configs : EditConfig(c)
  \/ \E l \in Layouts : Relink(l)
  \/ \E l \in Locations : RemoveDatabase(l)
  \/ \E n \in Notes : ReplaceNote(n) \/ EditRoutine(n)
  \/ Approve

Next == Process \/ World \/ \E c \in Commands : Start(c)

Spec == Init /\ [][Next]_vars

-----------------------------------------------------------------------------
(* Properties                                                              *)

(* Unless a link or a database goes while the command runs, a database     *)
(* comes into being at the request of db migrate only, and neither in nor  *)
(* under a zone that workers see, through whatever links the paths of the  *)
(* configuration lead.                                                     *)
StoresAppearWhereAsked ==
  [][\A l \in Locations : stores[l] = None /\ stores'[l] # None /\ steady =>
       /\ command = "db migrate"
       /\ \A z \in Roots : ~Within(l, layout[loaded[z]])]_vars

(* A routine that is validated has the hash that was approved exactly if   *)
(* what its author wrote is what was approved: the approval itself, what   *)
(* the bridge observed and the text below it make no difference, and an    *)
(* edit between the report and the approval is not approved with it.       *)
ApprovalTellsEdits ==
  checked # None /\ checked.approved # None =>
    (hash = checked.note.approved_spec_hash <=> Authored(checked.note) = checked.approved)

(* A grant reaches the path it names, and what is at or below a directory  *)
(* that it names with "**".                                                *)
Reaches(grants, path) ==
  \/ \E g \in grants : path = Stripped(g)
  \/ \E n \in 1 .. Len(path) : Append(SubSeq(path, 1, n), "**") \in grants

(* The roots and the output of a task that is validated are within reach   *)
(* of its grants, however the paths are written, and the output is where   *)
(* workers may write.                                                      *)
TaskStaysInScope ==
  checked # None /\ checked.note.schema = "hermes.task/v2" =>
    /\ \A p \in checked.note.context_roots : Reaches(checked.note.read, Stripped(p))
    /\ Reaches(checked.note.write, Stripped(checked.note.output))
    /\ checked.note.output[1] = "ReadWrite"
=============================================================================
