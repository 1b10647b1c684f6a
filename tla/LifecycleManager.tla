--------------------------- MODULE LifecycleManager ---------------------------
(***************************************************************************)
(* The lifecycle manager (lifecycle/manager.py): install, update, repair   *)
(* and uninstall of the plugin files and the reference notes in a vault.   *)
(* An operation is a sequence of file-system calls; between two of them    *)
(* the process may be killed, and the user, or Obsidian, may write the     *)
(* same files.  No lock is taken and nothing but the manifest, written at  *)
(* the end, remembers what was done.                                       *)
(*                                                                         *)
(* The content of a file in a release is named by the release; a digest    *)
(* stands for the content it is taken of.  One process runs at a time and  *)
(* nobody else writes the manifest, so the copy an operation loads is the  *)
(* manifest on disk.  The loops take their files in a fixed order, which   *)
(* no property depends on: the model takes them in any order.              *)
(***************************************************************************)
EXTENDS Naturals, FiniteSets

CONSTANTS
  Artifacts,      \* the plugin files, _PLUGIN_FILES
  Notes,          \* the files of the reference vault
  Releases,       \* installed releases; also the content of their files
  UserContents,   \* what a user writes
  Obstacles,      \* the non-files that may stand at a path
  NoManifest,
  MaxTouched      \* bound on the files a user edits during one operation

Files == Artifacts \cup Notes

Contents == Releases \cup UserContents

Absent == "absent"

ASSUME ManagerConstants ==
  /\ Artifacts \cap Notes = {}
  /\ Releases \cap UserContents = {}
  /\ Obstacles \subseteq {"directory", "symlink"}
  /\ {"absent", "directory", "symlink"} \cap Contents = {}
  /\ MaxTouched \in Nat
  /\ IsFiniteSet(Files)
  /\ "none" \notin Files
  /\ NoManifest \notin [artifacts : [Artifacts -> Releases], seeded : SUBSET Notes]

VARIABLES
  disk,      \* what is at each path
  manifest,  \* installation.json
  backups,   \* what is under .obsidian-hermes/backups
  release,   \* the release the source root holds
  step,      \* where the running operation is, "idle" when none runs
  kind,      \* the operation
  todo,      \* the files its present loop has not come to
  file,      \* the file it is at
  listed,    \* notes its manifest is to list: those it loaded, and seeded
  kept,      \* artifacts this uninstall preserved
  touched    \* auxiliary: files the user edited while it ran

local == <<kind, todo, file, listed, kept, touched>>

vars == <<disk, manifest, backups, release, step, kind, todo, file, listed, kept,
          touched>>

Steps ==
  {"idle", "artifacts", "backup", "replace", "seed", "plant", "record",
   "tracked", "unlink", "purge"}

Kinds == {"none", "install", "update", "repair", "uninstall", "purge"}

Manifest == [artifacts : [Artifacts -> Releases], seeded : SUBSET Notes]

(* What the paths hold, and where an operation can be: it stands at a file *)
(* of the loop it is in.                                                   *)
TypeOK ==
  /\ disk \in [Files -> Contents \cup Obstacles \cup {Absent}]
  /\ manifest \in Manifest \cup {NoManifest}
  /\ backups \subseteq Artifacts \X Contents
  /\ release \in Releases
  /\ step \in Steps /\ kind \in Kinds
  /\ todo \subseteq Files /\ file \in Files \cup {"none"}
  /\ listed \subseteq Notes /\ kept \subseteq Artifacts /\ touched \subseteq Files
  /\ step \in {"artifacts", "backup", "replace", "tracked", "unlink"} =>
       todo \subseteq Artifacts
  /\ step \in {"seed", "plant"} => todo \subseteq Notes
  /\ step \in {"backup", "replace", "plant", "unlink"} => file \in todo
  /\ step \in {"tracked", "unlink"} => manifest # NoManifest

Init ==
  /\ disk = [f \in Files |-> Absent]
  /\ manifest = NoManifest
  /\ backups = {}
  /\ release \in Releases
  /\ step = "idle" /\ kind = "none" /\ todo = {} /\ file = "none"
  /\ listed = {} /\ kept = {} /\ touched = {}

-----------------------------------------------------------------------------
(* The start and the end of an operation.                                  *)

(* manifest["seeded"] of the manifest that is there                        *)
Seeded == IF manifest = NoManifest THEN {} ELSE manifest.seeded

(* The manifest is loaded first; update and repair keep its seeded list.   *)
Begin(k, s) ==
  /\ step = "idle"
  /\ kind' = k /\ step' = s /\ todo' = Artifacts
  /\ listed' = IF s = "artifacts" THEN Seeded ELSE {}
  /\ UNCHANGED <<disk, manifest, backups, release, file, kept, touched>>

(* The operation returns, raises or is killed: what it knew is gone.       *)
Ends ==
  /\ step' = "idle" /\ kind' = "none" /\ todo' = {} /\ file' = "none"
  /\ listed' = {} /\ kept' = {} /\ touched' = {}

(* Without force, install refuses to replace a plugin file that is not the *)
(* release's own; over a manifest it is an update and force means nothing. *)
Install(force) ==
  /\ manifest = NoManifest
  /\ \A a \in Artifacts : disk[a] \notin Obstacles
  /\ force \/ \A a \in Artifacts : disk[a] \in {Absent, release}
  /\ Begin("install", "artifacts")

Update == manifest # NoManifest /\ Begin("update", "artifacts")

Repair == manifest # NoManifest /\ Begin("repair", "artifacts")

Uninstall(purge) ==
  /\ manifest # NoManifest
  /\ Begin(IF purge THEN "purge" ELSE "uninstall", "tracked")

-----------------------------------------------------------------------------
(* The loop over the artifacts that install, update and repair share.      *)

Fails == Ends /\ UNCHANGED <<disk, manifest, backups, release>>

Skip(f) ==
  /\ todo' = todo \ {f}
  /\ UNCHANGED <<disk, manifest, backups, release, step, kind, file, listed, kept, touched>>

GoTo(s, f) ==
  /\ step' = s /\ file' = f
  /\ UNCHANGED <<disk, manifest, backups, release, kind, todo, listed, kept, touched>>

(* Mutant of ExamineArtifact: a file is left alone when it is what the      *)
(* manifest says, not what the release says.                               *)
ExamineAgainstManifest(a) ==
  /\ step = "artifacts" /\ a \in todo
  /\ LET wanted == IF manifest = NoManifest THEN release ELSE manifest.artifacts[a]
     IN  \/ disk[a] = wanted /\ Skip(a)
         \/ disk[a] \in Obstacles /\ Fails
         \/ disk[a] \notin Obstacles \cup {wanted} /\ GoTo("backup", a)

ExamineArtifact(a) ==
  /\ step = "artifacts" /\ a \in todo
  /\ \/ disk[a] = release /\ Skip(a)
     \/ disk[a] \in Obstacles /\ Fails
     \/ disk[a] \notin Obstacles \cup {release} /\ GoTo("backup", a)

(* Mutant of Backup: install --force adopts a plugin without a backup.      *)
BackupTracked ==
  /\ step = "backup"
  /\ backups' = IF disk[file] \in Contents /\ manifest # NoManifest
                  THEN backups \cup {<<file, disk[file]>>} ELSE backups
  /\ step' = "replace"
  /\ UNCHANGED <<disk, manifest, release, local>>

(* _backup copies what is there when it looks, if it is a file.            *)
Backup ==
  /\ step = "backup"
  /\ backups' = IF disk[file] \in Contents THEN backups \cup {<<file, disk[file]>>}
                                           ELSE backups
  /\ step' = "replace"
  /\ UNCHANGED <<disk, manifest, release, local>>

(* os.replace takes whatever is there now, except a directory.             *)
Replace ==
  /\ step = "replace"
  /\ \/ disk[file] = "directory" /\ Fails
     \/ /\ disk[file] # "directory"
        /\ disk' = [disk EXCEPT ![file] = release]
        /\ todo' = todo \ {file}
        /\ step' = "artifacts" /\ file' = "none"
        /\ UNCHANGED <<manifest, backups, release, kind, listed, kept, touched>>

(* repair seeds no notes                                                   *)
ArtifactsDone ==
  /\ step = "artifacts" /\ todo = {}
  /\ step' = IF kind = "repair" THEN "record" ELSE "seed"
  /\ todo' = IF kind = "repair" THEN {} ELSE Notes
  /\ UNCHANGED <<disk, manifest, backups, release, kind, file, listed, kept, touched>>

-----------------------------------------------------------------------------
(* _seed_reference_vault and _write_manifest                               *)

ExamineNote(n) ==
  /\ step = "seed" /\ n \in todo
  /\ \/ disk[n] \in Contents \cup {"directory"} /\ Skip(n)
     \/ disk[n] = "symlink" /\ Fails
     \/ disk[n] = Absent /\ GoTo("plant", n)

Plant ==
  /\ step = "plant"
  /\ \/ disk[file] = "directory" /\ Fails
     \/ /\ disk[file] # "directory"
        /\ disk' = [disk EXCEPT ![file] = release]
        /\ listed' = listed \cup {file}
        /\ todo' = todo \ {file}
        /\ step' = "seed" /\ file' = "none"
        /\ UNCHANGED <<manifest, backups, release, kind, kept, touched>>

SeedDone ==
  /\ step = "seed" /\ todo = {}
  /\ step' = "record"
  /\ UNCHANGED <<disk, manifest, backups, release, local>>

(* Mutant of Record: the digests are taken of the files on disk.           *)
RecordFromDisk ==
  /\ step = "record"
  /\ manifest' = [artifacts |-> [a \in Artifacts |-> disk[a]],
                  seeded |-> listed]
  /\ Ends
  /\ UNCHANGED <<disk, backups, release>>

Record ==
  /\ step = "record"
  /\ manifest' = [artifacts |-> [a \in Artifacts |-> release],
                  seeded |-> listed]
  /\ Ends
  /\ UNCHANGED <<disk, backups, release>>

-----------------------------------------------------------------------------
(* uninstall                                                               *)

ExamineTracked(a) ==
  /\ step = "tracked" /\ a \in todo
  /\ \/ disk[a] = Absent /\ Skip(a)
     \/ disk[a] = "symlink" /\ Fails
     \/ /\ disk[a] \notin {Absent, "symlink", manifest.artifacts[a]}
        /\ kept' = kept \cup {a} /\ todo' = todo \ {a}
        /\ UNCHANGED <<disk, manifest, backups, release, step, kind, file, listed, touched>>
     \/ disk[a] = manifest.artifacts[a] /\ GoTo("unlink", a)

(* Mutant of Unlink: a file that is gone is looked at again.               *)
UnlinkRetrying ==
  /\ step = "unlink"
  /\ \/ disk[file] = "directory" /\ Fails
     \/ disk[file] = Absent /\ GoTo("tracked", "none")
     \/ /\ disk[file] \notin {Absent, "directory"}
        /\ disk' = [disk EXCEPT ![file] = Absent]
        /\ todo' = todo \ {file}
        /\ step' = "tracked" /\ file' = "none"
        /\ UNCHANGED <<manifest, backups, release, kind, listed, kept, touched>>

Unlink ==
  /\ step = "unlink"
  /\ \/ disk[file] \in {Absent, "directory"} /\ Fails
     \/ /\ disk[file] \notin {Absent, "directory"}
        /\ disk' = [disk EXCEPT ![file] = Absent]
        /\ todo' = todo \ {file}
        /\ step' = "tracked" /\ file' = "none"
        /\ UNCHANGED <<manifest, backups, release, kind, listed, kept, touched>>

(* Mutant of Forget: --purge-state purges whatever was preserved.          *)
ForgetOnRequest ==
  /\ step = "tracked" /\ todo = {}
  /\ manifest' = IF kept = {} THEN NoManifest ELSE manifest
  /\ IF kind = "purge" THEN step' = "purge" /\ UNCHANGED local ELSE Ends
  /\ UNCHANGED <<disk, backups, release>>

(* The manifest goes only when nothing was preserved; then, on request,    *)
(* the backups.                                                            *)
Forget ==
  /\ step = "tracked" /\ todo = {}
  /\ manifest' = IF kept = {} THEN NoManifest ELSE manifest
  /\ IF kept = {} /\ kind = "purge"
       THEN step' = "purge" /\ UNCHANGED local
       ELSE Ends
  /\ UNCHANGED <<disk, backups, release>>

(* rmtree, a file at a time                                                *)
Purge ==
  /\ step = "purge"
  /\ \/ \E b \in backups : backups' = backups \ {b} /\ UNCHANGED <<step, local>>
     \/ backups = {} /\ Ends /\ UNCHANGED backups
  /\ UNCHANGED <<disk, manifest, release>>

-----------------------------------------------------------------------------
(* Around the operations: the process is killed, the user edits a file or  *)
(* another release is installed.                                           *)

Crash == step # "idle" /\ Fails

UserEdit(f, c) ==
  /\ disk' = [disk EXCEPT ![f] = c]
  /\ IF step = "idle" THEN UNCHANGED touched
       ELSE touched' = touched \cup {f} /\ Cardinality(touched') <= MaxTouched
  /\ UNCHANGED <<manifest, backups, release, step, kind, todo, file, listed, kept>>

Upgrade(r) ==
  /\ step = "idle"
  /\ release' = r
  /\ UNCHANGED <<disk, manifest, backups, step, local>>

ManagerStep ==
  \/ \E f \in Files : ExamineArtifact(f) \/ ExamineNote(f) \/ ExamineTracked(f)
  \/ Backup \/ Replace \/ ArtifactsDone
  \/ Plant \/ SeedDone \/ Record
  \/ Unlink \/ Forget \/ Purge

Command ==
  \/ \E flag \in BOOLEAN : Install(flag) \/ Uninstall(flag)
  \/ Update
  \/ Repair

Environment ==
  \/ Crash
  \/ \E f \in Files, c \in Contents \cup Obstacles \cup {Absent} : UserEdit(f, c)
  \/ \E r \in Releases : Upgrade(r)

Next == Command \/ ManagerStep \/ Environment

Spec == Init /\ [][Next]_vars
-----------------------------------------------------------------------------
(* Properties                                                              *)

(* A step of an operation and not of the user: only they move its place.   *)
ManagerWrites == <<step, todo>>' # <<step, todo>>

(* What doctor asks of a plugin file: not missing, changed or unsafe.      *)
Healthy(a) == manifest # NoManifest /\ disk[a] = manifest.artifacts[a]

(* An operation that writes the manifest leaves an installation that       *)
(* doctor finds healthy and up to date, even when the operation before it  *)
(* was killed half-way or another release had been installed; only for a   *)
(* file that was edited while it ran it cannot tell.                       *)
RecordsWhatIsThere ==
  [][manifest' # manifest /\ manifest' # NoManifest =>
       \A a \in Artifacts \ touched : Healthy(a)' /\ disk'[a] = release]_vars

(* The manifest is removed, and the backups are purged, only when no       *)
(* plugin file is left in the vault: what an uninstall preserves stays     *)
(* tracked, and what its user lost to a replacement stays saved with it.   *)
ForgetsOnlyWhenGone ==
  [][(manifest # NoManifest /\ manifest' = NoManifest)
        \/ ~(backups \subseteq backups') =>
       \A a \in Artifacts \ touched : disk[a] = Absent]_vars

(* How far a running operation is from its end: the loops it has still to  *)
(* go through, the files of the present one, the calls to make at a file.  *)
LoopsAhead ==
  CASE step \in {"artifacts", "backup", "replace", "tracked", "unlink"} -> 3
    [] step \in {"seed", "plant", "purge"} -> 2
    [] step = "record" -> 1
    [] step = "idle" -> 0

FilesAhead == Cardinality(IF step = "purge" THEN backups ELSE todo)

CallsAhead ==
  CASE step \in {"artifacts", "seed", "tracked"} -> 2
    [] step \in {"backup", "plant", "unlink"} -> 1
    [] OTHER -> 0

(* Every call brings the operation closer to its end, whatever the user    *)
(* does to the files it is working on; and nothing the user does takes it  *)
(* back.  An operation therefore ends, unless it stops making calls.       *)
CallsRunOut ==
  [][step # "idle" =>
       \/ LoopsAhead' < LoopsAhead
       \/ LoopsAhead' = LoopsAhead /\ FilesAhead' < FilesAhead
       \/ LoopsAhead' = LoopsAhead /\ FilesAhead' = FilesAhead /\ CallsAhead' < CallsAhead
       \/ <<disk, touched>>' # <<disk, touched>> /\ UNCHANGED <<step, todo, backups>>]_vars

(* What the tool promises about the files of the vault.                    *)
Custody == INSTANCE VaultCustody WITH
  Shipped <- Releases, Personal <- UserContents, Nothing <- Absent,
  saved <- backups, busy <- (step # "idle")

(* The manager implements the custody of the files: but for the ones that  *)
(* are edited while it is at work, no personal plugin file is replaced     *)
(* unsaved or removed, no note is replaced or removed.                     *)
CustodySpec == Custody!Spec

(* "seeded Markdown is immediately user-owned and is never overwritten"    *)
(* (README.md:97): an operation changes no note that is there.             *)
NotesNeverOverwritten ==
  [][ManagerWrites => \A n \in Notes : disk[n] # Absent => disk'[n] = disk[n]]_vars
=============================================================================
