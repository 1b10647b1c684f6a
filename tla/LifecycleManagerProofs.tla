------------------------ MODULE LifecycleManagerProofs ------------------------
(***************************************************************************)
(* Proofs about the lifecycle manager, for any plugin files, notes,        *)
(* releases and user contents, whatever the user edits and whenever.  What *)
(* relates the files to the place an operation is at (PlaceInv) is said of *)
(* the files that were not touched since it began.                         *)
(***************************************************************************)
EXTENDS LifecycleManager, FiniteSetTheorems, TLAPS

(* Every step is one of these.                                             *)
LEMMA StepCases ==
  ASSUME [Next]_vars, NEW P,
         (\E flag \in BOOLEAN : Install(flag)) => P,
         (\E flag \in BOOLEAN : Uninstall(flag)) => P,
         Update => P, Repair => P,
         (\E a \in Files : ExamineArtifact(a)) => P,
         Backup => P, Replace => P, ArtifactsDone => P,
         (\E n \in Files : ExamineNote(n)) => P,
         Plant => P, SeedDone => P, Record => P,
         (\E a \in Files : ExamineTracked(a)) => P,
         Unlink => P, Forget => P, Purge => P, Crash => P,
         (\E f \in Files, c \in Contents \cup Obstacles \cup {Absent} : UserEdit(f, c)) => P,
         (\E r \in Releases : Upgrade(r)) => P,
         UNCHANGED vars => P
  PROVE  P
  BY DEF Next, Command, ManagerStep, Environment

(* An operation that ends leaves no place to be at.                        *)
LEMMA EndsType ==
  ASSUME TypeOK, Ends, UNCHANGED <<disk, backups, release>>,
         manifest' \in Manifest \cup {NoManifest}
  PROVE  TypeOK'
  BY DEF TypeOK, Ends, Steps, Kinds

(* The type invariant is preserved by every step.                          *)
LEMMA TypeStep == TypeOK /\ [Next]_vars => TypeOK'
<1> SUFFICES ASSUME TypeOK, [Next]_vars PROVE TypeOK'
  OBVIOUS
<1> USE ManagerConstants
<1>1. ASSUME Fails PROVE TypeOK'
  BY <1>1, EndsType DEF Fails, TypeOK
<1>2. ASSUME NEW f, Skip(f), step \in {"artifacts", "seed", "tracked"} PROVE TypeOK'
  BY <1>2 DEF Skip, TypeOK, Steps, Kinds
<1>3. ASSUME NEW k \in Kinds \ {"none"}, NEW s \in {"artifacts", "tracked"}, Begin(k, s),
             s = "tracked" => manifest # NoManifest
      PROVE  TypeOK'
  BY <1>3 DEF Begin, Seeded, Manifest, TypeOK, Steps, Kinds, Files
<1>4. ASSUME NEW flag \in BOOLEAN, Install(flag) PROVE TypeOK'
  BY <1>3, <1>4 DEF Install, Kinds
<1>5. ASSUME NEW flag \in BOOLEAN, Uninstall(flag) PROVE TypeOK'
  BY <1>3, <1>5 DEF Uninstall, Kinds
<1>6. ASSUME Update PROVE TypeOK'
  BY <1>3, <1>6 DEF Update, Kinds
<1>7. ASSUME Repair PROVE TypeOK'
  BY <1>3, <1>7 DEF Repair, Kinds
<1>8. ASSUME NEW a \in Files, ExamineArtifact(a) PROVE TypeOK'
  <2>1. CASE Skip(a)
    BY <1>2, <1>8, <2>1 DEF ExamineArtifact
  <2>2. CASE Fails
    BY <1>1, <2>2
  <2>3. CASE GoTo("backup", a)
    BY <1>8, <2>3 DEF ExamineArtifact, GoTo, TypeOK, Steps, Kinds
  <2> QED BY <1>8, <2>1, <2>2, <2>3, Zenon DEF ExamineArtifact
<1>9. ASSUME Backup PROVE TypeOK'
  BY <1>9 DEF Backup, TypeOK, Steps, Kinds, local
<1>10. ASSUME Replace PROVE TypeOK'
  <2>1. CASE Fails
    BY <1>1, <2>1
  <2>2. CASE step' = "artifacts"
    <3>1. disk' = [disk EXCEPT ![file] = release]
      BY <1>10, <2>2 DEF Replace, Fails, Ends
    <3>2. disk' \in [Files -> Contents \cup Obstacles \cup {Absent}]
      BY <3>1 DEF TypeOK, Contents
    <3>3. /\ UNCHANGED <<manifest, backups, release, kind, kept, touched>>
          /\ todo' = todo \ {file} /\ file' = "none"
          /\ listed' \subseteq Notes /\ kept' \subseteq Artifacts
      BY <1>10, <2>2 DEF Replace, Fails, Ends, TypeOK
    <3>4. /\ step = "replace"
          /\ todo' \subseteq Artifacts
      BY <1>10, <3>3 DEF Replace, TypeOK
    <3> QED BY <2>2, <3>2, <3>3, <3>4 DEF TypeOK, Steps, Kinds
  <2> QED BY <1>10, <2>1, <2>2 DEF Replace
<1>11. ASSUME ArtifactsDone PROVE TypeOK'
  BY <1>11 DEF ArtifactsDone, TypeOK, Steps, Kinds, Files
<1>12. ASSUME NEW n \in Files, ExamineNote(n) PROVE TypeOK'
  <2>1. CASE Skip(n)
    BY <1>2, <1>12, <2>1 DEF ExamineNote
  <2>2. CASE Fails
    BY <1>1, <2>2
  <2>3. CASE GoTo("plant", n)
    BY <1>12, <2>3 DEF ExamineNote, GoTo, TypeOK, Steps, Kinds
  <2> QED BY <1>12, <2>1, <2>2, <2>3, Zenon DEF ExamineNote
<1>13. ASSUME Plant PROVE TypeOK'
  <2>1. CASE Fails
    BY <1>1, <2>1
  <2>2. CASE step' = "seed"
    <3>1. disk' = [disk EXCEPT ![file] = release]
      BY <1>13, <2>2 DEF Plant, Fails, Ends
    <3>2. disk' \in [Files -> Contents \cup Obstacles \cup {Absent}]
      BY <3>1 DEF TypeOK, Contents
    <3>3. /\ UNCHANGED <<manifest, backups, release, kind, kept, touched>>
          /\ todo' = todo \ {file} /\ file' = "none"
          /\ listed' \subseteq Notes /\ kept' \subseteq Artifacts
      BY <1>13, <2>2 DEF Plant, Fails, Ends, TypeOK
    <3>4. /\ step = "plant"
          /\ todo' \subseteq Notes
      BY <1>13, <3>3 DEF Plant, TypeOK
    <3> QED BY <2>2, <3>2, <3>3, <3>4 DEF TypeOK, Steps, Kinds
  <2> QED BY <1>13, <2>1, <2>2 DEF Plant
<1>14. ASSUME SeedDone PROVE TypeOK'
  BY <1>14 DEF SeedDone, TypeOK, Steps, Kinds, local
<1>15. ASSUME Record PROVE TypeOK'
  <2>1. manifest' \in Manifest
    BY <1>15 DEF Record, Manifest, TypeOK
  <2> QED BY <1>15, <2>1, EndsType DEF Record
<1>16. ASSUME NEW a \in Files, ExamineTracked(a) PROVE TypeOK'
  <2>1. CASE Skip(a)
    BY <1>2, <1>16, <2>1 DEF ExamineTracked
  <2>2. CASE Fails
    BY <1>1, <2>2
  <2>3. CASE GoTo("unlink", a)
    BY <1>16, <2>3 DEF ExamineTracked, GoTo, TypeOK, Steps, Kinds
  <2>4. CASE kept' = kept \cup {a} /\ todo' = todo \ {a}
             /\ UNCHANGED <<disk, manifest, backups, release, step, kind, file, listed, touched>>
    BY <1>16, <2>4 DEF ExamineTracked, TypeOK, Steps, Kinds
  <2> QED BY <1>16, <2>1, <2>2, <2>3, <2>4, Zenon DEF ExamineTracked
<1>17. ASSUME Unlink PROVE TypeOK'
  <2>1. CASE Fails
    BY <1>1, <2>1
  <2>2. CASE step' = "tracked"
    <3>1. disk' = [disk EXCEPT ![file] = Absent]
      BY <1>17, <2>2 DEF Unlink, Fails, Ends
    <3>2. disk' \in [Files -> Contents \cup Obstacles \cup {Absent}]
      BY <3>1 DEF TypeOK, Contents
    <3>3. /\ UNCHANGED <<manifest, backups, release, kind, kept, touched>>
          /\ todo' = todo \ {file} /\ file' = "none"
          /\ listed' \subseteq Notes /\ kept' \subseteq Artifacts
      BY <1>17, <2>2 DEF Unlink, Fails, Ends, TypeOK
    <3>4. /\ step = "unlink"
          /\ todo' \subseteq Artifacts
          /\ manifest # NoManifest
      BY <1>17, <3>3 DEF Unlink, TypeOK
    <3> QED BY <2>2, <3>2, <3>3, <3>4 DEF TypeOK, Steps, Kinds
  <2> QED BY <1>17, <2>1, <2>2 DEF Unlink
<1>18. ASSUME Forget PROVE TypeOK'
  <2>1. manifest' \in Manifest \cup {NoManifest}
    BY <1>18 DEF Forget, TypeOK
  <2>2. CASE Ends
    BY <1>18, <2>1, <2>2, EndsType DEF Forget
  <2>3. CASE step' = "purge" /\ UNCHANGED local
    BY <1>18, <2>1, <2>3 DEF Forget, TypeOK, Steps, Kinds, local
  <2> QED BY <1>18, <2>2, <2>3 DEF Forget
<1>19. ASSUME Purge PROVE TypeOK'
  <2>1. CASE Ends /\ UNCHANGED backups
    BY <1>19, <2>1, EndsType DEF Purge, TypeOK
  <2>2. CASE \E b \in backups : backups' = backups \ {b} /\ UNCHANGED <<step, local>>
    BY <1>19, <2>2 DEF Purge, TypeOK, Steps, Kinds, local
  <2> QED BY <1>19, <2>1, <2>2 DEF Purge
<1>20. ASSUME Crash PROVE TypeOK'
  BY <1>1, <1>20 DEF Crash
<1>21. ASSUME NEW f \in Files, NEW c \in Contents \cup Obstacles \cup {Absent}, UserEdit(f, c)
       PROVE  TypeOK'
  BY <1>21 DEF UserEdit, TypeOK, Steps, Kinds, local
<1>22. ASSUME NEW r \in Releases, Upgrade(r) PROVE TypeOK'
  BY <1>22 DEF Upgrade, TypeOK, Steps, Kinds, local
<1>23. ASSUME UNCHANGED vars PROVE TypeOK'
  BY <1>23 DEF vars, TypeOK
<1> QED
  BY <1>4, <1>5, <1>6, <1>7, <1>8, <1>9, <1>10, <1>11, <1>12, <1>13, <1>14, <1>15,
     <1>16, <1>17, <1>18, <1>19, <1>20, <1>21, <1>22, <1>23, StepCases, Zenon

(* The initial state is well typed.                                        *)
LEMMA InitType == Init => TypeOK
  BY DEF Init, TypeOK, Steps, Kinds, Contents

(* The state is well typed, whoever writes the files meanwhile.            *)
THEOREM TypeCorrect == Spec => []TypeOK
<1> QED BY InitType, TypeStep, PTL DEF Spec

-----------------------------------------------------------------------------
(* Only the last call of an operation touches the manifest.                *)
LEMMA ManifestWriters ==
  ASSUME [Next]_vars
  PROVE  UNCHANGED manifest \/ Record \/ Forget
<1>1. ASSUME Fails PROVE UNCHANGED manifest
  BY <1>1 DEF Fails
<1>2. ASSUME NEW f, Skip(f) \/ GoTo("backup", f) \/ GoTo("plant", f) \/ GoTo("unlink", f)
      PROVE  UNCHANGED manifest
  BY <1>2 DEF Skip, GoTo
<1>3. ASSUME NEW f, ExamineArtifact(f) PROVE UNCHANGED manifest
  BY <1>1, <1>2, <1>3, Zenon DEF ExamineArtifact
<1>4. ASSUME NEW f, ExamineNote(f) PROVE UNCHANGED manifest
  BY <1>1, <1>2, <1>4, Zenon DEF ExamineNote
<1>5. ASSUME NEW f, ExamineTracked(f) PROVE UNCHANGED manifest
  <2>1. CASE UNCHANGED <<disk, manifest, backups, release, step, kind, file, listed, touched>>
    BY <2>1
  <2> QED BY <1>1, <1>2, <1>5, <2>1, Zenon DEF ExamineTracked
<1>6. ASSUME Replace \/ Plant \/ Unlink PROVE UNCHANGED manifest
  BY <1>1, <1>6 DEF Replace, Plant, Unlink
<1>7. ASSUME \/ \E flag \in BOOLEAN : Install(flag) \/ Uninstall(flag)
             \/ Update \/ Repair
      PROVE  UNCHANGED manifest
  BY <1>7 DEF Install, Uninstall, Update, Repair, Begin
<1>8. ASSUME Backup \/ ArtifactsDone \/ SeedDone \/ Purge PROVE UNCHANGED manifest
  BY <1>8 DEF Backup, ArtifactsDone, SeedDone, Purge
<1>9. ASSUME \/ \E f \in Files, c \in Contents \cup Obstacles \cup {Absent} : UserEdit(f, c)
             \/ \E r \in Releases : Upgrade(r)
             \/ UNCHANGED vars
      PROVE  UNCHANGED manifest
  BY <1>9 DEF UserEdit, Upgrade, vars
<1> QED
  BY <1>1, <1>3, <1>4, <1>5, <1>6, <1>7, <1>8, <1>9, StepCases, Zenon DEF Crash

-----------------------------------------------------------------------------
(* What an operation knows about the files at the place it is at, but for  *)
(* the ones the user has touched since it began.                           *)
PlaceInv ==
  /\ step \in {"artifacts", "backup", "replace"} =>
       \A a \in Artifacts \ (todo \cup touched) : disk[a] = release
  /\ step \in {"seed", "plant", "record"} =>
       \A a \in Artifacts \ touched : disk[a] = release
  /\ step = "replace" => \/ file \in touched
                         \/ disk[file] \in UserContents => <<file, disk[file]>> \in backups
  /\ step = "plant" => file \in touched \/ disk[file] = Absent
  /\ step = "unlink" => file \in touched \/ disk[file] = manifest.artifacts[file]
  /\ step \in {"tracked", "unlink"} =>
       \A a \in Artifacts \ (todo \cup touched) : disk[a] = Absent \/ a \in kept
  /\ step = "purge" => \A a \in Artifacts \ touched : disk[a] = Absent

(* A step that leaves the operation idle has nothing to know.              *)
LEMMA IdlePlace == ASSUME step' = "idle" PROVE PlaceInv'
  BY DEF PlaceInv

(* Every step preserves PlaceInv.                                          *)
LEMMA PlaceStep == TypeOK /\ PlaceInv /\ [Next]_vars => PlaceInv'
<1> SUFFICES ASSUME TypeOK, PlaceInv, [Next]_vars PROVE PlaceInv'
  OBVIOUS
<1> USE ManagerConstants
<1>1. ASSUME Fails PROVE PlaceInv'
  BY <1>1, IdlePlace DEF Fails, Ends
<1>2. ASSUME NEW k, NEW s \in {"artifacts", "tracked"}, Begin(k, s)
      PROVE  PlaceInv'
  BY <1>2 DEF Begin, PlaceInv
<1>3. ASSUME \/ \E flag \in BOOLEAN : Install(flag) \/ Uninstall(flag)
             \/ Update \/ Repair
      PROVE  PlaceInv'
  BY <1>2, <1>3 DEF Install, Uninstall, Update, Repair
<1>4. ASSUME NEW a \in Files, ExamineArtifact(a) PROVE PlaceInv'
  <2>1. CASE disk[a] = release /\ Skip(a)
    BY <1>4, <2>1 DEF ExamineArtifact, Skip, PlaceInv
  <2>2. CASE GoTo("backup", a)
    BY <1>4, <2>2 DEF ExamineArtifact, GoTo, PlaceInv
  <2> QED BY <1>1, <1>4, <2>1, <2>2, Zenon DEF ExamineArtifact
<1>5. ASSUME Backup PROVE PlaceInv'
  BY <1>5 DEF Backup, PlaceInv, local, Contents
<1>6. ASSUME Replace PROVE PlaceInv'
  <2>1. CASE disk' = [disk EXCEPT ![file] = release]
             /\ todo' = todo \ {file} /\ step' = "artifacts" /\ UNCHANGED <<release, touched>>
    BY <1>6, <2>1 DEF Replace, PlaceInv, TypeOK, Files
  <2> QED BY <1>1, <1>6, <2>1 DEF Replace
<1>7. ASSUME ArtifactsDone PROVE PlaceInv'
  BY <1>7 DEF ArtifactsDone, PlaceInv
<1>8. ASSUME NEW n \in Files, ExamineNote(n) PROVE PlaceInv'
  <2>1. CASE Skip(n)
    BY <1>8, <2>1 DEF ExamineNote, Skip, PlaceInv
  <2>2. CASE disk[n] = Absent /\ GoTo("plant", n)
    BY <1>8, <2>2 DEF ExamineNote, GoTo, PlaceInv
  <2> QED BY <1>1, <1>8, <2>1, <2>2, Zenon DEF ExamineNote
<1>9. ASSUME Plant PROVE PlaceInv'
  <2>1. CASE disk' = [disk EXCEPT ![file] = release]
             /\ step' = "seed" /\ UNCHANGED <<release, touched>>
    <3>1. file \in Notes
      BY <1>9 DEF Plant, TypeOK
    <3>2. touched' = touched /\ \A a \in Artifacts \ touched : disk'[a] = release'
      BY <1>9, <2>1, <3>1 DEF Plant, TypeOK, PlaceInv, Files
    <3> QED BY <2>1, <3>2 DEF PlaceInv
  <2> QED BY <1>1, <1>9, <2>1 DEF Plant
<1>10. ASSUME SeedDone PROVE PlaceInv'
  BY <1>10 DEF SeedDone, PlaceInv, local
<1>11. ASSUME Record PROVE PlaceInv'
  BY <1>11, IdlePlace DEF Record, Ends
<1>12. ASSUME NEW a \in Files, ExamineTracked(a) PROVE PlaceInv'
  <2>1. CASE disk[a] = Absent /\ Skip(a)
    BY <1>12, <2>1 DEF ExamineTracked, Skip, PlaceInv
  <2>2. CASE kept' = kept \cup {a} /\ todo' = todo \ {a}
             /\ UNCHANGED <<disk, manifest, backups, release, step, kind, file, listed, touched>>
    BY <1>12, <2>2 DEF ExamineTracked, PlaceInv
  <2>3. CASE disk[a] = manifest.artifacts[a] /\ GoTo("unlink", a)
    BY <1>12, <2>3 DEF ExamineTracked, GoTo, PlaceInv
  <2> QED BY <1>1, <1>12, <2>1, <2>2, <2>3, Zenon DEF ExamineTracked
<1>13. ASSUME Unlink PROVE PlaceInv'
  <2>1. CASE disk' = [disk EXCEPT ![file] = Absent] /\ todo' = todo \ {file}
             /\ step' = "tracked" /\ UNCHANGED <<kept, touched>>
    BY <1>13, <2>1 DEF Unlink, PlaceInv, TypeOK, Files
  <2> QED BY <1>1, <1>13, <2>1 DEF Unlink
<1>14. ASSUME Forget PROVE PlaceInv'
  <2>1. CASE Ends
    BY <2>1, IdlePlace DEF Ends
  <2>2. CASE kept = {} /\ step' = "purge" /\ UNCHANGED local
    BY <1>14, <2>2 DEF Forget, PlaceInv, TypeOK, local
  <2> QED BY <1>14, <2>1, <2>2 DEF Forget
<1>15. ASSUME Purge PROVE PlaceInv'
  <2>1. CASE Ends
    BY <2>1, IdlePlace DEF Ends
  <2>2. CASE UNCHANGED <<step, local>>
    BY <1>15, <2>2 DEF Purge, PlaceInv, local
  <2> QED BY <1>15, <2>1, <2>2 DEF Purge
<1>16. ASSUME Crash PROVE PlaceInv'
  BY <1>1, <1>16 DEF Crash
<1>17. ASSUME NEW f \in Files, NEW c, UserEdit(f, c)
       PROVE  PlaceInv'
  <2>1. CASE step = "idle"
    BY <1>17, <2>1, IdlePlace DEF UserEdit
  <2>2. CASE step # "idle"
    <3>1. /\ UNCHANGED <<manifest, backups, release, step, todo, file, kept>>
          /\ touched' = touched \cup {f}
      BY <1>17, <2>2 DEF UserEdit
    <3>2. \A g \in Files \ touched' : disk'[g] = disk[g] /\ g \notin touched
      BY <1>17, <3>1 DEF UserEdit, TypeOK
    <3>3. step \in {"replace", "plant", "unlink"} => file \in Files
      BY DEF TypeOK
    <3> QED BY <3>1, <3>2, <3>3 DEF PlaceInv, Files
  <2> QED BY <2>1, <2>2
<1>19. ASSUME NEW r \in Releases, Upgrade(r) PROVE PlaceInv'
  BY <1>19, IdlePlace DEF Upgrade
<1>18. ASSUME UNCHANGED vars PROVE PlaceInv'
  BY <1>18 DEF vars, PlaceInv
<1> QED
  BY <1>3, <1>4, <1>5, <1>6, <1>7, <1>8, <1>9, <1>10, <1>11, <1>12, <1>13, <1>14,
     <1>15, <1>16, <1>17, <1>18, <1>19, StepCases, Zenon

(* PlaceInv holds throughout.                                              *)
LEMMA PlaceCorrect == Spec => [](TypeOK /\ PlaceInv)
<1>1. Init => TypeOK /\ PlaceInv
  BY InitType DEF Init, PlaceInv
<1>2. TypeOK /\ PlaceInv /\ [Next]_vars => (TypeOK /\ PlaceInv)'
  BY TypeStep, PlaceStep
<1> QED BY <1>1, <1>2, PTL DEF Spec

-----------------------------------------------------------------------------
(* A command that succeeds leaves a healthy, up-to-date installation,      *)
(* however many were killed before it.                                     *)
THEOREM RecordsAreTrue == Spec => RecordsWhatIsThere
<1>1. TypeOK /\ PlaceInv /\ [Next]_vars =>
        [manifest' # manifest /\ manifest' # NoManifest =>
           \A a \in Artifacts \ touched : Healthy(a)' /\ disk'[a] = release]_vars
  <2> SUFFICES ASSUME TypeOK, PlaceInv, [Next]_vars,
                      manifest' # manifest, manifest' # NoManifest
               PROVE  \A a \in Artifacts \ touched : Healthy(a)' /\ disk'[a] = release
    OBVIOUS
  <2>1. CASE Record
    BY <2>1 DEF Record, PlaceInv, Healthy
  <2>2. CASE Forget
    BY <2>2 DEF Forget
  <2> QED BY <2>1, <2>2, ManifestWriters
<1> QED BY <1>1, PlaceCorrect, PTL DEF Spec, RecordsWhatIsThere

(* The files of the vault and the backups change only in the calls that    *)
(* are there to change them.                                               *)
LEMMA VaultWriters ==
  ASSUME [Next]_vars
  PROVE  \/ UNCHANGED <<disk, backups>>
         \/ Replace \/ Plant \/ Unlink
         \/ Backup
         \/ Purge
         \/ \E f \in Files, c \in Contents \cup Obstacles \cup {Absent} : UserEdit(f, c)
<1>1. ASSUME Fails PROVE UNCHANGED <<disk, backups>>
  BY <1>1 DEF Fails
<1>2. ASSUME NEW f, Skip(f) \/ GoTo("backup", f) \/ GoTo("plant", f) \/ GoTo("unlink", f)
      PROVE  UNCHANGED <<disk, backups>>
  BY <1>2 DEF Skip, GoTo
<1>3. ASSUME NEW f, ExamineArtifact(f) PROVE UNCHANGED <<disk, backups>>
  BY <1>1, <1>2, <1>3, Zenon DEF ExamineArtifact
<1>4. ASSUME NEW f, ExamineNote(f) PROVE UNCHANGED <<disk, backups>>
  BY <1>1, <1>2, <1>4, Zenon DEF ExamineNote
<1>5. ASSUME NEW f, ExamineTracked(f) PROVE UNCHANGED <<disk, backups>>
  <2>1. ASSUME UNCHANGED <<disk, manifest, backups, release, step, kind, file, listed, touched>>
        PROVE  UNCHANGED <<disk, backups>>
    BY <2>1
  <2> QED BY <1>1, <1>2, <1>5, <2>1, Zenon DEF ExamineTracked
<1>6. ASSUME \/ \E flag \in BOOLEAN : Install(flag) \/ Uninstall(flag)
             \/ Update \/ Repair
      PROVE  UNCHANGED <<disk, backups>>
  BY <1>6 DEF Install, Uninstall, Update, Repair, Begin
<1>7. ASSUME \/ ArtifactsDone \/ SeedDone \/ Record \/ Forget
             \/ \E r \in Releases : Upgrade(r)
             \/ UNCHANGED vars
      PROVE  UNCHANGED <<disk, backups>>
  BY <1>7 DEF ArtifactsDone, SeedDone, Record, Forget, Upgrade, vars
<1> QED
  BY <1>1, <1>3, <1>4, <1>5, <1>6, <1>7, StepCases, Zenon DEF Crash

(* The manifest and the backups outlast every plugin file.                 *)
THEOREM ForgetsLast == Spec => ForgetsOnlyWhenGone
<1>1. TypeOK /\ PlaceInv /\ [Next]_vars =>
        [(manifest # NoManifest /\ manifest' = NoManifest)
            \/ ~(backups \subseteq backups') =>
           \A a \in Artifacts \ touched : disk[a] = Absent]_vars
  <2> SUFFICES ASSUME TypeOK, PlaceInv, [Next]_vars,
                      (manifest # NoManifest /\ manifest' = NoManifest)
                        \/ ~(backups \subseteq backups')
               PROVE  \A a \in Artifacts \ touched : disk[a] = Absent
    OBVIOUS
  <2>1. ASSUME manifest # NoManifest, manifest' = NoManifest
        PROVE  \A a \in Artifacts \ touched : disk[a] = Absent
    <3>1. CASE Record
      BY <2>1, <3>1, ManagerConstants DEF Record, TypeOK, Manifest
    <3>2. CASE Forget
      BY <2>1, <3>2 DEF Forget, PlaceInv
    <3> QED BY <2>1, <3>1, <3>2, ManifestWriters
  <2>2. ASSUME ~(backups \subseteq backups')
        PROVE  \A a \in Artifacts \ touched : disk[a] = Absent
    <3>1. CASE Purge
      BY <3>1 DEF Purge, PlaceInv
    <3>2. CASE Replace \/ Plant \/ Unlink
      BY <2>2, <3>2 DEF Replace, Plant, Unlink, Fails
    <3>3. CASE Backup
      BY <2>2, <3>3 DEF Backup
    <3>4. ASSUME NEW f, NEW c, UserEdit(f, c) PROVE FALSE
      BY <2>2, <3>4 DEF UserEdit
    <3> QED BY <2>2, <3>1, <3>2, <3>3, <3>4, VaultWriters
  <2> QED BY <2>1, <2>2
<1> QED BY <1>1, PlaceCorrect, PTL DEF Spec, ForgetsOnlyWhenGone

-----------------------------------------------------------------------------
(* The touched files are forgotten when an operation ends, and only a user *)
(* adds to them.                                                           *)
LEMMA TouchedSteps ==
  ASSUME [Next]_vars
  PROVE  \/ step # "idle" /\ touched' = IF step' # "idle" THEN touched ELSE {}
         \/ step = "idle" /\ UNCHANGED touched
         \/ \E f \in Files, c \in Contents \cup Obstacles \cup {Absent} : UserEdit(f, c)
<1> DEFINE Works == step # "idle" /\ touched' = IF step' # "idle" THEN touched ELSE {}
           Stays == UNCHANGED <<step, touched>>
<1>1. ASSUME step # "idle", Ends PROVE Works
  BY <1>1 DEF Ends
<1>2. ASSUME step # "idle", Fails PROVE Works
  BY <1>1, <1>2 DEF Fails
<1>3. ASSUME NEW f, Skip(f) PROVE Stays
  BY <1>3 DEF Skip
<1>4. ASSUME NEW f, step # "idle", GoTo("backup", f) \/ GoTo("plant", f) \/ GoTo("unlink", f)
      PROVE  Works
  BY <1>4 DEF GoTo
<1>5. ASSUME NEW f, ExamineArtifact(f) PROVE Works \/ Stays
  BY <1>2, <1>3, <1>4, <1>5 DEF ExamineArtifact
<1>6. ASSUME NEW f, ExamineNote(f) PROVE Works \/ Stays
  BY <1>2, <1>3, <1>4, <1>6 DEF ExamineNote
<1>7. ASSUME NEW f, ExamineTracked(f) PROVE Works \/ Stays
  <2>1. ASSUME UNCHANGED <<disk, manifest, backups, release, step, kind, file, listed, touched>>
        PROVE  Stays
    BY <2>1
  <2> QED BY <1>2, <1>3, <1>4, <1>7, <2>1 DEF ExamineTracked
<1>8. ASSUME Replace \/ Plant \/ Unlink PROVE Works
  BY <1>2, <1>8 DEF Replace, Plant, Unlink
<1>9. ASSUME Backup \/ ArtifactsDone \/ SeedDone PROVE Works
  BY <1>9 DEF Backup, ArtifactsDone, SeedDone, local
<1>10. ASSUME Record \/ Forget \/ Purge PROVE Works
  BY <1>1, <1>10 DEF Record, Forget, Purge, local
<1>11. ASSUME \/ \E flag \in BOOLEAN : Install(flag) \/ Uninstall(flag)
              \/ Update \/ Repair
              \/ \E r \in Releases : Upgrade(r)
       PROVE  step = "idle" /\ UNCHANGED touched
  BY <1>11 DEF Install, Uninstall, Update, Repair, Begin, Upgrade, local
<1>12. ASSUME Crash PROVE Works
  BY <1>2, <1>12 DEF Crash
<1>13. ASSUME UNCHANGED vars PROVE Stays
  BY <1>13 DEF vars
<1>14. Works \/ Stays \/ (step = "idle" /\ UNCHANGED touched)
         \/ \E f \in Files, c \in Contents \cup Obstacles \cup {Absent} : UserEdit(f, c)
  <2> HIDE DEF Works, Stays
  <2> QED
    BY <1>5, <1>6, <1>7, <1>8, <1>9, <1>10, <1>11, <1>12, <1>13, StepCases, Zenon
<1> QED BY <1>14

(* The manager keeps custody of the vault's files: but for the ones that   *)
(* are touched while it is at work, personal plugin files are replaced     *)
(* only when saved and never removed, notes are never replaced.            *)
THEOREM CustodyKept == Spec => CustodySpec
<1> USE ManagerConstants
<1>1. Init => Custody!Init
  BY DEF Init, Custody!Init
<1>2. TypeOK /\ PlaceInv /\ [Next]_vars => [Custody!Next]_Custody!vars
  <2> SUFFICES ASSUME TypeOK, PlaceInv, [Next]_vars
               PROVE  [Custody!Next]_Custody!vars
    OBVIOUS
  <2> USE DEF Custody!Next, Custody!vars
  <2> DEFINE Kept == touched' = IF step' # "idle" THEN touched ELSE {}
  <2>1. ASSUME NEW f \in Files, NEW c, UserEdit(f, c) PROVE Custody!Next
    <3>1. /\ UNCHANGED <<backups, step>>
          /\ touched' = IF step # "idle" THEN touched \cup {f} ELSE touched
          /\ \A g \in Files \ {f} : disk'[g] = disk[g]
      BY <2>1 DEF UserEdit, TypeOK
    <3>2. Custody!UserChanges
      BY <3>1 DEF Custody!UserChanges, Custody!Files, Files
    <3> QED BY <3>2
  <2>2. CASE UNCHANGED <<disk, backups>>
    <3>1. CASE step # "idle" /\ Kept
      BY <2>2, <3>1 DEF Custody!ToolWorks, Custody!Save
    <3>2. CASE step = "idle" /\ UNCHANGED touched
      BY <2>2, <3>2 DEF Custody!ToolStarts
    <3> QED BY <2>1, <3>1, <3>2, TouchedSteps
  <2>3. CASE Fails /\ step # "idle"
    BY <2>2, <2>3 DEF Fails
  <2>4. CASE Replace
    <3>1. CASE disk' = [disk EXCEPT ![file] = release] /\ step' = "artifacts"
               /\ UNCHANGED <<backups, touched>>
      <4>1. file \in Artifacts /\ release \in Releases
        BY <2>4 DEF Replace, TypeOK
      <4>2. file \in touched
              \/ (disk[file] \in UserContents => <<file, disk[file]>> \in backups)
        BY <2>4 DEF Replace, PlaceInv
      <4>3. Custody!Provide(file, release)
        BY <3>1, <4>1, <4>2 DEF Custody!Provide
      <4>4. Custody!ToolWorks
        BY <2>4, <3>1, <4>1, <4>3 DEF Replace, Custody!ToolWorks, Custody!Files
      <4> QED BY <4>4
    <3> QED BY <2>3, <2>4, <3>1 DEF Replace
  <2>5. CASE Plant
    <3>1. CASE disk' = [disk EXCEPT ![file] = release] /\ step' = "seed"
               /\ UNCHANGED <<backups, touched>>
      <4>1. file \in Notes /\ release \in Releases
        BY <2>5 DEF Plant, TypeOK
      <4>2. (file \in touched \/ disk[file] = Absent) /\ Absent \notin UserContents
        BY <2>5 DEF Plant, PlaceInv, Contents, Absent
      <4>3. Custody!Provide(file, release)
        BY <3>1, <4>1, <4>2 DEF Custody!Provide
      <4>4. Custody!ToolWorks
        BY <2>5, <3>1, <4>1, <4>3 DEF Plant, Custody!ToolWorks, Custody!Files
      <4> QED BY <4>4
    <3> QED BY <2>3, <2>5, <3>1 DEF Plant
  <2>6. CASE Unlink
    <3>1. CASE disk' = [disk EXCEPT ![file] = Absent] /\ step' = "tracked"
               /\ UNCHANGED <<backups, touched>>
      <4>1. file \in Artifacts /\ manifest \in Manifest
        BY <2>6 DEF Unlink, TypeOK
      <4>2. file \in touched \/ disk[file] \in Releases
        BY <2>6, <4>1 DEF Unlink, PlaceInv, Manifest
      <4>3. Custody!Withdraw(file)
        BY <3>1, <4>2 DEF Custody!Withdraw
      <4>4. Custody!ToolWorks
        BY <2>6, <3>1, <4>1, <4>3 DEF Unlink, Custody!ToolWorks
      <4> QED BY <4>4
    <3> QED BY <2>3, <2>6, <3>1 DEF Unlink
  <2>7. CASE Backup
    BY <2>7 DEF Backup, local, Custody!ToolWorks, Custody!Save
  <2>8. CASE Purge
    <3>1. step # "idle" /\ Kept /\ disk' = disk
      BY <2>8 DEF Purge, Ends, local
    <3>2. Custody!Discard
      BY <2>8 DEF Purge, PlaceInv, Custody!Discard
    <3> QED BY <3>1, <3>2 DEF Custody!ToolWorks
  <2> QED BY <2>1, <2>2, <2>4, <2>5, <2>6, <2>7, <2>8, VaultWriters
<1> QED BY <1>1, <1>2, PlaceCorrect, PTL DEF Spec, CustodySpec, Custody!Spec

-----------------------------------------------------------------------------
(* An operation ends.                                                      *)

FiniteInv == TypeOK /\ IsFiniteSet(backups)

LEMMA FiniteCorrect == Spec => []FiniteInv
<1>1. Init => IsFiniteSet(backups)
  BY FS_EmptySet DEF Init
<1>2. TypeOK /\ IsFiniteSet(backups) /\ [Next]_vars => IsFiniteSet(backups)'
  <2> SUFFICES ASSUME IsFiniteSet(backups), [Next]_vars
               PROVE  IsFiniteSet(backups')
    OBVIOUS
  <2>1. CASE UNCHANGED backups
    BY <2>1
  <2>2. CASE Backup
    BY <2>2, FS_AddElement DEF Backup
  <2>3. CASE Purge
    BY <2>3, FS_RemoveElement DEF Purge
  <2>4. QED
    BY <2>1, <2>2, <2>3, StepCases
    DEF Install, Uninstall, Update, Repair, Begin, ExamineArtifact, Replace, ArtifactsDone,
        ExamineNote, Plant, SeedDone, Record, ExamineTracked, Unlink, Forget, Crash, UserEdit,
        Upgrade, Skip, Fails, GoTo, vars
<1>3. QED
  BY <1>1, <1>2, TypeCorrect, PTL DEF Spec, FiniteInv

(* A call that takes a file out of the loop leaves fewer of them.          *)
LEMMA OneFewer ==
  ASSUME NEW S, IsFiniteSet(S), NEW x \in S
  PROVE  Cardinality(S \ {x}) < Cardinality(S)
<1>1. Cardinality(S) \in Nat /\ Cardinality(S \ {x}) = Cardinality(S) - 1
  BY FS_CardinalityType, FS_RemoveElement
<1>2. QED
  BY <1>1

Closer ==
  \/ LoopsAhead' < LoopsAhead
  \/ LoopsAhead' = LoopsAhead /\ FilesAhead' < FilesAhead
  \/ LoopsAhead' = LoopsAhead /\ FilesAhead' = FilesAhead /\ CallsAhead' < CallsAhead

LEMMA EndsCloser == ASSUME TypeOK, step # "idle", Ends PROVE Closer
BY DEF TypeOK, Steps, Ends, Closer, LoopsAhead

(* One file less of the loop the operation is in                           *)
LEMMA FileCloser ==
  ASSUME FiniteInv, step # "purge", step' # "purge", LoopsAhead' = LoopsAhead,
         NEW f \in todo, todo' = todo \ {f}
  PROVE  Closer
<1>1. IsFiniteSet(todo)
  BY ManagerConstants, FS_Subset DEF FiniteInv, TypeOK
<1>2. FilesAhead' < FilesAhead
  BY <1>1, OneFewer DEF FilesAhead
<1>3. QED
  BY <1>2 DEF Closer

LEMMA CallCloser ==
  ASSUME step # "purge", step' # "purge", LoopsAhead' = LoopsAhead, CallsAhead' < CallsAhead,
         todo' = todo
  PROVE  Closer
BY DEF Closer, FilesAhead

(* Every call of an operation takes it closer to its end, whatever its     *)
(* user does meanwhile: a chain of calls cannot be without end.            *)
THEOREM OperationsRunOut == Spec => CallsRunOut
<1>1. ASSUME FiniteInv, [Next]_vars, vars' # vars, step # "idle"
      PROVE  Closer \/ (<<disk, touched>>' # <<disk, touched>> /\ UNCHANGED <<step, todo, backups>>)
  <2> DEFINE Goal == Closer \/ (<<disk, touched>>' # <<disk, touched>> /\ UNCHANGED <<step, todo, backups>>)
  <2> USE DEF LoopsAhead
  <2>1. ASSUME Ends
        PROVE  Closer
    BY <1>1, <2>1, EndsCloser DEF FiniteInv
  <2>2. ASSUME NEW f, f \in todo, Skip(f), step \in {"artifacts", "seed", "tracked"}
        PROVE  Closer
    BY <1>1, <2>2, FileCloser DEF Skip
  <2>3. ASSUME NEW a \in Files, ExamineArtifact(a)
        PROVE  Closer
    <3>1. CASE GoTo("backup", a)
      BY <2>3, <3>1, CallCloser DEF ExamineArtifact, GoTo, CallsAhead
    <3>2. QED
      BY <2>1, <2>2, <2>3, <3>1 DEF ExamineArtifact, Fails
  <2>4. CASE Backup
    BY <2>4, CallCloser DEF Backup, CallsAhead, local
  <2>5. CASE Replace
    <3>1. file \in todo
      BY <1>1, <2>5 DEF Replace, FiniteInv, TypeOK
    <3>2. QED
      BY <1>1, <2>1, <2>5, <3>1, FileCloser DEF Replace, Fails
  <2>6. CASE ArtifactsDone \/ SeedDone
    BY <2>6 DEF ArtifactsDone, SeedDone, Closer
  <2>7. ASSUME NEW n \in Files, ExamineNote(n)
        PROVE  Closer
    <3>1. CASE GoTo("plant", n)
      BY <2>7, <3>1, CallCloser DEF ExamineNote, GoTo, CallsAhead
    <3>2. QED
      BY <2>1, <2>2, <2>7, <3>1 DEF ExamineNote, Fails
  <2>8. CASE Plant
    <3>1. file \in todo
      BY <1>1, <2>8 DEF Plant, FiniteInv, TypeOK
    <3>2. QED
      BY <1>1, <2>1, <2>8, <3>1, FileCloser DEF Plant, Fails
  <2>9. CASE Record
    BY <2>1, <2>9 DEF Record
  <2>10. ASSUME NEW a \in Files, ExamineTracked(a)
         PROVE  Closer
    <3>1. CASE GoTo("unlink", a)
      BY <2>10, <3>1, CallCloser DEF ExamineTracked, GoTo, CallsAhead
    <3>2. CASE todo' = todo \ {a} /\ step' = step
      BY <1>1, <2>10, <3>2, FileCloser DEF ExamineTracked
    <3>3. QED
      BY <2>1, <2>2, <2>10, <3>1, <3>2 DEF ExamineTracked, Fails
  <2>11. CASE Unlink
    <3>1. file \in todo
      BY <1>1, <2>11 DEF Unlink, FiniteInv, TypeOK
    <3>2. QED
      BY <1>1, <2>1, <2>11, <3>1, FileCloser DEF Unlink, Fails
  <2>12. CASE Forget
    <3>1. CASE step' = "purge"
      <4>1. step = "tracked"
        BY <2>12 DEF Forget
      <4>2. QED
        BY <3>1, <4>1 DEF Closer
    <3>2. CASE Ends
      BY <2>1, <3>2
    <3>3. QED
      BY <2>12, <3>1, <3>2, Zenon DEF Forget
  <2>13. CASE Purge
    <3>1. ASSUME NEW b \in backups, backups' = backups \ {b}, UNCHANGED <<step, local>>
          PROVE  Closer
      <4>1. FilesAhead' < FilesAhead
        BY <1>1, <2>13, <3>1, OneFewer DEF Purge, FilesAhead, FiniteInv
      <4>2. QED
        BY <3>1, <4>1 DEF Closer
    <3>2. QED
      BY <2>1, <2>13, <3>1 DEF Purge
  <2>14. CASE Crash
    BY <2>1, <2>14 DEF Crash, Fails
  <2>15. ASSUME NEW f \in Files, NEW c \in Contents \cup Obstacles \cup {Absent}, UserEdit(f, c)
         PROVE  Goal
    BY <1>1, <2>15 DEF UserEdit, vars
  <2>16. ~(\E flag \in BOOLEAN : Install(flag)) /\ ~(\E flag \in BOOLEAN : Uninstall(flag))
         /\ ~Update /\ ~Repair /\ ~(\E r \in Releases : Upgrade(r)) /\ ~UNCHANGED vars
    BY <1>1 DEF Install, Uninstall, Update, Repair, Begin, Upgrade
  <2> HIDE DEF LoopsAhead, Goal
  <2>17. Goal
    BY <1>1, <2>3, <2>4, <2>5, <2>6, <2>7, <2>8, <2>9, <2>10, <2>11, <2>12, <2>13, <2>14, <2>15,
       <2>16, Zenon DEF Next, Command, ManagerStep, Environment, Goal
  <2>18. QED
    BY <2>17 DEF Goal
<1>2. FiniteInv /\ [Next]_vars =>
        [step # "idle" =>
           \/ LoopsAhead' < LoopsAhead
           \/ LoopsAhead' = LoopsAhead /\ FilesAhead' < FilesAhead
           \/ LoopsAhead' = LoopsAhead /\ FilesAhead' = FilesAhead /\ CallsAhead' < CallsAhead
           \/ <<disk, touched>>' # <<disk, touched>> /\ UNCHANGED <<step, todo, backups>>]_vars
  BY <1>1 DEF Closer
<1>3. QED
  BY <1>2, FiniteCorrect, PTL DEF Spec, CallsRunOut
=============================================================================
