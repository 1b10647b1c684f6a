--------------------------- MODULE ValidationBridge ---------------------------
(***************************************************************************)
(* The validation-only bridge: run_forever scans the read-only zone again  *)
(* and again and stops at the first scan that is not safe; the service     *)
(* manager starts it again, a few times in each interval, and then gives   *)
(* it up.  Users and synchronisation change the tree while a scan is under *)
(* way.                                                                    *)
(*                                                                         *)
(* Paths and directories are numbers, in the order the scan takes them.  A *)
(* file that a check of its name, its size, its schema or its contents     *)
(* turns down is "invalid"; what is neither a file nor a symlink, or has   *)
(* another suffix, is "other".  Whatever is below a directory that the     *)
(* bridge may not list or search is "hidden".  A resource directory that   *)
(* is missing or a symlink is "unfit".  One directory is listed in one     *)
(* step.                                                                   *)
(***************************************************************************)
EXTENDS Naturals, FiniteSets

CONSTANTS
  Directories,  \* keys of _RESOURCE_DIRECTORIES
  Paths,
  DirectoryOf,  \* the directory of each path
  FoldedName,   \* its name after NFC normalisation and case folding
  MaxFiles,     \* max_files_per_scan
  StartLimitBurst

ASSUME BridgeConstants ==
  /\ Directories \subseteq Nat /\ Paths \subseteq Nat /\ IsFiniteSet(Paths)
  /\ DirectoryOf \in [Paths -> Directories]
  /\ DOMAIN FoldedName = Paths
  /\ MaxFiles \in Nat
  /\ StartLimitBurst \in Nat \ {0}

VARIABLES
  boundaries,   \* zones, mask and policies are as verify_static_boundaries wants
  directories, tree,
  phase,
  rest,         \* directories, then candidates, that are still to do
  seen,         \* seen_entries
  limitReached, \* file_limit_reached
  candidates,
  issues,       \* there are issues
  starts,       \* how often the unit was started in this interval
  persisting,   \* auxiliary: the problems there have been since the scan began
  steady,       \* auxiliary: the entries there have been since the scan began,
                \* as long as they are too many
  undisturbed   \* auxiliary: nothing has changed since the scan began

world == <<boundaries, directories, tree>>

history == <<persisting, steady, undisturbed>>

scan == <<rest, seen, limitReached, candidates, issues>>

vars == <<world, phase, scan, starts, history>>

Kinds == {"absent", "other", "valid", "invalid", "symlink", "hidden"}

(* What root.rglob yields: below a directory that it cannot list, nothing. *)
Entries(d) == {p \in Paths : DirectoryOf[p] = d /\ tree[p] \notin {"absent", "hidden"}}

Files == {p \in Paths : tree[p] \in {"valid", "invalid"}}

Collide(S) == \E p, q \in S : p # q /\ FoldedName[p] = FoldedName[q]

CollidingNames ==
  {pq \in Files \X Files : pq[1] # pq[2] /\ FoldedName[pq[1]] = FoldedName[pq[2]]}

AllEntries == {p \in Paths : tree[p] \notin {"absent", "hidden"}}

(* What is wrong with the tree as it can be read, but for its size.        *)
Problems ==
  {<<"boundaries">> : b \in {boundaries} \ {TRUE}}
    \cup {<<"directory", d>> : d \in {e \in Directories : directories[e] # "present"}}
    \cup {<<tree[p], p>> : p \in {q \in Paths : tree[q] \in {"invalid", "symlink"}}}
    \cup {<<"names", pair[1], pair[2]>> : pair \in CollidingNames}

(* Entries that are too many for a scan, or none.                          *)
Crowd(S) == IF Cardinality(S) > MaxFiles THEN S ELSE {}

Phases == {"sleeping", "starting", "listing", "checking", "stopped", "failed"}

TypeOK ==
  /\ boundaries \in BOOLEAN
  /\ directories \in [Directories -> {"present", "unfit"}]
  /\ tree \in [Paths -> Kinds]
  /\ \A p \in Paths : tree[p] # "absent" => directories[DirectoryOf[p]] = "present"
  /\ phase \in Phases
  /\ rest \subseteq IF phase = "listing" THEN Directories ELSE candidates
  /\ candidates \subseteq Paths
  /\ seen \in 0..MaxFiles + 1 /\ Cardinality(candidates) <= MaxFiles
  /\ limitReached = (seen = MaxFiles + 1) /\ (limitReached => issues)
  /\ issues \in BOOLEAN
  /\ starts \in 1 .. StartLimitBurst
  /\ steady \subseteq AllEntries /\ persisting \subseteq Problems /\ undisturbed \in BOOLEAN

Init ==
  /\ boundaries = TRUE
  /\ directories = [d \in Directories |-> "present"]
  /\ tree = [p \in Paths |-> "absent"]
  /\ phase = "starting"
  /\ rest = {} /\ seen = 0 /\ limitReached = FALSE
  /\ candidates = {} /\ issues = FALSE
  /\ starts = 1
  /\ persisting = {} /\ steady = {} /\ undisturbed = FALSE

-----------------------------------------------------------------------------
(* scan_once                                                               *)

First(S) == CHOOSE x \in S : \A y \in S : x <= y

(* scan_once returns or raises: what it knew is gone.                      *)
EndScan(p) ==
  /\ phase' = p
  /\ rest' = {} /\ seen' = 0 /\ limitReached' = FALSE /\ candidates' = {} /\ issues' = FALSE
  /\ persisting' = {} /\ steady' = {} /\ undisturbed' = FALSE
  /\ UNCHANGED <<world, starts>>

StartScan ==
  /\ phase \in {"sleeping", "starting"}
  /\ \/ ~boundaries /\ EndScan("stopped")
     \/ /\ boundaries
        /\ phase' = "listing" /\ rest' = Directories
        /\ persisting' = Problems /\ steady' = Crowd(AllEntries) /\ undisturbed' = TRUE
        /\ UNCHANGED <<world, seen, limitReached, candidates, issues, starts>>

(* Mutant of SkipDirectory: a directory that is not there has no problems. *)
SkipDirectorySilently(d) ==
  /\ directories[d] # "present" \/ limitReached
  /\ UNCHANGED <<seen, limitReached, candidates, issues>>

(* A directory that is missing, a symlink, or beyond the limit.            *)
SkipDirectory(d) ==
  /\ directories[d] # "present" \/ limitReached
  /\ issues' = (issues \/ directories[d] # "present")
  /\ UNCHANGED <<seen, limitReached, candidates>>

(* Mutant of Exceeds: the limit itself is too much.                        *)
Reaches(n) == n >= MaxFiles

Exceeds(n) == n > MaxFiles

(* Mutant of WalkIssue: the walk is cut short without a word.              *)
SymlinkIssue(d, walked) == \E p \in walked : tree[p] = "symlink"

WalkIssue(d, walked) ==
  Exceeds(seen + Cardinality(Entries(d))) \/ \E p \in walked : tree[p] = "symlink"

(* The walk of a directory, in any order, up to the first entry beyond the *)
(* limit.                                                                  *)
ListDirectory(d) ==
  /\ directories[d] = "present" /\ ~limitReached
  /\ \E walked \in SUBSET Entries(d) :
       /\ IF Exceeds(seen + Cardinality(Entries(d)))
            THEN /\ seen + Cardinality(walked) = MaxFiles
                 /\ seen' = MaxFiles + 1 /\ limitReached' = TRUE
            ELSE /\ walked = Entries(d)
                 /\ seen' = seen + Cardinality(walked) /\ UNCHANGED limitReached
       /\ candidates' = candidates \cup (walked \cap Files)
       /\ issues' = (issues \/ WalkIssue(d, walked))

Listing ==
  /\ phase = "listing" /\ rest # {}
  /\ SkipDirectory(First(rest)) \/ ListDirectory(First(rest))
  /\ rest' = rest \ {First(rest)}
  /\ UNCHANGED <<world, phase, starts, history>>

(* path.is_symlink raises at what is listed and may not be searched.       *)
Denied ==
  /\ phase = "listing" /\ rest # {} /\ ~limitReached
  /\ \E p \in Paths : DirectoryOf[p] = First(rest) /\ tree[p] = "hidden"
  /\ EndScan("stopped")

(* find_case_unicode_collisions                                            *)
Compare ==
  /\ phase = "listing" /\ rest = {}
  /\ phase' = "checking" /\ rest' = candidates
  /\ issues' = (issues \/ Collide(candidates))
  /\ UNCHANGED <<world, seen, limitReached, candidates, starts, history>>

(* What load_resource makes of a file, and the schema test.  A symlink put *)
(* in its place since the listing is followed, to who knows what; what is  *)
(* in a directory that can only be searched is read all the same; a name   *)
(* that tells of a conflict is turned down even when its file is gone.     *)
MayReject == {"invalid", "other", "symlink", "hidden", "absent"}

MayAccept == {"valid", "symlink", "hidden"}

CheckFile ==
  /\ phase = "checking" /\ rest # {}
  /\ LET p == First(rest) IN
       \/ /\ \/ tree[p] \in MayReject /\ issues' = TRUE
             \/ tree[p] \in MayAccept /\ UNCHANGED issues
          /\ rest' = rest \ {p}
          /\ UNCHANGED <<world, phase, seen, limitReached, candidates, starts, history>>
       \/ (* path.stat raises outside of the try block                     *)
          tree[p] \in {"absent", "hidden"} /\ EndScan("stopped")

(* Mutant of Report: the issues are reported and the loop goes on.         *)
ReportAndGoOn ==
  /\ phase = "checking" /\ rest = {}
  /\ EndScan("sleeping")

(* run_forever                                                             *)
Report ==
  /\ phase = "checking" /\ rest = {}
  /\ EndScan(IF issues THEN "stopped" ELSE "sleeping")

-----------------------------------------------------------------------------
(* The service manager                                                     *)

(* Restart=on-failure, up to the start limit: a unit that has used it up   *)
(* has failed for good, unless the interval is over by now.                *)
Restart ==
  /\ phase = "stopped"
  /\ \E n \in {starts, 0} :
       IF n < StartLimitBurst THEN phase' = "starting" /\ starts' = n + 1
                              ELSE phase' = "failed" /\ UNCHANGED starts
  /\ UNCHANGED <<world, scan, history>>

Bridge == StartScan \/ Listing \/ Denied \/ Compare \/ CheckFile \/ Report \/ Restart

(* An operator starts the unit that was given up.                          *)
StartByHand ==
  /\ phase = "failed"
  /\ phase' = "starting" /\ starts' = 1
  /\ UNCHANGED <<world, scan, history>>

-----------------------------------------------------------------------------
(* The zone changes                                                        *)

BoundariesChange ==
  /\ boundaries' = ~boundaries
  /\ UNCHANGED <<directories, tree>>

DirectoryChanges(d, s) ==
  /\ s # directories[d]
  /\ directories' = [directories EXCEPT ![d] = s]
  /\ tree' = [p \in Paths |-> IF DirectoryOf[p] = d THEN "absent" ELSE tree[p]]
  /\ UNCHANGED boundaries

PathChanges(p, k) ==
  /\ directories[DirectoryOf[p]] = "present" /\ k # tree[p]
  /\ tree' = [tree EXCEPT ![p] = k]
  /\ UNCHANGED <<boundaries, directories>>

Change ==
  /\ \/ BoundariesChange
     \/ \E d \in Directories, s \in {"present", "unfit"} :
          DirectoryChanges(d, s)
     \/ \E p \in Paths, k \in Kinds : PathChanges(p, k)
  /\ persisting' = persisting \cap Problems' /\ steady' = Crowd(steady \cap AllEntries')
  /\ undisturbed' = FALSE
  /\ UNCHANGED <<phase, scan, starts>>

Next == Bridge \/ StartByHand \/ Change

(* The process runs, and the service manager does what the unit says when  *)
(* it has ended.  Nobody need start a unit that was given up.              *)
Spec == Init /\ [][Next]_vars /\ WF_vars(Bridge)

-----------------------------------------------------------------------------
(* Properties                                                              *)

(* A scan that ends safe has not overlooked what was wrong all through it, *)
(* whatever else changed meanwhile: not a file or a symlink it had to      *)
(* reject, a pair of names that collide, a directory that was not there or *)
(* more entries than it may walk.  Of what is hidden from the bridge it    *)
(* says nothing: rglob passes over it without an issue.                    *)
SafeScanMissesNothing ==
  [][phase = "checking" /\ phase' = "sleeping" =>
       persisting = {} /\ Cardinality(steady) <= MaxFiles]_vars

(* What a scan is to find nothing wrong with.                              *)
InOrder ==
  /\ Problems = {} /\ Cardinality(AllEntries) <= MaxFiles
  /\ \A p \in Paths : tree[p] # "hidden"

(* No false alarm: a scan of a tree that is in order and that nobody       *)
(* touches meanwhile does not stop the bridge, however much there is in it *)
(* up to the limit; what was there before the scan plays no part.          *)
NoFalseAlarm ==
  [][undisturbed /\ InOrder => phase' # "stopped"]_vars

(* A problem that stays, and stays readable, stops the bridge: from some   *)
(* time on no scan ends safe.                                              *)
ProblemStopsBridge ==
  \A p \in Paths, k \in {"invalid", "symlink"} :
    <>[](tree[p] = k) => <>[](phase # "sleeping")

(* Once the tree is in order, readable, not too large and left alone, the  *)
(* bridge runs on, unless its failures had used up the start limit by then *)
(* and nobody starts it by hand.                                           *)
RepairLetsItRun ==
  /\ <>[][UNCHANGED world]_world
  /\ <>[]InOrder
  => <>[](phase \notin {"stopped", "failed"}) \/ <>[](phase = "failed")
=============================================================================
