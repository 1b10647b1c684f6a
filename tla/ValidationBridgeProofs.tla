------------------------ MODULE ValidationBridgeProofs ------------------------
(* Theorems about ValidationBridge, for any directories and files, any names *)
(* and any limit.                                                            *)
EXTENDS ValidationBridge, FiniteSetTheorems, WellFoundedInduction, TLAPS

USE BridgeConstants

(* The scan takes what is still to do in its order.                        *)
LEMMA FirstIsThere ==
  ASSUME NEW S, S \subseteq Nat, S # {}
  PROVE  First(S) \in S
<1>1. PICK x \in S : \A y \in S : <<y, x>> \notin OpToRel(<, Nat)
  BY NatLessThanWellFounded, WFMin
<1>2. \A y \in S : x <= y
  <2>1. SUFFICES ASSUME NEW y \in S
                 PROVE  x <= y
    OBVIOUS
  <2>2. ~(y < x)
    BY <1>1 DEF OpToRel
  <2>3. x \in Nat /\ y \in Nat
    OBVIOUS
  <2>4. QED
    BY <2>2, <2>3
<1>3. QED
  BY <1>2 DEF First

(* What the members of Problems stand for                                  *)
LEMMA ProblemsMean ==
  /\ <<"boundaries">> \in Problems => boundaries # TRUE
  /\ \A d : <<"directory", d>> \in Problems => d \in Directories /\ directories[d] # "present"
  /\ \A p, k : <<k, p>> \in Problems /\ k \in {"invalid", "symlink"} =>
       p \in Paths /\ tree[p] = k
  /\ \A p, q : <<"names", p, q>> \in Problems =>
       /\ p \in Files /\ q \in Files /\ p # q /\ FoldedName[p] = FoldedName[q]
<1>1. <<"boundaries">> \in Problems => boundaries # TRUE
  BY DEF Problems
<1>2. ASSUME NEW d, <<"directory", d>> \in Problems
      PROVE  d \in Directories /\ directories[d] # "present"
  BY <1>2 DEF Problems
<1>3. ASSUME NEW p, NEW k, <<k, p>> \in Problems, k \in {"invalid", "symlink"}
      PROVE  p \in Paths /\ tree[p] = k
  BY <1>3 DEF Problems
<1>4. ASSUME NEW p, NEW q, <<"names", p, q>> \in Problems
      PROVE  /\ p \in Files /\ q \in Files /\ p # q /\ FoldedName[p] = FoldedName[q]
  <2>1. PICK pair \in Files \X Files :
               /\ <<"names", p, q>> = <<"names", pair[1], pair[2]>>
               /\ pair[1] # pair[2] /\ FoldedName[pair[1]] = FoldedName[pair[2]]
    BY <1>4 DEF Problems, CollidingNames
  <2>2. QED
    BY <2>1
<1>5. QED
  BY <1>1, <1>2, <1>3, <1>4

LEMMA EntriesAreFinite ==
  /\ IsFiniteSet(AllEntries) /\ AllEntries \subseteq Paths
  /\ \A d : IsFiniteSet(Entries(d)) /\ Cardinality(Entries(d)) \in Nat
<1>1. AllEntries \subseteq Paths /\ \A d : Entries(d) \subseteq Paths
  BY DEF AllEntries, Entries
<1>2. QED
  BY <1>1, FS_Subset, FS_CardinalityType

-----------------------------------------------------------------------------
(* What a scan without issues has seen to                                  *)

(* Of the problems that persist, none is in the directories that are done, *)
(* but for files that the checks still reject and names that the           *)
(* comparison still finds.                                                 *)
Listed(Done) ==
  /\ \A d \in Done : <<"directory", d>> \notin persisting
  /\ \A p \in Paths : DirectoryOf[p] \in Done =>
       <<"symlink", p>> \notin persisting /\ (<<"invalid", p>> \in persisting => p \in candidates)
  /\ \A p, q \in Paths : <<"names", p, q>> \in persisting =>
       /\ DirectoryOf[p] \in Done => p \in candidates
       /\ DirectoryOf[q] \in Done => q \in candidates

In(Done) == {p \in Paths : DirectoryOf[p] \in Done}

Compared ==
  /\ \A d \in Directories : <<"directory", d>> \notin persisting
  /\ \A p \in Paths : <<"symlink", p>> \notin persisting
  /\ \A p \in Paths : <<"invalid", p>> \in persisting => p \in rest
  /\ \A p, q \in Paths : <<"names", p, q>> \notin persisting
  /\ Cardinality(steady) <= MaxFiles

Remembered ==
  /\ boundaries \in BOOLEAN
  /\ persisting \subseteq Problems /\ steady \subseteq AllEntries

Shape ==
  /\ seen \in Nat /\ candidates \subseteq Paths
  /\ phase = "listing" => rest \subseteq Directories
  /\ phase = "checking" => rest \subseteq Paths
  /\ limitReached => issues

ScanInv ==
  /\ phase \in {"listing", "checking"} /\ ~issues => <<"boundaries">> \notin persisting
  /\ phase = "listing" /\ ~issues =>
       /\ Listed(Directories \ rest)
       /\ Cardinality(steady \cap In(Directories \ rest)) <= seen /\ seen <= MaxFiles
  /\ phase = "checking" /\ ~issues => Compared

(* Between two scans nothing is left of the last one.                      *)
Idle ==
  phase \notin {"listing", "checking"} =>
    rest = {} /\ seen = 0 /\ limitReached = FALSE /\ candidates = {} /\ issues = FALSE

Inv == Remembered /\ Shape /\ Idle /\ ScanInv

LEMMA SteadyIsFinite ==
  ASSUME Remembered, NEW S
  PROVE  IsFiniteSet(steady \cap S) /\ Cardinality(steady \cap S) \in Nat
         /\ IsFiniteSet(steady) /\ Cardinality(steady) \in Nat
<1>1. steady \subseteq Paths /\ steady \cap S \subseteq Paths
  BY EntriesAreFinite DEF Remembered
<1>2. QED
  BY <1>1, FS_Subset, FS_CardinalityType

(* The world changes under the scan: what persists can only become less.   *)
LEMMA ChangeKeepsInv ==
  ASSUME Inv, Change
  PROVE  Inv'
<1>1. /\ persisting' \subseteq persisting /\ steady' \subseteq steady
      /\ persisting' \subseteq Problems' /\ steady' \subseteq AllEntries'
      /\ UNCHANGED <<phase, rest, seen, limitReached, candidates, issues>>
  BY DEF Change, scan, Crowd
<1>2. boundaries' \in BOOLEAN
  BY Zenon DEF Change, BoundariesChange, DirectoryChanges, PathChanges, Inv, Remembered
<1>3. Remembered'
  BY <1>1, <1>2 DEF Remembered
<1>4. Shape' /\ Idle'
  BY <1>1 DEF Inv, Shape, Idle
<1>5. ScanInv'
  <2>1. phase' \in {"listing", "checking"} /\ ~issues' => <<"boundaries">> \notin persisting'
    BY <1>1 DEF Inv, ScanInv
  <2>2. ASSUME phase' = "listing", ~issues'
        PROVE  /\ Listed(Directories \ rest)'
               /\ Cardinality(steady' \cap In(Directories \ rest')) <= seen' /\ seen' <= MaxFiles
    <3>1. /\ Listed(Directories \ rest)
          /\ Cardinality(steady \cap In(Directories \ rest)) <= seen /\ seen <= MaxFiles
      BY <1>1, <2>2 DEF Inv, ScanInv
    <3>2. Listed(Directories \ rest)'
      BY <1>1, <3>1 DEF Listed
    <3>3. In(Directories \ rest') = In(Directories \ rest)
      BY <1>1
    <3>4. steady' \cap In(Directories \ rest) \subseteq steady \cap In(Directories \ rest)
      BY <1>1
    <3>5. Cardinality(steady' \cap In(Directories \ rest)) <= Cardinality(steady \cap In(Directories \ rest))
      BY <3>4, SteadyIsFinite, FS_Subset DEF Inv
    <3>6. /\ Cardinality(steady' \cap In(Directories \ rest)) \in Nat
          /\ Cardinality(steady \cap In(Directories \ rest)) \in Nat
      BY <3>4, SteadyIsFinite, FS_Subset, FS_CardinalityType DEF Inv
    <3>7. Cardinality(steady' \cap In(Directories \ rest)) <= seen /\ seen \in Nat
      BY <3>1, <3>5, <3>6 DEF Inv, Shape
    <3>8. QED
      BY <1>1, <3>1, <3>2, <3>3, <3>7
  <2>3. ASSUME phase' = "checking", ~issues'
        PROVE  Compared'
    <3>1. Compared
      BY <1>1, <2>3 DEF Inv, ScanInv
    <3>2. Cardinality(steady') <= Cardinality(steady)
      BY <1>1, SteadyIsFinite, FS_Subset DEF Inv
    <3>3. Cardinality(steady') \in Nat /\ Cardinality(steady) \in Nat
      BY <1>1, SteadyIsFinite, FS_Subset, FS_CardinalityType DEF Inv
    <3>4. Cardinality(steady') <= MaxFiles
      BY <3>1, <3>2, <3>3 DEF Compared
    <3>5. QED
      BY <1>1, <3>1, <3>4 DEF Compared
  <2>4. QED
    BY <2>1, <2>2, <2>3 DEF ScanInv
<1>6. QED
  BY <1>3, <1>4, <1>5 DEF Inv

(* A scan that is over leaves nothing to be said of.                       *)
LEMMA EndKeepsInv ==
  ASSUME Inv, NEW p, p \notin {"listing", "checking"}, EndScan(p)
  PROVE  Inv'
<1>1. /\ phase' = p
      /\ rest' = {} /\ seen' = 0 /\ limitReached' = FALSE /\ candidates' = {} /\ issues' = FALSE
      /\ persisting' = {} /\ steady' = {} /\ boundaries' = boundaries
  BY DEF EndScan, world
<1>2. Remembered'
  BY <1>1, Zenon DEF Inv, Remembered
<1>3. QED
  BY <1>1, <1>2 DEF Inv, Shape, Idle, ScanInv

LEMMA StartKeepsInv ==
  ASSUME Inv, StartScan
  PROVE  Inv'
<1>1. CASE EndScan("stopped")
  BY <1>1, EndKeepsInv
<1>2. CASE ~EndScan("stopped")
  <2>1. /\ phase \in {"sleeping", "starting"} /\ phase' = "listing" /\ rest' = Directories
        /\ boundaries /\ persisting' = Problems /\ steady' \subseteq AllEntries
        /\ UNCHANGED <<boundaries, directories, tree, seen, limitReached, candidates, issues>>
    BY <1>2 DEF StartScan, world, Crowd
  <2>2. Problems' = Problems /\ AllEntries' = AllEntries
    BY <2>1 DEF Problems, AllEntries, Files, CollidingNames
  <2>3. Remembered'
    BY <2>1, <2>2, Zenon DEF Inv, Remembered
  <2>4. Shape' /\ Idle'
    BY <2>1 DEF Inv, Shape, Idle
  <2>5. <<"boundaries">> \notin persisting'
    <3>1. boundaries = TRUE
      BY <2>1, Zenon DEF Inv, Remembered
    <3>2. QED
      BY <2>1, <3>1, ProblemsMean
  <2>6. Listed(Directories \ rest)'
    BY <2>1 DEF Listed
  <2>7. Cardinality(steady' \cap In(Directories \ rest')) = 0
    <3>1. steady' \cap In(Directories \ rest') = {}
      BY <2>1 DEF In
    <3>2. QED
      BY <3>1, FS_EmptySet
  <2>8. seen' = 0 /\ 0 <= MaxFiles
    BY <2>1 DEF Inv, Idle
  <2>9. ScanInv'
    <3>1. Cardinality(steady' \cap In(Directories \ rest')) <= seen' /\ seen' <= MaxFiles
      BY <2>7, <2>8
    <3>2. QED
      BY <2>1, <2>5, <2>6, <3>1 DEF ScanInv
  <2>10. QED
    BY <2>3, <2>4, <2>9 DEF Inv
<1>3. QED
  BY <1>1, <1>2

(* A directory that is listed without an issue: all its entries were       *)
(* walked, and there was room for them.                                    *)
LEMMA ListingKeepsInv ==
  ASSUME Inv, Listing
  PROVE  Inv'
<1> DEFINE d == First(rest)
           Done == Directories \ rest
<1>1. /\ phase = "listing" /\ phase' = "listing" /\ rest' = rest \ {d} /\ d \in rest
      /\ rest \subseteq Directories /\ d \in Directories
      /\ UNCHANGED <<boundaries, directories, tree, persisting, steady>>
  <2>1. rest # {} /\ rest \subseteq Directories
    BY DEF Listing, Inv, Shape
  <2>2. d \in rest
    BY <2>1, FirstIsThere
  <2>3. QED
    BY <2>1, <2>2 DEF Listing, world, history
<1> HIDE DEF d
<1>2. Remembered'
  <2>1. Problems' = Problems /\ AllEntries' = AllEntries
    BY <1>1 DEF Problems, AllEntries, Files, CollidingNames
  <2>2. QED
    BY <1>1, <2>1, Zenon DEF Inv, Remembered
<1>3. CASE SkipDirectory(d)
  <2>1. /\ directories[d] # "present" \/ limitReached
        /\ issues' = (issues \/ directories[d] # "present")
        /\ UNCHANGED <<seen, limitReached, candidates>>
    BY <1>3 DEF SkipDirectory
  <2>2. issues'
    BY <2>1 DEF Inv, Shape
  <2>3. Shape' /\ Idle'
    BY <1>1, <2>1, <2>2 DEF Inv, Shape, Idle
  <2>4. ScanInv'
    BY <1>1, <2>2 DEF ScanInv
  <2>5. QED
    BY <1>2, <2>3, <2>4 DEF Inv
<1>4. CASE ListDirectory(d)
  <2>1. PICK walked \in SUBSET Entries(d) :
          /\ IF Exceeds(seen + Cardinality(Entries(d)))
               THEN /\ seen + Cardinality(walked) = MaxFiles
                    /\ seen' = MaxFiles + 1 /\ limitReached' = TRUE
               ELSE /\ walked = Entries(d)
                    /\ seen' = seen + Cardinality(walked) /\ UNCHANGED limitReached
          /\ candidates' = candidates \cup (walked \cap Files)
          /\ issues' = (issues \/ WalkIssue(d, walked))
    BY <1>4 DEF ListDirectory
  <2>2. directories[d] = "present" /\ Cardinality(Entries(d)) \in Nat /\ seen \in Nat
    BY <1>4, EntriesAreFinite DEF ListDirectory, Inv, Shape
  <2>3. Shape'
    <3>1. walked \subseteq Paths
      BY DEF Entries
    <3>2. limitReached' => issues'
      BY <2>1 DEF WalkIssue, Inv, Shape
    <3>3. seen' \in Nat
      BY <2>1, <2>2
    <3>4. QED
      BY <1>1, <2>1, <3>1, <3>2, <3>3 DEF Inv, Shape
  <2>4. ASSUME ~issues'
        PROVE  /\ Listed(Directories \ rest)'
               /\ Cardinality(steady' \cap In(Directories \ rest')) <= seen' /\ seen' <= MaxFiles
               /\ <<"boundaries">> \notin persisting'
    <3>1. /\ walked = Entries(d) /\ seen' = seen + Cardinality(Entries(d)) /\ seen' <= MaxFiles
          /\ candidates' = candidates \cup (Entries(d) \cap Files)
          /\ \A p \in Entries(d) : tree[p] # "symlink"
      <4>1. ~WalkIssue(d, walked)
        BY <2>1, <2>4
      <4>2. ~Exceeds(seen + Cardinality(Entries(d))) /\ \A p \in walked : tree[p] # "symlink"
        BY <4>1 DEF WalkIssue
      <4>3. walked = Entries(d) /\ seen' = seen + Cardinality(walked)
        BY <2>1, <4>2
      <4>4. seen + Cardinality(Entries(d)) <= MaxFiles
        BY <2>2, <4>2 DEF Exceeds
      <4>5. candidates' = candidates \cup (Entries(d) \cap Files)
        BY <2>1, <4>3
      <4>6. QED
        BY <4>2, <4>3, <4>4, <4>5
    <3>2. /\ <<"boundaries">> \notin persisting
          /\ Listed(Done) /\ Cardinality(steady \cap In(Done)) <= seen
      BY <1>1, <2>1, <2>4 DEF Inv, ScanInv
    <3>3. Directories \ rest' = Done \cup {d}
      BY <1>1
    <3>4. persisting \subseteq Problems /\ steady \subseteq AllEntries
      BY DEF Inv, Remembered
    <3>5. <<"directory", d>> \notin persisting
      BY <2>2, <3>4, ProblemsMean
    <3>6. ASSUME NEW p \in Paths, DirectoryOf[p] = d, <<"symlink", p>> \in persisting
          PROVE  FALSE
      <4>1. tree[p] = "symlink"
        BY <3>4, <3>6, ProblemsMean
      <4>2. p \in Entries(d)
        BY <3>6, <4>1 DEF Entries
      <4>3. QED
        BY <3>1, <4>1, <4>2
    <3>7. ASSUME NEW p \in Paths, DirectoryOf[p] = d, <<"invalid", p>> \in persisting
          PROVE  p \in candidates'
      <4>1. tree[p] = "invalid"
        BY <3>4, <3>7, ProblemsMean
      <4>2. p \in Entries(d) /\ p \in Files
        BY <3>7, <4>1 DEF Entries, Files
      <4>3. QED
        BY <3>1, <4>2
    <3>8. ASSUME NEW p \in Paths, DirectoryOf[p] = d, p \in Files
          PROVE  p \in candidates'
      <4>1. p \in Entries(d)
        BY <3>8 DEF Entries, Files
      <4>2. QED
        BY <3>1, <3>8, <4>1
    <3>9. \A p, q : <<"names", p, q>> \in persisting => p \in Files /\ q \in Files
      BY <3>4, ProblemsMean
    <3>10. Listed(Directories \ rest)'
      <4>1. /\ persisting' = persisting /\ candidates \subseteq candidates'
            /\ \A e \in Directories \ rest' : e = d \/ e \in Done
        BY <1>1, <3>1
      <4>2. \A e \in Directories \ rest' : <<"directory", e>> \notin persisting'
        BY <3>2, <3>5, <4>1 DEF Listed
      <4>3. \A p \in Paths : DirectoryOf[p] \in Directories \ rest' =>
              <<"symlink", p>> \notin persisting' /\ (<<"invalid", p>> \in persisting' => p \in candidates')
        BY <3>2, <3>6, <3>7, <4>1 DEF Listed
      <4>4. \A p, q \in Paths : <<"names", p, q>> \in persisting' =>
              /\ DirectoryOf[p] \in Directories \ rest' => p \in candidates'
              /\ DirectoryOf[q] \in Directories \ rest' => q \in candidates'
        BY <3>2, <3>8, <3>9, <4>1 DEF Listed
      <4>5. QED
        BY <4>2, <4>3, <4>4 DEF Listed
    <3>11. Cardinality(steady \cap In(Done \cup {d})) <= seen'
      <4>1. steady \cap In(Done \cup {d}) \subseteq (steady \cap In(Done)) \cup Entries(d)
        BY <3>4 DEF In, Entries, AllEntries
      <4>2. /\ IsFiniteSet(steady \cap In(Done)) /\ Cardinality(steady \cap In(Done)) \in Nat
            /\ IsFiniteSet(Entries(d))
        BY SteadyIsFinite, EntriesAreFinite DEF Inv
      <4> DEFINE A == steady \cap In(Done)
                 B == Entries(d)
      <4>3. IsFiniteSet(A \cap B) /\ Cardinality(A \cap B) \in Nat
        BY <4>2, FS_Subset, FS_CardinalityType
      <4>4. IsFiniteSet(A \cup B) /\ Cardinality(A \cup B) = Cardinality(A) + Cardinality(B) - Cardinality(A \cap B)
        BY <4>2, FS_Union
      <4>5. Cardinality(steady \cap In(Done \cup {d})) <= Cardinality(A \cup B)
        BY <4>1, <4>4, FS_Subset
      <4>6. Cardinality(steady \cap In(Done \cup {d})) \in Nat
        BY SteadyIsFinite DEF Inv
      <4> HIDE DEF A, B
      <4>7. Cardinality(A) \in Nat /\ Cardinality(B) \in Nat /\ Cardinality(A) <= seen /\ seen' = seen + Cardinality(B)
        BY <2>2, <3>1, <3>2, <4>2 DEF A, B
      <4>8. QED
        BY <2>2, <4>3, <4>4, <4>5, <4>6, <4>7
    <3>12. QED
      BY <1>1, <3>1, <3>2, <3>3, <3>10, <3>11
  <2>5. ScanInv'
    BY <1>1, <2>4 DEF ScanInv
  <2>6. Idle'
    BY <1>1 DEF Idle
  <2>7. QED
    BY <1>2, <2>3, <2>5, <2>6 DEF Inv
<1>5. QED
  BY <1>3, <1>4 DEF Listing, d

LEMMA WorldStays ==
  ASSUME Remembered, UNCHANGED <<world, history>>
  PROVE  Remembered'
<1>1. UNCHANGED <<boundaries, directories, tree, persisting, steady>>
  BY DEF world, history
<1>2. Problems' = Problems /\ AllEntries' = AllEntries
  BY <1>1 DEF Problems, AllEntries, Files, CollidingNames
<1>3. QED
  BY <1>1, <1>2, Zenon DEF Remembered

LEMMA CompareKeepsInv ==
  ASSUME Inv, Compare
  PROVE  Inv'
<1>1. /\ phase = "listing" /\ rest = {} /\ phase' = "checking" /\ rest' = candidates
      /\ issues' = (issues \/ Collide(candidates))
      /\ UNCHANGED <<seen, limitReached, candidates, persisting, steady>>
  BY DEF Compare, history
<1>2. Remembered'
  BY WorldStays DEF Compare, Inv
<1>3. Shape' /\ Idle'
  BY <1>1 DEF Inv, Shape, Idle
<1>4. ASSUME ~issues'
      PROVE  Compared' /\ <<"boundaries">> \notin persisting'
  <2>1. ~issues /\ ~Collide(candidates)
    BY <1>1, <1>4
  <2>2. Directories \ rest = Directories
    BY <1>1
  <2>3. /\ <<"boundaries">> \notin persisting /\ Listed(Directories)
        /\ Cardinality(steady \cap In(Directories)) <= seen /\ seen <= MaxFiles
    BY <1>1, <2>1, <2>2 DEF Inv, ScanInv
  <2>4. \A p \in Paths : DirectoryOf[p] \in Directories
    OBVIOUS
  <2>5. steady \cap In(Directories) = steady
    BY <2>4, EntriesAreFinite DEF In, Inv, Remembered
  <2>6. Cardinality(steady) <= MaxFiles
    <3>1. Cardinality(steady) \in Nat /\ seen \in Nat
      BY SteadyIsFinite DEF Inv, Shape
    <3>2. QED
      BY <2>3, <2>5, <3>1
  <2>7. ASSUME NEW p \in Paths, NEW q \in Paths, <<"names", p, q>> \in persisting
        PROVE  FALSE
    <3>1. p # q /\ FoldedName[p] = FoldedName[q]
      BY <2>7, ProblemsMean DEF Inv, Remembered
    <3>2. p \in candidates /\ q \in candidates
      BY <2>3, <2>4, <2>7 DEF Listed
    <3>3. QED
      BY <2>1, <3>1, <3>2 DEF Collide
  <2>8. QED
    BY <1>1, <2>3, <2>4, <2>6, <2>7 DEF Listed, Compared
<1>5. ScanInv'
  BY <1>1, <1>4 DEF ScanInv
<1>6. QED
  BY <1>2, <1>3, <1>5 DEF Inv

LEMMA CheckKeepsInv ==
  ASSUME Inv, CheckFile
  PROVE  Inv'
<1> DEFINE p == First(rest)
<1>1. phase = "checking" /\ p \in rest /\ rest \subseteq Paths
  <2>1. phase = "checking" /\ rest # {} /\ rest \subseteq Nat /\ rest \subseteq Paths
    BY DEF CheckFile, Inv, Shape
  <2>2. QED
    BY <2>1, FirstIsThere
<1>2. CASE EndScan("stopped")
  BY <1>2, EndKeepsInv
<1>3. CASE ~EndScan("stopped")
  <2>1. /\ issues' = TRUE \/ (tree[p] \in MayAccept /\ issues' = issues)
        /\ rest' = rest \ {p} /\ phase' = "checking"
        /\ UNCHANGED <<world, history, seen, limitReached, candidates>>
    BY <1>1, <1>3 DEF CheckFile
  <2>2. UNCHANGED <<persisting, steady>>
    BY <2>1 DEF history
  <2> HIDE DEF p
  <2>3. Remembered'
    BY <2>1, WorldStays DEF Inv
  <2>4. Shape' /\ Idle'
    BY <1>1, <2>1 DEF Inv, Shape, Idle
  <2>5. ASSUME ~issues'
        PROVE  Compared' /\ <<"boundaries">> \notin persisting'
    <3>1. tree[p] \in MayAccept /\ ~issues
      BY <2>1, <2>5
    <3>2. Compared /\ <<"boundaries">> \notin persisting
      BY <1>1, <3>1 DEF Inv, ScanInv
    <3>3. <<"invalid", p>> \notin persisting
      BY <3>1, ProblemsMean DEF MayAccept, Inv, Remembered
    <3>4. QED
      BY <1>1, <2>1, <2>2, <3>2, <3>3 DEF Compared
  <2>6. ScanInv'
    BY <2>1, <2>5 DEF ScanInv
  <2>7. QED
    BY <2>3, <2>4, <2>6 DEF Inv
<1>4. QED
  BY <1>2, <1>3

LEMMA InvInductive ==
  ASSUME Inv, [Next]_vars
  PROVE  Inv'
<1>1. CASE Report \/ Denied
  <2>1. \/ EndScan("stopped") \/ EndScan("sleeping")
    BY <1>1 DEF Report, Denied
  <2>2. QED
    BY <2>1, EndKeepsInv
<1>2. CASE Restart \/ StartByHand
  <2>1. /\ phase \in {"stopped", "failed"} /\ phase' \in {"starting", "failed"}
        /\ UNCHANGED <<world, history, rest, seen, limitReached, candidates, issues>>
    BY <1>2 DEF Restart, StartByHand, scan
  <2>2. Remembered'
    BY <2>1, WorldStays DEF Inv
  <2>3. QED
    BY <2>1, <2>2 DEF Inv, Shape, Idle, ScanInv
<1>3. CASE UNCHANGED vars
  <2>1. Remembered'
    BY <1>3, WorldStays DEF vars, Inv
  <2>2. UNCHANGED <<phase, rest, seen, limitReached, candidates, issues, persisting, steady>>
    BY <1>3 DEF vars, scan, history
  <2>3. Shape' /\ Idle'
    BY <2>2 DEF Inv, Shape, Idle
  <2>4. ScanInv'
    BY <2>2 DEF Inv, ScanInv, Listed, Compared, In
  <2>5. QED
    BY <2>1, <2>3, <2>4 DEF Inv
<1>4. QED
  BY <1>1, <1>2, <1>3, ChangeKeepsInv, StartKeepsInv, ListingKeepsInv, CompareKeepsInv, CheckKeepsInv
  DEF Next, Bridge

LEMMA InvHolds == Spec => []Inv
<1>1. Init => Inv
  BY DEF Init, Inv, Remembered, Shape, Idle, ScanInv, AllEntries
<1>2. QED
  BY <1>1, InvInductive, PTL DEF Spec

(* However the zone changes under the scan: what was wrong all through it, *)
(* and could be read, is found, and no more entries than the limit were    *)
(* there all the time.                                                     *)
THEOREM NothingMissed == Spec => SafeScanMissesNothing
<1>1. ASSUME Inv, [Next]_vars, phase = "checking", phase' = "sleeping"
      PROVE  persisting = {} /\ Cardinality(steady) <= MaxFiles
  <2>1. Report
    BY <1>1 DEF Next, Bridge, StartScan, Listing, Denied, Compare, CheckFile, Restart, StartByHand,
                Change, EndScan, vars
  <2>2. rest = {} /\ ~issues
    BY <1>1, <2>1 DEF Report, EndScan
  <2>3. Compared /\ <<"boundaries">> \notin persisting
    BY <1>1, <2>2 DEF Inv, ScanInv
  <2>4. ASSUME NEW x \in persisting
        PROVE  FALSE
    <3>1. x \in Problems
      BY <1>1 DEF Inv, Remembered
    <3>2. CASE x = <<"boundaries">>
      BY <2>3, <3>2
    <3>3. CASE \E d \in Directories : x = <<"directory", d>>
      BY <2>3, <3>3 DEF Compared
    <3>4. CASE \E p \in Paths : x = <<tree[p], p>> /\ tree[p] \in {"invalid", "symlink"}
      BY <2>2, <2>3, <3>4 DEF Compared
    <3>5. CASE \E pair \in CollidingNames : x = <<"names", pair[1], pair[2]>>
      <4>1. PICK pair \in Files \X Files : x = <<"names", pair[1], pair[2]>>
        BY <3>5 DEF CollidingNames
      <4>2. pair[1] \in Paths /\ pair[2] \in Paths
        BY DEF Files
      <4>3. QED
        BY <2>3, <4>1, <4>2 DEF Compared
    <3>6. QED
      BY <3>1, <3>2, <3>3, <3>4, <3>5 DEF Problems
  <2>5. QED
    BY <2>3, <2>4 DEF Compared
<1>2. QED
  BY <1>1, InvHolds, PTL DEF Spec, SafeScanMissesNothing

-----------------------------------------------------------------------------
(* A scan that nothing disturbs                                            *)

(* All that it has listed was in order, and it has counted every entry.    *)
Calm ==
  /\ undisturbed => phase \in {"listing", "checking"}
  /\ undisturbed /\ InOrder /\ phase = "listing" =>
       /\ ~issues /\ ~limitReached /\ candidates \subseteq Files
       /\ seen = Cardinality(AllEntries \cap In(Directories \ rest))
  /\ undisturbed /\ InOrder /\ phase = "checking" => ~issues /\ rest \subseteq Files

LEMMA OrderMeans ==
  ASSUME InOrder
  PROVE  /\ \A p \in Paths : tree[p] \notin {"invalid", "symlink", "hidden"}
         /\ \A p \in Files : tree[p] = "valid"
         /\ ~Collide(Files)
         /\ \A d \in Directories : directories[d] = "present"
<1>1. Problems = {} /\ \A p \in Paths : tree[p] # "hidden"
  BY DEF InOrder
<1>2. \A p \in Paths : tree[p] \notin {"invalid", "symlink"}
  <2>1. SUFFICES ASSUME NEW p \in Paths, tree[p] \in {"invalid", "symlink"}
                 PROVE  FALSE
    OBVIOUS
  <2>2. <<tree[p], p>> \in Problems
    BY <2>1 DEF Problems
  <2>3. QED
    BY <1>1, <2>2
<1>3. \A d \in Directories : directories[d] = "present"
  <2>1. SUFFICES ASSUME NEW d \in Directories, directories[d] # "present"
                 PROVE  FALSE
    OBVIOUS
  <2>2. <<"directory", d>> \in Problems
    BY <2>1 DEF Problems
  <2>3. QED
    BY <1>1, <2>2
<1>4. ~Collide(Files)
  <2>1. SUFFICES ASSUME NEW p \in Files, NEW q \in Files, p # q, FoldedName[p] = FoldedName[q]
                 PROVE  FALSE
    BY DEF Collide
  <2>2. <<p, q>> \in CollidingNames
    BY <2>1 DEF CollidingNames
  <2>3. <<"names", p, q>> \in Problems
    BY <2>2 DEF Problems
  <2>4. QED
    BY <1>1, <2>3
<1>5. QED
  BY <1>1, <1>2, <1>3, <1>4 DEF Files

LEMMA ZoneStays ==
  ASSUME UNCHANGED world
  PROVE  /\ InOrder' = InOrder /\ Files' = Files /\ AllEntries' = AllEntries
         /\ \A d : Entries(d)' = Entries(d)
<1>1. UNCHANGED <<boundaries, directories, tree>>
  BY DEF world
<1>2. /\ Problems' = Problems /\ Files' = Files /\ AllEntries' = AllEntries
      /\ \A d : Entries(d)' = Entries(d)
  BY <1>1 DEF Problems, AllEntries, Files, CollidingNames, Entries
<1>3. QED
  BY <1>1, <1>2 DEF InOrder

(* A directory of a zone that is in order is listed without an issue.      *)
LEMMA ListingStaysCalm ==
  ASSUME Inv, Calm, Listing
  PROVE  Calm'
<1> DEFINE d == First(rest)
           Done == AllEntries \cap In(Directories \ rest)
<1>1. /\ phase = "listing" /\ phase' = "listing" /\ rest' = rest \ {d} /\ d \in rest
      /\ rest \subseteq Directories /\ d \in Directories
      /\ SkipDirectory(d) \/ ListDirectory(d)
      /\ UNCHANGED world /\ undisturbed' = undisturbed
  <2>1. rest # {} /\ rest \subseteq Directories
    BY DEF Listing, Inv, Shape
  <2>2. d \in rest
    BY <2>1, FirstIsThere
  <2>3. QED
    BY <2>1, <2>2 DEF Listing, history
<1>2. SUFFICES ASSUME undisturbed', InOrder'
               PROVE  /\ ~issues' /\ ~limitReached' /\ candidates' \subseteq Files'
                      /\ seen' = Cardinality(AllEntries' \cap In(Directories \ rest'))
  BY <1>1 DEF Calm
<1> HIDE DEF d, Done
<1>3. /\ InOrder /\ ~issues /\ ~limitReached /\ candidates \subseteq Files
      /\ seen = Cardinality(Done)
  BY <1>1, <1>2, ZoneStays DEF Calm, Done
<1>4. AllEntries \cap In(Directories \ rest') = Done \cup Entries(d)
  BY <1>1 DEF Done, In, AllEntries, Entries
<1>5. Done \cap Entries(d) = {}
  BY <1>1 DEF Done, In, Entries
<1>6. /\ IsFiniteSet(Done) /\ Cardinality(Done) \in Nat
      /\ IsFiniteSet(Entries(d)) /\ Cardinality(Entries(d)) \in Nat
      /\ IsFiniteSet(AllEntries) /\ Cardinality(AllEntries) \in Nat
  BY EntriesAreFinite, FS_Subset, FS_CardinalityType DEF Done
<1>7. Cardinality(Done \cup Entries(d)) = Cardinality(Done) + Cardinality(Entries(d))
  <2>1. Cardinality(Done \cup Entries(d)) = Cardinality(Done) + Cardinality(Entries(d)) - Cardinality({})
    BY <1>5, <1>6, FS_Union
  <2>2. QED
    BY <1>6, <2>1, FS_EmptySet
<1>8. Cardinality(Done \cup Entries(d)) <= MaxFiles
  <2>1. Done \cup Entries(d) \subseteq AllEntries
    BY DEF Done, AllEntries, Entries
  <2>2. Cardinality(Done \cup Entries(d)) <= Cardinality(AllEntries)
    BY <1>6, <2>1, FS_Subset
  <2>3. Cardinality(AllEntries) <= MaxFiles /\ Cardinality(Done \cup Entries(d)) \in Nat
    BY <1>3, <1>6, <1>7 DEF InOrder
  <2>4. QED
    BY <1>6, <2>2, <2>3
<1>9. ~Exceeds(seen + Cardinality(Entries(d)))
  BY <1>3, <1>6, <1>7, <1>8 DEF Exceeds
<1>10. ~SkipDirectory(d)
  BY <1>1, <1>3, OrderMeans DEF SkipDirectory
<1>11. PICK walked \in SUBSET Entries(d) :
         /\ walked = Entries(d) /\ seen' = seen + Cardinality(walked) /\ limitReached' = limitReached
         /\ candidates' = candidates \cup (walked \cap Files)
         /\ issues' = (issues \/ WalkIssue(d, walked))
  BY <1>1, <1>9, <1>10 DEF ListDirectory
<1>12. ~WalkIssue(d, walked)
  BY <1>3, <1>9, OrderMeans DEF WalkIssue, Entries
<1>13. QED
  BY <1>1, <1>3, <1>4, <1>7, <1>11, <1>12, ZoneStays

LEMMA CalmInductive ==
  ASSUME Inv, Calm, [Next]_vars
  PROVE  Calm'
<1>1. CASE ~undisturbed'
  BY <1>1 DEF Calm
<1>2. CASE StartScan /\ undisturbed'
  <2>1. /\ phase \in {"sleeping", "starting"} /\ phase' = "listing" /\ rest' = Directories
        /\ UNCHANGED <<seen, limitReached, candidates, issues>>
    BY <1>2 DEF StartScan, EndScan
  <2>2. ~issues' /\ ~limitReached' /\ candidates' = {} /\ seen' = 0
    BY <2>1 DEF Inv, Idle
  <2>3. AllEntries' \cap In(Directories \ rest') = {}
    BY <2>1 DEF In
  <2>4. QED
    BY <2>1, <2>2, <2>3, FS_EmptySet DEF Calm
<1>3. CASE Listing
  BY <1>3, ListingStaysCalm
<1>4. CASE Compare
  <2>1. /\ phase = "listing" /\ phase' = "checking" /\ rest' = candidates
        /\ issues' = (issues \/ Collide(candidates))
        /\ UNCHANGED world /\ undisturbed' = undisturbed
    BY <1>4 DEF Compare, history
  <2>2. ASSUME undisturbed', InOrder'
        PROVE  ~issues' /\ rest' \subseteq Files'
    <3>1. InOrder /\ ~issues /\ candidates \subseteq Files
      BY <2>1, <2>2, ZoneStays DEF Calm
    <3>2. ~Collide(candidates)
      BY <3>1, OrderMeans DEF Collide
    <3>3. QED
      BY <2>1, <3>1, <3>2, ZoneStays
  <2>3. QED
    BY <2>1, <2>2 DEF Calm
<1>5. CASE CheckFile /\ undisturbed'
  <2> DEFINE p == First(rest)
  <2>1. phase = "checking" /\ p \in rest
    <3>1. phase = "checking" /\ rest # {} /\ rest \subseteq Nat
      BY <1>5 DEF CheckFile, Inv, Shape
    <3>2. QED
      BY <3>1, FirstIsThere
  <2>2. /\ \/ tree[p] \in MayReject /\ issues' = TRUE
           \/ tree[p] \in MayAccept /\ issues' = issues
        /\ rest' = rest \ {p} /\ phase' = "checking"
        /\ UNCHANGED world /\ undisturbed' = undisturbed
    BY <1>5, <2>1 DEF CheckFile, EndScan, history
  <2> HIDE DEF p
  <2>3. ASSUME InOrder'
        PROVE  ~issues' /\ rest' \subseteq Files'
    <3>1. InOrder /\ ~issues /\ rest \subseteq Files
      BY <1>5, <2>1, <2>2, <2>3, ZoneStays DEF Calm
    <3>2. tree[p] = "valid"
      BY <2>1, <3>1, OrderMeans
    <3>3. QED
      BY <2>2, <3>1, <3>2, ZoneStays DEF MayReject
  <2>4. QED
    BY <2>2, <2>3 DEF Calm
<1>6. CASE Report \/ Denied \/ Change
  <2>1. undisturbed' = FALSE
    BY <1>6 DEF Report, Denied, EndScan, Change
  <2>2. QED
    BY <1>1, <2>1
<1>7. CASE Restart \/ StartByHand
  <2>1. phase \in {"stopped", "failed"} /\ undisturbed' = undisturbed
    BY <1>7 DEF Restart, StartByHand, history
  <2>2. QED
    BY <2>1 DEF Calm
<1>8. CASE UNCHANGED vars
  <2>1. /\ UNCHANGED world
        /\ UNCHANGED <<phase, rest, seen, limitReached, candidates, issues, undisturbed>>
    BY <1>8 DEF vars, scan, history
  <2>2. In(Directories \ rest)' = In(Directories \ rest)
    BY <2>1 DEF In
  <2>3. QED
    BY <2>1, <2>2, ZoneStays DEF Calm
<1>9. QED
  BY <1>1, <1>2, <1>3, <1>4, <1>5, <1>6, <1>7, <1>8 DEF Next, Bridge

(* A scan of a zone that is in order and that nobody touches meanwhile     *)
(* finds nothing, whatever earlier scans found.                            *)
THEOREM NoAlarmWithoutCause == Spec => NoFalseAlarm
<1>1. Init => Inv /\ Calm
  BY DEF Init, Inv, Remembered, Shape, Idle, ScanInv, AllEntries, Calm
<1>2. ASSUME Inv, Calm, [Next]_vars, undisturbed, InOrder
      PROVE  phase' # "stopped"
  <2>1. phase \in {"listing", "checking"}
    BY <1>2 DEF Calm
  <2>2. CASE Denied
    BY <1>2, <2>2, OrderMeans DEF Denied
  <2>3. CASE CheckFile
    <3>1. phase = "checking" /\ rest # {} /\ rest \subseteq Nat /\ rest \subseteq Files
      BY <1>2, <2>3 DEF CheckFile, Inv, Shape, Calm
    <3>2. tree[First(rest)] = "valid"
      BY <1>2, <3>1, FirstIsThere, OrderMeans
    <3>3. QED
      BY <2>3, <3>1, <3>2 DEF CheckFile
  <2>4. CASE Report
    BY <1>2, <2>4 DEF Report, EndScan, Calm
  <2>5. CASE Listing \/ Compare
    BY <2>5 DEF Listing, Compare
  <2>6. CASE Change \/ UNCHANGED vars
    BY <2>1, <2>6 DEF Change, vars
  <2>7. ~StartScan /\ ~Restart /\ ~StartByHand
    BY <2>1 DEF StartScan, Restart, StartByHand
  <2>8. QED
    BY <1>2, <2>2, <2>3, <2>4, <2>5, <2>6, <2>7 DEF Next, Bridge
<1>3. QED
  BY <1>1, <1>2, InvInductive, CalmInductive, PTL DEF Spec, NoFalseAlarm

-----------------------------------------------------------------------------
(* Types                                                                   *)

ZoneTyped ==
  /\ boundaries \in BOOLEAN
  /\ directories \in [Directories -> {"present", "unfit"}]
  /\ tree \in [Paths -> Kinds]
  /\ \A p \in Paths : tree[p] # "absent" => directories[DirectoryOf[p]] = "present"

(* No more candidates than entries that were counted                       *)
ScanTyped ==
  /\ phase \in Phases /\ issues \in BOOLEAN /\ limitReached \in BOOLEAN
  /\ rest \subseteq IF phase = "listing" THEN Directories ELSE candidates
  /\ candidates \subseteq Paths
  /\ seen \in 0..MaxFiles + 1
  /\ Cardinality(candidates) <= MaxFiles /\ Cardinality(candidates) <= seen
  /\ limitReached <=> seen = MaxFiles + 1
  /\ limitReached => issues

StartsTyped == starts \in 1 .. StartLimitBurst /\ undisturbed \in BOOLEAN

Typed == ZoneTyped /\ ScanTyped /\ StartsTyped /\ Remembered

LEMMA CandidatesAreFinite ==
  ASSUME candidates \subseteq Paths
  PROVE  IsFiniteSet(candidates) /\ Cardinality(candidates) \in Nat
BY FS_Subset, FS_CardinalityType

LEMMA ChangeKeepsZone ==
  ASSUME ZoneTyped, Change
  PROVE  ZoneTyped'
<1>1. CASE BoundariesChange
  <2>1. boundaries' \in BOOLEAN /\ UNCHANGED <<directories, tree>>
    BY <1>1, Zenon DEF BoundariesChange
  <2>2. QED
    BY <2>1 DEF ZoneTyped
<1>2. ASSUME NEW d \in Directories, NEW s \in {"present", "unfit"}, DirectoryChanges(d, s)
      PROVE  ZoneTyped'
  <2>1. /\ directories' = [directories EXCEPT ![d] = s] /\ boundaries' = boundaries
        /\ tree' = [p \in Paths |-> IF DirectoryOf[p] = d THEN "absent" ELSE tree[p]]
    BY <1>2 DEF DirectoryChanges
  <2>2. /\ directories' \in [Directories -> {"present", "unfit"}]
        /\ tree' \in [Paths -> Kinds]
    BY <2>1 DEF ZoneTyped, Kinds
  <2>3. ASSUME NEW p \in Paths, tree'[p] # "absent"
        PROVE  directories'[DirectoryOf[p]] = "present"
    <3>1. DirectoryOf[p] # d /\ tree[p] # "absent"
      BY <2>1, <2>3
    <3>2. QED
      BY <2>1, <3>1 DEF ZoneTyped
  <2>4. boundaries' \in BOOLEAN
    BY <2>1 DEF ZoneTyped
  <2>5. QED
    BY <2>2, <2>3, <2>4 DEF ZoneTyped
<1>3. ASSUME NEW p \in Paths, NEW k \in Kinds, PathChanges(p, k)
      PROVE  ZoneTyped'
  <2>1. /\ directories[DirectoryOf[p]] = "present" /\ tree' = [tree EXCEPT ![p] = k]
        /\ UNCHANGED <<boundaries, directories>>
    BY <1>3 DEF PathChanges
  <2>2. tree' \in [Paths -> Kinds]
    BY <2>1 DEF ZoneTyped
  <2>3. \A q \in Paths : tree'[q] # "absent" => q = p \/ tree[q] # "absent"
    BY <2>1 DEF ZoneTyped
  <2>4. QED
    BY <2>1, <2>2, <2>3 DEF ZoneTyped
<1>4. QED
  BY <1>1, <1>2, <1>3 DEF Change

LEMMA ListKeepsType ==
  ASSUME Typed, Listing
  PROVE  ScanTyped'
<1>1. PICK d \in Directories : SkipDirectory(d) \/ ListDirectory(d)
  <2>1. rest # {} /\ rest \subseteq Directories
    BY DEF Listing, Typed, ScanTyped
  <2>2. QED
    BY <2>1, FirstIsThere DEF Listing
<1>2. phase = "listing" /\ phase' = "listing" /\ rest' \subseteq rest
  BY DEF Listing
<1>3. CASE SkipDirectory(d)
  <2>1. issues' = (issues \/ directories[d] # "present") /\ UNCHANGED <<seen, limitReached, candidates>>
    BY <1>3 DEF SkipDirectory
  <2>2. issues' \in BOOLEAN /\ (limitReached' => issues')
    BY <2>1, Zenon DEF Typed, ScanTyped
  <2>3. QED
    BY <1>2, <2>1, <2>2 DEF Typed, ScanTyped
<1>4. CASE ListDirectory(d)
  <2>1. PICK walked \in SUBSET Entries(d) :
          /\ IF Exceeds(seen + Cardinality(Entries(d)))
               THEN /\ seen + Cardinality(walked) = MaxFiles
                    /\ seen' = MaxFiles + 1 /\ limitReached' = TRUE
               ELSE /\ walked = Entries(d)
                    /\ seen' = seen + Cardinality(walked) /\ UNCHANGED limitReached
          /\ candidates' = candidates \cup (walked \cap Files)
          /\ issues' = (issues \/ WalkIssue(d, walked))
    BY <1>4 DEF ListDirectory
  <2>2. /\ ~limitReached /\ candidates \subseteq Paths /\ walked \subseteq Paths
        /\ seen \in 0 .. MaxFiles /\ Cardinality(candidates) <= seen
    BY <1>4 DEF ListDirectory, Typed, ScanTyped, Entries
  <2>3. /\ IsFiniteSet(candidates) /\ Cardinality(candidates) \in Nat
        /\ IsFiniteSet(walked) /\ Cardinality(walked) \in Nat
    BY <2>2, FS_Subset, FS_CardinalityType
  <2>4. candidates' \subseteq Paths /\ Cardinality(candidates') \in Nat
        /\ Cardinality(candidates') <= Cardinality(candidates) + Cardinality(walked)
    <3> DEFINE U == candidates \cup walked
               I == candidates \cap walked
    <3>1. IsFiniteSet(U) /\ Cardinality(U) = Cardinality(candidates) + Cardinality(walked) - Cardinality(I)
      BY <2>3, FS_Union
    <3>2. Cardinality(I) \in Nat
      BY <2>3, FS_Subset, FS_CardinalityType
    <3>3. candidates' \subseteq U
      BY <2>1
    <3>4. IsFiniteSet(candidates') /\ Cardinality(candidates') <= Cardinality(U) /\ Cardinality(candidates') \in Nat
      BY <3>1, <3>3, FS_Subset, FS_CardinalityType
    <3>5. candidates' \subseteq Paths
      BY <2>1, <2>2
    <3> HIDE DEF U, I
    <3>6. QED
      BY <2>3, <3>1, <3>2, <3>4, <3>5
  <2>5. issues' \in BOOLEAN /\ (Exceeds(seen + Cardinality(Entries(d))) => issues')
    BY <2>1, Zenon DEF WalkIssue, Typed, ScanTyped
  <2>6. rest' \subseteq Directories
    BY <1>2 DEF Typed, ScanTyped
  <2>7. CASE Exceeds(seen + Cardinality(Entries(d)))
    <3>1. /\ seen + Cardinality(walked) = MaxFiles /\ seen' = MaxFiles + 1
          /\ limitReached' = TRUE /\ issues'
      BY <2>1, <2>5, <2>7
    <3>2. Cardinality(candidates') <= MaxFiles /\ Cardinality(candidates') <= seen'
      BY <2>2, <2>3, <2>4, <3>1
    <3>3. QED
      BY <1>2, <2>4, <2>5, <2>6, <3>1, <3>2 DEF ScanTyped, Phases
  <2>8. CASE ~Exceeds(seen + Cardinality(Entries(d)))
    <3>1. /\ walked = Entries(d) /\ seen' = seen + Cardinality(walked) /\ ~limitReached'
          /\ limitReached' \in BOOLEAN
      BY <2>1, <2>2, <2>8 DEF Typed, ScanTyped
    <3>2. seen' \in 0 .. MaxFiles
      BY <2>2, <2>3, <2>8, <3>1 DEF Exceeds
    <3>3. Cardinality(candidates') <= MaxFiles /\ Cardinality(candidates') <= seen'
      BY <2>2, <2>3, <2>4, <3>1, <3>2
    <3>4. QED
      BY <1>2, <2>4, <2>5, <2>6, <3>1, <3>2, <3>3 DEF ScanTyped, Phases
  <2>9. QED
    BY <2>7, <2>8
<1>5. QED
  BY <1>1, <1>3, <1>4

LEMMA TypedInductive ==
  ASSUME Typed, [Next]_vars
  PROVE  Typed'
<1>1. CASE Change
  <2>1. ZoneTyped'
    BY <1>1, ChangeKeepsZone DEF Typed
  <2>2. /\ UNCHANGED <<phase, rest, seen, limitReached, candidates, issues, starts>>
        /\ persisting' \subseteq Problems' /\ steady' \subseteq AllEntries' /\ undisturbed' = FALSE
    BY <1>1 DEF Change, scan, Crowd
  <2>3. ScanTyped'
    BY <2>2 DEF Typed, ScanTyped
  <2>4. StartsTyped'
    BY <2>2, Zenon DEF Typed, StartsTyped
  <2>5. Remembered'
    BY <2>1, <2>2, Zenon DEF Remembered, ZoneTyped
  <2>6. QED
    BY <2>1, <2>3, <2>4, <2>5, Zenon DEF Typed
<1>2. CASE Bridge \/ StartByHand \/ UNCHANGED vars
  <2>1. UNCHANGED world
    BY <1>2 DEF Bridge, StartScan, Listing, Denied, Compare, CheckFile, Report, Restart, EndScan,
                StartByHand, vars
  <2>2. ZoneTyped'
    BY <2>1 DEF world, Typed, ZoneTyped
  <2>3. ASSUME NEW p \in {"stopped", "sleeping"}, EndScan(p)
        PROVE  ScanTyped' /\ StartsTyped' /\ Remembered'
    <3>1. /\ phase' = p /\ rest' = {} /\ seen' = 0 /\ limitReached' = FALSE
          /\ candidates' = {} /\ issues' = FALSE /\ persisting' = {} /\ steady' = {}
          /\ undisturbed' = FALSE /\ starts' = starts
      BY <2>3 DEF EndScan
    <3>2. Cardinality(candidates') = 0 /\ MaxFiles \in Nat
      BY <3>1, FS_EmptySet, BridgeConstants
    <3>3. /\ seen' \in 0..MaxFiles + 1 /\ seen' # MaxFiles + 1
          /\ Cardinality(candidates') <= MaxFiles /\ Cardinality(candidates') <= seen'
      BY <3>1, <3>2
    <3>4. /\ phase' \in Phases /\ candidates' \subseteq Paths
          /\ rest' \subseteq IF phase' = "listing" THEN Directories ELSE candidates'
      BY <3>1 DEF Phases
    <3>5. /\ limitReached' <=> seen' = MaxFiles + 1
          /\ limitReached' => issues'
          /\ issues' \in BOOLEAN /\ limitReached' \in BOOLEAN
      BY <3>1, <3>3, Zenon
    <3>6. ScanTyped'
      BY <3>3, <3>4, <3>5, Zenon DEF ScanTyped
    <3>7. Remembered'
      BY <2>2, <3>1 DEF ZoneTyped, Remembered
    <3>8. StartsTyped'
      BY <3>1, Zenon DEF Typed, StartsTyped
    <3>9. QED
      BY <3>6, <3>7, <3>8
  <2>4. CASE StartScan /\ ~EndScan("stopped")
    <3>1. /\ phase \in {"sleeping", "starting"} /\ phase' = "listing" /\ rest' = Directories
          /\ persisting' = Problems /\ steady' \subseteq AllEntries /\ undisturbed' = TRUE
          /\ UNCHANGED <<world, seen, limitReached, candidates, issues, starts>>
      BY <2>4 DEF StartScan, Crowd
    <3>2. Problems' = Problems /\ AllEntries' = AllEntries
      BY <2>1 DEF world, Problems, AllEntries, Files, CollidingNames
    <3>3. Remembered'
      BY <2>2, <3>1, <3>2 DEF Remembered, ZoneTyped
    <3>4. ScanTyped'
      <4>1. phase' \in Phases /\ rest' \subseteq IF phase' = "listing" THEN Directories ELSE candidates'
        BY <3>1 DEF Phases
      <4>2. UNCHANGED <<seen, limitReached, candidates, issues>>
        BY <3>1
      <4>3. QED
        BY <4>1, <4>2 DEF Typed, ScanTyped
    <3>5. StartsTyped'
      BY <3>1, Zenon DEF Typed, StartsTyped
    <3>6. QED
      BY <2>2, <3>3, <3>4, <3>5 DEF Typed
  <2>5. CASE Listing \/ Compare \/ (CheckFile /\ ~EndScan("stopped")) \/ Restart \/ StartByHand \/ UNCHANGED vars
    <3>1. UNCHANGED history
      BY <2>5 DEF Listing, Compare, CheckFile, Restart, StartByHand, vars
    <3>2. Remembered'
      BY <2>1, <3>1, WorldStays DEF Typed
    <3>3. StartsTyped'
      <4>1. undisturbed' \in BOOLEAN
        BY <3>1, Zenon DEF history, Typed, StartsTyped
      <4>2. starts \in 1 .. StartLimitBurst /\ StartLimitBurst \in Nat \ {0}
        BY BridgeConstants DEF Typed, StartsTyped
      <4>3. starts' \in 1 .. StartLimitBurst
        BY <2>5, <4>2 DEF Listing, Compare, CheckFile, Restart, StartByHand, vars
      <4>4. QED
        BY <4>1, <4>3 DEF StartsTyped
    <3>4. CASE Compare
      <4>1. /\ phase' = "checking" /\ rest' = candidates
            /\ issues' = (issues \/ Collide(candidates))
            /\ UNCHANGED <<seen, limitReached, candidates>>
        BY <3>4 DEF Compare
      <4>2. issues' \in BOOLEAN /\ (limitReached' => issues')
        BY <4>1, Zenon DEF Typed, ScanTyped
      <4>3. ScanTyped'
        BY <4>1, <4>2 DEF Typed, ScanTyped, Phases
      <4>4. QED
        BY <2>2, <3>2, <3>3, <4>3 DEF Typed
    <3>5. CASE CheckFile /\ ~EndScan("stopped")
      <4>1. /\ phase = "checking" /\ phase' = "checking" /\ rest' \subseteq rest
            /\ issues' = TRUE \/ issues' = issues
            /\ UNCHANGED <<seen, limitReached, candidates>>
        BY <3>5 DEF CheckFile
      <4>2. issues \in BOOLEAN /\ (limitReached => issues)
        BY Zenon DEF Typed, ScanTyped
      <4>3. issues' \in BOOLEAN /\ (limitReached' => issues')
        <5>1. CASE issues' = TRUE
          BY <5>1, Zenon
        <5>2. CASE issues' = issues
          BY <4>1, <4>2, <5>2, Zenon
        <5>3. QED
          BY <4>1, <5>1, <5>2, Zenon
      <4>4. ScanTyped'
        BY <4>1, <4>3 DEF Typed, ScanTyped, Phases
      <4>5. QED
        BY <2>2, <3>2, <3>3, <4>4 DEF Typed
    <3>6. CASE Restart \/ StartByHand
      <4>1. /\ phase # "listing" /\ phase' \in {"starting", "failed"}
            /\ UNCHANGED <<rest, seen, limitReached, candidates, issues>>
        BY <3>6 DEF Restart, StartByHand, scan
      <4>2. ScanTyped'
        BY <4>1 DEF Typed, ScanTyped, Phases
      <4>3. QED
        BY <2>2, <3>2, <3>3, <4>2 DEF Typed
    <3>7. CASE UNCHANGED vars
      <4>1. ScanTyped'
        BY <3>7 DEF vars, scan, history, Typed, ScanTyped
      <4>2. QED
        BY <2>2, <3>2, <3>3, <4>1 DEF Typed
    <3>8. QED
      BY <2>2, <2>5, <3>2, <3>3, <3>4, <3>5, <3>6, <3>7, ListKeepsType DEF Typed
  <2>6. CASE Report \/ Denied
    <3>1. EndScan("stopped") \/ EndScan("sleeping")
      BY <2>6 DEF Report, Denied
    <3>2. QED
      BY <2>2, <2>3, <3>1 DEF Typed
  <2>7. QED
    BY <1>2, <2>2, <2>3, <2>4, <2>5, <2>6 DEF Bridge, Typed
<1>3. QED
  BY <1>1, <1>2 DEF Next

(* The zone, the scan and what it counted keep their types; in particular  *)
(* a scan never takes more candidates than its limit.                      *)
THEOREM TypeCorrect == Spec => []TypeOK
<1>1. Init => Typed
  <2>1. Init => ZoneTyped
    BY BridgeConstants DEF Init, ZoneTyped, Kinds
  <2>2. Init => ScanTyped
    <3>1. Cardinality({}) = 0 /\ MaxFiles \in Nat
      BY FS_EmptySet, BridgeConstants
    <3>2. ASSUME Init
          PROVE  /\ phase \in Phases /\ candidates \subseteq Paths
                 /\ rest \subseteq IF phase = "listing" THEN Directories ELSE candidates
                 /\ seen \in 0..MaxFiles + 1 /\ Cardinality(candidates) <= MaxFiles
                 /\ Cardinality(candidates) <= seen
                 /\ seen # MaxFiles + 1
      BY <3>1, <3>2 DEF Init, Phases
    <3>3. ASSUME Init
          PROVE  /\ limitReached <=> seen = MaxFiles + 1
                 /\ limitReached => issues
                 /\ issues \in BOOLEAN /\ limitReached \in BOOLEAN
      BY <3>2, <3>3, Zenon DEF Init
    <3>4. QED
      BY <3>2, <3>3, Zenon DEF ScanTyped
  <2>3. Init => Remembered
    BY DEF Init, Remembered
  <2>4. Init => StartsTyped
    <3>1. 1 \in 1 .. StartLimitBurst
      BY BridgeConstants
    <3>2. QED
      BY <3>1, Zenon DEF Init, StartsTyped
  <2>5. QED
    BY <2>1, <2>2, <2>3, <2>4 DEF Typed
<1>2. Typed => TypeOK
  BY DEF Typed, ZoneTyped, ScanTyped, StartsTyped, Remembered, TypeOK
<1>3. QED
  BY <1>1, <1>2, TypedInductive, PTL DEF Spec
=============================================================================
