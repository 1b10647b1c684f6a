---------------------- MODULE ControlRoomSnapshotProofs ----------------------
(* Theorems about ControlRoomSnapshot, for any paths, ids, limits, notes    *)
(* and rows, whatever is written while the request reads.                   *)
EXTENDS ControlRoomSnapshot, FiniteSetTheorems, TLAPS

-----------------------------------------------------------------------------
(* What LIMIT fetches.  None of this needs a finite table: below any row   *)
(* there are finitely many.                                                *)

Below(S, x) == {y \in S : y < x}

LEMMA LeastOf ==
  ASSUME NEW S \in SUBSET Nat, S # {}
  PROVE  \E x \in S : \A y \in S : x <= y
<1> DEFINE R == OpToRel(<, Nat)
<1>1. PICK x \in S : \A y \in S : <<y, x>> \notin R
  <2>1. IsWellFoundedOn(R, Nat)
    BY NatLessThanWellFounded
  <2> HIDE DEF R
  <2>2. QED
    BY <2>1, WFMin
<1>2. \A y \in S : ~(y < x)
  BY <1>1 DEF OpToRel
<1>3. QED
  BY <1>2

LEMMA BelowMembers ==
  ASSUME NEW S, NEW x
  PROVE  Below(S, x) \subseteq S /\ \A y \in S : y \in Below(S, x) <=> y < x
BY Zenon DEF Below

LEMMA BelowFinite ==
  ASSUME NEW S \in SUBSET Nat, NEW x \in S
  PROVE  IsFiniteSet(Below(S, x)) /\ Cardinality(Below(S, x)) \in Nat
<1>1. Below(S, x) \in SUBSET Nat
  BY BelowMembers, Zenon
<1>2. x \in Nat
  OBVIOUS
<1>3. ASSUME NEW y \in Below(S, x)
      PROVE  y <= x
  <2>1. y \in S /\ y < x
    BY BelowMembers, Zenon
  <2>2. y \in Nat
    BY <2>1
  <2>3. QED
    BY <1>2, <2>1, <2>2
<1>4. IsFiniteSet(Below(S, x))
  BY <1>1, <1>2, <1>3, FS_BoundedSetOfNaturals
<1>5. QED
  BY <1>4, FS_CardinalityType

(* The number of rows before a row grows with the row.                     *)
LEMMA RankGrows ==
  ASSUME NEW S \in SUBSET Nat, NEW x \in S, NEW y \in S, x < y
  PROVE  Cardinality(Below(S, x)) < Cardinality(Below(S, y))
<1>1. x \in Nat /\ y \in Nat
  OBVIOUS
<1>2. x \notin Below(S, x)
  <2>1. ~(x < x)
    BY <1>1
  <2>2. QED
    BY <2>1, BelowMembers, Zenon
<1>3. \A z \in S : z < x => z < y
  BY <1>1
<1>4. Below(S, x) \cup {x} \in SUBSET Below(S, y)
  BY <1>3, BelowMembers, Zenon
<1>5. Cardinality(Below(S, x) \cup {x}) = Cardinality(Below(S, x)) + 1
  BY <1>2, BelowFinite, FS_AddElement
<1>6. Cardinality(Below(S, x) \cup {x}) <= Cardinality(Below(S, y))
  BY <1>4, BelowFinite, FS_Subset
<1>7. Cardinality(Below(S, x)) \in Nat /\ Cardinality(Below(S, y)) \in Nat
  BY BelowFinite
<1>8. QED
  BY <1>5, <1>6, <1>7

(* LIMIT k yields at most k rows, of however many.                         *)
LEMMA FirstOfBound ==
  ASSUME NEW S \in SUBSET Nat, NEW k \in Nat
  PROVE  /\ FirstOf(S, k) \subseteq S /\ IsFiniteSet(FirstOf(S, k))
         /\ Cardinality(FirstOf(S, k)) \in Nat /\ Cardinality(FirstOf(S, k)) <= k
<1> DEFINE F == FirstOf(S, k)
           rank == [x \in F |-> Cardinality(Below(S, x))]
<1>1. F \subseteq S /\ \A x \in F : Cardinality(Below(S, x)) < k
  BY DEF FirstOf, Below
<1>2. rank \in [F -> 0 .. k - 1]
  <2>1. \A x \in F : Cardinality(Below(S, x)) \in 0 .. k - 1
    <3>1. ASSUME NEW x \in F
          PROVE  Cardinality(Below(S, x)) \in 0 .. k - 1
      <4>1. x \in S /\ Cardinality(Below(S, x)) < k
        BY <1>1
      <4>2. Cardinality(Below(S, x)) \in Nat
        BY <4>1, BelowFinite
      <4>3. QED
        BY <4>1, <4>2
    <3>2. QED
      BY <3>1
  <2>2. QED
    BY <2>1
<1>3. \A x, y \in F : rank[x] = rank[y] => x = y
  <2> SUFFICES ASSUME NEW x \in F, NEW y \in F, rank[x] = rank[y]
               PROVE  x = y
    OBVIOUS
  <2>1. x \in S /\ y \in S /\ x \in Nat /\ y \in Nat
    BY <1>1
  <2>2. Cardinality(Below(S, x)) = Cardinality(Below(S, y))
    OBVIOUS
  <2>3. Cardinality(Below(S, x)) \in Nat /\ Cardinality(Below(S, y)) \in Nat
    BY <2>1, BelowFinite
  <2>4. ~(x < y)
    <3>1. x < y => Cardinality(Below(S, x)) < Cardinality(Below(S, y))
      BY <2>1, RankGrows
    <3>2. QED
      BY <2>2, <2>3, <3>1
  <2>5. ~(y < x)
    <3>1. y < x => Cardinality(Below(S, y)) < Cardinality(Below(S, x))
      BY <2>1, RankGrows
    <3>2. QED
      BY <2>2, <2>3, <3>1
  <2>6. QED
    BY <2>1, <2>4, <2>5
<1>4. rank \in Injection(F, 0 .. k - 1)
  <2> HIDE DEF rank, F
  <2>1. QED
    BY <1>2, <1>3 DEF Injection, IsInjective
<1>5. IsFiniteSet(0 .. k - 1) /\ Cardinality(0 .. k - 1) = k
  BY FS_Interval
<1>6. IsFiniteSet(F) /\ Cardinality(F) <= k
  <2> HIDE DEF rank, F
  <2>1. QED
    BY <1>4, <1>5, FS_Injection
<1>7. QED
  BY <1>1, <1>6, FS_CardinalityType

(* No row is lost to a limit that the rows stay within ...                 *)
LEMMA FirstOfAll ==
  ASSUME NEW S \in SUBSET Nat, IsFiniteSet(S), NEW k \in Nat, Cardinality(S) <= k
  PROVE  FirstOf(S, k) = S
<1>1. ASSUME NEW x \in S
      PROVE  Cardinality(Below(S, x)) < k
  <2>1. Below(S, x) \in SUBSET (S \ {x})
    <3>1. ~(x < x)
      OBVIOUS
    <3>2. QED
      BY <3>1, BelowMembers, Zenon
  <2>2. IsFiniteSet(S \ {x}) /\ Cardinality(S \ {x}) = Cardinality(S) - 1
    BY FS_RemoveElement
  <2>3. Cardinality(Below(S, x)) <= Cardinality(S) - 1
    BY <2>1, <2>2, FS_Subset
  <2>4. Cardinality(Below(S, x)) \in Nat /\ Cardinality(S) \in Nat
    BY BelowFinite, FS_CardinalityType
  <2>5. QED
    BY <2>3, <2>4
<1>2. QED
  BY <1>1 DEF FirstOf, Below

(* ... and that they do is seen from what was fetched with one more.       *)
LEMMA FirstOfCut ==
  ASSUME NEW S \in SUBSET Nat, NEW k \in Nat, Cardinality(FirstOf(S, k + 1)) <= k
  PROVE  FirstOf(S, k + 1) = S
<1> DEFINE F == FirstOf(S, k + 1)
<1>1. F \subseteq S /\ IsFiniteSet(F) /\ Cardinality(F) \in Nat
  <2>1. k + 1 \in Nat
    OBVIOUS
  <2>2. QED
    BY <2>1, FirstOfBound
<1>2. ASSUME S \ F # {}
      PROVE  FALSE
  <2>1. PICK x \in S \ F : \A y \in S \ F : x <= y
    BY <1>2, LeastOf
  <2> HIDE DEF F
  <2>2. Below(S, x) \in SUBSET F
    <3>1. ASSUME NEW y \in Below(S, x)
          PROVE  y \in F
      <4>1. y \in S /\ y < x
        BY BelowMembers, Zenon
      <4>2. y \in Nat /\ x \in Nat
        BY <4>1
      <4>3. ~(x <= y)
        BY <4>1, <4>2
      <4>4. QED
        BY <2>1, <4>1, <4>3
    <3>2. QED
      BY <3>1
  <2>3. Cardinality(Below(S, x)) <= Cardinality(F)
    BY <1>1, <2>2, FS_Subset
  <2>4. Cardinality(F) <= k
    BY DEF F
  <2>5. Cardinality(Below(S, x)) \in Nat
    BY <2>1, BelowFinite
  <2>6. Cardinality(Below(S, x)) < k + 1
    BY <1>1, <2>3, <2>4, <2>5
  <2>7. x \in F
    BY <2>1, <2>6 DEF F, FirstOf, Below
  <2>8. QED
    BY <2>1, <2>7
<1>3. QED
  BY <1>1, <1>2

(* Of several notes there is a last one.                                   *)
LEMMA LastIn ==
  ASSUME NEW S \in SUBSET Nat, IsFiniteSet(S), S # {}
  PROVE  Last(S) \in S
<1> DEFINE after(x) == Cardinality(S) - Cardinality(Below(S, x))
           D == {after(x) : x \in S}
<1>1. \A x \in S : after(x) \in Nat
  <2> SUFFICES ASSUME NEW x \in S
               PROVE  after(x) \in Nat
    OBVIOUS
  <2>1. Below(S, x) \in SUBSET S
    BY BelowMembers, Zenon
  <2>2. Cardinality(Below(S, x)) <= Cardinality(S) /\ Cardinality(S) \in Nat
    BY <2>1, FS_Subset, FS_CardinalityType
  <2>3. Cardinality(Below(S, x)) \in Nat
    BY BelowFinite
  <2>4. QED
    BY <2>2, <2>3
<1>2. D \subseteq Nat /\ D # {}
  BY <1>1
<1>3. PICK d \in D : \A e \in D : d <= e
  <2> HIDE DEF D
  <2>1. QED
    BY <1>2, LeastOf
<1>4. PICK x \in S : d = after(x)
  BY <1>3
<1>5. \A y \in S : y <= x
  <2> SUFFICES ASSUME NEW y \in S, ~(y <= x)
               PROVE  FALSE
    OBVIOUS
  <2>1. x < y
    OBVIOUS
  <2>2. Cardinality(Below(S, x)) < Cardinality(Below(S, y))
    BY <2>1, RankGrows
  <2>3. after(x) <= after(y)
    BY <1>3, <1>4
  <2>4. Cardinality(S) \in Nat /\ Cardinality(Below(S, x)) \in Nat /\ Cardinality(Below(S, y)) \in Nat
    BY FS_CardinalityType, BelowFinite
  <2>5. QED
    BY <2>2, <2>3, <2>4
<1>6. QED
  BY <1>5 DEF Last

-----------------------------------------------------------------------------
(* What the request knows at each of its steps                             *)

Reading == step \notin {"idle", "answered"}

NotYetWalked(p) == step = "ReadOnly" \/ (step = "ReadWrite" /\ p \in ReadWritePaths)

Listed(p) == step \in {"ReadOnly", "ReadWrite", "notes"} /\ p \in todo

Known(p) == p \in DOMAIN documents /\ SameResource(documents[p], notes[p])

ZoneWarned == \E w \in warnings : w[1] = "zone"

(* A note that was there all the time is still to come or has been read,   *)
(* unless the answer will tell that something is missing.                  *)
NotesInv ==
  Reading =>
    \A p \in steadyNotes :
      /\ notes[p] \in Notes
      /\ NotYetWalked(p) \/ Listed(p) \/ Known(p) \/ cut \/ ZoneWarned

(* Until a statement fails, what was fetched is all there was or more than *)
(* is shown.                                                               *)
QueueInv ==
  /\ Reading => steadyQueued \subseteq queued
  /\ step \in {"runs", "rest"} \/ (step = "assemble" /\ warnings = {}) =>
       TooMany(queueRows) \/ steadyQueued \subseteq queueRows

RowsInv ==
  /\ Reading => runs[watched] \in held
  /\ step \in {"rest", "assemble"} /\ watched \in DOMAIN runRows => runRows[watched] \in held
  /\ step = "rest" \/ (step = "assemble" /\ warnings = {}) =>
       TooMany(DOMAIN runRows) \/ NoRow \in held \/ watched \in DOMAIN runRows

WorldTyped ==
  /\ limit \in Limits
  /\ notes \in [Paths -> Notes \cup {NoNote, Unreadable}]
  /\ runs \in [RunIds -> RunStates \cup {NoRow}]
  /\ queued \subseteq CommandIds
  /\ steadyNotes \subseteq Paths /\ watched \in RunIds

WalkTyped ==
  /\ step \in {"idle", "ReadOnly", "ReadWrite", "notes", "connect", "queue", "runs",
               "rest", "assemble", "answered"}
  /\ todo \subseteq Paths /\ cut \in BOOLEAN /\ warnings \subseteq Warnings

DocumentsTyped ==
  /\ documents \in PartialFunctions(Paths, Notes)
  /\ IsFiniteSet(DOMAIN documents) /\ Cardinality(DOMAIN documents) <= limit

FetchedTyped ==
  /\ queueRows \subseteq CommandIds /\ IsFiniteSet(queueRows)
  /\ Cardinality(queueRows) <= limit + 1
  /\ runRows \in PartialFunctions(RunIds, RunStates) /\ IsFiniteSet(DOMAIN runRows)
  /\ Cardinality(DOMAIN runRows) <= limit + 1

SnapshotTyped ==
  snapshot # NoSnapshot =>
    /\ snapshot.queue \in PartialFunctions(CommandIds, Runtimes \cup {NoRow})
    /\ snapshot.tasks \in PartialFunctions(Paths, ShownTask)
    /\ snapshot.runs \in PartialFunctions(RunIds, ShownRun)
    /\ \A shown \in {DOMAIN snapshot.queue, DOMAIN snapshot.tasks, DOMAIN snapshot.runs} :
         ~TooMany(shown)

Typed == WorldTyped /\ WalkTyped /\ DocumentsTyped /\ FetchedTyped

NoAnswerYet == step # "answered" => snapshot = NoSnapshot

LEMMA PartialFunctionIs ==
  ASSUME NEW S, NEW T, NEW f \in PartialFunctions(S, T)
  PROVE  DOMAIN f \subseteq S /\ f \in [DOMAIN f -> T]
<1>1. PICK D \in SUBSET S : f \in [D -> T]
  BY DEF PartialFunctions
<1>2. QED
  BY <1>1

LEMMA IsPartialFunction ==
  ASSUME NEW S, NEW T, NEW D \in SUBSET S, NEW f \in [D -> T]
  PROVE  f \in PartialFunctions(S, T) /\ DOMAIN f = D
<1>1. [D -> T] \in {[E -> T] : E \in SUBSET S}
  OBVIOUS
<1>2. QED
  BY <1>1 DEF PartialFunctions

LEMMA EmptyFunction ==
  ASSUME NEW S, NEW T
  PROVE  Nothing \in PartialFunctions(S, T) /\ DOMAIN Nothing = {}
<1>1. {} \in SUBSET S /\ Nothing \in [{} -> T]
  BY DEF Nothing
<1>2. QED
  BY <1>1, IsPartialFunction

LEMMA LimitIsNat == limit \in Limits => limit \in Nat /\ limit + 1 \in Nat /\ 0 <= limit
BY SnapshotConstants

LEMMA NothingTyped ==
  ASSUME limit \in Limits, NEW S, NEW T
  PROVE  /\ Nothing \in PartialFunctions(S, T) /\ IsFiniteSet(DOMAIN Nothing)
         /\ Cardinality(DOMAIN Nothing) <= limit /\ Cardinality(DOMAIN Nothing) <= limit + 1
         /\ IsFiniteSet({}) /\ Cardinality({}) <= limit /\ Cardinality({}) <= limit + 1
<1>1. limit \in Nat /\ limit + 1 \in Nat
  BY LimitIsNat
<1>2. IsFiniteSet({}) /\ Cardinality({}) = 0
  BY FS_EmptySet
<1>3. 0 <= limit /\ 0 <= limit + 1
  BY <1>1
<1>4. QED
  BY <1>2, <1>3, EmptyFunction

-----------------------------------------------------------------------------
(* Types                                                                   *)

LEMMA WorldTypedStep == WorldTyped /\ [Next]_vars => WorldTyped'
<1> SUFFICES ASSUME WorldTyped, [Next]_vars
             PROVE  WorldTyped'
  OBVIOUS
<1>1. ASSUME NEW p \in Paths, NEW content \in Notes \cup {NoNote, Unreadable}, NoteWritten(p, content)
      PROVE  WorldTyped'
  BY <1>1 DEF NoteWritten, WorldTyped
<1>2. ASSUME NEW r \in RunIds, NEW state \in RunStates, RowWritten(r, state)
      PROVE  WorldTyped'
  BY <1>2 DEF RowWritten, WorldTyped
<1>3. ASSUME NEW commands \in SUBSET CommandIds, QueueChanges(commands)
      PROVE  WorldTyped'
  BY <1>3 DEF QueueChanges, WorldTyped
<1>4. CASE Begin
  BY <1>4 DEF Begin, WorldTyped, world
<1>5. CASE Deliver \/ Refuse
  BY <1>5 DEF Deliver, Refuse, WorldTyped, world
<1>6. CASE UNCHANGED <<world, history>>
  BY <1>6 DEF WorldTyped, world, history
<1>7. CASE ReaderStep
  BY <1>4, <1>5, <1>6, <1>7
  DEF ReaderStep, WalkZone, WalkZoneInPart, WalkCut, NotesDone, ReadNote, Connect, SelectQueue,
      SelectRuns, SelectRest, StoreFails, Assemble
<1>8. CASE Elsewhere
  BY <1>1, <1>2, <1>3, <1>8 DEF Elsewhere
<1>9. QED
  BY <1>6, <1>7, <1>8 DEF Next, vars

LEMMA WalkTypedStep == WorldTyped /\ WalkTyped /\ [Next]_vars => WalkTyped'
<1> SUFFICES ASSUME WorldTyped, WalkTyped, [Next]_vars
             PROVE  WalkTyped'
  OBVIOUS
<1>1. CASE Begin \/ Connect \/ SelectQueue \/ SelectRuns \/ SelectRest \/ Deliver \/ NotesDone
  BY <1>1 DEF Begin, Connect, SelectQueue, SelectRuns, SelectRest, Deliver, NotesDone, WalkTyped
<1>2. CASE WalkZone \/ WalkCut
  BY <1>2 DEF WalkZone, WalkCut, WalkTyped, Present, AfterZone, Paths
<1>3. CASE WalkZoneInPart
  <2>1. <<"zone", IF step = "ReadOnly" THEN 0 ELSE 1>> \in Warnings
    BY DEF Warnings
  <2>2. QED
    BY <1>3, <2>1 DEF WalkZoneInPart, WalkTyped, Present, AfterZone, Paths
<1>4. ASSUME NEW p \in Paths, ReadNote(p)
      PROVE  WalkTyped'
  <2>1. <<"note", p>> \in Warnings
    BY DEF Warnings
  <2>2. warnings' \subseteq Warnings
    BY <1>4, <2>1 DEF ReadNote, WalkTyped
  <2>3. QED
    BY <1>4, <2>2 DEF ReadNote, WalkTyped
<1>5. CASE StoreFails
  <2>1. <<"store", 0>> \in Warnings
    BY DEF Warnings
  <2>2. QED
    BY <1>5, <2>1 DEF StoreFails, WalkTyped
<1>6. CASE Assemble \/ Refuse
  BY <1>6 DEF Assemble, Refuse, NothingRead, WalkTyped
<1>7. CASE UNCHANGED reader
  BY <1>7 DEF reader, WalkTyped
<1>8. CASE Elsewhere
  BY <1>7, <1>8 DEF Elsewhere, NoteWritten, RowWritten, QueueChanges
<1>9. QED
  BY <1>1, <1>2, <1>3, <1>4, <1>5, <1>6, <1>7, <1>8 DEF Next, ReaderStep, vars

LEMMA LimitStays == [Next]_vars => limit' = limit
BY DEF Next, ReaderStep, Elsewhere, NoteWritten, RowWritten, QueueChanges, Begin, WalkZone,
       WalkZoneInPart, WalkCut, NotesDone, ReadNote, Connect, SelectQueue, SelectRuns, SelectRest,
       StoreFails, Assemble, Deliver, Refuse, vars, world

LEMMA DocumentsTypedStep == WorldTyped /\ DocumentsTyped /\ [Next]_vars => DocumentsTyped'
<1> SUFFICES ASSUME WorldTyped, DocumentsTyped, [Next]_vars
             PROVE  DocumentsTyped'
  OBVIOUS
<1>1. limit' = limit /\ limit \in Nat /\ limit \in Limits
  BY LimitStays, LimitIsNat DEF WorldTyped
<1>2. CASE UNCHANGED documents
  BY <1>1, <1>2 DEF DocumentsTyped
<1>3. ASSUME NEW p \in Paths, ReadNote(p)
      PROVE  DocumentsTyped'
  <2>1. CASE notes[p] \in Notes
    <3> DEFINE D == DOMAIN documents \cup {p}
    <3>1. DOMAIN documents \subseteq Paths /\ documents \in [DOMAIN documents -> Notes]
      BY PartialFunctionIs DEF DocumentsTyped
    <3>2. documents' = [q \in D |-> IF q = p THEN notes[p] ELSE documents[q]]
      BY <1>3, <2>1 DEF ReadNote
    <3>3. D \in SUBSET Paths
      BY <3>1
    <3>4. documents' \in [D -> Notes]
      BY <2>1, <3>1, <3>2
    <3>5. documents' \in PartialFunctions(Paths, Notes) /\ DOMAIN documents' = D
      <4> HIDE DEF D
      <4>1. QED
        BY <3>3, <3>4, IsPartialFunction
    <3>6. IsFiniteSet(D) /\ Cardinality(D) <= Cardinality(DOMAIN documents) + 1
      <4>1. Cardinality(DOMAIN documents) \in Nat
        BY FS_CardinalityType DEF DocumentsTyped
      <4>2. QED
        BY <4>1, FS_AddElement DEF DocumentsTyped
    <3>7. Cardinality(D) <= limit
      <4>1. Cardinality(DOMAIN documents) < limit
        BY <1>3 DEF ReadNote
      <4>2. Cardinality(DOMAIN documents) \in Nat /\ Cardinality(D) \in Nat
        BY <3>6, FS_CardinalityType DEF DocumentsTyped
      <4>3. QED
        BY <1>1, <3>6, <4>1, <4>2
    <3>8. QED
      BY <1>1, <3>5, <3>6, <3>7 DEF DocumentsTyped
  <2>2. CASE notes[p] \notin Notes
    BY <1>2, <1>3, <2>2 DEF ReadNote
  <2>3. QED
    BY <2>1, <2>2
<1>4. CASE NothingRead
  BY <1>1, <1>4, NothingTyped DEF NothingRead, DocumentsTyped
<1>5. QED
  BY <1>2, <1>3, <1>4
  DEF Next, ReaderStep, Elsewhere, NoteWritten, RowWritten, QueueChanges, Begin, WalkZone,
      WalkZoneInPart, WalkCut, NotesDone, Connect, SelectQueue, SelectRuns, SelectRest,
      StoreFails, Assemble, Deliver, Refuse, vars, reader

(* What LIMIT lets through, in either of the two places.                   *)
LEMMA FetchedBound ==
  ASSUME limit \in Limits, NEW S \in SUBSET Nat
  PROVE  /\ Fetched(S) \subseteq S /\ IsFiniteSet(Fetched(S))
         /\ Cardinality(Fetched(S)) <= limit + 1
<1>1. limit + 1 \in Nat
  BY LimitIsNat
<1>2. QED
  BY <1>1, FirstOfBound DEF Fetched

LEMMA ShownBound ==
  ASSUME limit \in Limits, NEW S \in SUBSET Nat
  PROVE  FirstOf(S, limit) \subseteq S /\ ~TooMany(FirstOf(S, limit))
<1>1. limit \in Nat
  BY LimitIsNat
<1>2. /\ FirstOf(S, limit) \subseteq S /\ Cardinality(FirstOf(S, limit)) \in Nat
      /\ Cardinality(FirstOf(S, limit)) <= limit
  BY <1>1, FirstOfBound
<1>3. QED
  BY <1>1, <1>2 DEF TooMany

(* Nothing is hidden from a reader that got no more than it may show.      *)
LEMMA FetchedIsAll ==
  ASSUME limit \in Limits, NEW S \in SUBSET Nat, ~TooMany(Fetched(S))
  PROVE  Fetched(S) = S
<1>1. limit \in Nat /\ limit + 1 \in Nat
  BY LimitIsNat
<1>2. Cardinality(Fetched(S)) \in Nat
  BY <1>1, FirstOfBound DEF Fetched
<1>3. Cardinality(FirstOf(S, limit + 1)) <= limit
  BY <1>1, <1>2 DEF TooMany, Fetched
<1>4. QED
  BY <1>1, <1>3, FirstOfCut DEF Fetched

LEMMA ShownIsAll ==
  ASSUME limit \in Limits, NEW S \in SUBSET Nat, IsFiniteSet(S), ~TooMany(S)
  PROVE  FirstOf(S, limit) = S
<1>1. limit \in Nat /\ Cardinality(S) \in Nat
  BY LimitIsNat, FS_CardinalityType
<1>2. Cardinality(S) <= limit
  BY <1>1 DEF TooMany
<1>3. QED
  BY <1>1, <1>2, FirstOfAll

RowsThere == {r \in RunIds : runs[r] # NoRow}

LEMMA RowsFetched ==
  ASSUME WorldTyped, SelectRuns
  PROVE  /\ runRows' \in PartialFunctions(RunIds, RunStates)
         /\ DOMAIN runRows' = Fetched(RowsThere)
         /\ \A r \in DOMAIN runRows' : runRows'[r] = runs[r]
<1>1. runRows' = [r \in Fetched(RowsThere) |-> runs[r]]
  BY DEF SelectRuns, RowsThere
<1>2. Fetched(RowsThere) \subseteq RowsThere
  BY DEF Fetched, FirstOf
<1>3. Fetched(RowsThere) \in SUBSET RunIds
  BY <1>2 DEF RowsThere
<1>4. runRows' \in [Fetched(RowsThere) -> RunStates]
  BY <1>1, <1>2 DEF RowsThere, WorldTyped
<1>5. QED
  BY <1>1, <1>3, <1>4, IsPartialFunction

LEMMA FetchedTypedStep == WorldTyped /\ FetchedTyped /\ [Next]_vars => FetchedTyped'
<1> SUFFICES ASSUME WorldTyped, FetchedTyped, [Next]_vars
             PROVE  FetchedTyped'
  OBVIOUS
<1>1. limit' = limit /\ limit \in Limits
  BY LimitStays DEF WorldTyped
<1>2. CASE UNCHANGED <<queueRows, runRows>>
  BY <1>1, <1>2 DEF FetchedTyped
<1>3. CASE SelectQueue
  <2>1. queued \in SUBSET Nat
    BY SnapshotConstants DEF WorldTyped
  <2>2. queueRows' = Fetched(queued) /\ runRows' = runRows
    BY <1>3 DEF SelectQueue
  <2>3. /\ Fetched(queued) \subseteq CommandIds /\ IsFiniteSet(Fetched(queued))
        /\ Cardinality(Fetched(queued)) <= limit + 1
    BY <1>1, <2>1, FetchedBound DEF WorldTyped
  <2>4. QED
    BY <1>1, <2>2, <2>3 DEF FetchedTyped
<1>4. CASE SelectRuns
  <2>1. RowsThere \in SUBSET Nat
    BY SnapshotConstants DEF RowsThere
  <2>2. IsFiniteSet(Fetched(RowsThere)) /\ Cardinality(Fetched(RowsThere)) <= limit + 1
    BY <1>1, <2>1, FetchedBound
  <2>3. queueRows' = queueRows
    BY <1>4 DEF SelectRuns
  <2>4. QED
    BY <1>1, <1>4, <2>2, <2>3, RowsFetched DEF FetchedTyped
<1>5. CASE queueRows' = {} /\ runRows' = Nothing
  BY <1>1, <1>5, NothingTyped DEF FetchedTyped
<1>6. QED
  BY <1>2, <1>3, <1>4, <1>5
  DEF Next, ReaderStep, Elsewhere, NoteWritten, RowWritten, QueueChanges, Begin, WalkZone,
      WalkZoneInPart, WalkCut, NotesDone, ReadNote, Connect, SelectRest, NothingRead,
      StoreFails, Assemble, Deliver, Refuse, vars, reader

LEMMA TypedStep == Typed /\ [Next]_vars => Typed'
BY WorldTypedStep, WalkTypedStep, DocumentsTypedStep, FetchedTypedStep DEF Typed

LEMMA NoAnswerYetStep == NoAnswerYet /\ [Next]_vars => NoAnswerYet'
BY DEF NoAnswerYet, Next, ReaderStep, Elsewhere, NoteWritten, RowWritten, QueueChanges, Begin,
       WalkZone, WalkZoneInPart, WalkCut, AfterZone, NotesDone, ReadNote, Connect, SelectQueue,
       SelectRuns, SelectRest, StoreFails, Assemble, Deliver, Refuse, vars, reader

-----------------------------------------------------------------------------
(* What the request knows                                                  *)

LEMMA SameAsItself == \A n \in Notes : SameResource(n, n)
BY DEF Notes, SameResource

LEMMA NoteKinds == \A n : ~(n \in RunNotes /\ n \in TaskNotes)
<1> SUFFICES ASSUME NEW n, n \in RunNotes, n \in TaskNotes
             PROVE  FALSE
  OBVIOUS
<1>1. DOMAIN n = {"run", "state"} /\ DOMAIN n = {"task", "runtime"}
  BY DEF RunNotes, TaskNotes
<1>2. "run" \in {"run", "state"} /\ "run" \notin {"task", "runtime"}
  OBVIOUS
<1>3. QED
  BY <1>1, <1>2

LEMMA SameOfSame ==
  ASSUME NEW a, NEW b, NEW c, SameResource(a, b), SameResource(b, c)
  PROVE  SameResource(a, c)
BY NoteKinds DEF SameResource

LEMMA NotesInvStep == Typed /\ NotesInv /\ [Next]_vars => NotesInv'
<1> SUFFICES ASSUME Typed, NotesInv, [Next]_vars, Reading', NEW p \in Paths, p \in steadyNotes'
             PROVE  /\ notes'[p] \in Notes
                    /\ NotYetWalked(p)' \/ Listed(p)' \/ Known(p)' \/ cut' \/ ZoneWarned'
  BY TypedStep DEF NotesInv, Typed, WorldTyped
<1> DEFINE Found == NotYetWalked(p) \/ Listed(p) \/ Known(p) \/ cut \/ ZoneWarned
<1>1. ASSUME Reading, p \in steadyNotes
      PROVE  notes[p] \in Notes /\ Found
  BY <1>1 DEF NotesInv
<1>2. notes[p] \in Notes => notes[p] # NoNote
  BY SnapshotConstants
<1>3. CASE Begin
  BY <1>3 DEF Begin, NotYetWalked, world
<1>4. CASE step \in {"ReadOnly", "ReadWrite"} /\ todo' = todo \cup Present(step)
           /\ step' = AfterZone(step) /\ UNCHANGED <<notes, documents, cut, warnings, steadyNotes>>
  <2>1. notes[p] \in Notes /\ Found
    BY <1>1, <1>4 DEF Reading
  <2>2. NotYetWalked(p) => NotYetWalked(p)' \/ Listed(p)'
    BY <1>2, <1>4, <2>1 DEF Listed, NotYetWalked, Present, AfterZone, Paths
  <2>3. QED
    BY <1>4, <2>1, <2>2 DEF Listed, AfterZone, Known, ZoneWarned
<1>5. CASE WalkZoneInPart
  <2>1. <<"zone", IF step = "ReadOnly" THEN 0 ELSE 1>> \in warnings'
    BY <1>5 DEF WalkZoneInPart
  <2>2. ZoneWarned'
    BY <2>1 DEF ZoneWarned
  <2>3. notes'[p] \in Notes
    BY <1>1, <1>5 DEF WalkZoneInPart, Reading, world, history
  <2>4. QED
    BY <2>2, <2>3
<1>6. CASE WalkCut
  BY <1>1, <1>6 DEF WalkCut, Reading, world, history
<1>7. ASSUME NEW q \in Paths, ReadNote(q)
      PROVE  /\ notes'[p] \in Notes
             /\ NotYetWalked(p)' \/ Listed(p)' \/ Known(p)' \/ cut' \/ ZoneWarned'
  <2>1. /\ notes' = notes /\ cut' = cut /\ warnings \subseteq warnings' /\ step' = step
        /\ todo' = todo \ {q} /\ step = "notes" /\ p \in steadyNotes
    BY <1>7 DEF ReadNote, world, history
  <2>2. notes[p] \in Notes /\ Found
    BY <1>1, <2>1 DEF Reading
  <2>3. Known(p) => Known(p)'
    BY <1>7, <2>1, <2>2, SameAsItself DEF ReadNote, Known
  <2>4. p = q => Known(p)'
    BY <1>7, <2>1, <2>2, SameAsItself DEF ReadNote, Known
  <2>5. QED
    BY <2>1, <2>2, <2>3, <2>4 DEF Listed, NotYetWalked, ZoneWarned
<1>8. CASE NotesDone
  <2>1. notes[p] \in Notes /\ Found
    BY <1>1, <1>8 DEF NotesDone, Reading, history
  <2>2. ~NotYetWalked(p)
    BY <1>8 DEF NotesDone, NotYetWalked
  <2>3. QED
    BY <1>8, <2>1, <2>2 DEF Listed, NotesDone, Known, ZoneWarned, world, Typed, WalkTyped
<1>9. CASE /\ step \in {"connect", "queue", "runs", "rest"} /\ step' \in {"queue", "runs", "rest", "assemble"}
           /\ UNCHANGED <<notes, todo, documents, cut, steadyNotes>> /\ warnings \subseteq warnings'
  <2>1. notes[p] \in Notes /\ Found
    BY <1>1, <1>9 DEF Reading
  <2>2. QED
    BY <1>9, <2>1 DEF Listed, NotYetWalked, Known, ZoneWarned
<1>10. CASE Assemble \/ Deliver \/ Refuse
  BY <1>10 DEF Assemble, Deliver, Refuse, Reading
<1>11. ASSUME NEW q \in Paths, NEW content \in Notes \cup {NoNote, Unreadable}, NoteWritten(q, content)
       PROVE  /\ notes'[p] \in Notes
              /\ NotYetWalked(p)' \/ Listed(p)' \/ Known(p)' \/ cut' \/ ZoneWarned'
  <2>1. /\ UNCHANGED <<step, todo, documents, cut, warnings>> /\ p \in steadyNotes /\ Reading
    BY <1>11 DEF NoteWritten, reader, Reading
  <2>2. notes[p] \in Notes /\ Found
    BY <1>1, <2>1
  <2>3. notes'[p] = IF p = q THEN content ELSE notes[p]
    BY <1>11 DEF NoteWritten, Typed, WorldTyped
  <2>4. p = q => SameResource(notes[p], content)
    BY <1>11 DEF NoteWritten
  <2>5. notes'[p] \in Notes /\ SameResource(notes[p], notes'[p])
    BY <2>2, <2>3, <2>4, SameAsItself DEF SameResource, Notes
  <2>6. Known(p) => Known(p)'
    BY <2>1, <2>5, SameOfSame DEF Known
  <2>7. QED
    BY <2>1, <2>2, <2>5, <2>6 DEF Listed, NotYetWalked, ZoneWarned
<1>12. CASE UNCHANGED <<notes, reader, steadyNotes>>
  BY <1>1, <1>12 DEF reader, Listed, Reading, NotYetWalked, Known, ZoneWarned
<1>13. CASE WalkZone
  BY <1>4, <1>13 DEF WalkZone, world, history
<1>14. CASE Connect \/ SelectQueue \/ SelectRuns \/ SelectRest \/ StoreFails
  BY <1>9, <1>14 DEF Connect, SelectQueue, SelectRuns, SelectRest, StoreFails, world, history
<1>15. CASE Elsewhere
  BY <1>11, <1>12, <1>15 DEF Elsewhere, RowWritten, QueueChanges
<1>16. QED
  BY <1>3, <1>5, <1>6, <1>7, <1>8, <1>10, <1>12, <1>13, <1>14, <1>15
  DEF Next, ReaderStep, vars, world, history

LEMMA QueueInvStep == Typed /\ QueueInv /\ [Next]_vars => QueueInv'
<1> SUFFICES ASSUME Typed, QueueInv, [Next]_vars
             PROVE  QueueInv'
  OBVIOUS
<1> USE DEF QueueInv, Reading
<1>1. limit' = limit /\ limit \in Limits
  BY LimitStays DEF Typed, WorldTyped
<1>2. TooMany(queueRows)' <=> Cardinality(queueRows') > limit
  BY <1>1 DEF TooMany
<1>3. queueRows' = queueRows => (TooMany(queueRows)' <=> TooMany(queueRows))
  BY <1>1 DEF TooMany
<1>4. CASE SelectQueue
  <2>1. queued \in SUBSET Nat
    BY SnapshotConstants DEF Typed, WorldTyped
  <2>2. queueRows' = Fetched(queued) /\ step' = "runs" /\ UNCHANGED <<steadyQueued, queued>>
    BY <1>4 DEF SelectQueue, world, history
  <2>3. steadyQueued \subseteq queued
    BY <1>4 DEF SelectQueue
  <2>4. TooMany(queueRows)' \/ queueRows' = queued
    BY <1>1, <1>2, <2>1, <2>2, FetchedIsAll DEF TooMany
  <2>5. QED
    BY <2>2, <2>3, <2>4
<1>5. CASE Begin \/ Connect \/ SelectRuns \/ SelectRest
  BY <1>3, <1>5 DEF Begin, Connect, SelectRuns, SelectRest, world, history
<1>6. CASE StoreFails
  BY <1>6 DEF StoreFails, world, history
<1>7. CASE WalkZone \/ WalkZoneInPart \/ WalkCut \/ NotesDone \/ \E p \in Paths : ReadNote(p)
  BY <1>7 DEF WalkZone, WalkZoneInPart, WalkCut, NotesDone, ReadNote, AfterZone, world, history
<1>8. CASE Assemble \/ Deliver \/ Refuse
  BY <1>8 DEF Assemble, Deliver, Refuse
<1>9. ASSUME NEW commands \in SUBSET CommandIds, QueueChanges(commands)
      PROVE  QueueInv'
  BY <1>3, <1>9 DEF QueueChanges, reader
<1>10. CASE UNCHANGED <<reader, queued, steadyQueued>>
  BY <1>3, <1>10 DEF reader
<1>11. CASE Elsewhere
  BY <1>9, <1>10, <1>11 DEF Elsewhere, NoteWritten, RowWritten
<1>12. QED
  BY <1>4, <1>5, <1>6, <1>7, <1>8, <1>10, <1>11 DEF Next, ReaderStep, vars, world, history

LEMMA RowsInvStep == Typed /\ RowsInv /\ [Next]_vars => RowsInv'
<1> SUFFICES ASSUME Typed, RowsInv, [Next]_vars
             PROVE  RowsInv'
  OBVIOUS
<1> USE DEF RowsInv, Reading
<1>1. limit' = limit /\ limit \in Limits
  BY LimitStays DEF Typed, WorldTyped
<1>2. runRows' = runRows => (TooMany(DOMAIN runRows)' <=> TooMany(DOMAIN runRows))
  BY <1>1 DEF TooMany
<1>3. CASE SelectRuns
  <2>1. RowsThere \in SUBSET Nat
    BY SnapshotConstants DEF RowsThere
  <2>2. /\ DOMAIN runRows' = Fetched(RowsThere) /\ \A r \in DOMAIN runRows' : runRows'[r] = runs[r]
        /\ step' = "rest" /\ UNCHANGED <<runs, watched, held>>
    BY <1>3, RowsFetched DEF SelectRuns, world, history, Typed
  <2>3. runs[watched] \in held /\ watched \in RunIds
    BY <1>3 DEF SelectRuns, Typed, WorldTyped
  <2>4. TooMany(DOMAIN runRows)' \/ DOMAIN runRows' = RowsThere
    BY <1>1, <2>1, <2>2, FetchedIsAll DEF TooMany
  <2>5. NoRow \notin held => watched \in RowsThere
    BY <2>3 DEF RowsThere
  <2>6. QED
    BY <2>2, <2>3, <2>4, <2>5
<1>4. CASE Begin \/ Connect \/ SelectQueue \/ SelectRest
  BY <1>2, <1>4 DEF Begin, Connect, SelectQueue, SelectRest, world, history
<1>5. CASE StoreFails
  BY <1>5, EmptyFunction DEF StoreFails, world, history
<1>6. CASE WalkZone \/ WalkZoneInPart \/ WalkCut \/ NotesDone \/ \E p \in Paths : ReadNote(p)
  BY <1>6 DEF WalkZone, WalkZoneInPart, WalkCut, NotesDone, ReadNote, AfterZone, world, history
<1>7. CASE Assemble \/ Deliver \/ Refuse
  BY <1>7 DEF Assemble, Deliver, Refuse
<1>8. ASSUME NEW r \in RunIds, NEW state \in RunStates, RowWritten(r, state)
      PROVE  RowsInv'
  <2>1. /\ UNCHANGED <<reader, watched>> /\ step # "answered"
        /\ runs'[watched] = IF r = watched THEN state ELSE runs[watched]
        /\ held' = IF r = watched /\ step # "idle" THEN held \cup {state} ELSE held
    BY <1>8 DEF RowWritten, Typed, WorldTyped
  <2>2. held \subseteq held' /\ (Reading => runs'[watched] \in held')
    BY <2>1
  <2>3. QED
    BY <1>2, <2>1, <2>2 DEF reader
<1>9. CASE UNCHANGED <<reader, runs, watched, held>>
  BY <1>2, <1>9 DEF reader
<1>10. CASE Elsewhere
  BY <1>8, <1>9, <1>10 DEF Elsewhere, NoteWritten, QueueChanges
<1>11. QED
  BY <1>3, <1>4, <1>5, <1>6, <1>7, <1>9, <1>10 DEF Next, ReaderStep, vars, world, history

-----------------------------------------------------------------------------
(* The answer                                                              *)

LEMMA DocumentIs ==
  ASSUME WorldTyped, DocumentsTyped
  PROVE  /\ DOMAIN documents \in SUBSET Nat /\ DOMAIN documents \subseteq Paths
         /\ \A p \in DOMAIN documents : documents[p] \in Notes
<1>1. DOMAIN documents \subseteq Paths /\ documents \in [DOMAIN documents -> Notes]
  BY PartialFunctionIs DEF DocumentsTyped
<1>2. QED
  BY <1>1, SnapshotConstants

(* A run that notes tell of is shown with the state of one of them.        *)
LEMMA ToldIs ==
  ASSUME WorldTyped, DocumentsTyped, NEW r
  PROVE  /\ Told(r) # {} => Last(Told(r)) \in Told(r)
         /\ ToldOfTask(r) # {} => Last(ToldOfTask(r)) \in ToldOfTask(r)
<1>1. Told(r) \in SUBSET DOMAIN documents /\ ToldOfTask(r) \in SUBSET DOMAIN documents
  BY DEF Told, ToldOfTask
<1>2. IsFiniteSet(Told(r)) /\ IsFiniteSet(ToldOfTask(r))
  BY <1>1, FS_Subset DEF DocumentsTyped
<1>3. Told(r) \in SUBSET Nat /\ ToldOfTask(r) \in SUBSET Nat
  BY <1>1, DocumentIs
<1>4. QED
  BY <1>2, <1>3, LastIn

LEMMA RuntimeIs ==
  ASSUME WorldTyped, DocumentsTyped, NEW t
  PROVE  /\ RuntimeOf(t) \in Runtimes \cup {NoRow}
         /\ ToldOfTask(t) # {} => RuntimeOf(t) # NoRow
<1>1. CASE ToldOfTask(t) = {}
  BY <1>1 DEF RuntimeOf
<1>2. CASE ToldOfTask(t) # {}
  <2>1. documents[Last(ToldOfTask(t))] \in TaskNotes
    BY <1>2, ToldIs DEF ToldOfTask
  <2>2. documents[Last(ToldOfTask(t))].runtime \in Runtimes
    BY <2>1 DEF TaskNotes
  <2>3. QED
    BY <1>2, <2>2, SnapshotConstants DEF RuntimeOf
<1>3. QED
  BY <1>1, <1>2

LEMMA OverlayIs ==
  ASSUME WorldTyped, FetchedTyped
  PROVE  /\ OverlayRuns \subseteq DOMAIN runRows /\ OverlayRuns \subseteq RunIds
         /\ DOMAIN runRows \in SUBSET Nat /\ IsFiniteSet(OverlayRuns)
         /\ \A r \in DOMAIN runRows : runRows[r] \in RunStates
         /\ ~TooMany(DOMAIN runRows) => OverlayRuns = DOMAIN runRows
<1>1. DOMAIN runRows \subseteq RunIds /\ runRows \in [DOMAIN runRows -> RunStates]
  BY PartialFunctionIs DEF FetchedTyped
<1>2. DOMAIN runRows \in SUBSET Nat
  BY <1>1, SnapshotConstants
<1>3. limit \in Limits /\ limit \in Nat
  BY LimitIsNat DEF WorldTyped
<1>4. OverlayRuns \subseteq DOMAIN runRows /\ IsFiniteSet(OverlayRuns)
  BY <1>2, <1>3, FirstOfBound DEF OverlayRuns
<1>5. ~TooMany(DOMAIN runRows) => OverlayRuns = DOMAIN runRows
  BY <1>2, <1>3, ShownIsAll DEF OverlayRuns, FetchedTyped
<1>6. QED
  BY <1>1, <1>2, <1>4, <1>5

LEMMA MergedIs ==
  ASSUME WorldTyped, DocumentsTyped, FetchedTyped, NEW r \in MergedIds
  PROVE  Merged(r) \in ShownRun
<1>1. CASE r \in OverlayRuns
  <2>1. runRows[r] \in RunStates
    BY <1>1, OverlayIs
  <2>2. QED
    BY <1>1, <2>1 DEF Merged, ShownRun
<1>2. CASE r \notin OverlayRuns
  <2>1. Told(r) # {}
    BY <1>2 DEF MergedIds
  <2>2. documents[Last(Told(r))] \in RunNotes
    BY <2>1, ToldIs DEF Told
  <2>3. documents[Last(Told(r))].state \in RunStates
    BY <2>2 DEF RunNotes
  <2>4. QED
    BY <1>2, <2>3 DEF Merged, ShownRun
<1>3. QED
  BY <1>1, <1>2

(* There are no more runs with notes than notes.                           *)
LEMMA MergedFinite ==
  ASSUME WorldTyped, DocumentsTyped, FetchedTyped
  PROVE  IsFiniteSet(MergedIds) /\ MergedIds \in SUBSET RunIds /\ MergedIds \in SUBSET Nat
<1> DEFINE T == {r \in RunIds : Told(r) # {}}
           P == {p \in DOMAIN documents : documents[p] \in RunNotes}
           run == [p \in P |-> documents[p].run]
<1>1. IsFiniteSet(P)
  <2>1. P \in SUBSET DOMAIN documents
    OBVIOUS
  <2>2. QED
    BY <2>1, FS_Subset DEF DocumentsTyped
<1>2. run \in Surjection(P, T)
  <2>1. \A p \in P : documents[p].run \in T
    BY DEF Told, RunNotes
  <2>2. \A r \in T : \E p \in P : documents[p].run = r
    BY DEF Told
  <2>3. run \in [P -> T] /\ \A r \in T : \E p \in P : run[p] = r
    BY <2>1, <2>2
  <2> HIDE DEF run, P, T
  <2>4. QED
    BY <2>3 DEF Surjection
<1>3. IsFiniteSet(T)
  <2> HIDE DEF run, P, T
  <2>1. QED
    BY <1>1, <1>2, FS_Surjection
<1>4. IsFiniteSet(T \cup OverlayRuns) /\ MergedIds = T \cup OverlayRuns
  <2>1. MergedIds = T \cup OverlayRuns
    BY DEF MergedIds
  <2> HIDE DEF T
  <2>2. QED
    BY <1>3, <2>1, OverlayIs, FS_Union
<1>5. MergedIds \in SUBSET RunIds
  BY OverlayIs DEF MergedIds
<1>6. QED
  BY <1>4, <1>5, SnapshotConstants

Picked(pick) ==
  \A t \in TaskIds : IF CommandsOf(t) = {} THEN pick[t] = NoRow ELSE pick[t] \in CommandsOf(t)

(* What Assemble makes of what was read, part by part                      *)
LEMMA Assembled ==
  ASSUME Assemble
  PROVE  /\ \E pick \in [TaskIds -> CommandIds \cup {NoRow}] :
              /\ Picked(pick)
              /\ snapshot'.tasks = [p \in TaskPaths |->
                    [task |-> documents[p].task, runtime |-> RuntimeOf(documents[p].task),
                     queued |-> pick[documents[p].task]]]
         /\ snapshot'.queue = [c \in ShownQueue |-> RuntimeOf(TaskOf[c])]
         /\ snapshot'.runs = [r \in FirstOf(MergedIds, limit) |-> Merged(r)]
         /\ snapshot'.truncated = Truncated
         /\ snapshot'.degraded = (warnings # {})
         /\ snapshot'.zonesRead = ~ZoneWarned
<1>1. (\A w \in warnings : w[1] # "zone") = ~ZoneWarned
  BY DEF ZoneWarned
<1>2. PICK pick \in [TaskIds -> CommandIds \cup {NoRow}] :
        /\ Picked(pick)
        /\ snapshot' =
             [queue |-> [c \in ShownQueue |-> RuntimeOf(TaskOf[c])],
              tasks |-> [p \in TaskPaths |->
                          [task |-> documents[p].task, runtime |-> RuntimeOf(documents[p].task),
                           queued |-> pick[documents[p].task]]],
              runs |-> [r \in FirstOf(MergedIds, limit) |-> Merged(r)],
              truncated |-> Truncated,
              degraded |-> warnings # {},
              zonesRead |-> \A w \in warnings : w[1] # "zone"]
  BY Zenon DEF Assemble, Picked
<1>3. /\ snapshot'.queue = [c \in ShownQueue |-> RuntimeOf(TaskOf[c])]
      /\ snapshot'.runs = [r \in FirstOf(MergedIds, limit) |-> Merged(r)]
  BY <1>2, Zenon
<1>4. snapshot'.tasks = [p \in TaskPaths |->
        [task |-> documents[p].task, runtime |-> RuntimeOf(documents[p].task),
         queued |-> pick[documents[p].task]]]
  BY <1>2, Zenon
<1>5. /\ snapshot'.truncated = Truncated
      /\ snapshot'.degraded = (warnings # {})
      /\ snapshot'.zonesRead = ~ZoneWarned
  BY <1>1, <1>2, Zenon
<1>6. QED
  BY <1>2, <1>3, <1>4, <1>5, Zenon

LEMMA AnswerTyped ==
  ASSUME Typed, Assemble
  PROVE  SnapshotTyped'
<1>1. limit' = limit /\ limit \in Limits /\ limit \in Nat
  BY LimitIsNat DEF Assemble, world, Typed, WorldTyped
<1>2. \A S : Cardinality(S) > limit' <=> TooMany(S)
  BY <1>1 DEF TooMany
<1>3. /\ snapshot'.queue \in PartialFunctions(CommandIds, Runtimes \cup {NoRow})
      /\ ~TooMany(DOMAIN snapshot'.queue)
  <2>1. queueRows \in SUBSET Nat
    BY SnapshotConstants DEF Typed, FetchedTyped
  <2>2. ShownQueue \in SUBSET CommandIds /\ ~TooMany(ShownQueue)
    BY <1>1, <2>1, ShownBound DEF ShownQueue, Typed, FetchedTyped
  <2>3. \A c \in ShownQueue : RuntimeOf(TaskOf[c]) \in Runtimes \cup {NoRow}
    BY RuntimeIs DEF Typed
  <2>4. snapshot'.queue \in [ShownQueue -> Runtimes \cup {NoRow}]
    BY <2>3, Assembled
  <2>5. QED
    BY <2>2, <2>4, IsPartialFunction
<1>4. /\ snapshot'.tasks \in PartialFunctions(Paths, ShownTask)
      /\ ~TooMany(DOMAIN snapshot'.tasks)
  <2>1. PICK pick \in [TaskIds -> CommandIds \cup {NoRow}] :
          snapshot'.tasks = [p \in TaskPaths |->
                    [task |-> documents[p].task, runtime |-> RuntimeOf(documents[p].task),
                     queued |-> pick[documents[p].task]]]
    BY Assembled
  <2>2. TaskPaths \in SUBSET DOMAIN documents /\ TaskPaths \in SUBSET Paths
    BY DocumentIs DEF TaskPaths, Typed
  <2>3. ASSUME NEW p \in TaskPaths
        PROVE  [task |-> documents[p].task, runtime |-> RuntimeOf(documents[p].task),
                queued |-> pick[documents[p].task]] \in ShownTask
    <3>1. documents[p].task \in TaskIds
      BY DEF TaskPaths, TaskNotes
    <3>2. ToldOfTask(documents[p].task) # {}
      BY DEF TaskPaths, ToldOfTask
    <3>3. Last(ToldOfTask(documents[p].task)) \in ToldOfTask(documents[p].task)
      BY <3>2, ToldIs DEF Typed
    <3>4. RuntimeOf(documents[p].task) \in Runtimes
      <4> DEFINE q == Last(ToldOfTask(documents[p].task))
      <4>1. documents[q] \in TaskNotes
        BY <3>3 DEF ToldOfTask
      <4>2. documents[q].runtime \in Runtimes
        BY <4>1 DEF TaskNotes
      <4>3. QED
        BY <3>2, <4>2 DEF RuntimeOf
    <3>5. QED
      BY <3>1, <3>4 DEF ShownTask
  <2>4. snapshot'.tasks \in [TaskPaths -> ShownTask]
    BY <2>1, <2>3
  <2>5. ~TooMany(TaskPaths)
    <3>1. /\ IsFiniteSet(TaskPaths) /\ Cardinality(TaskPaths) <= Cardinality(DOMAIN documents)
          /\ Cardinality(DOMAIN documents) <= limit /\ IsFiniteSet(DOMAIN documents)
      BY <2>2, FS_Subset DEF Typed, DocumentsTyped
    <3>2. Cardinality(TaskPaths) \in Nat /\ Cardinality(DOMAIN documents) \in Nat
      BY <3>1, FS_CardinalityType
    <3>3. QED
      BY <1>1, <3>1, <3>2 DEF TooMany
  <2>6. QED
    BY <2>2, <2>4, <2>5, IsPartialFunction
<1>5. /\ snapshot'.runs \in PartialFunctions(RunIds, ShownRun)
      /\ ~TooMany(DOMAIN snapshot'.runs)
  <2>1. MergedIds \in SUBSET RunIds /\ MergedIds \in SUBSET Nat
    BY MergedFinite DEF Typed
  <2>2. FirstOf(MergedIds, limit) \subseteq MergedIds /\ ~TooMany(FirstOf(MergedIds, limit))
    BY <1>1, <2>1, ShownBound
  <2>3. \A r \in FirstOf(MergedIds, limit) : Merged(r) \in ShownRun
    BY <2>2, MergedIs DEF Typed
  <2>4. snapshot'.runs \in [FirstOf(MergedIds, limit) -> ShownRun]
    BY <2>3, Assembled
  <2>5. FirstOf(MergedIds, limit) \in SUBSET RunIds
    BY <2>1, <2>2
  <2>6. QED
    BY <2>2, <2>4, <2>5, IsPartialFunction
<1>6. QED
  BY <1>2, <1>3, <1>4, <1>5 DEF SnapshotTyped, TooMany

(* A note that was there all the time has been read when the answer is put *)
(* together, or the answer tells.                                          *)
LEMMA SteadyIsKnown ==
  ASSUME NotesInv, Assemble, ~Truncated, ~ZoneWarned, NEW p \in steadyNotes
  PROVE  notes[p] \in Notes /\ Known(p)
BY DEF NotesInv, Assemble, Reading, NotYetWalked, Listed, Truncated

(* Without a limit in the way every run that was told of is shown.         *)
LEMMA MergedShown ==
  ASSUME Typed, ~Truncated
  PROVE  FirstOf(MergedIds, limit) = MergedIds
BY MergedFinite, ShownIsAll DEF Typed, WorldTyped, Truncated

LEMMA DurableAssembled ==
  ASSUME Typed, NotesInv, Assemble
  PROVE  DurableShown'
<1> SUFFICES ASSUME ~Truncated, ~ZoneWarned, NEW p \in steadyNotes
             PROVE  IF notes[p] \in RunNotes THEN notes[p].run \in DOMAIN snapshot'.runs
                                            ELSE p \in DOMAIN snapshot'.tasks
  BY Assembled DEF DurableShown, Answered, Assemble, world, history
<1>1. notes[p] \in Notes /\ p \in DOMAIN documents /\ SameResource(documents[p], notes[p])
  BY SteadyIsKnown DEF Known
<1>2. CASE notes[p] \in RunNotes
  <2>1. documents[p] \in RunNotes /\ documents[p].run = notes[p].run /\ notes[p].run \in RunIds
    BY <1>1, <1>2, NoteKinds DEF SameResource, RunNotes
  <2>2. notes[p].run \in MergedIds
    BY <1>1, <2>1 DEF MergedIds, Told
  <2>3. DOMAIN snapshot'.runs = MergedIds
    BY Assembled, MergedShown
  <2>4. QED
    BY <1>2, <2>2, <2>3
<1>3. CASE notes[p] \notin RunNotes
  <2>1. documents[p] \in TaskNotes
    BY <1>1, <1>3 DEF SameResource
  <2>2. p \in TaskPaths
    BY <1>1, <2>1 DEF TaskPaths
  <2>3. DOMAIN snapshot'.tasks = TaskPaths
    BY Assembled
  <2>4. QED
    BY <1>3, <2>2, <2>3
<1>4. QED
  BY <1>2, <1>3

(* The row that was there all along is among those that are shown.         *)
LEMMA SteadyRowShown ==
  ASSUME Typed, RowsInv, Assemble, ~Truncated, warnings = {}, NoRow \notin held
  PROVE  watched \in OverlayRuns /\ watched \in FirstOf(MergedIds, limit)
<1>1. watched \in DOMAIN runRows
  BY DEF RowsInv, Assemble, Truncated
<1>2. watched \in OverlayRuns
  BY <1>1, OverlayIs DEF Typed, Truncated
<1>3. QED
  BY <1>2, MergedShown DEF MergedIds

LEMMA NothingHiddenAssembled ==
  ASSUME Typed, QueueInv, RowsInv, Assemble
  PROVE  NothingHidden'
<1> SUFFICES ASSUME ~Truncated, warnings = {}
             PROVE  /\ steadyQueued \subseteq DOMAIN snapshot'.queue
                    /\ NoRow \notin held => watched \in DOMAIN snapshot'.runs
  BY Assembled DEF NothingHidden, Complete, Answered, Assemble, history
<1>1. steadyQueued \subseteq queueRows
  BY DEF QueueInv, Assemble, Truncated
<1>2. ShownQueue = queueRows
  <2>1. queueRows \in SUBSET Nat /\ limit \in Limits /\ IsFiniteSet(queueRows)
    BY SnapshotConstants DEF Typed, FetchedTyped, WorldTyped
  <2>2. QED
    BY <2>1, ShownIsAll DEF ShownQueue, Truncated
<1>3. QED
  BY <1>1, <1>2, Assembled, SteadyRowShown

LEMMA LiveAssembled ==
  ASSUME Typed, RowsInv, Assemble
  PROVE  LiveStateIsLive'
<1>1. ASSUME watched \in DOMAIN snapshot'.runs, snapshot'.runs[watched].source = "sqlite-overlay"
      PROVE  snapshot'.runs[watched].state \in held
  <2>1. watched \in FirstOf(MergedIds, limit) /\ snapshot'.runs[watched] = Merged(watched)
    BY <1>1, Assembled
  <2>2. watched \in OverlayRuns
    BY <1>1, <2>1 DEF Merged
  <2>3. watched \in DOMAIN runRows
    BY <2>2, OverlayIs DEF Typed
  <2>4. runRows[watched] \in held
    BY <2>3 DEF RowsInv, Assemble
  <2>5. QED
    BY <2>1, <2>2, <2>4 DEF Merged
<1>2. ASSUME ~Truncated, warnings = {}, NoRow \notin held
      PROVE  snapshot'.runs[watched].source = "sqlite-overlay"
  <2>1. watched \in OverlayRuns /\ watched \in FirstOf(MergedIds, limit)
    BY <1>2, SteadyRowShown
  <2>2. QED
    BY <2>1, Assembled DEF Merged
<1>3. watched' = watched /\ held' = held
  BY DEF Assemble, history
<1>4. QED
  BY <1>1, <1>2, <1>3, Assembled DEF LiveStateIsLive, Complete, Answered

LEMMA JoinsAssembled ==
  ASSUME Typed, NotesInv, Assemble
  PROVE  TasksAgreeWithQueue'
<1>1. PICK pick \in [TaskIds -> CommandIds \cup {NoRow}] :
        /\ Picked(pick)
        /\ snapshot'.tasks = [p \in TaskPaths |->
              [task |-> documents[p].task, runtime |-> RuntimeOf(documents[p].task),
               queued |-> pick[documents[p].task]]]
  BY Assembled
<1>2. snapshot'.queue = [c \in ShownQueue |-> RuntimeOf(TaskOf[c])]
  BY Assembled
<1>3. ASSUME NEW p \in DOMAIN snapshot'.tasks
      PROVE  LET shown == snapshot'.tasks[p]
                 commands == {c \in DOMAIN snapshot'.queue : TaskOf[c] = shown.task}
             IN  /\ IF commands = {} THEN shown.queued = NoRow ELSE shown.queued \in commands
                 /\ \A c \in commands : snapshot'.queue[c] = shown.runtime
  <2> DEFINE t == documents[p].task
  <2>1. p \in TaskPaths /\ t \in TaskIds
    BY <1>1 DEF TaskPaths, TaskNotes
  <2>2. /\ snapshot'.tasks[p].task = t /\ snapshot'.tasks[p].runtime = RuntimeOf(t)
        /\ snapshot'.tasks[p].queued = pick[t]
    BY <1>1, <2>1
  <2>3. {c \in DOMAIN snapshot'.queue : TaskOf[c] = snapshot'.tasks[p].task} = CommandsOf(t)
    BY <1>2, <2>2 DEF CommandsOf
  <2>4. IF CommandsOf(t) = {} THEN pick[t] = NoRow ELSE pick[t] \in CommandsOf(t)
    BY <1>1, <2>1 DEF Picked
  <2>5. \A c \in CommandsOf(t) : snapshot'.queue[c] = RuntimeOf(t)
    BY <1>2 DEF CommandsOf
  <2>6. QED
    BY <2>2, <2>3, <2>4, <2>5
<1>4. ASSUME ~Truncated, warnings = {}, NEW c \in DOMAIN snapshot'.queue, NEW p \in steadyNotes,
             notes[p] \in TaskNotes, notes[p].task = TaskOf[c]
      PROVE  snapshot'.queue[c] # NoRow
  <2>1. p \in DOMAIN documents /\ SameResource(documents[p], notes[p])
    BY <1>4, SteadyIsKnown DEF Known, ZoneWarned
  <2>2. documents[p] \in TaskNotes /\ documents[p].task = TaskOf[c]
    BY <1>4, <2>1, NoteKinds DEF SameResource
  <2>3. ToldOfTask(TaskOf[c]) # {}
    BY <2>1, <2>2 DEF ToldOfTask
  <2>4. QED
    BY <1>2, <2>3, RuntimeIs DEF Typed
<1>5. notes' = notes /\ steadyNotes' = steadyNotes
  BY DEF Assemble, world, history
<1>6. QED
  BY <1>3, <1>4, <1>5, Assembled DEF TasksAgreeWithQueue, Complete, Answered

-----------------------------------------------------------------------------
(* The theorems                                                            *)

Promises ==
  SnapshotTyped /\ DurableShown /\ NothingHidden /\ LiveStateIsLive /\ TasksAgreeWithQueue

RequestInv == Typed /\ NotesInv /\ QueueInv /\ RowsInv /\ NoAnswerYet /\ Promises

(* An answer that is there is given as it is: nothing moves before it is   *)
(* delivered.                                                              *)
LEMMA AnswerStands ==
  ASSUME NoAnswerYet, [Next]_vars, ~Assemble
  PROVE  snapshot' = NoSnapshot \/ UNCHANGED vars
<1>1. CASE step # "answered"
  <2>1. snapshot = NoSnapshot
    BY <1>1 DEF NoAnswerYet
  <2>2. snapshot' = snapshot
    BY <1>1 DEF Next, ReaderStep, Elsewhere, NoteWritten, RowWritten, QueueChanges, Begin,
         WalkZone, WalkZoneInPart, WalkCut, NotesDone, ReadNote, Connect, SelectQueue,
         SelectRuns, SelectRest, StoreFails, Deliver, Refuse, vars, reader
  <2>3. QED
    BY <2>1, <2>2
<1>2. CASE step = "answered"
  BY <1>2 DEF Next, ReaderStep, Elsewhere, NoteWritten, RowWritten, QueueChanges, Begin,
       WalkZone, WalkZoneInPart, WalkCut, NotesDone, ReadNote, Connect, SelectQueue,
       SelectRuns, SelectRest, StoreFails, Deliver, Refuse
<1>3. QED
  BY <1>1, <1>2

LEMMA NoAnswerNoPromise == snapshot = NoSnapshot => Promises
BY DEF Promises, SnapshotTyped, DurableShown, NothingHidden, LiveStateIsLive,
       TasksAgreeWithQueue, Complete, Answered

LEMMA RequestInvHolds == Spec => []RequestInv
<1>1. Init => RequestInv
  <2> SUFFICES ASSUME Init
               PROVE  RequestInv
    OBVIOUS
  <2>1. Typed
    BY NothingTyped DEF Init, Typed, WorldTyped, WalkTyped, DocumentsTyped, FetchedTyped
  <2>2. NotesInv /\ QueueInv /\ RowsInv /\ NoAnswerYet
    BY DEF Init, NotesInv, QueueInv, RowsInv, NoAnswerYet, Reading
  <2>3. QED
    BY <2>1, <2>2, NoAnswerNoPromise DEF Init, RequestInv, Promises
<1>2. RequestInv /\ [Next]_vars => RequestInv'
  <2> SUFFICES ASSUME RequestInv, [Next]_vars
               PROVE  RequestInv'
    OBVIOUS
  <2>1. (Typed /\ NotesInv /\ QueueInv /\ RowsInv /\ NoAnswerYet)'
    BY TypedStep, NotesInvStep, QueueInvStep, RowsInvStep, NoAnswerYetStep DEF RequestInv
  <2>2. Promises'
    <3>1. CASE Assemble
      BY <3>1, AnswerTyped, DurableAssembled, NothingHiddenAssembled, LiveAssembled, JoinsAssembled
      DEF RequestInv, Promises
    <3>2. CASE snapshot' = NoSnapshot
      BY <3>2 DEF Promises, SnapshotTyped, DurableShown, NothingHidden, LiveStateIsLive,
           TasksAgreeWithQueue, Complete, Answered
    <3>3. CASE UNCHANGED vars
      BY <3>3 DEF RequestInv, Promises, SnapshotTyped, DurableShown, NothingHidden,
           LiveStateIsLive, TasksAgreeWithQueue, Complete, Answered, TooMany, vars, world, reader,
           history
    <3>4. QED
      BY <3>1, <3>2, <3>3, AnswerStands DEF RequestInv
  <2>3. QED
    BY <2>1, <2>2 DEF RequestInv, Promises
<1>3. QED
  BY <1>1, <1>2, PTL DEF Spec

(* Whatever is written while the request reads, what it collects and what  *)
(* it answers is of its types and within its limits.                       *)
THEOREM TypeCorrect == Spec => []TypeOK
<1>1. RequestInv => TypeOK
  <2> SUFFICES ASSUME RequestInv
               PROVE  TypeOK
    OBVIOUS
  <2>1. Cardinality(DOMAIN documents) \in Nat /\ limit \in Nat
    BY LimitIsNat, FS_CardinalityType DEF RequestInv, Typed, DocumentsTyped, WorldTyped
  <2>2. ~TooMany(DOMAIN documents)
    BY <2>1 DEF RequestInv, Typed, DocumentsTyped, TooMany
  <2>3. QED
    BY <2>2 DEF RequestInv, Typed, WorldTyped, WalkTyped, DocumentsTyped, FetchedTyped,
         Promises, SnapshotTyped, TypeOK
<1>2. QED
  BY <1>1, RequestInvHolds, PTL

(* No note that was readable all the time is lost to a broken note, to a   *)
(* store that is away or to what is moved meanwhile.                       *)
THEOREM NotesAreShown == Spec => []DurableShown
<1>1. RequestInv => DurableShown
  BY DEF RequestInv, Promises
<1>2. QED
  BY <1>1, RequestInvHolds, PTL

(* What an answer leaves out, it tells.                                    *)
THEOREM AnswersHideNothing == Spec => []NothingHidden
<1>1. RequestInv => NothingHidden
  BY DEF RequestInv, Promises
<1>2. QED
  BY <1>1, RequestInvHolds, PTL

(* What is shown as live was so while the request was under way.           *)
THEOREM LiveIsRecent == Spec => []LiveStateIsLive
<1>1. RequestInv => LiveStateIsLive
  BY DEF RequestInv, Promises
<1>2. QED
  BY <1>1, RequestInvHolds, PTL

(* Tasks and queue of an answer agree, however many copies a task has.     *)
THEOREM JoinsAgree == Spec => []TasksAgreeWithQueue
<1>1. RequestInv => TasksAgreeWithQueue
  BY DEF RequestInv, Promises
<1>2. QED
  BY <1>1, RequestInvHolds, PTL
=============================================================================
