-------------------------- MODULE CommandLineProofs --------------------------
(* Theorems about DeploymentConfig, ResourceRules and CommandLine, for any  *)
(* configurations and links, any paths and grants, any notes, edits and     *)
(* approvals.                                                               *)
EXTENDS CommandLine, TLAPS, SequenceTheorems, WellFoundedInduction

(* Two places that hold a third lie one in the other.                      *)
LEMMA AncestorsAreNested ==
  ASSUME NEW S, NEW place \in Seq(S), NEW a \in Seq(S), NEW b \in Seq(S),
         Within(place, a), Within(place, b)
  PROVE  Within(a, b) \/ Within(b, a)
<1>1. CASE Len(a) <= Len(b)
  BY <1>1 DEF Within
<1>2. CASE Len(b) <= Len(a)
  BY <1>2 DEF Within
<1>3. QED
  BY <1>1, <1>2

(* Once a configuration is accepted, and as long as its links stay, no     *)
(* place is in two zones, and the database is in none, however the paths   *)
(* are written: what load_config compares pair by pair is enough for all   *)
(* that is below.                                                          *)
THEOREM ZonesApart ==
  ASSUME NEW c, NEW l, VaultAccepted(c, l),
         NEW S, \A z \in Roots : l[c[z]] \in Seq(S),
         NEW place \in Seq(S), NEW y \in Roots, NEW z \in Roots,
         Within(place, l[c[y]]), Within(place, l[c[z]])
  PROVE  y = z /\ place # l[c.database_path]
<1>1. y # z => ~Within(l[c[y]], l[c[z]]) /\ ~Within(l[c[z]], l[c[y]])
  BY DEF VaultAccepted
<1>2. y = z
  BY <1>1, AncestorsAreNested
<1>3. place # l[c.database_path]
  BY DEF VaultAccepted
<1>4. QED
  BY <1>2, <1>3

-----------------------------------------------------------------------------
(* The process                                                             *)

USE CommandLineConstants

Working == {"looking", "opening", "open", "scanning", "serving"}

(* A process past load_config knows its configuration, and a database that *)
(* is open is one that is there.                                           *)
KnowsItsPlace ==
  /\ step \in Working => loaded \in Configs
  /\ step \in {"looking", "opening"} => command \in DatabaseCommands
  /\ opened # None => stores[opened] # None

LEMMA LoadSteps ==
  ASSUME LoadConfig
  PROVE  /\ UNCHANGED <<config, layout, stores, review>>
         /\ \/ /\ Accepted(config, layout) /\ loaded' = config /\ steady' = TRUE
               /\ command' = command /\ exit' = exit /\ opened' = opened
               /\ \/ step' = "looking" /\ command \in DatabaseCommands
                  \/ step' \in {"scanning", "serving"}
            \/ Finish(2) /\ steady' = steady
<1>1. CASE Accepted(config, layout) /\ (command \in DatabaseCommands \/ ValidatesOnly(config))
  <2>1. CASE command \in DatabaseCommands
    <3>1. command \notin Scans
      BY <2>1 DEF DatabaseCommands, Scans
    <3>2. QED
      BY <1>1, <2>1, <3>1 DEF LoadConfig, GoTo
  <2>2. CASE command \in Scans
    <3>1. command \notin DatabaseCommands
      BY <2>2 DEF DatabaseCommands, Scans
    <3>2. QED
      BY <1>1, <2>2, <3>1 DEF LoadConfig, GoTo
  <2>3. CASE command \notin DatabaseCommands /\ command \notin Scans
    BY <1>1, <2>3 DEF LoadConfig, GoTo
  <2>4. QED
    BY <2>1, <2>2, <2>3
<1>2. CASE ~(Accepted(config, layout) /\ (command \in DatabaseCommands \/ ValidatesOnly(config)))
  BY <1>2 DEF LoadConfig
<1>3. QED
  BY <1>1, <1>2

(* What a process can do once its configuration is loaded                  *)
LEMMA PlaceType ==
  ASSUME TypeOK, loaded \in Configs
  PROVE  Place \in Locations
BY DEF TypeOK, Place

TypeInv == TypeOK /\ KnowsItsPlace

StoresTyped == stores \in [Locations -> {None} \cup 0 .. Latest]

(* A step that leaves what a user sees of the process alone                *)
LEMMA TypedApart ==
  ASSUME TypeInv, UNCHANGED <<steady, command, step, loaded, opened, exit>>,
         config' \in Configs, layout' \in Layouts, StoresTyped',
         opened # None => stores'[opened] # None
  PROVE  TypeInv'
<1>1. /\ command' \in Commands \cup {None} /\ step' \in Steps
      /\ loaded' \in Configs \cup {None} /\ opened' \in Locations \cup {None}
      /\ exit' \in {None, 0, 2, 130} /\ steady' \in BOOLEAN
  BY ZenonT(30) DEF TypeInv, TypeOK
<1>2. TypeOK'
  BY <1>1 DEF TypeOK, StoresTyped
<1>3. KnowsItsPlace'
  BY ZenonT(30) DEF TypeInv, KnowsItsPlace
<1>4. QED
  BY <1>2, <1>3 DEF TypeInv

LEMMA TypeInvInductive ==
  ASSUME TypeInv, [Next]_vars
  PROVE  TypeInv'
<1> USE DEF Steps, Working
<1>1. ASSUME NEW status \in {0, 2, 130}, Finish(status),
             UNCHANGED <<config, layout, stores, steady>>
      PROVE  TypeInv'
  BY <1>1 DEF Finish, TypeInv, TypeOK, KnowsItsPlace
<1>2. ASSUME NEW c \in Commands, Start(c)
      PROVE  TypeInv'
  BY <1>2 DEF Start, TypeInv, TypeOK, KnowsItsPlace
<1>3. CASE ValidateResource
  BY <1>1, <1>3 DEF ValidateResource
<1>4. CASE LoadConfig
  <2>1. CASE Finish(2) /\ steady' = steady
    BY <1>1, <1>4, <2>1, LoadSteps
  <2>2. CASE ~(Finish(2) /\ steady' = steady)
    <3>1. /\ UNCHANGED <<config, layout, stores>>
          /\ loaded' = config /\ steady' = TRUE
          /\ command' = command /\ exit' = exit /\ opened' = opened
          /\ \/ step' = "looking" /\ command \in DatabaseCommands
             \/ step' \in {"scanning", "serving"}
      BY <1>4, <2>2, LoadSteps
    <3>2. step' \in Steps /\ (step' \in {"looking", "opening"} => command' \in DatabaseCommands)
      BY <3>1
    <3>3. TypeOK'
      BY <3>1, <3>2, ZenonT(30) DEF TypeInv, TypeOK
    <3>4. KnowsItsPlace'
      BY <3>1, <3>2, <3>3, ZenonT(30) DEF TypeInv, TypeOK, KnowsItsPlace
    <3>5. QED
      BY <3>3, <3>4 DEF TypeInv
  <2>3. QED
    BY <2>1, <2>2
<1>5. CASE LookForDatabase
  <2>1. CASE command = "db status" /\ stores[Place] = None
    BY <1>1, <1>5, <2>1 DEF LookForDatabase
  <2>2. CASE ~(command = "db status" /\ stores[Place] = None)
    <3>1. /\ UNCHANGED <<config, layout, stores, steady, loaded, opened, command, exit>>
          /\ step = "looking" /\ step' = "opening"
      BY <1>5, <2>2 DEF LookForDatabase, GoTo
    <3>2. step' \in Steps
      BY <3>1
    <3>3. TypeOK'
      BY <3>1, <3>2, ZenonT(30) DEF TypeInv, TypeOK
    <3>4. KnowsItsPlace'
      BY <3>1 DEF TypeInv, KnowsItsPlace
    <3>5. QED
      BY <3>3, <3>4 DEF TypeInv
  <2>3. QED
    BY <2>1, <2>2
<1>6. CASE OpenDatabase
  <2>1. Place \in Locations
    BY <1>6, PlaceType DEF OpenDatabase, TypeInv, KnowsItsPlace
  <2>2. 0 \in 0 .. Latest /\ stores \in [Locations -> {None} \cup 0 .. Latest]
    BY DEF TypeInv, TypeOK
  <2>3. stores' \in [Locations -> {None} \cup 0 .. Latest] /\ stores'[Place] # None
    BY <1>6, <2>1, <2>2 DEF OpenDatabase
  <2>4. /\ opened' = Place /\ step' = "open"
        /\ UNCHANGED <<config, layout, steady, loaded, command, exit>>
    BY <1>6 DEF OpenDatabase, GoTo
  <2>5. QED
    BY <1>6, <2>1, <2>3, <2>4 DEF OpenDatabase, TypeInv, TypeOK, KnowsItsPlace
<1>7. CASE Migrate
  <2>1. opened \in Locations /\ stores[opened] \in 0 .. Latest
    <3>1. opened \in Locations
      BY <1>7, Zenon DEF Migrate, TypeInv, TypeOK
    <3>2. stores[opened] # None
      BY <1>7, Zenon DEF Migrate, TypeInv, KnowsItsPlace
    <3>3. QED
      BY <3>1, <3>2 DEF TypeInv, TypeOK
  <2>2. stores[opened] + 1 \in 0 .. Latest /\ stores[opened] + 1 # None
    <3>1. stores[opened] < Latest
      BY <1>7 DEF Migrate
    <3>2. QED
      BY <2>1, <3>1
  <2>3. stores' \in [Locations -> {None} \cup 0 .. Latest] /\ stores'[opened] # None
    <3>1. stores \in [Locations -> {None} \cup 0 .. Latest]
      BY DEF TypeInv, TypeOK
    <3>2. stores' = [stores EXCEPT ![opened] = stores[opened] + 1]
      BY <1>7 DEF Migrate
    <3>3. QED
      BY <2>1, <2>2, <3>1, <3>2
  <2>4. /\ UNCHANGED <<config, layout, steady, command, step, loaded, opened, exit>>
        /\ config \in Configs /\ layout \in Layouts
    BY <1>7 DEF Migrate, process, TypeInv, TypeOK
  <2>5. QED
    BY <2>3, <2>4, TypedApart DEF StoresTyped
<1>8. CASE CloseDatabase \/ Fail \/ Interrupt
  BY <1>1, <1>8 DEF CloseDatabase, Fail, Interrupt
<1>9. CASE SafeScan
  <2>1. CASE command = "bridge run"
    <3>1. UNCHANGED <<config, layout, stores, steady, command, step, loaded, opened, exit>>
      BY <1>9, <2>1 DEF SafeScan, process
    <3>2. config \in Configs /\ layout \in Layouts /\ StoresTyped
      BY DEF TypeInv, TypeOK, StoresTyped
    <3>3. opened # None => stores[opened] # None
      BY DEF TypeInv, KnowsItsPlace
    <3>4. QED
      BY <3>1, <3>2, <3>3, TypedApart DEF StoresTyped
  <2>2. CASE command # "bridge run"
    BY <1>1, <1>9, <2>2 DEF SafeScan
  <2>3. QED
    BY <2>1, <2>2
<1>10. CASE \E l \in Locations : RemoveDatabase(l)
  <2>1. PICK l \in Locations : RemoveDatabase(l)
    BY <1>10
  <2>2. /\ UNCHANGED <<config, layout, command, step, loaded, exit>> /\ steady' = FALSE
        /\ stores' = [stores EXCEPT ![l] = None]
        /\ opened' = IF opened = l THEN None ELSE opened
    BY <2>1 DEF RemoveDatabase
  <2>3. stores' \in [Locations -> {None} \cup 0 .. Latest]
    <3>1. stores \in [Locations -> {None} \cup 0 .. Latest]
      BY DEF TypeInv, TypeOK
    <3>2. QED
      BY <2>2, <3>1
  <2>4. opened' \in Locations \cup {None} /\ (opened' # None => stores'[opened'] # None)
    <3>1. CASE opened = l
      BY <2>2, <3>1
    <3>2. CASE opened # l
      <4>1. opened' = opened
        BY <2>2, <3>2
      <4>2. opened \in Locations \cup {None} /\ (opened # None => stores[opened] # None)
        BY Zenon DEF TypeInv, TypeOK, KnowsItsPlace
      <4>3. opened # None => stores'[opened] = stores[opened]
        <5>1. stores \in [Locations -> {None} \cup 0 .. Latest]
          BY DEF TypeInv, TypeOK
        <5>2. QED
          BY <2>2, <3>2, <4>2, <5>1
      <4>4. QED
        BY <4>1, <4>2, <4>3
    <3>3. QED
      BY <3>1, <3>2
  <2>5. TypeOK'
    BY <2>2, <2>3, <2>4, ZenonT(30) DEF TypeInv, TypeOK
  <2>6. KnowsItsPlace'
    BY <2>2, <2>4, ZenonT(30) DEF TypeInv, KnowsItsPlace
  <2>7. QED
    BY <2>5, <2>6 DEF TypeInv
<1>11. CASE (\E c \in Configs : EditConfig(c)) \/ (\E l \in Layouts : Relink(l))
  <2>1. /\ UNCHANGED <<stores, command, step, loaded, opened, exit>>
        /\ config' \in Configs /\ layout' \in Layouts /\ steady' \in BOOLEAN
    <3>1. CASE \E c \in Configs : EditConfig(c)
      BY <3>1 DEF EditConfig, process, TypeInv, TypeOK
    <3>2. CASE \E l \in Layouts : Relink(l)
      BY <3>2 DEF Relink, process, TypeInv, TypeOK
    <3>3. QED
      BY <1>11, <3>1, <3>2
  <2>2. TypeOK'
    BY <2>1, ZenonT(30) DEF TypeInv, TypeOK
  <2>3. KnowsItsPlace'
    BY <2>1, ZenonT(30) DEF TypeInv, KnowsItsPlace
  <2>4. QED
    BY <2>2, <2>3 DEF TypeInv
<1>12. CASE UNCHANGED <<config, layout, stores, steady, process>>
  BY <1>12 DEF process, TypeInv, TypeOK, KnowsItsPlace
<1>13. QED
  BY <1>2, <1>3, <1>4, <1>5, <1>6, <1>7, <1>8, <1>9, <1>10, <1>11, <1>12
  DEF Next, Process, World, ReplaceNote, EditRoutine, Approve, vars

LEMMA TypeInvHolds == Spec => []TypeInv
<1>1. Init => TypeInv
  BY DEF Init, TypeInv, TypeOK, KnowsItsPlace, Steps, Working
<1>2. QED
  BY <1>1, TypeInvInductive, PTL DEF Spec

(* The configuration, the databases and the process keep their types.      *)
THEOREM TypeCorrect == Spec => []TypeOK
<1>1. TypeInv => TypeOK
  BY DEF TypeInv
<1>2. QED
  BY <1>1, TypeInvHolds, PTL

-----------------------------------------------------------------------------
(* Databases                                                               *)

(* What load_config and exists() found is still so when the database is    *)
(* opened, unless something went meanwhile.                                *)
StillSo ==
  /\ step \in {"looking", "opening"} /\ steady => VaultAccepted(loaded, layout)
  /\ step = "opening" /\ steady /\ command # "db migrate" => stores[Place] # None

LEMMA StillSoInductive ==
  ASSUME TypeInv, StillSo, [Next]_vars
  PROVE  StillSo'
<1>1. CASE step' \notin {"looking", "opening"}
  BY <1>1 DEF StillSo
<1>2. CASE LoadConfig
  <2>1. QED
    BY <1>2, LoadSteps DEF StillSo, Accepted, Finish
<1>3. CASE LookForDatabase
  <2>1. CASE command = "db status" /\ stores[Place] = None
    BY <1>1, <1>3, <2>1 DEF LookForDatabase, Finish
  <2>2. CASE ~(command = "db status" /\ stores[Place] = None)
    <3>1. command # "db migrate" => stores[Place] # None
      BY <1>3, <2>2 DEF LookForDatabase, TypeInv, KnowsItsPlace, DatabaseCommands
    <3>2. UNCHANGED <<layout, stores, steady, loaded, command>> /\ Place' = Place
      BY <1>3, <2>2 DEF LookForDatabase, GoTo, Place
    <3>3. QED
      <4>1. step = "looking"
        BY <1>3 DEF LookForDatabase
      <4>2. step' \in {"looking", "opening"} /\ steady' => VaultAccepted(loaded, layout)'
        BY <3>2, <4>1 DEF StillSo
      <4>3. step' = "opening" /\ steady' /\ command' # "db migrate" => stores'[Place'] # None
        BY <3>1, <3>2
      <4>4. QED
        BY <4>2, <4>3 DEF StillSo
  <2>3. QED
    BY <2>1, <2>2
<1>4. CASE (\E l \in Layouts : Relink(l)) \/ \E l \in Locations : RemoveDatabase(l)
  BY <1>4 DEF Relink, RemoveDatabase, StillSo
<1>5. CASE UNCHANGED <<layout, stores, steady, process>>
  BY <1>5 DEF process, StillSo, Place
<1>6. CASE \E c \in Commands : Start(c)
  BY <1>1, <1>6 DEF Start
<1>7. CASE ValidateResource \/ CloseDatabase \/ Fail \/ Interrupt
  BY <1>1, <1>7 DEF ValidateResource, CloseDatabase, Fail, Interrupt, Finish
<1>8. CASE OpenDatabase
  BY <1>1, <1>8 DEF OpenDatabase, GoTo
<1>9. CASE Migrate
  BY <1>1, <1>9 DEF Migrate, process
<1>10. CASE SafeScan
  BY <1>1, <1>10 DEF SafeScan, process, Finish
<1>11. QED
  BY <1>2, <1>3, <1>4, <1>5, <1>6, <1>7, <1>8, <1>9, <1>10
  DEF Next, Process, World, EditConfig, ReplaceNote, EditRoutine, Approve, vars

(* A database comes into being where db migrate was asked to put it and    *)
(* outside of every zone, or something went after the configuration was    *)
(* checked: neither db status nor a scan nor the server makes one.         *)
THEOREM StoresWhereAsked == Spec => StoresAppearWhereAsked
<1> DEFINE Appears ==
      \A l \in Locations : stores[l] = None /\ stores'[l] # None /\ steady =>
        /\ command = "db migrate"
        /\ \A z \in Roots : ~Within(l, layout[loaded[z]])
<1>1. Init => StillSo
  BY DEF Init, StillSo
<1>2. TypeInv /\ StillSo /\ [Next]_vars => Appears
  <2> SUFFICES ASSUME TypeInv, StillSo, [Next]_vars,
                      NEW l \in Locations, stores[l] = None, stores'[l] # None, steady
               PROVE  command = "db migrate" /\ \A z \in Roots : ~Within(l, layout[loaded[z]])
    OBVIOUS
  <2>1. ~Migrate
    <3> SUFFICES ASSUME Migrate PROVE FALSE
      OBVIOUS
    <3>1. opened # None /\ stores[opened] # None /\ stores \in [Locations -> {None} \cup 0 .. Latest]
      BY Zenon DEF Migrate, TypeInv, TypeOK, KnowsItsPlace
    <3>2. stores' = [stores EXCEPT ![opened] = stores[opened] + 1]
      BY DEF Migrate
    <3>3. QED
      BY <3>1, <3>2
  <2>2. ~\E k \in Locations : RemoveDatabase(k)
    BY DEF RemoveDatabase, TypeInv, TypeOK
  <2>3. OpenDatabase
    BY <2>1, <2>2, LoadSteps
    DEF Next, Process, World, Start, ValidateResource, LookForDatabase, CloseDatabase,
        SafeScan, Fail, Interrupt, EditConfig, Relink, ReplaceNote, EditRoutine, Approve, vars
  <2>4. Place \in Locations
    BY <2>3, PlaceType DEF OpenDatabase, TypeInv, KnowsItsPlace, Working
  <2>5. l = Place
    BY <2>3, <2>4 DEF OpenDatabase, TypeInv, TypeOK
  <2>6. QED
    BY <2>3, <2>5 DEF OpenDatabase, StillSo, VaultAccepted, Place
<1>3. QED
  BY <1>1, <1>2, TypeInvHolds, StillSoInductive, PTL DEF Spec, StoresAppearWhereAsked

-----------------------------------------------------------------------------
(* Paths                                                                   *)

LEMMA Largest ==
  ASSUME NEW k \in Nat, NEW T, T \subseteq 0 .. k, T # {}
  PROVE  \E n \in T : \A m \in T : m <= n
<1> DEFINE D == {k - n : n \in T}
<1>1. D \subseteq Nat /\ D # {}
  <2>1. \A n \in T : k - n \in Nat
    OBVIOUS
  <2>2. QED
    BY <2>1
<1> DEFINE R == OpToRel(<, Nat)
<1>2. PICK d \in D : \A e \in D : <<e, d>> \notin R
  <2> HIDE DEF D
  <2>1. IsWellFoundedOn(R, Nat)
    BY NatLessThanWellFounded
  <2> HIDE DEF R
  <2>2. QED
    BY <1>1, <2>1, WFMin
<1>3. \A e \in D : ~(e < d)
  BY <1>1, <1>2 DEF OpToRel
<1>4. PICK n \in T : d = k - n
  BY <1>2
<1>5. ASSUME NEW m \in T
      PROVE  m <= n
  <2>1. k - m \in D
    OBVIOUS
  <2>2. ~(k - m < k - n)
    BY <1>3, <1>4, <2>1
  <2>3. m \in Nat /\ n \in Nat
    OBVIOUS
  <2>4. QED
    BY <2>2, <2>3
<1>6. QED
  BY <1>5

(* What rstrip leaves, and what it takes                                   *)
LEMMA StrippedIsPrefix ==
  ASSUME NEW S, NEW p \in Seq(S)
  PROVE  \E n \in 0 .. Len(p) :
           /\ Stripped(p) = SubSeq(p, 1, n)
           /\ n = 0 \/ p[n] # "/"
           /\ \A i \in n + 1 .. Len(p) : p[i] = "/"
<1> DEFINE T == {n \in 0 .. Len(p) : n = 0 \/ p[n] # "/"}
<1>1. T \subseteq 0 .. Len(p) /\ 0 \in T /\ Len(p) \in Nat
  <2>1. Len(p) \in Nat
    OBVIOUS
  <2>2. 0 \in 0 .. Len(p)
    BY <2>1
  <2>3. 0 \in T
    BY <2>2, Zenon
  <2>4. T \subseteq 0 .. Len(p)
    BY Zenon
  <2>5. QED
    BY <2>1, <2>3, <2>4
<1>2. PICK n \in T : \A m \in T : m <= n
  <2> HIDE DEF T
  <2>1. QED
    BY <1>1, Largest
<1> DEFINE Ends(m) == /\ m = 0 \/ p[m] # "/"
                      /\ \A i \in m + 1 .. Len(p) : p[i] = "/"
<1>3. \E m \in 0 .. Len(p) : Ends(m)
  <2>1. \A i \in n + 1 .. Len(p) : i \in 0 .. Len(p) /\ i \notin T
    <3> HIDE DEF T
    <3>1. n \in 0 .. Len(p) /\ Len(p) \in Nat
      BY <1>1
    <3>2. SUFFICES ASSUME NEW i \in n + 1 .. Len(p)
                   PROVE  i \in 0 .. Len(p) /\ i \notin T
      OBVIOUS
    <3>3. i \in 0 .. Len(p) /\ ~(i <= n)
      BY <3>1
    <3>4. QED
      BY <1>2, <3>3
  <2>2. \A i \in n + 1 .. Len(p) : p[i] = "/"
    BY <2>1
  <2>3. QED
    BY <1>2, <2>2
<1>4. Ends(CHOOSE m \in 0 .. Len(p) : Ends(m)) /\ (CHOOSE m \in 0 .. Len(p) : Ends(m)) \in 0 .. Len(p)
  <2> HIDE DEF Ends
  <2>1. QED
    BY <1>3
<1>5. Stripped(p) = SubSeq(p, 1, CHOOSE m \in 0 .. Len(p) : Ends(m))
  BY DEF Stripped
<1>6. QED
  BY <1>4, <1>5

(* The two ways in which _scope_allows cuts the slashes off agree: a grant *)
(* that the schema lets through is found to allow only what it reaches.    *)
LEMMA GrantsReach ==
  ASSUME NEW S, NEW p \in Seq(S), NEW g \in Seq(S), Parses(g, TRUE), Grants(g, p),
         NEW grants, g \in grants
  PROVE  Reaches(grants, Stripped(p))
<1>1. CASE ~HasGlob(g)
  BY <1>1 DEF Grants, Reaches
<1>2. CASE HasGlob(g)
  <2>1. PICK n \in Nat : n >= 1 /\ g[n + 1] = "**" /\ Len(g) = n + 1
    <3>1. Len(g) - 1 \in Nat /\ Len(g) - 1 >= 1 /\ Len(g) = (Len(g) - 1) + 1 /\ g[Len(g)] = "**"
      BY <1>2 DEF HasGlob
    <3>2. QED
      BY <3>1
  <2>2. PICK r \in Seq(S) :
          r = SubSeq(g, 1, Len(g) - 1) /\ Len(r) = n /\ \A i \in 1 .. n : r[i] = g[i]
    <3>1. Len(g) - 1 = n /\ n <= Len(g)
      BY <2>1
    <3>2. /\ SubSeq(g, 1, n) \in Seq(S) /\ Len(SubSeq(g, 1, n)) = n
          /\ \A i \in 1 .. n : SubSeq(g, 1, n)[i] = g[i]
      BY <3>1
    <3>3. QED
      BY <3>1, <3>2
  <2>3. g[n] # "/"
    <3>1. CASE n = 1
      BY <3>1 DEF Parses, Zones
    <3>2. CASE n # 1
      <4>1. PICK m \in 0 .. Len(g) : Stripped(g) = SubSeq(g, 1, m)
        BY StrippedIsPrefix
      <4>2. Len(Stripped(g)) = m
        BY <4>1
      <4>3. n \in 2 .. Len(Stripped(g))
        <5>1. Len(Stripped(g)) > 1 /\ Len(g) <= Len(Stripped(g)) + 1
          BY DEF Parses
        <5>2. QED
          BY <2>1, <3>2, <4>2, <5>1
      <4>4. n # Len(g)
        BY <2>1
      <4>5. g[n] \in Names
        BY <4>3, <4>4 DEF Parses
      <4>6. QED
        BY <4>5, NamesAreSegments
    <3>3. QED
      BY <3>1, <3>2
  <2>4. Stripped(r) = r
    <3>1. PICK m \in 0 .. Len(r) :
                 /\ Stripped(r) = SubSeq(r, 1, m)
                 /\ \A i \in m + 1 .. Len(r) : r[i] = "/"
      BY StrippedIsPrefix
    <3>2. m \in 0 .. n /\ r[n] # "/"
      BY <2>1, <2>2, <2>3
    <3>3. m < n => r[n] = "/"
      BY <2>1, <2>2, <3>1, <3>2
    <3>4. m = n
      BY <2>1, <3>2, <3>3
    <3>5. SubSeq(r, 1, Len(r)) = r
      OBVIOUS
    <3>6. QED
      BY <2>2, <3>1, <3>4, <3>5
  <2>5. PICK s \in Seq(S) : s = Stripped(p)
    <3>1. PICK m \in 0 .. Len(p) : Stripped(p) = SubSeq(p, 1, m)
      BY StrippedIsPrefix
    <3>2. SubSeq(p, 1, m) \in Seq(S)
      OBVIOUS
    <3>3. QED
      BY <3>1, <3>2
  <2>6. Within(s, r)
    BY <1>2, <2>2, <2>4, <2>5 DEF Grants
  <2>7. n \in 1 .. Len(s) /\ \A i \in 1 .. n : s[i] = g[i]
    BY <2>1, <2>2, <2>6 DEF Within
  <2>8. PICK a \in Seq(S) :
          /\ a = Append(SubSeq(s, 1, n), "**") /\ Len(a) = n + 1 /\ a[n + 1] = "**"
          /\ \A i \in 1 .. n : a[i] = s[i]
    <3>1. /\ SubSeq(s, 1, n) \in Seq(S) /\ Len(SubSeq(s, 1, n)) = n
          /\ \A i \in 1 .. n : SubSeq(s, 1, n)[i] = s[i]
      BY <2>1, <2>7
    <3>2. PICK q \in Seq(S) :
            q = SubSeq(s, 1, n) /\ Len(q) = n /\ \A i \in 1 .. n : q[i] = s[i]
      BY <3>1
    <3>3. /\ Append(q, "**") \in Seq(S) /\ Len(Append(q, "**")) = n + 1
          /\ Append(q, "**")[n + 1] = "**" /\ \A i \in 1 .. n : Append(q, "**")[i] = q[i]
      <4>1. "**" \in S
        BY <2>1
      <4>2. QED
        BY <3>2, <4>1
    <3>4. QED
      BY <3>2, <3>3
  <2>9. a = g
    <3>1. Len(a) = Len(g) /\ \A i \in 1 .. Len(a) : a[i] = g[i]
      BY <2>1, <2>7, <2>8
    <3>2. QED
      BY <3>1, SeqEqual
  <2>10. QED
    BY <2>5, <2>7, <2>8, <2>9 DEF Reaches
<1>3. QED
  BY <1>1, <1>2

-----------------------------------------------------------------------------
(* Hashes                                                                  *)

Routine(n) == n.schema = "hermes.routine/v2" /\ TypedNote(n)

HashedFields == {"schema", "broken", "revision", "specification", "read", "write"}

LEMMA RoutineIsRecord ==
  ASSUME NEW n, Routine(n)
  PROVE  n = [f \in RoutineFields |-> n[f]] /\ n.broken \in BOOLEAN
BY DEF Routine, TypedNote

LEMMA HashOfRoutine ==
  ASSUME NEW n, Routine(n)
  PROVE  SpecificationHash(n) = [f \in HashedFields |-> n[f]]
<1>1. DOMAIN n = RoutineFields
  BY RoutineIsRecord
<1>2. RoutineFields \ ({"approval_id", "approved_spec_hash", "observed"} \cup {"body"}) = HashedFields
  BY DEF RoutineFields, HashedFields
<1>3. Excluded(n.schema) = {"approval_id", "approved_spec_hash", "observed"}
  BY DEF Excluded, Routine
<1>4. QED
  BY <1>1, <1>2, <1>3 DEF SpecificationHash

(* The hashes of two routines are equal exactly if their authors wrote the *)
(* same.                                                                   *)
LEMMA SameHash ==
  ASSUME NEW m, NEW n, Routine(m), Routine(n), RoutineAccepted(m), RoutineAccepted(n)
  PROVE  SpecificationHash(m) = SpecificationHash(n) <=> Authored(m) = Authored(n)
<1>1. m.schema = n.schema /\ m.broken = n.broken
  BY RoutineIsRecord DEF Routine, RoutineAccepted
<1>2. ASSUME SpecificationHash(m) = SpecificationHash(n)
      PROVE  Authored(m) = Authored(n)
  <2>1. \A f \in HashedFields : m[f] = n[f]
    BY <1>2, HashOfRoutine
  <2>2. QED
    BY <2>1 DEF HashedFields, Authored
<1>3. ASSUME Authored(m) = Authored(n)
      PROVE  SpecificationHash(m) = SpecificationHash(n)
  <2>1. \A f \in HashedFields : m[f] = n[f]
    BY <1>1, <1>3 DEF HashedFields, Authored
  <2>2. QED
    BY <2>1, HashOfRoutine
<1>4. QED
  BY <1>2, <1>3

-----------------------------------------------------------------------------
(* The note under review                                                   *)

(* The hash in the note is that of a routine that says what was approved.  *)
Covers(n, a) ==
  /\ Routine(n)
  /\ \E m : /\ Routine(m) /\ RoutineAccepted(m)
           /\ n.approved_spec_hash = SpecificationHash(m) /\ a = Authored(m)

ReviewInv ==
  /\ TypedNote(note) /\ (approved # None => Covers(note, approved))
  /\ checked # None =>
       /\ TypedNote(checked.note) /\ NoteAccepted(checked.note)
       /\ hash = SpecificationHash(checked.note)
       /\ checked.approved # None => Covers(checked.note, checked.approved)

LEMMA ReviewInvInductive ==
  ASSUME ReviewInv, [Next]_vars
  PROVE  ReviewInv'
<1>1. CASE ValidateResource
  <2>1. CASE NoteAccepted(note)
    <3>1. /\ note' = note /\ approved' = approved
          /\ hash' = SpecificationHash(note)
          /\ checked' = [note |-> note, approved |-> approved]
      BY <1>1, <2>1 DEF ValidateResource
    <3>2. checked'.note = note /\ checked'.approved = approved
      BY <3>1
    <3>3. QED
      BY <2>1, <3>1, <3>2 DEF ReviewInv
  <2>2. CASE ~NoteAccepted(note)
    BY <1>1, <2>2 DEF ValidateResource, ReviewInv
  <2>3. QED
    BY <2>1, <2>2
<1>2. CASE \E n \in Notes : ReplaceNote(n)
  BY <1>2, NotesAreTyped DEF ReplaceNote, ReviewInv
<1>3. CASE \E n \in Notes : EditRoutine(n)
  <2>1. PICK n \in Notes : EditRoutine(n)
    BY <1>3
  <2>2. Routine(note) /\ Routine(n)
    BY <2>1, NotesAreTyped DEF EditRoutine, ReviewInv, Routine
  <2>3. /\ note' = [n EXCEPT !.approval_id = note.approval_id,
                            !.approved_spec_hash = note.approved_spec_hash]
        /\ UNCHANGED <<hash, approved, checked>>
    BY <2>1 DEF EditRoutine
  <2>4. Routine(note') /\ note'.approved_spec_hash = note.approved_spec_hash
    BY <2>2, <2>3, RoutineIsRecord DEF Routine, TypedNote, RoutineFields
  <2>5. approved # None => Covers(note', approved)
    BY <2>4 DEF ReviewInv, Covers
  <2>6. QED
    BY <2>3, <2>4, <2>5 DEF ReviewInv, Routine
<1>4. CASE Approve
  <2>1. /\ Routine(note) /\ checked # None /\ checked.note.schema = "hermes.routine/v2"
        /\ note' = [note EXCEPT !.approval_id = "approval", !.approved_spec_hash = hash]
        /\ approved' = Authored(checked.note)
        /\ UNCHANGED <<hash, checked>>
    BY <1>4 DEF Approve, ReviewInv, Routine
  <2>2. Routine(note') /\ note'.approved_spec_hash = hash
    BY <2>1, RoutineIsRecord DEF Routine, TypedNote, RoutineFields
  <2>3. /\ Routine(checked.note) /\ RoutineAccepted(checked.note)
        /\ hash = SpecificationHash(checked.note)
    BY <2>1 DEF ReviewInv, Routine, NoteAccepted
  <2>4. Covers(note', approved')
    BY <2>1, <2>2, <2>3 DEF Covers
  <2>5. QED
    BY <2>1, <2>2, <2>4 DEF ReviewInv, Routine
<1>5. CASE UNCHANGED review
  BY <1>5 DEF review, ReviewInv
<1>6. QED
  BY <1>1, <1>2, <1>3, <1>4, <1>5
  DEF Next, Process, World, Start, LoadConfig, LookForDatabase, OpenDatabase, Migrate,
      CloseDatabase, SafeScan, Fail, Interrupt, EditConfig, Relink, RemoveDatabase, vars

LEMMA ReviewInvHolds == Spec => []ReviewInv
<1>1. Init => ReviewInv
  BY NotesAreTyped DEF Init, ReviewInv
<1>2. QED
  BY <1>1, ReviewInvInductive, PTL DEF Spec

(* An approval covers what was approved and nothing else: the approval     *)
(* itself, what the bridge observed and the text of the note make no       *)
(* difference to the hash, and every edit of what its author decides does. *)
THEOREM ApprovalsTellEdits == Spec => []ApprovalTellsEdits
<1>1. ReviewInv => ApprovalTellsEdits
  <2> SUFFICES ASSUME ReviewInv, checked # None, checked.approved # None
               PROVE  hash = checked.note.approved_spec_hash
                        <=> Authored(checked.note) = checked.approved
    BY DEF ApprovalTellsEdits
  <2>1. /\ Covers(checked.note, checked.approved) /\ NoteAccepted(checked.note)
        /\ hash = SpecificationHash(checked.note)
    BY DEF ReviewInv
  <2>2. PICK m : /\ Routine(m) /\ RoutineAccepted(m)
                 /\ checked.note.approved_spec_hash = SpecificationHash(m)
                 /\ checked.approved = Authored(m)
    BY <2>1 DEF Covers
  <2>3. Routine(checked.note) /\ RoutineAccepted(checked.note)
    BY <2>1 DEF Covers, Routine, NoteAccepted
  <2>4. QED
    BY <2>1, <2>2, <2>3, SameHash
<1>2. QED
  BY <1>1, ReviewInvHolds, PTL

(* Whatever paths and grants a note names, and however it writes them: a   *)
(* task that is validated reads and writes within its grants, and writes   *)
(* where workers may.                                                      *)
THEOREM TasksStayInScope == Spec => []TaskStaysInScope
<1>1. ReviewInv => TaskStaysInScope
  <2> SUFFICES ASSUME NEW t, TypedNote(t), TaskAccepted(t), t.schema = "hermes.task/v2"
               PROVE  /\ \A p \in t.context_roots : Reaches(t.read, Stripped(p))
                      /\ Reaches(t.write, Stripped(t.output))
                      /\ t.output[1] = "ReadWrite"
    BY DEF ReviewInv, TaskStaysInScope, NoteAccepted
  <2>1. t.context_roots \cup t.read \cup t.write \cup {t.output} \subseteq Seq(STRING)
    BY DEF TypedNote
  <2>2. \A g \in t.read \cup t.write : g \in Seq(STRING) /\ Parses(g, TRUE)
    BY <2>1 DEF TaskAccepted, PathsAccepted
  <2>3. ASSUME NEW p \in t.context_roots
        PROVE  Reaches(t.read, Stripped(p))
    <3>1. PICK g \in t.read : Grants(g, p)
      BY <2>3 DEF TaskAccepted, ScopeAllows
    <3>2. QED
      BY <2>1, <2>2, <3>1, GrantsReach
  <2>4. Reaches(t.write, Stripped(t.output))
    <3>1. PICK g \in t.write : Grants(g, t.output)
      BY DEF TaskAccepted, ScopeAllows
    <3>2. QED
      BY <2>1, <2>2, <3>1, GrantsReach
  <2>5. t.output[1] = "ReadWrite"
    BY DEF TaskAccepted
  <2>6. QED
    BY <2>3, <2>4, <2>5
<1>2. QED
  BY <1>1, ReviewInvHolds, PTL
=============================================================================
