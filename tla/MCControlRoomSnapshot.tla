------------------------ MODULE MCControlRoomSnapshot ------------------------
(* Model-checking instances of ControlRoomSnapshot.  Paths, run and command *)
(* ids are ordered, so they are not symmetric; states and runtimes are.     *)
EXTENDS ControlRoomSnapshot, TLC

CONSTANTS t1, t2

TasksOf == 1 :> t1 @@ 2 :> t1 @@ 3 :> t2

Symmetry == Permutations(RunStates) \cup Permutations(Runtimes)

(* The states explored: tasks and their commands are in play, or runs and   *)
(* their rows, not both at a time.  The first run may have notes and a row, *)
(* the second only a row, the third only notes.  A limit of one is tried    *)
(* with runs whose notes can be read.  The walk is cut short only where no  *)
(* zone was in part unreadable.                                             *)
Scope ==
  LET seen == {notes[p] : p \in Paths} \cup {documents[p] : p \in DOMAIN documents}
  IN  /\ limit = 1 => watched = 1 /\ queued = {} /\ seen \subseteq RunNotes \cup {NoNote}
      /\ cut => \A w \in warnings : w[1] # "zone"
      /\ \/ /\ queued \cup queueRows = {} /\ seen \cap TaskNotes = {}
            /\ runs[3] = NoRow /\ watched # 3
            /\ \A n \in seen \cap RunNotes : n.run # 2
         \/ /\ \A r \in RunIds : runs[r] = NoRow /\ watched <= r
            /\ seen \cap RunNotes = {}

(* A note, the commands and the rows change only before a request, and      *)
(* right before a step that reads them; the rows no promise is about change *)
(* before it.  Nothing is lost: the steps before that do not depend on      *)
(* them, and what changes after it only takes away from what was steady and *)
(* adds to what was held.                                                   *)
MovesWhenRead ==
  /\ \A p \in Paths :
       \/ notes'[p] = notes[p]
       \/ step = "idle"
       \/ step = "ReadOnly" /\ p \in ReadOnlyPaths
       \/ step = "ReadWrite" /\ p \in ReadWritePaths
       \/ step = "notes" /\ p \in todo /\ \A q \in todo : p <= q
  /\ step \in {"idle", "queue"} \/ queued' = queued
  /\ \A r \in RunIds :
       \/ runs'[r] = runs[r]
       \/ step = "idle"
       \/ step = "runs" /\ r = watched
=============================================================================
