--------------------------- MODULE GenerationLedger ---------------------------
(***************************************************************************)
(* What the operational store promises about a generation of a task,       *)
(* whatever happens in its tables: an outcome is decided at most once and  *)
(* never revised, and only a decided outcome is ever announced as the      *)
(* final state of the work.                                                *)
(***************************************************************************)
CONSTANTS Keys, Outcomes, None

VARIABLES decided, announced

Init ==
  /\ decided = [k \in Keys |-> None]
  /\ announced = [k \in Keys |-> None]

Decide(k, o) ==
  /\ decided[k] = None
  /\ decided' = [decided EXCEPT ![k] = o]
  /\ UNCHANGED announced

Announce(k) ==
  /\ decided[k] # None
  /\ announced[k] = None
  /\ announced' = [announced EXCEPT ![k] = decided[k]]
  /\ UNCHANGED decided

Next == \E k \in Keys : Announce(k) \/ \E o \in Outcomes : Decide(k, o)

Spec == Init /\ [][Next]_<<decided, announced>>
=============================================================================
