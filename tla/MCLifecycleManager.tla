-------------------------- MODULE MCLifecycleManager --------------------------
(* Model-checking instances of LifecycleManager.                           *)
EXTENDS LifecycleManager, TLC

CONSTANT MaxTrouble

Symmetry == Permutations(Artifacts) \cup Permutations(Notes)
              \cup Permutations(UserContents) \cup Permutations(Releases)

(* The states explored: the backups, the obstacles in the vault and the    *)
(* file the user is editing are few at a time.                             *)
Scope ==
  Cardinality(backups) + Cardinality({f \in Files : disk[f] \in Obstacles})
    + Cardinality(touched) <= MaxTrouble
=============================================================================
