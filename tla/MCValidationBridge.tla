------------------------- MODULE MCValidationBridge -------------------------
(* Model-checking instances of ValidationBridge: two directories, the names *)
(* of two paths of the first of which differ in case only.                  *)
EXTENDS ValidationBridge

TwoDirectories == [p \in Paths |-> IF p <= 2 THEN 1 ELSE 2]

CaseVariants == [p \in Paths |-> IF p = 2 THEN 1 ELSE p]
=============================================================================
