-------------------------- MODULE MCCommandLifecycle --------------------------
(* Model-checking instances of CommandLifecycle.                            *)
EXTENDS CommandLifecycle, TLC

Symmetry ==
  UNION {Permutations(S) : S \in
    {CommandIds, TraceIds, RunIds, ReceiptIds, StepIds, IdempotencyKeys}}
=============================================================================
