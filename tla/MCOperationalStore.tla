-------------------------- MODULE MCOperationalStore --------------------------
(* Model-checking instances of OperationalStore.  A configuration opens the *)
(* tables its questions are about and gives the others empty id sets;       *)
(* MCStoreEvidence opens many and fills them one question at a time.        *)
EXTENDS OperationalStore, FiniteSets, TLC

(* The identifiers are opaque to the schema, so each set of them is         *)
(* symmetric.                                                               *)
Symmetry ==
  UNION {Permutations(S) : S \in
    {CommandIds, TraceIds, RunIds, ReceiptIds, StepIds, IdempotencyKeys,
     Hashes, Paths, Executors, ApprovalIds, EventIds}}

Filled(table) == {k \in DOMAIN table : table[k] # NoRow}

(* resources alone, of any generation at any path                           *)
Renaming ==
  Filled(commands) \cup Filled(approvals) \cup Filled(events) = {} /\ fence = NoRow

(* tasks that stay at one path, and what is done for them                   *)
Working ==
  /\ \A rg \in Filled(resources) :
       rg[1] \in TaskIds /\ rg[2] # 0 /\ ~resources[rg].current
  /\ Cardinality({resources[rg].path : rg \in Filled(resources)}) <= 1

Leasing == Working /\ Filled(approvals) \cup Filled(events) = {}

FirstAttempts == fence = NoRow /\ \A r \in Filled(runs) : runs[r].attempt = 1

Approving ==
  /\ Working /\ FirstAttempts /\ Filled(events) = {}
  /\ Cardinality(Filled(runs)) <= 2

Logging ==
  /\ Working /\ FirstAttempts /\ Filled(approvals) = {}
  /\ Cardinality(Filled(commands)) <= 1 /\ Cardinality(Filled(runs)) <= 1
  /\ Cardinality(Filled(resources)) <= 1

Focus == Renaming \/ Leasing \/ Approving \/ Logging
=============================================================================
