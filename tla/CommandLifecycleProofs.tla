------------------------ MODULE CommandLifecycleProofs ------------------------
(* Theorems about the transition policy on top of the store, for every      *)
(* choice of the store's constants.                                         *)
EXTENDS CommandLifecycle, OperationalStoreProofs, SequenceTheorems

(* What is proved of the store holds under the policy: it only leaves out  *)
(* statements.                                                             *)
LEMMA PolicyIsStore == LifecycleSpec => Spec
<1>1. LifecycleInit => Init
  BY DEF LifecycleInit
<1>2. [LifecycleNext]_lifecycleVars => [Next]_vars
  <2>1. ASSUME NEW c \in CommandIds, NEW t \in TaskIds, NEW g \in Generations \ {0},
               NEW trace \in TraceIds, NEW h \in Hashes, Enqueue(c, t, g, trace, h)
        PROVE  Next
    BY <2>1, LifecycleConstants DEF Enqueue, Next, CommandStatement
  <2>2. ASSUME NEW c \in CommandIds, NEW s \in CommandStates, Transition(c, s)
        PROVE  Next
    BY <2>2 DEF Transition, Next, CommandStatement
  <2>3. ASSUME NEW c \in CommandIds, Withdraw(c)
        PROVE  Next
    BY <2>3 DEF Withdraw, Next, CommandStatement
  <2>4. QED
    BY <2>1, <2>2, <2>3 DEF LifecycleNext, lifecycleVars, Next
<1>3. QED
  BY <1>1, <1>2, PTL DEF LifecycleSpec, Spec

-----------------------------------------------------------------------------
(* Decisions                                                               *)

(* The edges of the policy that every command can fall back on.            *)
LEMMA WayOn ==
  /\ CanTransition("awaiting_approval", "queued")
  /\ CanTransition("retry_scheduled", "queued")
  /\ CanTransition("queued", "validated")
  /\ CanTransition("validated", "claimed")
  /\ CanTransition("claimed", "running")
  /\ CanTransition("running", "verifying")
  /\ CanTransition("verifying", "retry_scheduled")
  /\ CanTransition("verifying", "completed")
  /\ \A s \in TerminalStates \ {"completed"} : CanTransition("running", s)
BY DEF CanTransition, Targets, Forward, TerminalStates

(* From no live state the policy closes the way to any terminal one.       *)
LEMMA EveryEndInReach ==
  ASSUME NEW s \in LiveStates, NEW e \in TerminalStates
  PROVE  e \in Reach[s]
<1>1. SUFFICES ASSUME NEW R \in Closed, s \in R
               PROVE  e \in R
  BY DEF Reach, States
<1>2. \A u \in R, v \in States : CanTransition(u, v) => v \in R
  BY DEF Closed
<1>3. "running" \in R
  BY <1>1, <1>2, WayOn DEF States, LiveStates
<1>4. "verifying" \in R
  BY <1>2, <1>3, WayOn DEF States, LiveStates
<1>5. "completed" \in R
  BY <1>2, <1>4, WayOn DEF States, TerminalStates
<1>6. QED
  BY <1>2, <1>3, <1>5, WayOn DEF States

(* Whatever state a command is in when its terminal receipt is written,    *)
(* and whatever becomes of it then, the policy can take it to the outcome  *)
(* that the receipt names.                                                 *)
THEOREM DecisionsStayReachable == LifecycleSpec => []DecisionReachable
<1>1. OutcomeInv => DecisionReachable
  <2> SUFFICES ASSUME OutcomeInv, NEW rc \in ReceiptIds, NEW c \in CommandIds,
                      TerminalReceipt(rc, c)
               PROVE  Outcome(receipts[rc].status) \in Reach[commands[c].state]
    BY DEF DecisionReachable
  <2>1. commands[c] # NoRow /\ commands[c].state \in States
    <3>1. commands[c] # NoRow
      BY DEF OutcomeInv, EvidenceCoherent, ReceiptsCoherent, CommandHasTrace, TerminalReceipt
    <3>2. commands[c] \in CommandRow
      BY <3>1 DEF OutcomeInv, TypeOK
    <3>3. QED
      BY <3>1, <3>2, StoreConstants DEF CommandRow, States
  <2>2. Outcome(receipts[rc].status) \in TerminalStates
    <3>1. receipts[rc] \in ReceiptRow
      BY DEF OutcomeInv, TypeOK, TerminalReceipt
    <3>2. receipts[rc].status \in TerminalStates \cup {"deduplicated"}
      BY <3>1, StoreConstants DEF ReceiptRow
    <3>3. QED
      BY <3>2 DEF Outcome, TerminalStates
  <2>3. CASE commands[c].state \in LiveStates
    BY <2>2, <2>3, EveryEndInReach
  <2>4. CASE commands[c].state \in TerminalStates
    <3>1. commands[c].state = Outcome(receipts[rc].status)
      BY <2>1, <2>4 DEF OutcomeInv, OutcomeBacked
    <3>2. QED
      BY <2>1, <3>1 DEF Reach
  <2>5. QED
    BY <2>1, <2>3, <2>4 DEF States
<1>2. QED
  BY <1>1, PolicyIsStore, OutcomeInvariant, PTL

-----------------------------------------------------------------------------
(* The way to completion                                                   *)

(* Where the trail of a command in each state of the way ends.  The other  *)
(* live states are left through "queued", which starts it anew.            *)
WayTo ==
  [queued    |-> <<"queued">>,
   validated |-> <<"queued", "validated">>,
   claimed   |-> <<"queued", "validated", "claimed">>,
   running   |-> <<"queued", "validated", "claimed", "running">>,
   verifying |-> <<"queued", "validated", "claimed", "running", "verifying">>,
   completed |-> <<"queued", "validated", "claimed", "running", "verifying", "completed">>]

WayStates == {"queued", "validated", "claimed", "running", "verifying", "completed"}

OnTheWay ==
  /\ trail = [c \in CommandIds |-> trail[c]]
  /\ \A c \in CommandIds :
       commands[c] # NoRow /\ commands[c].state \in DOMAIN WayTo =>
         trail[c] = WayTo[commands[c].state]

(* What the policy leads to from which state of the way                    *)
LEMMA WayBack ==
  ASSUME NEW u, NEW v, CanTransition(u, v), v \in DOMAIN WayTo, v # "queued"
  PROVE  /\ u \in DOMAIN WayTo
         /\ v = "validated" => u \in {"queued", "claimed"}
         /\ v = "claimed" => u = "validated"
         /\ v = "running" => u = "claimed"
         /\ v = "verifying" => u = "running"
         /\ v = "completed" => u = "verifying"
BY DEF CanTransition, Targets, Forward, WayTo

LEMMA NewState ==
  ASSUME NEW seq, NEW s, \A i \in DOMAIN seq : seq[i] # s
  PROVE  Continued(seq, s) = Append(seq, s)
BY DEF Continued

LEMMA OneLonger ==
  ASSUME NEW S, NEW w \in Seq(S), NEW v \in Seq(S), NEW b \in S,
         Len(v) = Len(w) + 1, b = v[Len(w) + 1], \A i \in 1..Len(w) : v[i] = w[i]
  PROVE  Append(w, b) = v
<1>1. Append(w, b) \in Seq(S) /\ Len(Append(w, b)) = Len(v)
  BY AppendProperties
<1>2. ASSUME NEW i \in 1..Len(Append(w, b))
      PROVE  Append(w, b)[i] = v[i]
  <2>1. i \in 1..(Len(w) + 1) /\ Len(w) \in Nat
    BY AppendProperties
  <2>2. QED
    BY <2>1, AppendProperties
<1>3. QED
  BY <1>1, <1>2, SeqEqual

LEMMA FirstTwo ==
  ASSUME NEW S, NEW w \in Seq(S), NEW v \in Seq(S), Len(w) >= 2, Len(v) = 2,
         v[1] = w[1], v[2] = w[2]
  PROVE  SubSeq(w, 1, 2) = v
<1>1. Len(w) \in Nat /\ \A i \in 1..2 : w[i] \in S
  BY ElementOfSeq, LenProperties
<1>2. /\ SubSeq(w, 1, 2) \in Seq(S) /\ Len(SubSeq(w, 1, 2)) = 2
      /\ \A i \in 1..2 : SubSeq(w, 1, 2)[i] = w[i]
  BY <1>1, SubSeqProperties
<1>3. \A i \in 1..2 : i = 1 \/ i = 2
  OBVIOUS
<1>4. \A i \in 1..Len(SubSeq(w, 1, 2)) : SubSeq(w, 1, 2)[i] = v[i]
  BY <1>2, <1>3
<1>5. QED
  BY <1>2, <1>4, SeqEqual

(* One step along the way prolongs the trail by one state, and a claim     *)
(* that is given back shortens it by one.                                  *)
LEMMA OneStepOn ==
  ASSUME NEW u, NEW v, CanTransition(u, v), v \in DOMAIN WayTo, v # "queued"
  PROVE  Continued(WayTo[u], v) = WayTo[v]
<1>1. CASE u = "queued" /\ v = "validated"
  <2> DEFINE w == <<"queued">>
  <2>1. \A i \in DOMAIN w : w[i] # "validated"
    OBVIOUS
  <2>2. Append(w, "validated") = WayTo["validated"]
    <3> DEFINE longer == <<"queued", "validated">>
    <3>1. w \in Seq(WayStates) /\ longer \in Seq(WayStates) /\ "validated" \in WayStates
      BY DEF WayStates
    <3>2. Len(w) = 1 /\ Len(longer) = 2 /\ longer[2] = "validated" /\ \A i \in 1..1 : longer[i] = w[i]
      OBVIOUS
    <3>3. Append(w, "validated") = longer
      <4> HIDE DEF w, longer
      <4> DEFINE last == "validated"
      <4> HIDE DEF last
      <4>1. Len(longer) = Len(w) + 1 /\ last = longer[Len(w) + 1] /\ \A i \in 1..Len(w) : longer[i] = w[i]
        BY <3>2 DEF last
      <4>2. QED
        BY <3>1, <4>1, OneLonger DEF last
    <3>4. QED
      BY <3>3 DEF WayTo
  <2>3. Continued(w, "validated") = Append(w, "validated")
    BY <2>1, NewState
  <2>4. QED
    BY <1>1, <2>2, <2>3 DEF WayTo
<1>2. CASE u = "validated" /\ v = "claimed"
  <2> DEFINE w == <<"queued", "validated">>
  <2>1. \A i \in DOMAIN w : w[i] # "claimed"
    OBVIOUS
  <2>2. Append(w, "claimed") = WayTo["claimed"]
    <3> DEFINE longer == <<"queued", "validated", "claimed">>
    <3>1. w \in Seq(WayStates) /\ longer \in Seq(WayStates) /\ "claimed" \in WayStates
      BY DEF WayStates
    <3>2. Len(w) = 2 /\ Len(longer) = 3 /\ longer[3] = "claimed" /\ \A i \in 1..2 : longer[i] = w[i]
      OBVIOUS
    <3>3. Append(w, "claimed") = longer
      <4> HIDE DEF w, longer
      <4> DEFINE last == "claimed"
      <4> HIDE DEF last
      <4>1. Len(longer) = Len(w) + 1 /\ last = longer[Len(w) + 1] /\ \A i \in 1..Len(w) : longer[i] = w[i]
        BY <3>2 DEF last
      <4>2. QED
        BY <3>1, <4>1, OneLonger DEF last
    <3>4. QED
      BY <3>3 DEF WayTo
  <2>3. Continued(w, "claimed") = Append(w, "claimed")
    BY <2>1, NewState
  <2>4. QED
    BY <1>2, <2>2, <2>3 DEF WayTo
<1>3. CASE u = "claimed" /\ v = "running"
  <2> DEFINE w == <<"queued", "validated", "claimed">>
  <2>1. \A i \in DOMAIN w : w[i] # "running"
    OBVIOUS
  <2>2. Append(w, "running") = WayTo["running"]
    <3> DEFINE longer == <<"queued", "validated", "claimed", "running">>
    <3>1. w \in Seq(WayStates) /\ longer \in Seq(WayStates) /\ "running" \in WayStates
      BY DEF WayStates
    <3>2. Len(w) = 3 /\ Len(longer) = 4 /\ longer[4] = "running" /\ \A i \in 1..3 : longer[i] = w[i]
      OBVIOUS
    <3>3. Append(w, "running") = longer
      <4> HIDE DEF w, longer
      <4> DEFINE last == "running"
      <4> HIDE DEF last
      <4>1. Len(longer) = Len(w) + 1 /\ last = longer[Len(w) + 1] /\ \A i \in 1..Len(w) : longer[i] = w[i]
        BY <3>2 DEF last
      <4>2. QED
        BY <3>1, <4>1, OneLonger DEF last
    <3>4. QED
      BY <3>3 DEF WayTo
  <2>3. Continued(w, "running") = Append(w, "running")
    BY <2>1, NewState
  <2>4. QED
    BY <1>3, <2>2, <2>3 DEF WayTo
<1>4. CASE u = "running" /\ v = "verifying"
  <2> DEFINE w == <<"queued", "validated", "claimed", "running">>
  <2>1. \A i \in DOMAIN w : w[i] # "verifying"
    OBVIOUS
  <2>2. Append(w, "verifying") = WayTo["verifying"]
    <3> DEFINE longer == <<"queued", "validated", "claimed", "running", "verifying">>
    <3>1. w \in Seq(WayStates) /\ longer \in Seq(WayStates) /\ "verifying" \in WayStates
      BY DEF WayStates
    <3>2. Len(w) = 4 /\ Len(longer) = 5 /\ longer[5] = "verifying" /\ \A i \in 1..4 : longer[i] = w[i]
      OBVIOUS
    <3>3. Append(w, "verifying") = longer
      <4> HIDE DEF w, longer
      <4> DEFINE last == "verifying"
      <4> HIDE DEF last
      <4>1. Len(longer) = Len(w) + 1 /\ last = longer[Len(w) + 1] /\ \A i \in 1..Len(w) : longer[i] = w[i]
        BY <3>2 DEF last
      <4>2. QED
        BY <3>1, <4>1, OneLonger DEF last
    <3>4. QED
      BY <3>3 DEF WayTo
  <2>3. Continued(w, "verifying") = Append(w, "verifying")
    BY <2>1, NewState
  <2>4. QED
    BY <1>4, <2>2, <2>3 DEF WayTo
<1>5. CASE u = "verifying" /\ v = "completed"
  <2> DEFINE w == <<"queued", "validated", "claimed", "running", "verifying">>
  <2>1. \A i \in DOMAIN w : w[i] # "completed"
    OBVIOUS
  <2>2. Append(w, "completed") = WayTo["completed"]
    <3> DEFINE longer == <<"queued", "validated", "claimed", "running", "verifying", "completed">>
    <3>1. w \in Seq(WayStates) /\ longer \in Seq(WayStates) /\ "completed" \in WayStates
      BY DEF WayStates
    <3>2. Len(w) = 5 /\ Len(longer) = 6 /\ longer[6] = "completed" /\ \A i \in 1..5 : longer[i] = w[i]
      OBVIOUS
    <3>3. Append(w, "completed") = longer
      <4> HIDE DEF w, longer
      <4> DEFINE last == "completed"
      <4> HIDE DEF last
      <4>1. Len(longer) = Len(w) + 1 /\ last = longer[Len(w) + 1] /\ \A i \in 1..Len(w) : longer[i] = w[i]
        BY <3>2 DEF last
      <4>2. QED
        BY <3>1, <4>1, OneLonger DEF last
    <3>4. QED
      BY <3>3 DEF WayTo
  <2>3. Continued(w, "completed") = Append(w, "completed")
    BY <2>1, NewState
  <2>4. QED
    BY <1>5, <2>2, <2>3 DEF WayTo
<1>6. CASE u = "claimed" /\ v = "validated"
  <2> DEFINE w == <<"queued", "validated", "claimed">>
  <2>1. \E i \in DOMAIN w : w[i] = "validated"
    OBVIOUS
  <2>2. (CHOOSE i \in DOMAIN w : w[i] = "validated") = 2
    OBVIOUS
  <2>3. SubSeq(w, 1, 2) = <<"queued", "validated">>
    <3> DEFINE longer == <<"queued", "validated">>
    <3>1. w \in Seq(WayStates) /\ longer \in Seq(WayStates)
      BY DEF WayStates
    <3>2. Len(w) = 3 /\ Len(longer) = 2 /\ longer[1] = w[1] /\ longer[2] = w[2]
      OBVIOUS
    <3>3. SubSeq(w, 1, 2) = longer
      <4> HIDE DEF w, longer
      <4>1. QED
        BY <3>1, <3>2, FirstTwo
    <3>4. QED
      BY <3>3
  <2>4. Continued(w, "validated") = <<"queued", "validated">>
    BY <2>1, <2>2, <2>3 DEF Continued
  <2>5. QED
    BY <1>6, <2>4 DEF WayTo
<1>7. QED
  BY <1>1, <1>2, <1>3, <1>4, <1>5, <1>6, WayBack DEF WayTo

(* Retries, approvals and claims that were given back open no shorter way  *)
(* to completion, whatever else the store is told to do.                   *)
THEOREM CompletionTakesTheWholeWay == LifecycleSpec => []CompletedTheWholeWay
<1>1. LifecycleInit => OnTheWay
  BY DEF LifecycleInit, Init, OnTheWay
<1>2. TypeOK /\ OnTheWay /\ [LifecycleNext]_lifecycleVars => OnTheWay'
  <2> SUFFICES ASSUME TypeOK, OnTheWay, [LifecycleNext]_lifecycleVars
               PROVE  OnTheWay'
    OBVIOUS
  <2>1. ASSUME NEW c \in CommandIds, NEW t \in TaskIds, NEW g \in Generations \ {0},
               NEW trace \in TraceIds, NEW h \in Hashes, Enqueue(c, t, g, trace, h)
        PROVE  OnTheWay'
    <3>1. /\ commands'[c].state = "queued" /\ trail'[c] = <<"queued">>
          /\ trail' = [d \in CommandIds |-> trail'[d]]
          /\ \A d \in CommandIds \ {c} : trail'[d] = trail[d] /\ commands'[d] = commands[d]
      BY <2>1 DEF Enqueue, InsertCommand, TypeOK, OnTheWay
    <3>2. WayTo["queued"] = <<"queued">>
      BY DEF WayTo
    <3>3. QED
      BY <3>1, <3>2 DEF OnTheWay
  <2>2. ASSUME NEW c \in CommandIds, NEW s \in CommandStates, Transition(c, s)
        PROVE  OnTheWay'
    <3>1. /\ trail' = [d \in CommandIds |-> trail'[d]]
          /\ trail'[c] = IF s = "queued" THEN <<"queued">> ELSE Continued(trail[c], s)
          /\ \A d \in CommandIds \ {c} : trail'[d] = trail[d] /\ commands'[d] = commands[d]
      BY <2>2 DEF Transition, UpdateCommandState, TypeOK, OnTheWay
    <3>2. commands'[c].state = s
      <4>1. commands[c] \in CommandRow /\ commands'[c] = [commands[c] EXCEPT !.state = s]
        BY <2>2 DEF Transition, UpdateCommandState, TypeOK
      <4>2. QED
        BY <4>1 DEF CommandRow
    <3>3. ASSUME s \in DOMAIN WayTo
          PROVE  trail'[c] = WayTo[s]
      <4>1. CASE s = "queued"
        BY <3>1, <4>1 DEF WayTo
      <4>2. CASE s # "queued"
        <5>1. CanTransition(commands[c].state, s) /\ commands[c] # NoRow
          BY <2>2 DEF Transition
        <5>2. trail[c] = WayTo[commands[c].state]
          BY <3>3, <4>2, <5>1, WayBack DEF OnTheWay
        <5>3. QED
          BY <3>1, <3>3, <4>2, <5>1, <5>2, OneStepOn
      <4>3. QED
        BY <4>1, <4>2
    <3>4. QED
      BY <3>1, <3>2, <3>3 DEF OnTheWay
  <2>3. ASSUME NEW c \in CommandIds, Withdraw(c)
        PROVE  OnTheWay'
    BY <2>3 DEF Withdraw, DeleteCommand, TypeOK, OnTheWay
  <2>4. CASE UNCHANGED <<commands, trail>>
    BY <2>4 DEF OnTheWay
  <2>5. QED
    BY <2>1, <2>2, <2>3, <2>4, Frames DEF LifecycleNext, lifecycleVars, vars
<1>3. OnTheWay => CompletedTheWholeWay
  BY DEF OnTheWay, CompletedTheWholeWay, WayTo
<1>4. QED
  BY <1>1, <1>2, <1>3, PolicyIsStore, TypeCorrect, PTL DEF LifecycleSpec

(* The policy keeps the promise of the ledger: it only leaves out          *)
(* statements, and what may happen to a generation is what the store lets  *)
(* happen.                                                                 *)
THEOREM PolicyKeepsLedger == LifecycleSpec => LedgerSpec
BY PolicyIsStore, StoreKeepsLedger
=============================================================================
