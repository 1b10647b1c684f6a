--------------------------- MODULE CommandLifecycle ---------------------------
(***************************************************************************)
(* The transition policy of domain/transitions.py on top of the            *)
(* operational store: a component that moves a command asks                *)
(* require_transition first and then issues the UPDATE, which the schema   *)
(* has its own opinion of.  The policy looks at the two states only, the   *)
(* schema at the receipts only; what the two make of a command together is *)
(* what this module is about.                                              *)
(*                                                                         *)
(* A command enters the policy queued.  trail is auxiliary: the states a   *)
(* command went through since it was queued last, with the loops it made   *)
(* cut out.                                                                *)
(***************************************************************************)
EXTENDS OperationalStore, Sequences

ASSUME LifecycleConstants == "queued" \in CommandStates

VARIABLE trail

lifecycleVars == <<vars, trail>>

States == TerminalStates \cup LiveStates

(* _FORWARD_TRANSITIONS                                                    *)
Forward ==
  [queued            |-> {"validated", "blocked", "cancelled"},
   validated         |-> {"claimed", "blocked", "cancelled", "retry_scheduled"},
   claimed           |-> {"validated", "running", "blocked", "cancelled",
                          "retry_scheduled", "dead_letter"},
   running           |-> {"awaiting_approval", "retry_scheduled", "verifying",
                          "blocked", "failed", "cancelled", "dead_letter"},
   awaiting_approval |-> {"queued", "blocked", "cancelled"},
   retry_scheduled   |-> {"queued", "blocked", "cancelled", "dead_letter"},
   verifying         |-> {"completed", "retry_scheduled", "blocked", "failed",
                          "cancelled", "dead_letter"}]

(* Mutant of Targets: a command runs before it is claimed.                 *)
TargetsUnclaimed(s) ==
  CASE s = "validated" -> Forward[s] \cup {"running"}
    [] s \in LiveStates \ {"validated"} -> Forward[s]
    [] OTHER -> {}

(* Mutant of Targets: nothing resumes a command that waits for approval.   *)
TargetsNoResume(s) ==
  IF s \in LiveStates \ {"awaiting_approval"} THEN Forward[s] ELSE {"blocked", "cancelled"}

Targets(s) == IF s \in DOMAIN Forward THEN Forward[s] ELSE {}

(* can_transition                                                          *)
CanTransition(current, target) ==
  /\ current \notin TerminalStates
  /\ target = "superseded" \/ target \in Targets(current)

LifecycleInit == Init /\ trail = [c \in CommandIds |-> <<>>]

(* Up to and including the state s, if it is in the trail already.         *)
Continued(seq, s) ==
  IF \E i \in DOMAIN seq : seq[i] = s
    THEN SubSeq(seq, 1, CHOOSE i \in DOMAIN seq : seq[i] = s)
    ELSE Append(seq, s)

Enqueue(c, t, g, trace, h) ==
  /\ InsertCommand(c, t, g, trace, h, "queued")
  /\ trail' = [trail EXCEPT ![c] = <<"queued">>]

(* require_transition, then the UPDATE                                     *)
Transition(c, s) ==
  /\ commands[c] # NoRow
  /\ CanTransition(commands[c].state, s)
  /\ UpdateCommandState(c, s)
  /\ trail' = [trail EXCEPT ![c] =
                 IF s = "queued" THEN <<"queued">> ELSE Continued(@, s)]

Withdraw(c) ==
  /\ DeleteCommand(c)
  /\ trail' = [trail EXCEPT ![c] = <<>>]

LifecycleNext ==
  \/ \E c \in CommandIds, t \in TaskIds, g \in Generations \ {0},
        trace \in TraceIds, h \in Hashes : Enqueue(c, t, g, trace, h)
  \/ \E c \in CommandIds, s \in CommandStates : Transition(c, s)
  \/ \E c \in CommandIds : Withdraw(c)
  \/ /\ \/ ResourceStatement \/ RunStatement \/ FenceStatement \/ LeaseStatement
        \/ ReceiptStatement \/ ApprovalStatement \/ EventStatement
     /\ UNCHANGED trail

LifecycleSpec == LifecycleInit /\ [][LifecycleNext]_lifecycleVars

-----------------------------------------------------------------------------
(* Properties                                                              *)

(* A command is completed only after it was, since it was queued last,     *)
(* validated, claimed, run and verified in that order: neither a retry nor *)
(* an approval nor a claim that was given back opens a shorter way.        *)
CompletedTheWholeWay ==
  \A c \in CommandIds : commands[c] # NoRow /\ commands[c].state = "completed" =>
    trail[c] = <<"queued", "validated", "claimed", "running", "verifying", "completed">>

(* The policy leads out of no set in Closed.                               *)
Closed ==
  {R \in SUBSET States : \A s \in R, t \in States : CanTransition(s, t) => t \in R}

(* The states the policy can take a command to.                            *)
Reach == [s \in States |-> {t \in States : \A R \in Closed : s \in R => t \in R}]

(* The schema decides the outcome of a command when its terminal receipt   *)
(* is written, in whatever state the command is then, and accepts no other *)
(* terminal state from that moment.  The policy never stands in the way of *)
(* that one: a decided command can still reach the state it was decided    *)
(* for.                                                                    *)
DecisionReachable ==
  \A rc \in ReceiptIds, c \in CommandIds :
    TerminalReceipt(rc, c) => Outcome(receipts[rc].status) \in Reach[commands[c].state]
=============================================================================
