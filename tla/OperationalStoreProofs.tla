------------------------ MODULE OperationalStoreProofs ------------------------
(***************************************************************************)
(* Proofs about the operational store, for every choice of its constants.  *)
(***************************************************************************)
EXTENDS OperationalStore, TLAPS

USE StoreConstants

-----------------------------------------------------------------------------
(* Every statement keeps the tables well typed.                            *)

LEMMA ResourceType == TypeOK /\ ResourceStatement => TypeOK'
<1> SUFFICES ASSUME TypeOK, NEW r \in ResourceIds, NEW g \in Generations,
                    \/ \E h \in Hashes, p \in Paths, current \in BOOLEAN :
                         InsertResource(r, g, h, p, current)
                    \/ \E p \in Paths, current \in BOOLEAN :
                         UpdateResource(r, g, p, current)
                    \/ DeleteResource(r, g)
             PROVE  TypeOK'
  BY DEF ResourceStatement
<1>1. <<r, g>> \in ResourceIds \X Generations
  OBVIOUS
<1>2. ASSUME NEW h \in Hashes, NEW p \in Paths, NEW current \in BOOLEAN,
             InsertResource(r, g, h, p, current)
      PROVE  TypeOK'
  BY <1>1, <1>2 DEF TypeOK, InsertResource, ResourceRow
<1>3. ASSUME NEW p \in Paths, NEW current \in BOOLEAN,
             UpdateResource(r, g, p, current)
      PROVE  TypeOK'
  BY <1>1, <1>3 DEF TypeOK, UpdateResource, ResourceRow
<1>4. ASSUME DeleteResource(r, g) PROVE TypeOK'
  BY <1>1, <1>4 DEF TypeOK, DeleteResource
<1> QED BY <1>2, <1>3, <1>4

LEMMA CommandType == TypeOK /\ CommandStatement => TypeOK'
<1> SUFFICES ASSUME TypeOK, NEW c \in CommandIds,
                    \/ \E t \in TaskIds, g \in Generations \ {0}, trace \in TraceIds,
                          h \in Hashes, s \in CommandStates :
                            InsertCommand(c, t, g, trace, h, s)
                    \/ \E s \in CommandStates : UpdateCommandState(c, s)
                    \/ DeleteCommand(c)
             PROVE  TypeOK'
  BY DEF CommandStatement
<1>1. ASSUME NEW t \in TaskIds, NEW g \in Generations \ {0}, NEW trace \in TraceIds,
             NEW h \in Hashes, NEW s \in CommandStates,
             InsertCommand(c, t, g, trace, h, s)
      PROVE  TypeOK'
  BY <1>1 DEF TypeOK, InsertCommand, CommandRow
<1>2. ASSUME NEW s \in CommandStates, UpdateCommandState(c, s)
      PROVE  TypeOK'
  BY <1>2 DEF TypeOK, UpdateCommandState, CommandRow
<1>3. ASSUME DeleteCommand(c) PROVE TypeOK'
  BY <1>3 DEF TypeOK, DeleteCommand
<1> QED BY <1>1, <1>2, <1>3

LEMMA RunType == TypeOK /\ RunStatement => TypeOK'
<1> SUFFICES ASSUME TypeOK, NEW r \in RunIds,
                    \/ \E c \in CommandIds, t \in TaskIds, g \in Generations \ {0},
                          trace \in TraceIds, n \in AttemptNumbers :
                            InsertRun(r, c, t, g, trace, n)
                    \/ \E n \in AttemptNumbers : UpdateRunAttempt(r, n)
                    \/ DeleteRun(r)
             PROVE  TypeOK'
  BY DEF RunStatement
<1>1. ASSUME NEW c \in CommandIds, NEW t \in TaskIds, NEW g \in Generations \ {0},
             NEW trace \in TraceIds, NEW n \in AttemptNumbers,
             InsertRun(r, c, t, g, trace, n)
      PROVE  TypeOK'
  BY <1>1 DEF TypeOK, InsertRun, RunRow
<1>2. ASSUME NEW n \in AttemptNumbers, UpdateRunAttempt(r, n)
      PROVE  TypeOK'
  BY <1>2 DEF TypeOK, UpdateRunAttempt, RunRow
<1>3. ASSUME DeleteRun(r) PROVE TypeOK'
  BY <1>3 DEF TypeOK, DeleteRun
<1> QED BY <1>1, <1>2, <1>3

LEMMA FenceLeaseType == TypeOK /\ (FenceStatement \/ LeaseStatement) => TypeOK'
<1>1. ASSUME TypeOK, NEW x \in Executors, NEW e \in Epochs,
             InsertFence(x, e) \/ UpdateFence(x, e)
      PROVE  TypeOK'
  BY <1>1 DEF TypeOK, InsertFence, UpdateFence, FenceRow
<1>2. ASSUME TypeOK, DeleteFence PROVE TypeOK'
  BY <1>2 DEF TypeOK, DeleteFence
<1>3. ASSUME TypeOK, NEW c \in CommandIds, NEW r \in RunIds, NEW e \in Epochs,
             InsertLease(c, r, e)
      PROVE  TypeOK'
  BY <1>3 DEF TypeOK, InsertLease, LeaseRow
<1>4. ASSUME TypeOK, NEW c \in CommandIds, DeleteLease(c) PROVE TypeOK'
  BY <1>4 DEF TypeOK, DeleteLease
<1> QED BY <1>1, <1>2, <1>3, <1>4 DEF FenceStatement, LeaseStatement

LEMMA ReceiptType == TypeOK /\ ReceiptStatement => TypeOK'
<1> SUFFICES ASSUME TypeOK, NEW rc \in ReceiptIds, NEW c \in CommandIds,
                    NEW trace \in TraceIds, NEW r \in RunIds \cup {Null},
                    NEW step \in StepIds, NEW kind \in ReceiptKinds,
                    NEW key \in IdempotencyKeys, NEW status \in ReceiptStatuses,
                    InsertReceipt(rc, c, trace, r, step, kind, key, status)
             PROVE  TypeOK'
  BY DEF ReceiptStatement
<1> QED BY DEF TypeOK, InsertReceipt, ReceiptRow

LEMMA ApprovalType == TypeOK /\ ApprovalStatement => TypeOK'
<1>1. ASSUME TypeOK, NEW a \in ApprovalIds, NEW row \in ApprovalRow,
             InsertApproval(a, row)
      PROVE  TypeOK'
  BY <1>1 DEF TypeOK, InsertApproval
<1>2. ASSUME TypeOK, NEW a \in ApprovalIds, NEW decision \in {"approved", "rejected"},
             NEW method \in {Null, "local-bridge", "signature"},
             NEW signer \in {Null, "set"},
             DecideApproval(a, decision, method, signer)
      PROVE  TypeOK'
  <2> DEFINE row == [approvals[a] EXCEPT !.decision = decision, !.decidedAt = "set",
                                         !.method = method, !.signer = signer]
  <2>1. approvals[a] \in ApprovalRow
    BY <1>2 DEF TypeOK, DecideApproval
  <2>2. row \in ApprovalRow
    BY <2>1 DEF ApprovalRow
  <2>3. approvals' = [approvals EXCEPT ![a] = row]
    BY <1>2 DEF DecideApproval
  <2>4. UNCHANGED <<resources, commands, runs, fence, leases, receipts, events, outbox>>
    BY <1>2 DEF DecideApproval
  <2> HIDE DEF row
  <2> QED BY <1>2, <2>2, <2>3, <2>4 DEF TypeOK
<1> QED BY <1>1, <1>2 DEF ApprovalStatement

LEMMA EventType == TypeOK /\ EventStatement => TypeOK'
<1>1. ASSUME TypeOK, NEW e \in EventIds, NEW row \in EventRow, InsertEvent(e, row)
      PROVE  TypeOK'
  BY <1>1 DEF TypeOK, InsertEvent
<1>2. ASSUME TypeOK, NEW e \in EventIds, NEW d \in Destinations, NEW s \in OutboxRow,
             InsertOutbox(e, d, s) \/ UpdateOutbox(e, d, s)
      PROVE  TypeOK'
  <2>1. <<e, d>> \in EventIds \X Destinations
    OBVIOUS
  <2> QED BY <1>2, <2>1 DEF TypeOK, InsertOutbox, UpdateOutbox
<1>3. ASSUME TypeOK, NEW e \in EventIds, NEW d \in Destinations, DeleteOutbox(e, d)
      PROVE  TypeOK'
  <2>1. <<e, d>> \in EventIds \X Destinations
    OBVIOUS
  <2> QED BY <1>3, <2>1 DEF TypeOK, DeleteOutbox
<1> QED BY <1>1, <1>2, <1>3 DEF EventStatement

(* Type correctness of the store: no statement the schema accepts leaves a *)
(* row outside its table's row type.                                       *)
THEOREM TypeCorrect == Spec => []TypeOK
<1>1. Init => TypeOK
  BY DEF Init, TypeOK
<1>2. TypeOK /\ [Next]_vars => TypeOK'
  <2>1. TypeOK /\ UNCHANGED vars => TypeOK'
    BY DEF TypeOK, vars
  <2> QED
    BY <2>1, ResourceType, CommandType, RunType, FenceLeaseType, ReceiptType,
       ApprovalType, EventType DEF Next
<1> QED BY <1>1, <1>2, PTL DEF Spec

-----------------------------------------------------------------------------
(* A statement changes the table it names and no other.                    *)

LEMMA Frames ==
  /\ ResourceStatement =>
       UNCHANGED <<commands, runs, fence, leases, receipts, approvals, events, outbox>>
  /\ CommandStatement =>
       UNCHANGED <<resources, runs, fence, leases, receipts, approvals, events, outbox>>
  /\ RunStatement =>
       UNCHANGED <<resources, commands, fence, leases, receipts, approvals, events, outbox>>
  /\ FenceStatement =>
       UNCHANGED <<resources, commands, runs, leases, receipts, approvals, events, outbox>>
  /\ LeaseStatement =>
       UNCHANGED <<resources, commands, runs, fence, receipts, approvals, events, outbox>>
  /\ ReceiptStatement =>
       UNCHANGED <<resources, commands, runs, fence, leases, approvals, events, outbox>>
  /\ ApprovalStatement =>
       UNCHANGED <<resources, commands, runs, fence, leases, receipts, events, outbox>>
  /\ EventStatement =>
       UNCHANGED <<resources, commands, runs, fence, leases, receipts, approvals>>
<1>1. ASSUME ResourceStatement
      PROVE  UNCHANGED <<commands, runs, fence, leases, receipts, approvals, events, outbox>>
  BY <1>1 DEF ResourceStatement, InsertResource, UpdateResource, DeleteResource
<1>2. ASSUME CommandStatement
      PROVE  UNCHANGED <<resources, runs, fence, leases, receipts, approvals, events, outbox>>
  BY <1>2 DEF CommandStatement, InsertCommand, UpdateCommandState, DeleteCommand
<1>3. ASSUME RunStatement
      PROVE  UNCHANGED <<resources, commands, fence, leases, receipts, approvals, events, outbox>>
  BY <1>3 DEF RunStatement, InsertRun, UpdateRunAttempt, DeleteRun
<1>4. ASSUME FenceStatement
      PROVE  UNCHANGED <<resources, commands, runs, leases, receipts, approvals, events, outbox>>
  BY <1>4 DEF FenceStatement, InsertFence, UpdateFence, DeleteFence
<1>5. ASSUME LeaseStatement
      PROVE  UNCHANGED <<resources, commands, runs, fence, receipts, approvals, events, outbox>>
  BY <1>5 DEF LeaseStatement, InsertLease, DeleteLease
<1>6. ASSUME ReceiptStatement
      PROVE  UNCHANGED <<resources, commands, runs, fence, leases, approvals, events, outbox>>
  BY <1>6 DEF ReceiptStatement, InsertReceipt
<1>7. ASSUME ApprovalStatement
      PROVE  UNCHANGED <<resources, commands, runs, fence, leases, receipts, events, outbox>>
  BY <1>7 DEF ApprovalStatement, InsertApproval, DecideApproval
<1>8. ASSUME EventStatement
      PROVE  UNCHANGED <<resources, commands, runs, fence, leases, receipts, approvals>>
  BY <1>8 DEF EventStatement, InsertEvent, InsertOutbox, UpdateOutbox, DeleteOutbox
<1> QED BY <1>1, <1>2, <1>3, <1>4, <1>5, <1>6, <1>7, <1>8

(* What a statement does to the rows of its table that others rely on.     *)

LEMMA ResourcesKept ==
  ASSUME TypeOK, ResourceStatement, NEW rg \in ResourceIds \X Generations,
         resources[rg] # NoRow,
         \/ \E c \in CommandIds : commands[c] # NoRow /\ commands[c].task = rg[1]
                                    /\ commands[c].generation = rg[2]
         \/ \E e \in EventIds : events[e] # NoRow /\ events[e].task = rg[1]
                                  /\ events[e].generation = rg[2]
  PROVE  resources'[rg] # NoRow /\ resources'[rg].hash = resources[rg].hash
<1>1. PICK r \in ResourceIds, g \in Generations :
        \/ \E h \in Hashes, p \in Paths, current \in BOOLEAN :
             InsertResource(r, g, h, p, current)
        \/ \E p \in Paths, current \in BOOLEAN : UpdateResource(r, g, p, current)
        \/ DeleteResource(r, g)
  BY DEF ResourceStatement
<1>2. ASSUME NEW h \in Hashes, NEW p \in Paths, NEW current \in BOOLEAN,
             InsertResource(r, g, h, p, current)
      PROVE  resources'[rg] = resources[rg]
  BY <1>2 DEF InsertResource, TypeOK
<1>3. ASSUME NEW p \in Paths, NEW current \in BOOLEAN, UpdateResource(r, g, p, current)
      PROVE  resources'[rg] # NoRow /\ resources'[rg].hash = resources[rg].hash
  <2>1. resources'[rg] = IF rg = <<r, g>>
                           THEN [hash |-> resources[rg].hash, path |-> p, current |-> current]
                           ELSE resources[rg]
    BY <1>3 DEF UpdateResource, TypeOK
  <2>2. resources[rg].hash \in Hashes
    BY DEF TypeOK, ResourceRow
  <2>3. [hash |-> resources[rg].hash, path |-> p, current |-> current] \in ResourceRow
    BY <2>2 DEF ResourceRow
  <2> QED BY <2>1, <2>3
<1>4. ASSUME DeleteResource(r, g) PROVE resources'[rg] = resources[rg]
  BY <1>4 DEF DeleteResource, ResourceReferenced, TypeOK
<1> QED BY <1>1, <1>2, <1>3, <1>4

LEMMA CommandsKept ==
  ASSUME TypeOK, CommandStatement, NEW c \in CommandIds, commands[c] # NoRow
  PROVE  \/ /\ commands'[c] # NoRow
            /\ commands'[c].task = commands[c].task
            /\ commands'[c].generation = commands[c].generation
            /\ commands'[c].trace = commands[c].trace
            /\ commands'[c].hash = commands[c].hash
         \/ ~CommandReferenced(c)
<1>1. PICK d \in CommandIds :
        \/ \E t \in TaskIds, g \in Generations \ {0}, trace \in TraceIds,
              h \in Hashes, s \in CommandStates : InsertCommand(d, t, g, trace, h, s)
        \/ \E s \in CommandStates : UpdateCommandState(d, s)
        \/ DeleteCommand(d)
  BY DEF CommandStatement
<1>2. ASSUME NEW t \in TaskIds, NEW g \in Generations \ {0}, NEW trace \in TraceIds,
             NEW h \in Hashes, NEW s \in CommandStates, InsertCommand(d, t, g, trace, h, s)
      PROVE  commands'[c] = commands[c]
  BY <1>2 DEF InsertCommand, TypeOK
<1>3. ASSUME NEW s \in CommandStates, UpdateCommandState(d, s)
      PROVE  /\ commands'[c] # NoRow
             /\ commands'[c].task = commands[c].task
             /\ commands'[c].generation = commands[c].generation
             /\ commands'[c].trace = commands[c].trace
             /\ commands'[c].hash = commands[c].hash
  <2>1. commands'[c] = IF c = d THEN [commands[c] EXCEPT !.state = s] ELSE commands[c]
    BY <1>3 DEF UpdateCommandState, TypeOK
  <2>2. commands[c] \in CommandRow
    BY DEF TypeOK
  <2>3. [commands[c] EXCEPT !.state = s] \in CommandRow
    BY <2>2 DEF CommandRow
  <2> QED BY <2>1, <2>2, <2>3 DEF CommandRow
<1>4. ASSUME DeleteCommand(d) PROVE commands'[c] = commands[c] \/ ~CommandReferenced(c)
  BY <1>4 DEF DeleteCommand, TypeOK
<1> QED BY <1>1, <1>2, <1>3, <1>4

LEMMA RunsKept ==
  ASSUME TypeOK, RunStatement, NEW r \in RunIds, runs[r] # NoRow
  PROVE  \/ /\ runs'[r] # NoRow
            /\ runs'[r].command = runs[r].command
            /\ runs'[r].task = runs[r].task
            /\ runs'[r].generation = runs[r].generation
            /\ runs'[r].trace = runs[r].trace
         \/ ~RunReferenced(r)
<1>1. PICK q \in RunIds :
        \/ \E c \in CommandIds, t \in TaskIds, g \in Generations \ {0},
              trace \in TraceIds, n \in AttemptNumbers : InsertRun(q, c, t, g, trace, n)
        \/ \E n \in AttemptNumbers : UpdateRunAttempt(q, n)
        \/ DeleteRun(q)
  BY DEF RunStatement
<1>2. ASSUME NEW c \in CommandIds, NEW t \in TaskIds, NEW g \in Generations \ {0},
             NEW trace \in TraceIds, NEW n \in AttemptNumbers,
             InsertRun(q, c, t, g, trace, n)
      PROVE  runs'[r] = runs[r]
  BY <1>2 DEF InsertRun, TypeOK
<1>3. ASSUME NEW n \in AttemptNumbers, UpdateRunAttempt(q, n)
      PROVE  /\ runs'[r] # NoRow
             /\ runs'[r].command = runs[r].command
             /\ runs'[r].task = runs[r].task
             /\ runs'[r].generation = runs[r].generation
             /\ runs'[r].trace = runs[r].trace
  <2>1. runs'[r] = IF r = q THEN [runs[r] EXCEPT !.attempt = n] ELSE runs[r]
    BY <1>3 DEF UpdateRunAttempt, TypeOK
  <2>2. runs[r] \in RunRow
    BY DEF TypeOK
  <2>3. [runs[r] EXCEPT !.attempt = n] \in RunRow
    BY <2>2 DEF RunRow
  <2> QED BY <2>1, <2>2, <2>3 DEF RunRow
<1>4. ASSUME DeleteRun(q) PROVE runs'[r] = runs[r] \/ ~RunReferenced(r)
  BY <1>4 DEF DeleteRun, TypeOK
<1> QED BY <1>1, <1>2, <1>3, <1>4

(* Where a row of a table comes from: it was there with the same key, or   *)
(* it was just inserted and met the demands of its foreign keys.           *)

LEMMA CommandOrigin ==
  ASSUME TypeOK, CommandStatement, NEW c \in CommandIds, commands'[c] # NoRow
  PROVE  \/ /\ commands[c] # NoRow
            /\ commands'[c].task = commands[c].task
            /\ commands'[c].generation = commands[c].generation
            /\ commands'[c].hash = commands[c].hash
         \/ /\ ResourceExists(commands'[c].task, commands'[c].generation)
            /\ resources[<<commands'[c].task, commands'[c].generation>>].hash
                 = commands'[c].hash
<1>1. PICK d \in CommandIds :
        \/ \E t \in TaskIds, g \in Generations \ {0}, trace \in TraceIds,
              h \in Hashes, s \in CommandStates : InsertCommand(d, t, g, trace, h, s)
        \/ \E s \in CommandStates : UpdateCommandState(d, s)
        \/ DeleteCommand(d)
  BY DEF CommandStatement
<1>2. CASE commands[c] # NoRow
  <2>2. CASE c = d
    <3>1. \E s \in CommandStates : UpdateCommandState(d, s)
      BY <1>1, <1>2, <2>2 DEF InsertCommand, DeleteCommand, TypeOK
    <3>2. PICK s \in CommandStates : commands'[c] = [commands[c] EXCEPT !.state = s]
      BY <3>1, <2>2 DEF UpdateCommandState, TypeOK
    <3>3. commands[c] \in CommandRow
      BY <1>2 DEF TypeOK
    <3> QED BY <1>2, <3>2, <3>3 DEF CommandRow
  <2>3. CASE c # d
    BY <1>1, <1>2, <2>3 DEF InsertCommand, UpdateCommandState, DeleteCommand, TypeOK
  <2> QED BY <2>2, <2>3
<1>3. CASE commands[c] = NoRow
  <2>a. ~(\E s \in CommandStates : UpdateCommandState(d, s)) /\ ~DeleteCommand(d)
    BY <1>3 DEF UpdateCommandState, DeleteCommand, TypeOK
  <2>b. PICK t \in TaskIds, g \in Generations \ {0}, trace \in TraceIds,
             h \in Hashes, s \in CommandStates : InsertCommand(d, t, g, trace, h, s)
    BY <1>1, <2>a
  <2>c. c = d
    BY <1>3, <2>b DEF InsertCommand, TypeOK
  <2>1. InsertCommand(c, t, g, trace, h, s)
    BY <2>b, <2>c
  <2>2. commands'[c] = [task |-> t, generation |-> g, trace |-> trace,
                        hash |-> h, state |-> s]
    BY <2>1 DEF InsertCommand, TypeOK
  <2> QED BY <2>1, <2>2 DEF InsertCommand
<1> QED BY <1>2, <1>3

LEMMA RunOrigin ==
  ASSUME TypeOK, RunStatement, NEW r \in RunIds, runs'[r] # NoRow
  PROVE  \/ /\ runs[r] # NoRow
            /\ runs'[r].command = runs[r].command
            /\ runs'[r].task = runs[r].task
            /\ runs'[r].generation = runs[r].generation
            /\ runs'[r].trace = runs[r].trace
         \/ CommandIs(runs'[r].command, runs'[r].task, runs'[r].generation, runs'[r].trace)
<1>1. PICK q \in RunIds :
        \/ \E c \in CommandIds, t \in TaskIds, g \in Generations \ {0},
              trace \in TraceIds, n \in AttemptNumbers : InsertRun(q, c, t, g, trace, n)
        \/ \E n \in AttemptNumbers : UpdateRunAttempt(q, n)
        \/ DeleteRun(q)
  BY DEF RunStatement
<1>2. CASE runs[r] # NoRow
  <2>1. CASE r = q
    <3>1. \E n \in AttemptNumbers : UpdateRunAttempt(q, n)
      BY <1>1, <1>2, <2>1 DEF InsertRun, DeleteRun, TypeOK
    <3>2. PICK n \in AttemptNumbers : runs'[r] = [runs[r] EXCEPT !.attempt = n]
      BY <3>1, <2>1 DEF UpdateRunAttempt, TypeOK
    <3>3. runs[r] \in RunRow
      BY <1>2 DEF TypeOK
    <3> QED BY <1>2, <3>2, <3>3 DEF RunRow
  <2>2. CASE r # q
    BY <1>1, <1>2, <2>2 DEF InsertRun, UpdateRunAttempt, DeleteRun, TypeOK
  <2> QED BY <2>1, <2>2
<1>3. CASE runs[r] = NoRow
  <2>1. PICK c \in CommandIds, t \in TaskIds, g \in Generations \ {0},
             trace \in TraceIds, n \in AttemptNumbers : InsertRun(r, c, t, g, trace, n)
    BY <1>1, <1>3 DEF InsertRun, UpdateRunAttempt, DeleteRun, TypeOK
  <2>2. runs'[r] = [command |-> c, task |-> t, generation |-> g,
                    trace |-> trace, attempt |-> n]
    BY <2>1 DEF InsertRun, TypeOK
  <2> QED BY <2>1, <2>2 DEF InsertRun
<1> QED BY <1>2, <1>3

LEMMA ReceiptOrigin ==
  ASSUME TypeOK, ReceiptStatement, NEW rc \in ReceiptIds
  PROVE  \/ receipts'[rc] = receipts[rc]
         \/ /\ receipts[rc] = NoRow
            /\ CommandHasTrace(receipts'[rc].command, receipts'[rc].trace)
            /\ receipts'[rc].run # Null =>
                 RunIs(receipts'[rc].run, receipts'[rc].command, receipts'[rc].trace)
            /\ receipts'[rc].kind = "terminal" => Undecided(receipts'[rc].command)
            /\ \A q \in ReceiptIds \ {rc} : receipts'[q] = receipts[q]
<1>1. PICK q \in ReceiptIds, c \in CommandIds, trace \in TraceIds,
           r \in RunIds \cup {Null}, step \in StepIds, kind \in ReceiptKinds,
           key \in IdempotencyKeys, status \in ReceiptStatuses :
             InsertReceipt(q, c, trace, r, step, kind, key, status)
  BY DEF ReceiptStatement
<1>2. CASE rc = q
  <2>1. receipts'[rc] = [command |-> c, trace |-> trace, run |-> r, step |-> step,
                         kind |-> kind, key |-> key, status |-> status]
    BY <1>1, <1>2 DEF InsertReceipt, TypeOK
  <2> QED BY <1>1, <1>2, <2>1 DEF InsertReceipt, TypeOK
<1>3. CASE rc # q
  BY <1>1, <1>3 DEF InsertReceipt, TypeOK
<1> QED BY <1>2, <1>3

LEMMA ApprovalOrigin ==
  ASSUME TypeOK, ApprovalStatement, NEW a \in ApprovalIds, approvals'[a] # NoRow
  PROVE  \/ /\ approvals[a] # NoRow
            /\ approvals'[a].class = approvals[a].class
            /\ approvals'[a].run = approvals[a].run
            /\ approvals'[a].task = approvals[a].task
            /\ approvals'[a].generation = approvals[a].generation
            /\ approvals'[a].trace = approvals[a].trace
            /\ approvals'[a] # approvals[a] => approvals[a].decision = "pending"
         \/ approvals[a] = NoRow /\ SubjectCheck(approvals'[a])
<1>1. PICK b \in ApprovalIds :
        \/ \E row \in ApprovalRow : InsertApproval(b, row)
        \/ \E decision \in {"approved", "rejected"},
              method \in {Null, "local-bridge", "signature"}, signer \in {Null, "set"} :
             DecideApproval(b, decision, method, signer)
  BY DEF ApprovalStatement
<1>2. ASSUME NEW row \in ApprovalRow, InsertApproval(b, row)
      PROVE  approvals'[a] = approvals[a]
               \/ (approvals[a] = NoRow /\ SubjectCheck(approvals'[a]))
  <2>1. approvals' = [approvals EXCEPT ![b] = row] /\ SubjectCheck(row)
          /\ approvals[b] = NoRow
    BY <1>2 DEF InsertApproval
  <2>2. approvals'[a] = IF a = b THEN row ELSE approvals[a]
    BY <2>1 DEF TypeOK
  <2> QED BY <2>1, <2>2
<1>3. ASSUME NEW decision \in {"approved", "rejected"},
             NEW method \in {Null, "local-bridge", "signature"},
             NEW signer \in {Null, "set"}, DecideApproval(b, decision, method, signer)
      PROVE  /\ approvals[a] # NoRow
             /\ approvals'[a].class = approvals[a].class
             /\ approvals'[a].run = approvals[a].run
             /\ approvals'[a].task = approvals[a].task
             /\ approvals'[a].generation = approvals[a].generation
             /\ approvals'[a].trace = approvals[a].trace
             /\ approvals'[a] # approvals[a] => approvals[a].decision = "pending"
  <2> DEFINE row == [approvals[b] EXCEPT !.decision = decision, !.decidedAt = "set",
                                         !.method = method, !.signer = signer]
  <2>1. approvals' = [approvals EXCEPT ![b] = row] /\ approvals[b] # NoRow
          /\ approvals[b].decision = "pending"
    BY <1>3 DEF DecideApproval, MayDecide
  <2>2. approvals[b] \in ApprovalRow
    BY <2>1 DEF TypeOK
  <2>3. /\ row.class = approvals[b].class /\ row.run = approvals[b].run
        /\ row.task = approvals[b].task /\ row.generation = approvals[b].generation
        /\ row.trace = approvals[b].trace
    BY <2>2 DEF ApprovalRow
  <2> HIDE DEF row
  <2>4. approvals'[a] = IF a = b THEN row ELSE approvals[a]
    BY <2>1 DEF TypeOK
  <2> QED BY <2>1, <2>3, <2>4
<1> QED BY <1>1, <1>2, <1>3

LEMMA EventOrigin ==
  ASSUME TypeOK, EventStatement, NEW e \in EventIds
  PROVE  \/ events'[e] = events[e]
         \/ /\ events[e] = NoRow
            /\ EventSubjectExists(events'[e])
            /\ InSequence(events'[e])
            /\ \A f \in EventIds \ {e} : events'[f] = events[f]
<1>1. PICK f \in EventIds :
        \/ \E row \in EventRow : InsertEvent(f, row)
        \/ \E d \in Destinations :
             \/ \E s \in OutboxRow : InsertOutbox(f, d, s) \/ UpdateOutbox(f, d, s)
             \/ DeleteOutbox(f, d)
  BY DEF EventStatement
<1>2. ASSUME NEW row \in EventRow, InsertEvent(f, row)
      PROVE  \/ events'[e] = events[e]
             \/ /\ events[e] = NoRow
                /\ EventSubjectExists(events'[e])
                /\ InSequence(events'[e])
                /\ \A g \in EventIds \ {e} : events'[g] = events[g]
  <2>1. events' = [events EXCEPT ![f] = row] /\ events[f] = NoRow
          /\ EventSubjectExists(row) /\ InSequence(row)
    BY <1>2 DEF InsertEvent
  <2>2. \A g \in EventIds : events'[g] = IF g = f THEN row ELSE events[g]
    BY <2>1 DEF TypeOK
  <2> QED BY <2>1, <2>2
<1>3. ASSUME NEW d \in Destinations,
             \/ \E s \in OutboxRow : InsertOutbox(f, d, s) \/ UpdateOutbox(f, d, s)
             \/ DeleteOutbox(f, d)
      PROVE  events'[e] = events[e]
  BY <1>3 DEF InsertOutbox, UpdateOutbox, DeleteOutbox
<1> QED BY <1>1, <1>2, <1>3

-----------------------------------------------------------------------------
(* Evidence coherence.                                                     *)

LEMMA CommandsCoherentStep ==
  TypeOK /\ CommandsCoherent /\ [Next]_vars => CommandsCoherent'
<1> SUFFICES ASSUME TypeOK, CommandsCoherent, [Next]_vars PROVE CommandsCoherent'
  OBVIOUS
<1>1. CASE UNCHANGED <<resources, commands>>
  BY <1>1 DEF CommandsCoherent, CommandSpecified, ResourceExists
<1>2. CASE ResourceStatement
  <2>1. UNCHANGED commands
    BY <1>2, Frames
  <2>2. SUFFICES ASSUME NEW c \in CommandIds, commands[c] # NoRow
                 PROVE  CommandSpecified(c)'
    BY <2>1 DEF CommandsCoherent
  <2> DEFINE key == <<commands[c].task, commands[c].generation>>
  <2>3. key \in ResourceIds \X Generations
    BY <2>2 DEF TypeOK, CommandRow
  <2>4. resources[key] # NoRow /\ resources[key].hash = commands[c].hash
    BY <2>2 DEF CommandsCoherent, CommandSpecified, ResourceExists
  <2>5. resources'[key] # NoRow /\ resources'[key].hash = resources[key].hash
    BY <1>2, <2>2, <2>3, <2>4, ResourcesKept
  <2> QED BY <2>1, <2>2, <2>4, <2>5 DEF CommandSpecified, ResourceExists
<1>3. CASE CommandStatement
  <2>1. UNCHANGED resources
    BY <1>3, Frames
  <2>2. ASSUME NEW c \in CommandIds, commands'[c] # NoRow
        PROVE  CommandSpecified(c)'
    BY <1>3, <2>1, <2>2, CommandOrigin
       DEF CommandsCoherent, CommandSpecified, ResourceExists
  <2> QED BY <2>2 DEF CommandsCoherent
<1> QED BY <1>1, <1>2, <1>3, Frames DEF Next, vars

LEMMA RunsCoherentStep == TypeOK /\ RunsCoherent /\ [Next]_vars => RunsCoherent'
<1> SUFFICES ASSUME TypeOK, RunsCoherent, [Next]_vars PROVE RunsCoherent'
  OBVIOUS
<1> USE DEF RunTraced, CommandIs, CommandHasTrace
<1>1. CASE UNCHANGED <<commands, runs>>
  BY <1>1 DEF RunsCoherent
<1>2. CASE CommandStatement
  <2>1. UNCHANGED runs
    BY <1>2, Frames
  <2>2. ASSUME NEW r \in RunIds, runs[r] # NoRow
        PROVE  RunTraced(r)'
    <3>1. RunTraced(r) /\ runs[r].command \in CommandIds
      BY <2>2 DEF RunsCoherent, TypeOK, RunRow
    <3>2. CommandReferenced(runs[r].command)
      BY <2>2 DEF CommandReferenced
    <3> QED BY <1>2, <2>1, <3>1, <3>2, CommandsKept
  <2> QED BY <2>1, <2>2 DEF RunsCoherent
<1>3. CASE RunStatement
  <2>1. UNCHANGED commands
    BY <1>3, Frames
  <2>2. ASSUME NEW r \in RunIds, runs'[r] # NoRow
        PROVE  RunTraced(r)'
    BY <1>3, <2>1, <2>2, RunOrigin DEF RunsCoherent
  <2> QED BY <2>2 DEF RunsCoherent
<1> QED BY <1>1, <1>2, <1>3, Frames DEF Next, vars

LEMMA ReceiptsCoherentStep ==
  TypeOK /\ ReceiptsCoherent /\ [Next]_vars => ReceiptsCoherent'
<1> SUFFICES ASSUME TypeOK, ReceiptsCoherent, [Next]_vars PROVE ReceiptsCoherent'
  OBVIOUS
<1> USE DEF CommandHasTrace, RunIs
<1>1. CASE UNCHANGED <<commands, runs, receipts>>
  BY <1>1 DEF ReceiptsCoherent
<1>2. CASE CommandStatement
  <2>1. UNCHANGED <<runs, receipts>>
    BY <1>2, Frames
  <2>2. ASSUME NEW rc \in ReceiptIds, receipts[rc] # NoRow
        PROVE  CommandHasTrace(receipts[rc].command, receipts[rc].trace)'
    <3>1. CommandHasTrace(receipts[rc].command, receipts[rc].trace)
            /\ receipts[rc].command \in CommandIds
      BY <2>2 DEF ReceiptsCoherent, TypeOK, ReceiptRow
    <3>2. CommandReferenced(receipts[rc].command)
      BY <2>2 DEF CommandReferenced
    <3> QED BY <1>2, <2>1, <3>1, <3>2, CommandsKept
  <2> QED BY <2>1, <2>2 DEF ReceiptsCoherent
<1>3. CASE RunStatement
  <2>1. UNCHANGED <<commands, receipts>>
    BY <1>3, Frames
  <2>2. ASSUME NEW rc \in ReceiptIds, receipts[rc] # NoRow, receipts[rc].run # Null
        PROVE  RunIs(receipts[rc].run, receipts[rc].command, receipts[rc].trace)'
    <3>1. RunIs(receipts[rc].run, receipts[rc].command, receipts[rc].trace)
            /\ receipts[rc].run \in RunIds
      BY <2>2 DEF ReceiptsCoherent, TypeOK, ReceiptRow
    <3>2. RunReferenced(receipts[rc].run)
      BY <2>2 DEF RunReferenced
    <3> QED BY <1>3, <2>1, <3>1, <3>2, RunsKept
  <2> QED BY <2>1, <2>2 DEF ReceiptsCoherent
<1>4. CASE ReceiptStatement
  <2>1. UNCHANGED <<commands, runs>>
    BY <1>4, Frames
  <2>2. ASSUME NEW rc \in ReceiptIds, receipts'[rc] # NoRow
        PROVE  /\ CommandHasTrace(receipts[rc].command, receipts[rc].trace)'
               /\ receipts'[rc].run # Null =>
                    RunIs(receipts[rc].run, receipts[rc].command, receipts[rc].trace)'
    BY <1>4, <2>1, <2>2, ReceiptOrigin DEF ReceiptsCoherent
  <2> QED BY <2>2 DEF ReceiptsCoherent
<1> QED BY <1>1, <1>2, <1>3, <1>4, Frames DEF Next, vars

LEMMA ApprovalsCoherentStep ==
  TypeOK /\ RunsCoherent /\ RunsCoherent' /\ ApprovalsCoherent /\ [Next]_vars
    => ApprovalsCoherent'
<1> SUFFICES ASSUME TypeOK, RunsCoherent, RunsCoherent', ApprovalsCoherent, [Next]_vars
             PROVE  ApprovalsCoherent'
  OBVIOUS
<1>1. ASSUME UNCHANGED approvals,
             NEW a \in ApprovalIds, approvals[a] # NoRow,
             approvals[a].class # "routine_change"
      PROVE  /\ runs'[approvals[a].run] # NoRow
             /\ runs'[approvals[a].run].task = approvals[a].task
             /\ runs'[approvals[a].run].generation = approvals[a].generation
             /\ runs'[approvals[a].run].trace = approvals[a].trace
             /\ approvals[a].run \in RunIds
  <2>1. /\ approvals[a].run \in RunIds /\ runs[approvals[a].run] # NoRow
        /\ runs[approvals[a].run].task = approvals[a].task
        /\ runs[approvals[a].run].generation = approvals[a].generation
        /\ runs[approvals[a].run].trace = approvals[a].trace
    BY <1>1 DEF ApprovalsCoherent, RunTraced
  <2>2. CASE RunStatement
    <3>1. RunReferenced(approvals[a].run)
      BY <1>1 DEF RunReferenced
    <3> QED BY <2>1, <2>2, <3>1, RunsKept
  <2>3. CASE UNCHANGED runs
    BY <2>1, <2>3
  <2> QED BY <2>2, <2>3, Frames DEF Next, vars
<1>2. CASE UNCHANGED approvals
  BY <1>1, <1>2 DEF ApprovalsCoherent, RunsCoherent
<1>3. CASE ApprovalStatement
  <2>1. UNCHANGED <<runs, commands, resources>>
    BY <1>3, Frames
  <2>2. ASSUME NEW a \in ApprovalIds, approvals'[a] # NoRow,
               approvals'[a].class # "routine_change"
        PROVE  /\ approvals'[a].run \in RunIds /\ runs[approvals'[a].run] # NoRow
               /\ runs[approvals'[a].run].task = approvals'[a].task
               /\ runs[approvals'[a].run].generation = approvals'[a].generation
               /\ runs[approvals'[a].run].trace = approvals'[a].trace
    <3>1. CASE approvals[a] # NoRow /\ ~SubjectCheck(approvals'[a])
      BY <1>3, <2>2, <3>1, ApprovalOrigin DEF ApprovalsCoherent, RunTraced
    <3>2. CASE SubjectCheck(approvals'[a])
      <4>1. approvals'[a] \in ApprovalRow
        BY <1>3, <2>2, ApprovalType DEF TypeOK
      <4> QED BY <2>2, <3>2, <4>1 DEF SubjectCheck, ApprovalRow
    <3> QED BY <1>3, <2>2, <3>1, <3>2, ApprovalOrigin
  <2> QED BY <2>1, <2>2 DEF ApprovalsCoherent, RunsCoherent, RunTraced
<1> QED BY <1>2, <1>3, Frames DEF Next, vars

LEMMA EventsCoherentStep ==
  TypeOK /\ EventsCoherent /\ [Next]_vars => EventsCoherent'
<1> SUFFICES ASSUME TypeOK, EventsCoherent, [Next]_vars PROVE EventsCoherent'
  OBVIOUS
<1> USE DEF CommandHasTrace, RunIs, ResourceExists
<1>1. CASE UNCHANGED <<resources, commands, runs, events>>
  BY <1>1 DEF EventsCoherent
<1>2. CASE ResourceStatement
  <2>1. UNCHANGED <<commands, runs, events>>
    BY <1>2, Frames
  <2>2. ASSUME NEW e \in EventIds, events[e] # NoRow, events[e].task # Null
        PROVE  resources'[<<events[e].task, events[e].generation>>] # NoRow
    <3> DEFINE key == <<events[e].task, events[e].generation>>
    <3>1. resources[key] # NoRow
      BY <2>2 DEF EventsCoherent
    <3>2. key \in ResourceIds \X Generations
      BY <2>2 DEF EventsCoherent, TypeOK, EventRow
    <3> QED BY <1>2, <2>2, <3>1, <3>2, ResourcesKept
  <2> QED BY <2>1, <2>2 DEF EventsCoherent
<1>3. CASE CommandStatement
  <2>1. UNCHANGED <<resources, runs, events>>
    BY <1>3, Frames
  <2>2. ASSUME NEW e \in EventIds, events[e] # NoRow, events[e].command # Null
        PROVE  CommandHasTrace(events[e].command, events[e].trace)'
    <3>1. CommandHasTrace(events[e].command, events[e].trace)
            /\ events[e].command \in CommandIds
      BY <2>2 DEF EventsCoherent, TypeOK, EventRow
    <3>2. CommandReferenced(events[e].command)
      BY <2>2 DEF CommandReferenced
    <3> QED BY <1>3, <2>1, <3>1, <3>2, CommandsKept
  <2> QED BY <2>1, <2>2 DEF EventsCoherent
<1>4. CASE RunStatement
  <2>1. UNCHANGED <<resources, commands, events>>
    BY <1>4, Frames
  <2>2. ASSUME NEW e \in EventIds, events[e] # NoRow, events[e].run # Null
        PROVE  RunIs(events[e].run, events[e].command, events[e].trace)'
    <3>1. RunIs(events[e].run, events[e].command, events[e].trace)
            /\ events[e].run \in RunIds
      BY <2>2 DEF EventsCoherent, TypeOK, EventRow
    <3>2. RunReferenced(events[e].run)
      BY <2>2 DEF RunReferenced
    <3> QED BY <1>4, <2>1, <3>1, <3>2, RunsKept
  <2> QED BY <2>1, <2>2 DEF EventsCoherent
<1>5. CASE EventStatement
  <2>1. UNCHANGED <<resources, commands, runs>>
    BY <1>5, Frames
  <2>2. ASSUME NEW e \in EventIds, events'[e] # NoRow
        PROVE  /\ events'[e].command # Null =>
                    CommandHasTrace(events'[e].command, events'[e].trace)
               /\ events'[e].run # Null =>
                    RunIs(events'[e].run, events'[e].command, events'[e].trace)
               /\ events'[e].task = Null <=> events'[e].generation = Null
               /\ events'[e].task # Null =>
                    ResourceExists(events'[e].task, events'[e].generation)
    BY <1>5, <2>2, EventOrigin DEF EventsCoherent, EventSubjectExists
  <2> QED BY <2>1, <2>2 DEF EventsCoherent
<1> QED BY <1>1, <1>2, <1>3, <1>4, <1>5, Frames DEF Next, vars

(* Everything recorded about an execution leads to the one specification   *)
(* that was executed.                                                      *)
THEOREM EvidenceStaysCoherent == Spec => []EvidenceCoherent
<1>1. Init => EvidenceCoherent
  BY DEF Init, EvidenceCoherent, CommandsCoherent, RunsCoherent, ReceiptsCoherent,
    ApprovalsCoherent, EventsCoherent
<1>2. TypeOK /\ EvidenceCoherent /\ [Next]_vars => EvidenceCoherent'
  BY CommandsCoherentStep, RunsCoherentStep, ReceiptsCoherentStep,
     ApprovalsCoherentStep, EventsCoherentStep DEF EvidenceCoherent
<1> QED BY <1>1, <1>2, TypeCorrect, PTL DEF Spec

-----------------------------------------------------------------------------
(* Leases and the fence.                                                   *)

LEMMA LeaseAuthorityStep ==
  TypeOK /\ LeaseAuthority /\ [Next]_vars => LeaseAuthority'
<1> SUFFICES ASSUME TypeOK, LeaseAuthority, [Next]_vars PROVE LeaseAuthority'
  OBVIOUS
<1>1. CASE UNCHANGED <<runs, fence, leases>>
  BY <1>1 DEF LeaseAuthority
<1>2. CASE RunStatement
  <2>1. UNCHANGED <<fence, leases>>
    BY <1>2, Frames
  <2>2. ASSUME NEW c \in CommandIds, leases[c] # NoRow
        PROVE  runs'[leases[c].run] # NoRow /\ runs'[leases[c].run].command = c
    <3>1. leases[c].run \in RunIds /\ runs[leases[c].run] # NoRow
            /\ runs[leases[c].run].command = c
      BY <2>2 DEF LeaseAuthority, TypeOK, LeaseRow
    <3>2. RunReferenced(leases[c].run)
      BY <2>2 DEF RunReferenced
    <3> QED BY <1>2, <3>1, <3>2, RunsKept
  <2> QED BY <2>1, <2>2 DEF LeaseAuthority
<1>3. CASE FenceStatement
  <2>1. UNCHANGED <<runs, leases>>
    BY <1>3, Frames
  <2>2. \A c \in CommandIds : leases[c] = NoRow
    BY <1>3 DEF FenceStatement, InsertFence, UpdateFence, DeleteFence,
      EpochLeased, LeaseAuthority
  <2> QED BY <2>1, <2>2 DEF LeaseAuthority
<1>4. CASE LeaseStatement
  <2>1. UNCHANGED <<runs, fence>>
    BY <1>4, Frames
  <2>2. ASSUME NEW c \in CommandIds, NEW r \in RunIds, NEW e \in Epochs,
               InsertLease(c, r, e)
        PROVE  LeaseAuthority'
    <3>1. /\ leases' = [leases EXCEPT ![c] = [run |-> r, epoch |-> e]]
          /\ runs[r] # NoRow /\ runs[r].command = c
          /\ fence # NoRow /\ fence.epoch = e
          /\ \A d \in CommandIds : leases[d] # NoRow => leases[d].run # r
      BY <2>2 DEF InsertLease
    <3>2. \A d \in CommandIds :
            leases'[d] = IF d = c THEN [run |-> r, epoch |-> e] ELSE leases[d]
      BY <3>1 DEF TypeOK
    <3> QED BY <2>1, <3>1, <3>2 DEF LeaseAuthority
  <2>3. ASSUME NEW c \in CommandIds, DeleteLease(c)
        PROVE  LeaseAuthority'
    BY <2>1, <2>3 DEF DeleteLease, LeaseAuthority, TypeOK
  <2> QED BY <1>4, <2>2, <2>3 DEF LeaseStatement
<1> QED BY <1>1, <1>2, <1>3, <1>4, Frames DEF Next, vars

(* A lease is always held under the epoch the fence has now, for a run of  *)
(* its own command.                                                        *)
THEOREM LeasesHoldCurrentEpoch == Spec => []LeaseAuthority
<1>1. Init => LeaseAuthority
  BY DEF Init, LeaseAuthority
<1> QED BY <1>1, LeaseAuthorityStep, TypeCorrect, PTL DEF Spec

(* The fence is only ever replaced, advanced or removed while no command   *)
(* is leased.                                                              *)
THEOREM TakeoverNeedsIdle == Spec => TakeoverOnlyWhenIdle
<1>1. ASSUME LeaseAuthority, TypeOK, Next, fence # NoRow, fence' # fence
      PROVE  \A c \in CommandIds : leases[c] = NoRow /\ leases'[c] = NoRow
  <2>1. FenceStatement
    BY <1>1, Frames DEF Next
  <2>2. \A c \in CommandIds : leases[c] = NoRow
    BY <1>1, <2>1 DEF FenceStatement, InsertFence, UpdateFence, DeleteFence,
      EpochLeased, LeaseAuthority
  <2> QED BY <2>1, <2>2, Frames
<1>2. LeaseAuthority /\ TypeOK /\ [Next]_vars
        => [fence # NoRow /\ fence' # fence =>
              \A c \in CommandIds : leases[c] = NoRow /\ leases'[c] = NoRow]_vars
  BY <1>1
<1> QED BY <1>2, LeasesHoldCurrentEpoch, TypeCorrect, PTL DEF Spec, TakeoverOnlyWhenIdle

-----------------------------------------------------------------------------
(* Outcomes.  OneTerminalReceipt and OneCommandPerGeneration are what the  *)
(* unique indexes keep; OutcomeInv strengthens OutcomeBacked with them and *)
(* with coherence, without which a deleted command could leave its receipt *)
(* to a new one of the same name.                                          *)

OneTerminalReceipt ==
  \A rc, q \in ReceiptIds, c \in CommandIds :
    TerminalReceipt(rc, c) /\ TerminalReceipt(q, c) => rc = q

OneCommandPerGeneration ==
  \A c, d \in CommandIds :
    commands[c] # NoRow /\ commands[d] # NoRow
      /\ commands[c].task = commands[d].task
      /\ commands[c].generation = commands[d].generation => c = d

OutcomeInv ==
  TypeOK /\ EvidenceCoherent /\ OneTerminalReceipt /\ OneCommandPerGeneration
    /\ OutcomeBacked

LEMMA ReceiptsStay ==
  ASSUME TypeOK, [Next]_vars, NEW rc \in ReceiptIds, receipts[rc] # NoRow
  PROVE  receipts'[rc] = receipts[rc]
  BY ReceiptOrigin, Frames DEF Next, vars

LEMMA OneTerminalReceiptStep ==
  TypeOK /\ OneTerminalReceipt /\ [Next]_vars => OneTerminalReceipt'
<1> SUFFICES ASSUME TypeOK, OneTerminalReceipt, [Next]_vars PROVE OneTerminalReceipt'
  OBVIOUS
<1>1. CASE UNCHANGED receipts
  BY <1>1 DEF OneTerminalReceipt, TerminalReceipt
<1>2. CASE ReceiptStatement
  <2> SUFFICES ASSUME NEW rc \in ReceiptIds, NEW q \in ReceiptIds,
                      NEW c \in CommandIds, rc # q,
                      TerminalReceipt(rc, c)', TerminalReceipt(q, c)'
               PROVE  FALSE
    BY DEF OneTerminalReceipt
  <2>1. ~(receipts'[rc] = receipts[rc] /\ receipts'[q] = receipts[q])
    BY DEF OneTerminalReceipt, TerminalReceipt
  <2>2. ASSUME NEW a \in ReceiptIds, NEW b \in ReceiptIds, a # b,
               TerminalReceipt(a, c)', TerminalReceipt(b, c)',
               receipts'[a] # receipts[a]
        PROVE  FALSE
    <3>1. Undecided(c) /\ receipts'[b] = receipts[b]
      BY <1>2, <2>2, ReceiptOrigin DEF TerminalReceipt
    <3> QED BY <2>2, <3>1 DEF Undecided, TerminalReceipt
  <2> QED BY <2>1, <2>2
<1> QED BY <1>1, <1>2, Frames DEF Next, vars

LEMMA CommandState ==
  ASSUME TypeOK, CommandStatement, NEW c \in CommandIds, commands'[c] # NoRow,
         commands'[c].state \in TerminalStates
  PROVE  /\ commands[c] # NoRow
         /\ commands'[c].task = commands[c].task
         /\ commands'[c].generation = commands[c].generation
         /\ \/ commands[c].state \notin TerminalStates
                 /\ HasReceiptFor(c, commands'[c].state)
            \/ commands'[c] = commands[c]
<1>1. PICK d \in CommandIds :
        \/ \E t \in TaskIds, g \in Generations \ {0}, trace \in TraceIds,
              h \in Hashes, s \in CommandStates : InsertCommand(d, t, g, trace, h, s)
        \/ \E s \in CommandStates : UpdateCommandState(d, s)
        \/ DeleteCommand(d)
  BY DEF CommandStatement
<1>2. CASE c # d
  <2>1. commands'[c] = commands[c]
    BY <1>1, <1>2 DEF InsertCommand, UpdateCommandState, DeleteCommand, TypeOK
  <2> QED BY <2>1
<1>3. CASE c = d
  <2>1. ~(\E t \in TaskIds, g \in Generations \ {0}, trace \in TraceIds,
             h \in Hashes, s \in CommandStates : InsertCommand(d, t, g, trace, h, s))
    <3>1. ASSUME NEW t \in TaskIds, NEW g \in Generations \ {0}, NEW trace \in TraceIds,
                 NEW h \in Hashes, NEW s \in CommandStates,
                 InsertCommand(d, t, g, trace, h, s)
          PROVE  FALSE
      <4>1. commands'[c].state = s
        BY <1>3, <3>1 DEF InsertCommand, TypeOK
      <4> QED BY <3>1, <4>1 DEF InsertCommand
    <3> QED BY <3>1
  <2>2. ~DeleteCommand(d)
    BY <1>3 DEF DeleteCommand, TypeOK
  <2>3. PICK s \in CommandStates : UpdateCommandState(d, s)
    BY <1>1, <2>1, <2>2
  <2>4. commands'[c] = [commands[c] EXCEPT !.state = s] /\ commands[c] \in CommandRow
    BY <1>3, <2>3 DEF UpdateCommandState, TypeOK
  <2>5. /\ commands'[c].state = s
        /\ commands'[c].task = commands[c].task
        /\ commands'[c].generation = commands[c].generation
    BY <2>4 DEF CommandRow
  <2>6. CASE commands[c].state \in TerminalStates
    <3>1. s = commands[c].state
      BY <1>3, <2>3, <2>6 DEF UpdateCommandState
    <3>2. commands'[c] = commands[c]
      BY <2>4, <3>1 DEF CommandRow
    <3> QED BY <3>2
  <2>7. CASE commands[c].state \notin TerminalStates
    BY <1>3, <2>3, <2>5, <2>7 DEF UpdateCommandState
  <2> QED BY <2>6, <2>7
<1> QED BY <1>2, <1>3

LEMMA ReceiptNamesState ==
  ASSUME NEW status, NEW s \in TerminalStates, Admits(status, s)
  PROVE  s = Outcome(status)
  BY DEF Admits, Outcome, TerminalStates

LEMMA OutcomeBackedStep ==
  TypeOK /\ OneTerminalReceipt /\ OneTerminalReceipt' /\ OutcomeBacked /\ [Next]_vars
    => OutcomeBacked'
<1> SUFFICES ASSUME TypeOK, OneTerminalReceipt, OneTerminalReceipt', OutcomeBacked,
                    [Next]_vars,
                    NEW c \in CommandIds, commands'[c] # NoRow,
                    commands'[c].state \in TerminalStates
             PROVE  \E rc \in ReceiptIds :
                      /\ TerminalReceipt(rc, c)'
                      /\ commands'[c].state = Outcome(receipts'[rc].status)
  BY DEF OutcomeBacked, OneTerminalReceipt
<1>1. \E rc \in ReceiptIds : TerminalReceipt(rc, c)
                               /\ commands'[c].state = Outcome(receipts[rc].status)
  <2>1. CASE commands'[c] = commands[c]
    BY <2>1 DEF OutcomeBacked
  <2>2. CASE commands'[c] # commands[c]
    <3>1. CommandStatement
      BY <2>2, Frames DEF Next, vars
    <3>2. HasReceiptFor(c, commands'[c].state)
      BY <2>2, <3>1, CommandState
    <3> QED BY <3>2, ReceiptNamesState DEF HasReceiptFor
  <2> QED BY <2>1, <2>2
<1> QED BY <1>1, ReceiptsStay DEF TerminalReceipt

LEMMA OneCommandStep ==
  TypeOK /\ OneCommandPerGeneration /\ [Next]_vars => OneCommandPerGeneration'
<1> SUFFICES ASSUME TypeOK, OneCommandPerGeneration, [Next]_vars
             PROVE  OneCommandPerGeneration'
  OBVIOUS
<1>1. CASE UNCHANGED commands
  BY <1>1 DEF OneCommandPerGeneration
<1>2. CASE CommandStatement
  <2>1. PICK d \in CommandIds :
          \/ \E t \in TaskIds, g \in Generations \ {0}, trace \in TraceIds,
                h \in Hashes, s \in CommandStates : InsertCommand(d, t, g, trace, h, s)
          \/ \E s \in CommandStates : UpdateCommandState(d, s)
          \/ DeleteCommand(d)
    BY <1>2 DEF CommandStatement
  <2>2. ASSUME NEW t \in TaskIds, NEW g \in Generations \ {0}, NEW trace \in TraceIds,
               NEW h \in Hashes, NEW s \in CommandStates,
               InsertCommand(d, t, g, trace, h, s)
        PROVE  OneCommandPerGeneration'
    <3> DEFINE row == [task |-> t, generation |-> g, trace |-> trace,
                       hash |-> h, state |-> s]
    <3>1. \A c \in CommandIds : commands'[c] = IF c = d THEN row ELSE commands[c]
      BY <2>2 DEF InsertCommand, TypeOK
    <3>2. \A c \in CommandIds : commands[c] # NoRow =>
            commands[c].task # t \/ commands[c].generation # g
      BY <2>2 DEF InsertCommand
    <3>3. row.task = t /\ row.generation = g
      OBVIOUS
    <3> HIDE DEF row
    <3> QED BY <3>1, <3>2, <3>3 DEF OneCommandPerGeneration
  <2>3. ASSUME NEW s \in CommandStates, UpdateCommandState(d, s)
        PROVE  OneCommandPerGeneration'
    <3> DEFINE row == [commands[d] EXCEPT !.state = s]
    <3>1. \A c \in CommandIds : commands'[c] = IF c = d THEN row ELSE commands[c]
      BY <2>3 DEF UpdateCommandState, TypeOK
    <3>2. commands[d] # NoRow /\ commands[d] \in CommandRow
      BY <2>3 DEF UpdateCommandState, TypeOK
    <3>3. row.task = commands[d].task /\ row.generation = commands[d].generation
      BY <3>2 DEF CommandRow
    <3> HIDE DEF row
    <3> QED BY <3>1, <3>2, <3>3 DEF OneCommandPerGeneration
  <2>4. ASSUME DeleteCommand(d) PROVE OneCommandPerGeneration'
    BY <2>4 DEF DeleteCommand, OneCommandPerGeneration, TypeOK
  <2> QED BY <2>1, <2>2, <2>3, <2>4
<1> QED BY <1>1, <1>2, Frames DEF Next, vars

LEMMA OutcomeInvariant == Spec => []OutcomeInv
<1>1. Init => OneTerminalReceipt /\ OneCommandPerGeneration /\ OutcomeBacked
  BY DEF Init, OneTerminalReceipt, TerminalReceipt, OneCommandPerGeneration, OutcomeBacked
<1>2. TypeOK /\ OneTerminalReceipt /\ OneCommandPerGeneration /\ OutcomeBacked
        /\ [Next]_vars
      => OneTerminalReceipt' /\ OneCommandPerGeneration' /\ OutcomeBacked'
  BY OneTerminalReceiptStep, OneCommandStep, OutcomeBackedStep
<1> QED BY <1>1, <1>2, TypeCorrect, EvidenceStaysCoherent, PTL DEF Spec, OutcomeInv

(* A terminal command has exactly one terminal receipt, and it names the   *)
(* command's state.                                                        *)
THEOREM TerminalStatesAreBacked == Spec => []OutcomeBacked
  BY OutcomeInvariant, PTL DEF OutcomeInv

-----------------------------------------------------------------------------
(* What no statement can undo.                                             *)

LEMMA ReceiptedCommandStays ==
  ASSUME OutcomeInv, [Next]_vars, NEW rc \in ReceiptIds, receipts[rc] # NoRow
  PROVE  LET c == receipts[rc].command
         IN  /\ c \in CommandIds
             /\ commands[c] # NoRow
             /\ commands'[c] # NoRow
             /\ commands'[c].task = commands[c].task
             /\ commands'[c].generation = commands[c].generation
             /\ commands'[c].trace = commands[c].trace
             /\ commands'[c].hash = commands[c].hash
<1> DEFINE c == receipts[rc].command
<1>1. c \in CommandIds /\ commands[c] # NoRow
  BY DEF OutcomeInv, TypeOK, ReceiptRow, EvidenceCoherent, ReceiptsCoherent, CommandHasTrace
<1>2. CASE UNCHANGED commands
  BY <1>1, <1>2
<1>3. CASE CommandStatement
  <2>1. CommandReferenced(c)
    BY DEF CommandReferenced
  <2> QED BY <1>1, <1>3, <2>1, CommandsKept DEF OutcomeInv
<1> QED BY <1>2, <1>3, Frames DEF Next, vars

(* What a step leaves of a command that has its terminal receipt.          *)
LEMMA OutcomeStep ==
  ASSUME OutcomeInv, [Next]_vars,
         NEW rc \in ReceiptIds, NEW c \in CommandIds, TerminalReceipt(rc, c)
  PROVE  /\ receipts'[rc] = receipts[rc]
         /\ commands'[c] # NoRow
         /\ commands'[c].state \in TerminalStates =>
              commands'[c].state = Outcome(receipts[rc].status)
         /\ commands[c].state \in TerminalStates => commands'[c] = commands[c]
<1>1. receipts[rc] # NoRow /\ receipts[rc].command = c
  BY DEF TerminalReceipt
<1>2. receipts'[rc] = receipts[rc]
  BY <1>1, ReceiptsStay DEF OutcomeInv
<1>3. commands[c] # NoRow /\ commands'[c] # NoRow
  BY <1>1, ReceiptedCommandStays
<1>4. commands'[c].state \in TerminalStates =>
        commands'[c].state = Outcome(receipts[rc].status)
  <2>1. OutcomeBacked' /\ TerminalReceipt(rc, c)'
    BY <1>2, OutcomeBackedStep, OneTerminalReceiptStep
       DEF OutcomeInv, TerminalReceipt
  <2> QED BY <1>2, <1>3, <2>1 DEF OutcomeBacked
<1>5. ASSUME commands[c].state \in TerminalStates PROVE commands'[c] = commands[c]
  <2>1. CASE UNCHANGED commands
    BY <2>1
  <2>2. CASE CommandStatement
    <3>1. PICK d \in CommandIds :
            \/ \E t \in TaskIds, g \in Generations \ {0}, trace \in TraceIds,
                  h \in Hashes, s \in CommandStates :
                    InsertCommand(d, t, g, trace, h, s)
            \/ \E s \in CommandStates : UpdateCommandState(d, s)
            \/ DeleteCommand(d)
      BY <2>2 DEF CommandStatement
    <3>2. CASE c # d
      BY <3>1, <3>2
         DEF InsertCommand, UpdateCommandState, DeleteCommand, TypeOK, OutcomeInv
    <3>3. CASE c = d
      <4>1. CommandReferenced(c)
        BY <1>1 DEF CommandReferenced
      <4>2. PICK s \in CommandStates : UpdateCommandState(c, s)
        BY <1>3, <3>1, <3>3, <4>1 DEF InsertCommand, DeleteCommand
      <4>3. s = commands[c].state /\ commands'[c] = [commands[c] EXCEPT !.state = s]
        BY <1>5, <4>2 DEF UpdateCommandState, TypeOK, OutcomeInv
      <4>4. commands[c] \in CommandRow
        BY <1>3 DEF TypeOK, OutcomeInv
      <4> QED BY <4>3, <4>4 DEF CommandRow
    <3> QED BY <3>2, <3>3
  <2> QED BY <2>1, <2>2, Frames DEF Next, vars
<1> QED BY <1>2, <1>3, <1>4, <1>5

(* Once a terminal receipt exists the command's outcome is the one it      *)
(* names, whatever statements follow.                                      *)
THEOREM OutcomesAreFinal == Spec => OutcomeFinal
<1>1. OutcomeInv /\ [Next]_vars =>
        [\A rc \in ReceiptIds, c \in CommandIds : TerminalReceipt(rc, c) =>
           /\ receipts'[rc] = receipts[rc]
           /\ commands'[c] # NoRow
           /\ commands'[c].state \in TerminalStates =>
                commands'[c].state = Outcome(receipts[rc].status)
           /\ commands[c].state \in TerminalStates => commands'[c] = commands[c]]_vars
  BY OutcomeStep
<1> QED BY <1>1, OutcomeInvariant, PTL DEF Spec, OutcomeFinal

(* A generation that left a receipt keeps its specification and is never   *)
(* queued a second time.                                                   *)
THEOREM ExecutedGenerationsAreFrozen == Spec => ExecutedGenerationFrozen
<1> DEFINE Frozen(rc) ==
      LET c == receipts[rc].command
          row == commands[c]
      IN  /\ commands'[c] # NoRow
          /\ [commands'[c] EXCEPT !.state = row.state] = row
          /\ resources'[<<row.task, row.generation>>] # NoRow
          /\ resources'[<<row.task, row.generation>>].hash = row.hash
          /\ \A d \in CommandIds \ {c} : commands'[d] # NoRow =>
               commands'[d].task # row.task
                 \/ commands'[d].generation # row.generation
<1>1. ASSUME OutcomeInv, OutcomeInv', [Next]_vars,
             NEW rc \in ReceiptIds, receipts[rc] # NoRow
      PROVE  Frozen(rc)
  <2> DEFINE c == receipts[rc].command
             row == commands[c]
             new == commands'[c]
  <2>1. /\ c \in CommandIds /\ row # NoRow /\ new # NoRow
        /\ new.task = row.task /\ new.generation = row.generation
        /\ new.trace = row.trace /\ new.hash = row.hash
    BY <1>1, ReceiptedCommandStays
  <2>2. row \in CommandRow /\ new \in CommandRow
    BY <1>1, <2>1 DEF OutcomeInv, TypeOK
  <2>3. [new EXCEPT !.state = row.state] = row
    BY <2>1, <2>2 DEF CommandRow
  <2>4. /\ resources'[<<row.task, row.generation>>] # NoRow
        /\ resources'[<<row.task, row.generation>>].hash = row.hash
    BY <1>1, <2>1 DEF OutcomeInv, EvidenceCoherent, CommandsCoherent,
       CommandSpecified, ResourceExists
  <2>5. \A d \in CommandIds \ {c} : commands'[d] # NoRow =>
          commands'[d].task # row.task \/ commands'[d].generation # row.generation
    BY <1>1, <2>1 DEF OutcomeInv, OneCommandPerGeneration
  <2> QED BY <2>1, <2>3, <2>4, <2>5
<1>2. OutcomeInv /\ OutcomeInv' /\ [Next]_vars =>
        [\A rc \in ReceiptIds : receipts[rc] # NoRow => Frozen(rc)]_vars
  BY <1>1
<1> QED BY <1>2, OutcomeInvariant, PTL DEF Spec, ExecutedGenerationFrozen

(* An approval of a routine specification is about no run and no task.     *)
RoutineApprovalsHaveNoSubject ==
  \A a \in ApprovalIds : approvals[a] # NoRow =>
    /\ approvals[a].run = Null <=> approvals[a].class = "routine_change"
    /\ approvals[a].class = "routine_change" => approvals[a].task = Null

LEMMA RoutineApprovals == Spec => []RoutineApprovalsHaveNoSubject
<1>1. Init => RoutineApprovalsHaveNoSubject
  BY DEF Init, RoutineApprovalsHaveNoSubject
<1>2. TypeOK /\ RoutineApprovalsHaveNoSubject /\ [Next]_vars => RoutineApprovalsHaveNoSubject'
  <2>1. CASE UNCHANGED approvals
    BY <2>1 DEF RoutineApprovalsHaveNoSubject
  <2>2. ASSUME TypeOK, RoutineApprovalsHaveNoSubject, ApprovalStatement,
               NEW a \in ApprovalIds, approvals'[a] # NoRow
        PROVE  /\ approvals'[a].run = Null <=> approvals'[a].class = "routine_change"
               /\ approvals'[a].class = "routine_change" => approvals'[a].task = Null
    BY <2>2, ApprovalOrigin DEF RoutineApprovalsHaveNoSubject, SubjectCheck
  <2> QED BY <2>1, <2>2, Frames DEF Next, vars, RoutineApprovalsHaveNoSubject
<1> QED BY <1>1, <1>2, TypeCorrect, PTL DEF Spec

(* A decided approval stays as it was decided, for the run it was about.   *)
THEOREM DecisionsAreFinal == Spec => DecisionFinal
<1> DEFINE Kept(a) ==
      /\ approvals'[a] = approvals[a]
      /\ approvals[a].run # Null =>
           /\ runs'[approvals[a].run] # NoRow
           /\ runs'[approvals[a].run].command = runs[approvals[a].run].command
<1>1. ASSUME TypeOK, [Next]_vars, NEW a \in ApprovalIds, approvals[a] # NoRow,
             approvals[a].decision # "pending"
      PROVE  approvals'[a] = approvals[a]
  <2>1. CASE ApprovalStatement
    <3>1. ASSUME NEW b \in ApprovalIds, NEW row \in ApprovalRow, InsertApproval(b, row)
          PROVE  approvals'[a] = approvals[a]
      BY <1>1, <3>1 DEF InsertApproval, TypeOK
    <3>2. ASSUME NEW b \in ApprovalIds, NEW decision \in {"approved", "rejected"},
                 NEW method \in {Null, "local-bridge", "signature"},
                 NEW signer \in {Null, "set"}, DecideApproval(b, decision, method, signer)
          PROVE  approvals'[a] = approvals[a]
      <4>1. a # b
        BY <1>1, <3>2 DEF DecideApproval, MayDecide
      <4>2. \E row : approvals' = [approvals EXCEPT ![b] = row]
        BY <3>2 DEF DecideApproval
      <4> QED BY <1>1, <4>1, <4>2 DEF TypeOK
    <3> QED BY <2>1, <3>1, <3>2 DEF ApprovalStatement
  <2>2. CASE UNCHANGED approvals
    BY <2>2
  <2> QED BY <1>1, <2>1, <2>2, Frames DEF Next, vars
<1>2. ASSUME TypeOK, ApprovalsCoherent, RoutineApprovalsHaveNoSubject, [Next]_vars,
             NEW a \in ApprovalIds, approvals[a] # NoRow, approvals[a].run # Null
      PROVE  /\ runs'[approvals[a].run] # NoRow
             /\ runs'[approvals[a].run].command = runs[approvals[a].run].command
  <2>1. approvals[a].run \in RunIds /\ runs[approvals[a].run] # NoRow
    BY <1>2 DEF ApprovalsCoherent, RunTraced, RoutineApprovalsHaveNoSubject
  <2>2. RunReferenced(approvals[a].run)
    BY <1>2 DEF RunReferenced
  <2> QED BY <1>2, <2>1, <2>2, RunsKept, Frames DEF Next, vars
<1>3. TypeOK /\ ApprovalsCoherent /\ RoutineApprovalsHaveNoSubject /\ [Next]_vars =>
        [\A a \in ApprovalIds :
           approvals[a] # NoRow /\ approvals[a].decision # "pending" => Kept(a)]_vars
  BY <1>1, <1>2
<1>4. EvidenceCoherent => ApprovalsCoherent
  BY DEF EvidenceCoherent
<1> QED BY <1>3, <1>4, TypeCorrect, EvidenceStaysCoherent, RoutineApprovals, PTL
     DEF Spec, DecisionFinal

-----------------------------------------------------------------------------
(* The row at one key is replaced by a row that may be current, or that is *)
(* not: there is still one current row per resource and path.              *)
LEMMA OneCurrentReplaced ==
  ASSUME TypeOK, OneCurrent, NEW r \in ResourceIds, NEW g \in Generations,
         NEW row \in ResourceRow \cup {NoRow},
         row # NoRow /\ row.current => MayBeCurrent(r, g, row.path),
         resources' = [resources EXCEPT ![<<r, g>>] = row]
  PROVE  OneCurrent'
<1> SUFFICES ASSUME NEW rg \in ResourceIds \X Generations,
                    NEW sh \in ResourceIds \X Generations,
                    resources'[rg] # NoRow, resources'[rg].current,
                    resources'[sh] # NoRow, resources'[sh].current,
                    rg[1] = sh[1] \/ resources'[rg].path = resources'[sh].path
             PROVE  rg = sh
  BY DEF OneCurrent
<1>1. \A k \in ResourceIds \X Generations :
        resources'[k] = IF k = <<r, g>> THEN row ELSE resources[k]
  BY DEF TypeOK
<1>2. CASE rg # <<r, g>> /\ sh # <<r, g>>
  BY <1>1, <1>2 DEF OneCurrent
<1>3. ASSUME NEW k \in ResourceIds \X Generations, k # <<r, g>>,
             resources[k] # NoRow, resources[k].current, row # NoRow, row.current
      PROVE  k[1] # r /\ resources[k].path # row.path
  BY <1>3 DEF MayBeCurrent
<1>4. CASE rg = <<r, g>>
  BY <1>1, <1>3, <1>4
<1>5. CASE sh = <<r, g>>
  BY <1>1, <1>3, <1>5
<1> QED BY <1>2, <1>4, <1>5

(* Every statement on resources replaces one row so.                       *)
LEMMA OneCurrentStep == TypeOK /\ OneCurrent /\ [Next]_vars => OneCurrent'
<1> SUFFICES ASSUME TypeOK, OneCurrent, [Next]_vars PROVE OneCurrent'
  OBVIOUS
<1>1. CASE UNCHANGED resources
  BY <1>1 DEF OneCurrent
<1>2. ASSUME NEW r \in ResourceIds, NEW g \in Generations, NEW h \in Hashes,
             NEW p \in Paths, NEW current \in BOOLEAN,
             current => MayBeCurrent(r, g, p),
             resources' = [resources EXCEPT ![<<r, g>>] =
                             [hash |-> h, path |-> p, current |-> current]]
      PROVE  OneCurrent'
  <2>1. [hash |-> h, path |-> p, current |-> current] \in ResourceRow
    BY DEF ResourceRow
  <2> QED BY <1>2, <2>1, OneCurrentReplaced
<1>3. CASE ResourceStatement
  <2>1. PICK r \in ResourceIds, g \in Generations :
          \/ \E h \in Hashes, p \in Paths, current \in BOOLEAN :
               InsertResource(r, g, h, p, current)
          \/ \E p \in Paths, current \in BOOLEAN : UpdateResource(r, g, p, current)
          \/ DeleteResource(r, g)
    BY <1>3 DEF ResourceStatement
  <2>2. ASSUME NEW h \in Hashes, NEW p \in Paths, NEW current \in BOOLEAN,
               InsertResource(r, g, h, p, current)
        PROVE  OneCurrent'
    BY <1>2, <2>2 DEF InsertResource
  <2>3. ASSUME NEW p \in Paths, NEW current \in BOOLEAN, UpdateResource(r, g, p, current)
        PROVE  OneCurrent'
    <3>1. resources[<<r, g>>].hash \in Hashes
      BY <2>3 DEF UpdateResource, TypeOK, ResourceRow
    <3> QED BY <1>2, <2>3, <3>1 DEF UpdateResource
  <2>4. ASSUME DeleteResource(r, g) PROVE OneCurrent'
    BY <2>4, OneCurrentReplaced DEF DeleteResource
  <2> QED BY <2>1, <2>2, <2>3, <2>4
<1> QED BY <1>1, <1>3, Frames DEF Next, vars

(* One current generation per resource, and one resource per path, after   *)
(* any sequence of statements.                                             *)
THEOREM CurrentIsUnique == Spec => []OneCurrent
<1>1. Init => OneCurrent
  BY DEF Init, OneCurrent
<1> QED BY <1>1, OneCurrentStep, TypeCorrect, PTL DEF Spec

-----------------------------------------------------------------------------
(* References.  What the tables say of each other holds together only      *)
(* because no statement leaves a row without the row it points at.         *)

CommandsPoint ==
  \A c \in CommandIds : commands[c] # NoRow =>
    ResourceExists(commands[c].task, commands[c].generation)

RunsPoint == \A r \in RunIds : runs[r] # NoRow => commands[runs[r].command] # NoRow

LeasesPoint ==
  \A c \in CommandIds : leases[c] # NoRow =>
    /\ commands[c] # NoRow /\ runs[leases[c].run] # NoRow
    /\ fence # NoRow /\ fence.epoch = leases[c].epoch

ReceiptsPoint ==
  \A rc \in ReceiptIds : receipts[rc] # NoRow =>
    /\ commands[receipts[rc].command] # NoRow
    /\ receipts[rc].run # Null => runs[receipts[rc].run] # NoRow

ApprovalsPoint ==
  \A a \in ApprovalIds : approvals[a] # NoRow =>
    /\ approvals[a].run # Null => runs[approvals[a].run] # NoRow
    /\ approvals[a].task # Null => ResourceExists(approvals[a].task, approvals[a].generation)

EventsPoint ==
  \A e \in EventIds : events[e] # NoRow =>
    /\ events[e].command # Null => commands[events[e].command] # NoRow
    /\ events[e].run # Null => runs[events[e].run] # NoRow
    /\ events[e].task # Null => ResourceExists(events[e].task, events[e].generation)

OutboxPoints ==
  \A e \in EventIds, d \in Destinations : outbox[<<e, d>>] # NoRow => events[e] # NoRow

ReferencesHold ==
  /\ CommandsPoint /\ RunsPoint /\ LeasesPoint /\ ReceiptsPoint
  /\ ApprovalsPoint /\ EventsPoint /\ OutboxPoints

(* events has no DELETE: an outbox row keeps the event it is to deliver.   *)
LEMMA OutboxHolds == Spec => []OutboxPoints
<1>1. Init => OutboxPoints
  BY DEF Init, OutboxPoints
<1>2. ASSUME TypeOK, OutboxPoints, [Next]_vars
      PROVE  OutboxPoints'
  <2>1. CASE UNCHANGED <<events, outbox>>
    BY <1>2, <2>1 DEF OutboxPoints
  <2>2. CASE EventStatement
    <3>1. PICK f \in EventIds :
            \/ \E row \in EventRow : InsertEvent(f, row)
            \/ \E d \in Destinations :
                 \/ \E s \in OutboxRow : InsertOutbox(f, d, s) \/ UpdateOutbox(f, d, s)
                 \/ DeleteOutbox(f, d)
      BY <2>2 DEF EventStatement
    <3>2. ASSUME NEW row \in EventRow, InsertEvent(f, row)
          PROVE  OutboxPoints'
      <4>1. /\ outbox' = outbox /\ row # NoRow
            /\ \A e \in EventIds : events'[e] = IF e = f THEN row ELSE events[e]
        BY <1>2, <3>2, StoreConstants DEF InsertEvent, TypeOK
      <4>2. QED
        BY <1>2, <4>1 DEF OutboxPoints
    <3>3. ASSUME NEW d \in Destinations,
                 \/ \E s \in OutboxRow : InsertOutbox(f, d, s) \/ UpdateOutbox(f, d, s)
                 \/ DeleteOutbox(f, d)
          PROVE  OutboxPoints'
      <4>1. /\ events' = events
            /\ \A e \in EventIds, t \in Destinations :
                 outbox'[<<e, t>>] # NoRow => outbox[<<e, t>>] # NoRow \/ events[e] # NoRow
        BY <1>2, <3>3 DEF InsertOutbox, UpdateOutbox, DeleteOutbox, TypeOK
      <4>2. QED
        BY <1>2, <4>1 DEF OutboxPoints
    <3>4. QED
      BY <3>1, <3>2, <3>3
  <2>3. QED
    BY <1>2, <2>1, <2>2, Frames DEF Next, vars
<1>3. QED
  BY <1>1, <1>2, TypeCorrect, PTL DEF Spec

(* Every foreign key points at a row, whatever is inserted, updated and    *)
(* deleted in whatever order: the restrictions on the parents and the      *)
(* checks on the children leave no way around.                             *)
THEOREM NoReferenceDangles == Spec => []ReferencesHold
<1>1. ASSUME TypeOK, EvidenceCoherent, LeaseAuthority, RoutineApprovalsHaveNoSubject, OutboxPoints
      PROVE  ReferencesHold
  <2>1. CommandsPoint
    BY <1>1 DEF EvidenceCoherent, CommandsCoherent, CommandSpecified, CommandsPoint
  <2>2. RunsPoint
    BY <1>1 DEF EvidenceCoherent, RunsCoherent, RunTraced, CommandIs, CommandHasTrace, RunsPoint
  <2>3. LeasesPoint
    <3>1. SUFFICES ASSUME NEW c \in CommandIds, leases[c] # NoRow
                   PROVE  /\ commands[c] # NoRow /\ runs[leases[c].run] # NoRow
                          /\ fence # NoRow /\ fence.epoch = leases[c].epoch
      BY DEF LeasesPoint
    <3>2. leases[c].run \in RunIds
      BY <1>1, <3>1 DEF TypeOK, LeaseRow
    <3>3. /\ runs[leases[c].run] # NoRow /\ runs[leases[c].run].command = c
          /\ fence # NoRow /\ fence.epoch = leases[c].epoch
      BY <1>1, <3>1 DEF LeaseAuthority
    <3>4. QED
      BY <2>2, <3>2, <3>3 DEF RunsPoint
  <2>4. ReceiptsPoint
    BY <1>1 DEF EvidenceCoherent, ReceiptsCoherent, CommandHasTrace, RunIs, ReceiptsPoint
  <2>5. ApprovalsPoint
    <3>1. SUFFICES ASSUME NEW a \in ApprovalIds, approvals[a] # NoRow
                   PROVE  /\ approvals[a].run # Null => runs[approvals[a].run] # NoRow
                          /\ approvals[a].task # Null =>
                               ResourceExists(approvals[a].task, approvals[a].generation)
      BY DEF ApprovalsPoint
    <3>2. CASE approvals[a].class = "routine_change"
      BY <1>1, <3>1, <3>2 DEF RoutineApprovalsHaveNoSubject
    <3>3. CASE approvals[a].class # "routine_change"
      <4>1. /\ approvals[a].run \in RunIds /\ RunTraced(approvals[a].run)
            /\ runs[approvals[a].run].task = approvals[a].task
            /\ runs[approvals[a].run].generation = approvals[a].generation
        BY <1>1, <3>1, <3>3 DEF EvidenceCoherent, ApprovalsCoherent
      <4>2. /\ runs[approvals[a].run] # NoRow
            /\ commands[runs[approvals[a].run].command] # NoRow
            /\ commands[runs[approvals[a].run].command].task = approvals[a].task
            /\ commands[runs[approvals[a].run].command].generation = approvals[a].generation
        BY <4>1 DEF RunTraced, CommandIs, CommandHasTrace
      <4>3. runs[approvals[a].run].command \in CommandIds
        BY <1>1, <4>1, <4>2 DEF TypeOK, RunRow
      <4>4. QED
        BY <2>1, <4>2, <4>3 DEF CommandsPoint
    <3>4. QED
      BY <3>2, <3>3
  <2>6. EventsPoint
    BY <1>1 DEF EvidenceCoherent, EventsCoherent, CommandHasTrace, RunIs, EventsPoint
  <2>7. QED
    BY <1>1, <2>1, <2>2, <2>3, <2>4, <2>5, <2>6 DEF ReferencesHold
<1>2. QED
  BY <1>1, TypeCorrect, EvidenceStaysCoherent, LeasesHoldCurrentEpoch, RoutineApprovals, OutboxHolds, PTL

-----------------------------------------------------------------------------
(* The ledger of task generations.  A generation has at most one command,  *)
(* and that at most one terminal receipt: what the ledger reads off them   *)
(* does not depend on a choice.                                            *)

DecisionsRead ==
  \A k \in TaskGenerations, rc \in ReceiptIds :
    Decides(rc, k) => DecidedOutcome[k] = Outcome(receipts[rc].status)

AnnouncementsRead ==
  \A k \in TaskGenerations, c \in CommandIds :
    Terminated(c, k) => AnnouncedOutcome[k] = commands[c].state

LEMMA DecidedValue == OutcomeInv => DecisionsRead
<1> SUFFICES ASSUME OutcomeInv, NEW k \in TaskGenerations, NEW rc \in ReceiptIds,
                    Decides(rc, k)
             PROVE  DecidedOutcome[k] = Outcome(receipts[rc].status)
  BY DEF DecisionsRead
<1>1. ASSUME NEW q \in ReceiptIds, Decides(q, k) PROVE q = rc
  <2>1. PICK c \in CommandIds : CommandFor(c, k) /\ TerminalReceipt(rc, c)
    BY DEF Decides
  <2>2. PICK d \in CommandIds : CommandFor(d, k) /\ TerminalReceipt(q, d)
    BY <1>1 DEF Decides
  <2>3. c = d
    BY <2>1, <2>2 DEF OutcomeInv, OneCommandPerGeneration, CommandFor
  <2> QED BY <2>1, <2>2, <2>3 DEF OutcomeInv, OneTerminalReceipt
<1>2. (CHOOSE q \in ReceiptIds : Decides(q, k)) = rc
  BY <1>1
<1> QED BY <1>2 DEF DecidedOutcome

LEMMA DecidedValueNext == OutcomeInv' => DecisionsRead'
  BY DecidedValue, PTL

LEMMA AnnouncedValue == OutcomeInv => AnnouncementsRead
<1> SUFFICES ASSUME OutcomeInv, NEW k \in TaskGenerations, NEW c \in CommandIds,
                    Terminated(c, k)
             PROVE  AnnouncedOutcome[k] = commands[c].state
  BY DEF AnnouncementsRead
<1>1. \A d \in CommandIds : Terminated(d, k) => d = c
  BY DEF OutcomeInv, OneCommandPerGeneration, Terminated, CommandFor
<1>2. (CHOOSE d \in CommandIds : Terminated(d, k)) = c
  BY <1>1
<1> QED BY <1>2 DEF AnnouncedOutcome

LEMMA AnnouncedValueNext == OutcomeInv' => AnnouncementsRead'
  BY AnnouncedValue, PTL

(* What is decided stays decided: the receipt and its command stay.        *)
LEMMA DecidedStays ==
  ASSUME OutcomeInv, OutcomeInv', [Next]_vars,
         NEW k \in TaskGenerations, NEW rc \in ReceiptIds, Decides(rc, k)
  PROVE  Decides(rc, k)' /\ DecidedOutcome'[k] = DecidedOutcome[k]
<1>1. PICK c \in CommandIds : CommandFor(c, k) /\ TerminalReceipt(rc, c)
  BY DEF Decides
<1>2. receipts[rc] # NoRow /\ receipts[rc].command = c
  BY <1>1 DEF TerminalReceipt
<1>3. receipts'[rc] = receipts[rc]
  BY <1>2, ReceiptsStay DEF OutcomeInv
<1>4. CommandFor(c, k)'
  BY <1>1, <1>2, ReceiptedCommandStays DEF CommandFor
<1>5. Decides(rc, k)'
  BY <1>1, <1>3, <1>4 DEF Decides, TerminalReceipt
<1>6. DecidedOutcome'[k] = Outcome(receipts'[rc].status)
  BY <1>5, DecidedValueNext DEF DecisionsRead
<1>7. DecidedOutcome[k] = Outcome(receipts[rc].status)
  BY DecidedValue DEF DecisionsRead
<1> QED BY <1>3, <1>5, <1>6, <1>7

(* What is announced stays announced: a terminal command has its receipt.  *)
LEMMA AnnouncedStays ==
  ASSUME OutcomeInv, OutcomeInv', [Next]_vars,
         NEW k \in TaskGenerations, NEW c \in CommandIds, Terminated(c, k)
  PROVE  Terminated(c, k)' /\ AnnouncedOutcome'[k] = AnnouncedOutcome[k]
<1>1. PICK rc \in ReceiptIds : TerminalReceipt(rc, c)
  BY DEF OutcomeInv, OutcomeBacked, Terminated, CommandFor
<1>2. commands'[c] = commands[c]
  BY <1>1, OutcomeStep DEF Terminated
<1>3. Terminated(c, k)'
  BY <1>2 DEF Terminated, CommandFor
<1>4. AnnouncedOutcome'[k] = commands'[c].state
  BY <1>3, AnnouncedValueNext DEF AnnouncementsRead
<1>5. AnnouncedOutcome[k] = commands[c].state
  BY AnnouncedValue DEF AnnouncementsRead
<1> QED BY <1>2, <1>3, <1>4, <1>5

(* A receipt can only decide the generation of its command, once.          *)
LEMMA ReceiptStepsLedger ==
  ASSUME OutcomeInv, OutcomeInv', ReceiptStatement
  PROVE  \/ UNCHANGED <<DecidedOutcome, AnnouncedOutcome>>
         \/ Ledger!Next
<1> USE StoreConstants
<1>1. UNCHANGED commands /\ [Next]_vars
  BY Frames DEF Next
<1>2. AnnouncedOutcome' = AnnouncedOutcome
  BY <1>1 DEF AnnouncedOutcome, Terminated, CommandFor
<1>3. PICK rc \in ReceiptIds, c \in CommandIds, trace \in TraceIds,
           r \in RunIds \cup {Null}, step \in StepIds, kind \in ReceiptKinds,
           key \in IdempotencyKeys, status \in ReceiptStatuses :
        InsertReceipt(rc, c, trace, r, step, kind, key, status)
  BY DEF ReceiptStatement
<1>4. \A q \in ReceiptIds \ {rc} : receipts'[q] = receipts[q]
  BY <1>3 DEF InsertReceipt, OutcomeInv, TypeOK
<1>5. /\ receipts[rc] = NoRow /\ receipts'[rc].command = c
      /\ receipts'[rc].kind = kind /\ receipts'[rc].status = status
      /\ commands[c] # NoRow /\ commands[c] \in CommandRow
  BY <1>3 DEF InsertReceipt, CommandHasTrace, OutcomeInv, TypeOK
<1>6. PICK key_ \in TaskGenerations :
        \A k \in TaskGenerations : CommandFor(c, k) <=> k = key_
  <2> DEFINE this == <<commands[c].task, commands[c].generation>>
  <2>1. this \in TaskGenerations
    BY <1>5 DEF TaskGenerations, CommandRow
  <2>2. \A k \in TaskGenerations : CommandFor(c, k) <=> k = this
    BY <1>5 DEF CommandFor, TaskGenerations, CommandRow
  <2> QED BY <2>1, <2>2
<1>7. ASSUME NEW k \in TaskGenerations, NEW q \in ReceiptIds, Decides(q, k)'
      PROVE  Decides(q, k) \/ (q = rc /\ kind = "terminal" /\ k = key_)
  <2>1. PICK d \in CommandIds : CommandFor(d, k) /\ TerminalReceipt(q, d)'
    BY <1>1, <1>7 DEF Decides, CommandFor
  <2>2. CASE q = rc
    BY <1>5, <1>6, <2>1, <2>2 DEF TerminalReceipt
  <2>3. CASE q # rc
    BY <1>4, <2>1, <2>3 DEF TerminalReceipt, Decides
  <2> QED BY <2>2, <2>3
<1>8. ASSUME NEW k \in TaskGenerations, ~(kind = "terminal" /\ k = key_)
      PROVE  DecidedOutcome'[k] = DecidedOutcome[k]
  <2>1. CASE \E q \in ReceiptIds : Decides(q, k)
    BY <1>1, <2>1, DecidedStays
  <2>2. CASE ~ \E q \in ReceiptIds : Decides(q, k)
    BY <1>7, <1>8, <2>2 DEF DecidedOutcome
  <2> QED BY <2>1, <2>2
<1>9. DecidedOutcome = [k \in TaskGenerations |-> DecidedOutcome[k]]
        /\ DecidedOutcome' = [k \in TaskGenerations |-> DecidedOutcome'[k]]
  BY DEF DecidedOutcome
<1>10. CASE kind # "terminal"
  BY <1>2, <1>8, <1>9, <1>10
<1>11. CASE kind = "terminal"
  <2>1. DecidedOutcome[key_] = NoRow
    <3>1. ~ \E q \in ReceiptIds : Decides(q, key_)
      <4> SUFFICES ASSUME NEW q \in ReceiptIds, Decides(q, key_) PROVE FALSE
        OBVIOUS
      <4>1. PICK d \in CommandIds : CommandFor(d, key_) /\ TerminalReceipt(q, d)
        BY DEF Decides
      <4>2. d = c
        BY <1>5, <1>6, <4>1 DEF OutcomeInv, OneCommandPerGeneration, CommandFor
      <4> QED BY <1>3, <1>11, <4>1, <4>2 DEF InsertReceipt, Undecided
    <3> QED BY <1>6, <3>1 DEF DecidedOutcome
  <2>2. Decides(rc, key_)'
    <3>1. receipts'[rc] # NoRow
      BY <1>3 DEF InsertReceipt, OutcomeInv, TypeOK, ReceiptRow
    <3>2. CommandFor(c, key_)
      BY <1>6
    <3> QED BY <1>1, <1>5, <1>11, <3>1, <3>2 DEF Decides, TerminalReceipt, CommandFor
  <2>3. DecidedOutcome'[key_] = Outcome(status)
    BY <1>5, <1>6, <2>2, DecidedValueNext DEF DecisionsRead
  <2>4. Outcome(status) \in TerminalStates
    BY DEF Outcome, TerminalStates
  <2>5. DecidedOutcome' = [DecidedOutcome EXCEPT ![key_] = Outcome(status)]
    BY <1>6, <1>8, <1>9, <2>3
  <2>6. Ledger!Decide(key_, Outcome(status))
    BY <1>2, <2>1, <2>5 DEF Ledger!Decide
  <2> QED BY <1>6, <2>4, <2>6 DEF Ledger!Next
<1> QED BY <1>10, <1>11

(* A command can only announce what is decided of its generation.          *)
LEMMA CommandStepsLedger ==
  ASSUME OutcomeInv, OutcomeInv', CommandStatement
  PROVE  \/ UNCHANGED <<DecidedOutcome, AnnouncedOutcome>>
         \/ Ledger!Next
<1> USE StoreConstants
<1>1. UNCHANGED receipts /\ [Next]_vars
  BY Frames DEF Next
<1>2. ASSUME NEW k \in TaskGenerations, NEW rc \in ReceiptIds, Decides(rc, k)'
      PROVE  Decides(rc, k)
  <2>1. PICK c \in CommandIds : CommandFor(c, k)' /\ TerminalReceipt(rc, c)
    BY <1>1, <1>2 DEF Decides, TerminalReceipt
  <2>2. receipts[rc] # NoRow /\ receipts[rc].command = c
    BY <2>1 DEF TerminalReceipt
  <2>3. CommandFor(c, k)
    BY <1>1, <2>1, <2>2, ReceiptedCommandStays DEF CommandFor
  <2> QED BY <2>1, <2>3 DEF Decides
<1>3. ASSUME NEW k \in TaskGenerations PROVE DecidedOutcome'[k] = DecidedOutcome[k]
  <2>1. CASE \E q \in ReceiptIds : Decides(q, k)
    BY <1>1, <2>1, DecidedStays
  <2>2. CASE ~ \E q \in ReceiptIds : Decides(q, k)
    BY <1>2, <2>2 DEF DecidedOutcome
  <2> QED BY <2>1, <2>2
<1>4. DecidedOutcome' = DecidedOutcome
  <2>1. DecidedOutcome = [k \in TaskGenerations |-> DecidedOutcome[k]]
          /\ DecidedOutcome' = [k \in TaskGenerations |-> DecidedOutcome'[k]]
    BY DEF DecidedOutcome
  <2> QED BY <1>3, <2>1
<1>5. PICK d \in CommandIds :
        \A c \in CommandIds \ {d} : commands'[c] = commands[c]
  <2>1. PICK d \in CommandIds :
          \/ \E t \in TaskIds, g \in Generations \ {0}, trace \in TraceIds,
                h \in Hashes, s \in CommandStates : InsertCommand(d, t, g, trace, h, s)
          \/ \E s \in CommandStates : UpdateCommandState(d, s)
          \/ DeleteCommand(d)
    BY DEF CommandStatement
  <2>2. \A c \in CommandIds \ {d} : commands'[c] = commands[c]
    BY <2>1 DEF InsertCommand, UpdateCommandState, DeleteCommand, OutcomeInv, TypeOK
  <2> QED BY <2>2
<1>6. ASSUME NEW k \in TaskGenerations, NEW c \in CommandIds,
             Terminated(c, k)', ~Terminated(c, k)
      PROVE  /\ c = d /\ k = <<commands[d].task, commands[d].generation>>
             /\ DecidedOutcome[k] # NoRow
             /\ commands'[c].state = DecidedOutcome[k]
  <2>1. c = d
    BY <1>5, <1>6 DEF Terminated, CommandFor
  <2>2. /\ commands[c] # NoRow
        /\ commands'[c].task = commands[c].task
        /\ commands'[c].generation = commands[c].generation
        /\ HasReceiptFor(c, commands'[c].state) \/ commands'[c] = commands[c]
    BY <1>6, CommandState DEF Terminated, CommandFor, OutcomeInv
  <2>3. CommandFor(c, k) /\ HasReceiptFor(c, commands'[c].state)
    BY <1>6, <2>2 DEF Terminated, CommandFor
  <2>4. k = <<commands[d].task, commands[d].generation>>
    BY <2>1, <2>3 DEF CommandFor, TaskGenerations
  <2>5. PICK rc \in ReceiptIds :
          TerminalReceipt(rc, c) /\ Admits(receipts[rc].status, commands'[c].state)
    BY <2>3 DEF HasReceiptFor
  <2>6. commands'[c].state = Outcome(receipts[rc].status)
    BY <1>6, <2>5, ReceiptNamesState DEF Terminated
  <2>7. DecidedOutcome[k] = Outcome(receipts[rc].status)
    BY <2>3, <2>5, DecidedValue DEF DecisionsRead, Decides
  <2>8. commands'[c].state # NoRow
    BY <1>6 DEF Terminated
  <2> QED BY <2>1, <2>4, <2>6, <2>7, <2>8
<1>7. ASSUME NEW k \in TaskGenerations,
             ~ \E c \in CommandIds : Terminated(c, k)' /\ ~Terminated(c, k)
      PROVE  AnnouncedOutcome'[k] = AnnouncedOutcome[k]
  <2>1. CASE \E c \in CommandIds : Terminated(c, k)
    BY <1>1, <2>1, AnnouncedStays
  <2>2. CASE ~ \E c \in CommandIds : Terminated(c, k)
    BY <1>7, <2>2 DEF AnnouncedOutcome
  <2> QED BY <2>1, <2>2
<1>8. AnnouncedOutcome = [k \in TaskGenerations |-> AnnouncedOutcome[k]]
        /\ AnnouncedOutcome' = [k \in TaskGenerations |-> AnnouncedOutcome'[k]]
  BY DEF AnnouncedOutcome
<1>9. CASE \A k \in TaskGenerations, c \in CommandIds :
              Terminated(c, k)' => Terminated(c, k)
  BY <1>4, <1>7, <1>8, <1>9
<1>10. ASSUME NEW k \in TaskGenerations, NEW c \in CommandIds,
              Terminated(c, k)', ~Terminated(c, k)
       PROVE  Ledger!Next
  <2>1. \A l \in TaskGenerations \ {k} : AnnouncedOutcome'[l] = AnnouncedOutcome[l]
    BY <1>6, <1>7, <1>10
  <2>2. AnnouncedOutcome'[k] = commands'[c].state
    BY <1>10, AnnouncedValueNext DEF AnnouncementsRead
  <2>3. AnnouncedOutcome[k] = NoRow
    <3>1. ~ \E e \in CommandIds : Terminated(e, k)
      <4> SUFFICES ASSUME NEW e \in CommandIds, Terminated(e, k) PROVE FALSE
        OBVIOUS
      <4>1. Terminated(e, k)'
        BY <1>1, AnnouncedStays
      <4>2. e = c
        BY <1>10, <4>1 DEF OutcomeInv, OneCommandPerGeneration, Terminated, CommandFor
      <4> QED BY <1>10, <4>2
    <3> QED BY <3>1 DEF AnnouncedOutcome
  <2>4. AnnouncedOutcome' = [AnnouncedOutcome EXCEPT ![k] = DecidedOutcome[k]]
    BY <1>6, <1>8, <1>10, <2>1, <2>2
  <2>5. Ledger!Announce(k)
    BY <1>4, <1>6, <1>10, <2>3, <2>4 DEF Ledger!Announce
  <2> QED BY <2>5 DEF Ledger!Next
<1> QED BY <1>9, <1>10

(* The store implements the ledger: a task generation is decided at most   *)
(* once, and announces what was decided.                                   *)
THEOREM StoreKeepsLedger == Spec => LedgerSpec
<1>1. Init => Ledger!Init
  BY DEF Init, Ledger!Init, DecidedOutcome, AnnouncedOutcome, Decides, Terminated, CommandFor
<1>2. OutcomeInv /\ OutcomeInv' /\ [Next]_vars
        => [Ledger!Next]_<<DecidedOutcome, AnnouncedOutcome>>
  <2> SUFFICES ASSUME OutcomeInv, OutcomeInv', [Next]_vars
               PROVE  UNCHANGED <<DecidedOutcome, AnnouncedOutcome>> \/ Ledger!Next
    OBVIOUS
  <2>1. CASE UNCHANGED <<commands, receipts>>
    BY <2>1 DEF DecidedOutcome, AnnouncedOutcome, Decides, Terminated, CommandFor,
                TerminalReceipt
  <2>2. CASE ReceiptStatement
    BY <2>2, ReceiptStepsLedger
  <2>3. CASE CommandStatement
    BY <2>3, CommandStepsLedger
  <2> QED BY <2>1, <2>2, <2>3, Frames DEF Next, vars
<1> QED BY <1>1, <1>2, OutcomeInvariant, PTL DEF Spec, LedgerSpec, Ledger!Spec
=============================================================================
