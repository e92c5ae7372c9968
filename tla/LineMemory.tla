----------------------------- MODULE LineMemory -----------------------------
(***************************************************************************)
(* What the LINE server keeps of one person in the external memory service *)
(* (MSP), and how it takes it back.  An answering turn appends the question *)
(* and its answer to MSP and keeps a receipt of each; couriers report the   *)
(* delivery of the answer; an erasure overwrites the jobs and leaves a      *)
(* record, and scanners ask MSP to erase the person for every record.       *)
(*                                                                         *)
(* Nothing is called inside a transaction, so a call may be served late,    *)
(* after its caller has given up, or never.  MSP blanks the messages of the *)
(* person and answers a key it has seen with the receipt it stored.         *)
(***************************************************************************)
EXTENDS Naturals, Sequences, FiniteSets, FiniteSetsExt

CONSTANTS
  Jobs,           \* the person's jobs, all with memory sync
  Scanners,       \* processes that scan the erasure records
  Couriers,       \* processes that scan the pending deliveries
  Wire,           \* how long after its last fence a turn's append may still come
  Grace,          \* no erasure is asked for before its record is this old
  ClaimTime,      \* how long an attempt holds its record
  MaxAttempts,
  DeliveryLease,
  Plans,          \* the bounds of a behaviour: each starts with one of these
  MaxTime

\* The jobs, processes, erasures and faults there are, whether the account may be
\* switched off, and the time from which the clock waits for whatever is due.
PlanType == [jobs : SUBSET Jobs, scanners : SUBSET Scanners, couriers : SUBSET Couriers,
             erasures : Nat, faults : Nat, off : BOOLEAN, horizon : Nat]

\* MEMORY_ERASURE_GRACE_MS is longer than the claim of a turn.
ASSUME MemoryAssumption ==
  /\ {Wire, Grace, ClaimTime, MaxAttempts, DeliveryLease, MaxTime} \subseteq Nat
  /\ Wire < Grace /\ MaxAttempts > 0 /\ Plans \subseteq PlanType /\ Jobs # {}

VARIABLES
  plan, now,
  on,        \* the account may talk to LINE and MSP
  job,       \* job rows, as far as memory is concerned
  turn,      \* the turn that answers each job
  proj,      \* projection receipts: of the question and of the answer
  customer,  \* the erasure status shown on the Customer
  rec,       \* erasure records, in the order they were written
  scan, cour,
  net,       \* calls MSP may still serve
  msp,       \* what MSP holds
  faults

core == <<on, job, proj, customer, rec>>
vars == <<plan, now, core, turn, scan, cour, net, msp, faults>>
-----------------------------------------------------------------------------
Directions == {"INBOUND", "OUTBOUND"}
Job     == [state : {"none", "CLAIMED", "RECORDED", "ENDED", "ERASED"},
            dlv : {"NONE", "PENDING", "ACKNOWLEDGED", "CLOSED"},
            version : Nat, lease : Nat, next : Nat]
NoJob   == [state |-> "none", dlv |-> "NONE", version |-> 0, lease |-> 0, next |-> 0]
Turn    == [pc : {"idle", "fence", "wait", "read", "write", "commit"}, dir : Directions,
            since : Nat, erased : BOOLEAN]
NoTurn  == [pc |-> "idle", dir |-> "INBOUND", since |-> 0, erased |-> FALSE]
Receipt == [erasure : {"none", "ACTIVE", "PENDING_MSP", "ERASED"},
            dlv : {"none", "PENDING", "ACKNOWLEDGED", "CLOSED"}]
NoReceipt == [erasure |-> "none", dlv |-> "none"]
Record  == [jobs : SUBSET Jobs, at : Nat, tries : Nat, claimed : Nat, until : Nat,
            acked : BOOLEAN, failed : BOOLEAN]
Scan    == [pc : {"idle", "read", "claim", "wait", "settle", "defer"}, at : Nat,
            batch : SUBSET (Nat \ {0}), try : Nat]
NoScan  == [pc |-> "idle", at |-> 0, batch |-> {}, try |-> 0]
Courier == [pc : {"idle", "pick", "check", "send", "wait", "ack", "close", "release"},
            at : Nat, job : Jobs, version : Nat]
NoCourier == [pc |-> "idle", at |-> 0, job |-> CHOOSE j \in Jobs : TRUE, version |-> 0]

AppendCall(j, d) == [op |-> "append", job |-> j, dir |-> d, at |-> now]
ErasureCall(s)   == [op |-> "erase", by |-> s, rec |-> Min(scan[s].batch), try |-> scan[s].try]
DeliveryCall(c)  == [op |-> "deliver", by |-> c, job |-> cour[c].job, version |-> cour[c].version]

Later(a, b) == IF a > b THEN a ELSE b
Fault == faults < plan.faults /\ faults' = faults + 1
-----------------------------------------------------------------------------
(* The turn of a job. *)

Admit(j) ==
  /\ j \in plan.jobs /\ job[j].state = "none" /\ on /\ now < plan.horizon
  /\ job' = [job EXCEPT ![j].state = "CLAIMED"]
  /\ turn' = [turn EXCEPT ![j].pc = "fence"]
  /\ UNCHANGED <<plan, now, on, proj, customer, rec, scan, cour, net, msp, faults>>

\* Mutant: the job row is not read again before a boundary.
Live_Admitted(j) == on

Live(j) == job[j].state = "CLAIMED" /\ on

\* The turn ends without an answer.
Fail(j) ==
  /\ turn' = [turn EXCEPT ![j] = NoTurn]
  /\ job' = [job EXCEPT ![j].state = IF @ = "CLAIMED" THEN "ENDED" ELSE @]

\* The last look at the job before MSP is called.
FenceTurn(j) ==
  /\ turn[j].pc = "fence"
  /\ \/ /\ Live(j)
        /\ turn' = [turn EXCEPT ![j].pc = "wait", ![j].since = now]
        /\ net' = net \cup {AppendCall(j, turn[j].dir)} /\ UNCHANGED job
     \/ ~Live(j) /\ Fail(j) /\ UNCHANGED net
  /\ UNCHANGED <<plan, now, on, proj, customer, rec, scan, cour, msp, faults>>

\* The call times out, or the process stops, at any step of the turn.
TurnStops(j) ==
  /\ turn[j].pc # "idle" /\ Fault /\ Fail(j)
  /\ UNCHANGED <<plan, now, on, proj, customer, rec, scan, cour, net, msp>>

\* The receipt's transaction looks at the job first and creates the row after it.
ReadJob(j) ==
  /\ turn[j].pc = "read"
  /\ turn' = [turn EXCEPT ![j].pc = "write", ![j].erased = job[j].state = "ERASED"]
  /\ UNCHANGED <<plan, now, core, scan, cour, net, msp, faults>>

\* Mutant: the answer's receipt takes over the delivery state MSP was given.
ReceiptOf_Queued(t) ==
  [erasure |-> IF t.erased THEN "PENDING_MSP" ELSE "ACTIVE",
   dlv     |-> IF t.dir = "INBOUND" THEN "ACKNOWLEDGED" ELSE "QUEUED"]

ReceiptOf(t) ==
  [erasure |-> IF t.erased THEN "PENDING_MSP" ELSE "ACTIVE",
   dlv     |-> IF t.dir = "INBOUND" THEN "ACKNOWLEDGED" ELSE "PENDING"]

WriteReceipt(j) ==
  /\ turn[j].pc = "write"
  /\ proj' = [proj EXCEPT ![j][turn[j].dir] = ReceiptOf(turn[j])]
  /\ turn' = [turn EXCEPT ![j] =
       IF @.dir = "INBOUND" THEN [@ EXCEPT !.pc = "fence", !.dir = "OUTBOUND"]
       ELSE [@ EXCEPT !.pc = "commit"]]
  /\ UNCHANGED <<plan, now, on, job, customer, rec, scan, cour, net, msp, faults>>

\* The answer is committed, accepted by LINE and recorded, and its delivery pends.
\* The out-of-hours reply and the answer to a work command never touch MSP; their
\* delivery pends all the same.
CommitTurn(j) ==
  /\ turn[j].pc = "commit" \/ (turn[j].pc = "fence" /\ turn[j].dir = "INBOUND")
  /\ \/ /\ Live(j) /\ turn' = [turn EXCEPT ![j] = NoTurn]
        /\ job' = [job EXCEPT ![j].state = "RECORDED", ![j].dlv = "PENDING",
                              ![j].next = now, ![j].version = @ + 1]
     \/ turn[j].pc = "commit" /\ ~Live(j) /\ Fail(j)
  /\ UNCHANGED <<plan, now, on, proj, customer, rec, scan, cour, net, msp, faults>>

MspAppends(q) ==
  /\ q.op = "append"
  /\ msp' = [msp EXCEPT !.human[q.job] =
       IF q.dir = "INBOUND" /\ @ = "none" THEN "text" ELSE @]
  /\ turn' = IF turn[q.job].pc = "wait" /\ turn[q.job].dir = q.dir
             THEN [turn EXCEPT ![q.job].pc = "read"] ELSE turn
  /\ UNCHANGED <<scan, cour>>
-----------------------------------------------------------------------------
(* The erasure of the person, and the scan of its records. *)

SwitchOff ==
  /\ plan.off /\ on /\ on' = FALSE
  /\ UNCHANGED <<plan, now, job, turn, proj, customer, rec, scan, cour, net, msp, faults>>

\* Mutant: a delivery that pends is left to its courier.
CloseOutbox_Left(row) == row

\* A delivery that pends is closed and loses its lease.
CloseOutbox(row) ==
  [row EXCEPT !.dlv = IF @ = "PENDING" THEN "CLOSED" ELSE @, !.lease = 0, !.next = 0,
              !.version = @ + 1]

\* One transaction overwrites every job not erased before and writes one record for
\* them.
Erase ==
  LET found == {j \in Jobs : job[j].state \notin {"none", "ERASED"}} IN
  /\ found # {} /\ Len(rec) < plan.erasures /\ now < plan.horizon
  /\ job' = [j \in Jobs |-> IF j \in found
       THEN [CloseOutbox(job[j]) EXCEPT !.state = "ERASED"] ELSE job[j]]
  /\ rec' = Append(rec, [jobs |-> found, at |-> now, tries |-> 0, claimed |-> 0, until |-> 0,
                         acked |-> FALSE, failed |-> FALSE])
  /\ proj' = [j \in Jobs |-> [d \in Directions |->
       IF proj[j][d].erasure = "ACTIVE" THEN [proj[j][d] EXCEPT !.erasure = "PENDING_MSP"]
       ELSE proj[j][d]]]
  /\ customer' = "PENDING_MSP"
  /\ UNCHANGED <<plan, now, on, turn, scan, cour, net, msp, faults>>

Backoff(try) == 1

\* Mutant: the first attempt is made at once.
GraceOver_AtOnce(i, at) == TRUE

GraceOver(i, at) == rec[i].at + Grace <= at

\* Mutant: a record whose attempts are all claimed is not looked at again.
Due_Unspent(i, at) ==
  /\ ~rec[i].acked /\ ~rec[i].failed /\ GraceOver(i, at) /\ rec[i].tries < MaxAttempts
  /\ rec[i].claimed = 0 \/ rec[i].claimed + ClaimTime <= at
  /\ rec[i].until <= at

Due(i, at) ==
  /\ ~rec[i].acked /\ ~rec[i].failed /\ GraceOver(i, at)
  /\ rec[i].claimed = 0 \/ rec[i].claimed + ClaimTime <= at
  /\ rec[i].until <= at

DueNow == {i \in DOMAIN rec : Due(i, now)}

\* A scan reads the due records once, to take them oldest first; its time is the time
\* it began.
StartScan(s) ==
  /\ s \in plan.scanners /\ scan[s].pc = "idle" /\ DueNow # {}
  /\ scan' = [scan EXCEPT ![s] = [pc |-> "read", at |-> now, try |-> 0,
                                  batch |-> DueNow]]
  /\ UNCHANGED <<plan, now, core, turn, cour, net, msp, faults>>

Current(s) == Min(scan[s].batch)

\* On to the next record of the batch.
NextRecord(s) ==
  LET rest == scan[s].batch \ {Current(s)} IN
  scan' = [scan EXCEPT ![s] =
    IF rest = {} THEN NoScan ELSE [@ EXCEPT !.pc = "read", !.batch = rest]]

\* Where a record was acknowledged since the scan began, its events are redacted but
\* the row of the batch is not: MSP is asked for the receipt again, as attempt 0.
ReadRecord(s) ==
  /\ scan[s].pc = "read"
  /\ \/ /\ rec[Current(s)].acked
        /\ scan' = [scan EXCEPT ![s].pc = "wait", ![s].try = 0]
        /\ net' = net \cup {[ErasureCall(s) EXCEPT !.try = 0]}
     \/ /\ ~rec[Current(s)].acked /\ UNCHANGED net
        /\ scan' = [scan EXCEPT ![s].pc = "claim", ![s].try = rec[Current(s)].tries + 1]
  /\ UNCHANGED <<plan, now, core, turn, cour, msp, faults>>

\* An attempt is claimed by its number: one of two scanners gets it.
ClaimAttempt(s) ==
  LET i == Current(s) IN
  /\ scan[s].pc = "claim"
  /\ \/ /\ rec[i].acked \/ rec[i].tries >= scan[s].try
        /\ NextRecord(s) /\ UNCHANGED <<rec, net>>
     \/ /\ ~rec[i].acked /\ rec[i].tries < scan[s].try
        /\ rec' = [rec EXCEPT ![i].tries = scan[s].try, ![i].claimed = Later(@, scan[s].at)]
        /\ net' = net \cup {ErasureCall(s)}
        /\ scan' = [scan EXCEPT ![s].pc = "wait"]
  /\ UNCHANGED <<plan, now, on, job, proj, customer, turn, cour, msp, faults>>

Recovering(s) == scan[s].try = 0

ScanTimesOut(s) ==
  /\ scan[s].pc = "wait" /\ Fault
  /\ IF Recovering(s) THEN NextRecord(s) ELSE scan' = [scan EXCEPT ![s].pc = "defer"]
  /\ UNCHANGED <<plan, now, core, turn, cour, net, msp>>

\* MSP blanks what it holds of the person, in the whole tenant, once per key.
MspErases(q) ==
  /\ q.op = "erase"
  /\ msp' = IF q.rec \in msp.keys THEN msp
            ELSE [msp EXCEPT !.keys = @ \cup {q.rec},
                             !.human = [j \in Jobs |-> IF @[j] = "text" THEN "blank" ELSE @[j]]]
  /\ scan' = IF scan[q.by].pc = "wait" /\ Current(q.by) = q.rec /\ scan[q.by].try = q.try
             THEN [scan EXCEPT ![q.by].pc = "settle"] ELSE scan
  /\ UNCHANGED <<turn, cour>>

\* Mutant: the acknowledgement leaves the receipts as they are.
Erased_Unsettled(receipt) == receipt

Erased(receipt) ==
  IF receipt.erasure = "PENDING_MSP" THEN [receipt EXCEPT !.erasure = "ERASED"] ELSE receipt

\* The acknowledgement, the receipts and the Customer in one transaction.
FinalizeErasure(s) ==
  /\ scan[s].pc = "settle" /\ (Recovering(s) \/ ~rec[Current(s)].acked)
  /\ rec' = [rec EXCEPT ![Current(s)].acked = TRUE]
  /\ proj' = [j \in Jobs |-> [d \in Directions |-> Erased(proj[j][d])]]
  /\ customer' = IF customer = "PENDING_MSP" THEN "ERASED" ELSE customer
  /\ NextRecord(s)
  /\ UNCHANGED <<plan, now, on, job, turn, cour, net, msp, faults>>

\* Acknowledged by another scanner already, or the transaction fails.  Where the
\* receipt was only recovered, the scan ends with it.
FinalizeFails(s) ==
  /\ scan[s].pc = "settle"
  /\ \/ ~Recovering(s) /\ rec[Current(s)].acked /\ UNCHANGED faults
     \/ Fault
  /\ scan' = [scan EXCEPT ![s] = IF Recovering(s) THEN NoScan ELSE [@ EXCEPT !.pc = "defer"]]
  /\ UNCHANGED <<plan, now, core, turn, cour, net, msp>>

Spent(i, s) ==
  IF scan[s].try >= MaxAttempts THEN [rec[i] EXCEPT !.failed = TRUE]
  ELSE [rec[i] EXCEPT !.until = Later(@, scan[s].at + Backoff(scan[s].try))]

\* A retry is scheduled or the record fails.  Where the journal refuses the row the
\* scan ends with the rest of its batch undone.
DeferErasure(s) ==
  LET i == Current(s) IN
  /\ scan[s].pc = "defer"
  /\ \/ /\ ~rec[i].acked /\ ~(scan[s].try >= MaxAttempts /\ rec[i].failed)
        /\ rec' = [rec EXCEPT ![i] = Spent(i, s)] /\ NextRecord(s)
     \/ /\ rec[i].acked \/ (scan[s].try >= MaxAttempts /\ rec[i].failed)
        /\ scan' = [scan EXCEPT ![s] = NoScan] /\ UNCHANGED rec
  /\ UNCHANGED <<plan, now, on, job, proj, customer, turn, cour, net, msp, faults>>

ScannerStops(s) ==
  /\ scan[s].pc # "idle" /\ Fault
  /\ scan' = [scan EXCEPT ![s] = NoScan]
  /\ UNCHANGED <<plan, now, core, turn, cour, net, msp>>
-----------------------------------------------------------------------------
(* The delivery outbox. *)

DueDelivery(j, at) ==
  job[j].state = "RECORDED" /\ job[j].dlv = "PENDING" /\ job[j].lease <= at /\ job[j].next <= at

StartCourier(c) ==
  /\ c \in plan.couriers /\ cour[c].pc = "idle" /\ \E j \in Jobs : DueDelivery(j, now)
  /\ cour' = [cour EXCEPT ![c].pc = "pick", ![c].at = now]
  /\ UNCHANGED <<plan, now, core, turn, scan, net, msp, faults>>

\* The lease counts from the time the scan began.
ClaimDelivery(c, j) ==
  /\ cour[c].pc = "pick" /\ DueDelivery(j, cour[c].at)
  /\ job' = [job EXCEPT ![j].lease = cour[c].at + DeliveryLease, ![j].version = @ + 1]
  /\ cour' = [cour EXCEPT ![c].pc = "check", ![c].job = j, ![c].version = job[j].version + 1]
  /\ UNCHANGED <<plan, now, on, proj, customer, rec, turn, scan, net, msp, faults>>

Rest(c) == cour' = [cour EXCEPT ![c] = NoCourier]
Then(c, pc) == cour' = [cour EXCEPT ![c].pc = pc]

EndCourier(c) ==
  /\ cour[c].pc = "pick" /\ ~\E j \in Jobs : DueDelivery(j, cour[c].at)
  /\ Rest(c)
  /\ UNCHANGED <<plan, now, core, turn, scan, net, msp, faults>>

\* Mutant: a claim is the courier's whoever has the row by now.
Owned_Any(c) == TRUE

Owned(c) == job[cour[c].job].version = cour[c].version /\ job[cour[c].job].dlv = "PENDING"

\* The source of a delivery: the account, and the receipt of the question.
Deliverable(c) == on /\ proj[cour[c].job].INBOUND.erasure = "ACTIVE"

\* The policy is resolved between the two reads of the source.
Refusable(c) == plan.off /\ cour[c].pc = "check"

\* The source is read before the policy is resolved and again after it; a lost
\* claim is left alone, and the policy may refuse.
ReadSource(c) ==
  /\ cour[c].pc \in {"check", "send"}
  /\ \/ ~Owned(c) /\ Then(c, "pick") /\ UNCHANGED net
     \/ Owned(c) /\ (~Deliverable(c) \/ Refusable(c)) /\ Then(c, "close") /\ UNCHANGED net
     \/ Owned(c) /\ Deliverable(c) /\ cour[c].pc = "check" /\ Then(c, "send") /\ UNCHANGED net
     \/ /\ Owned(c) /\ Deliverable(c) /\ cour[c].pc = "send" /\ Then(c, "wait")
        /\ net' = net \cup {DeliveryCall(c)}
  /\ UNCHANGED <<plan, now, core, turn, scan, msp, faults>>

CloseDelivery(c) ==
  LET j == cour[c].job IN
  /\ cour[c].pc = "close" /\ Then(c, "pick")
  /\ \/ /\ Owned(c)
        /\ job' = [job EXCEPT ![j] = CloseOutbox(@)]
        /\ proj' = [proj EXCEPT ![j].OUTBOUND.dlv = IF @ = "none" THEN @ ELSE "CLOSED"]
     \/ ~Owned(c) /\ UNCHANGED <<job, proj>>
  /\ UNCHANGED <<plan, now, on, customer, rec, turn, scan, net, msp, faults>>

\* A read, the policy or MSP does not answer.
CourierTimesOut(c) ==
  /\ cour[c].pc \in {"check", "send", "wait"} /\ Fault /\ Then(c, "release")
  /\ UNCHANGED <<plan, now, core, turn, scan, net, msp>>

\* MSP keeps one delivery receipt of an answer.
MspDelivers(q) ==
  /\ q.op = "deliver"
  /\ msp' = [msp EXCEPT !.delivered = @ \cup {q.job}]
  /\ cour' = IF cour[q.by].pc = "wait" /\ DeliveryCall(q.by) = q
             THEN [cour EXCEPT ![q.by].pc = "ack"] ELSE cour
  /\ UNCHANGED <<turn, scan>>

\* The row and the receipt of the answer in one transaction.
AcknowledgeDelivery(c) ==
  LET j == cour[c].job IN
  /\ cour[c].pc = "ack"
  /\ \/ ~Owned(c) /\ Then(c, "pick") /\ UNCHANGED <<job, proj>>
     \/ /\ Owned(c) /\ Then(c, "pick")
        /\ job' = [job EXCEPT ![j].dlv = "ACKNOWLEDGED", ![j].lease = 0, ![j].next = 0,
                              ![j].version = @ + 1]
        /\ proj' = [proj EXCEPT ![j].OUTBOUND.dlv = "ACKNOWLEDGED"]
  /\ UNCHANGED <<plan, now, on, customer, rec, turn, scan, net, msp, faults>>

ReleaseDelivery(c) ==
  LET j == cour[c].job IN
  /\ cour[c].pc = "release" /\ Then(c, "pick")
  /\ \/ /\ Owned(c)
        /\ job' = [job EXCEPT ![j].lease = 0, ![j].next = cour[c].at + 1, ![j].version = @ + 1]
     \/ ~Owned(c) /\ UNCHANGED job
  /\ UNCHANGED <<plan, now, on, proj, customer, rec, turn, scan, net, msp, faults>>

CourierStops(c) ==
  /\ cour[c].pc # "idle" /\ Fault /\ Rest(c)
  /\ UNCHANGED <<plan, now, core, turn, scan, net, msp>>
-----------------------------------------------------------------------------
Awaited(q) ==
  CASE q.op = "append"  -> turn[q.job].pc = "wait" /\ turn[q.job].dir = q.dir
    [] q.op = "erase"   -> scan[q.by].pc = "wait" /\ ErasureCall(q.by) = q
    [] q.op = "deliver" -> cour[q.by].pc = "wait" /\ DeliveryCall(q.by) = q

MspServes(q) ==
  /\ net' = net \ {q}
  /\ MspAppends(q) \/ MspErases(q) \/ MspDelivers(q)
  /\ UNCHANGED <<plan, now, core, faults>>

\* A call nobody waits for any more may never arrive.
Lose(q) ==
  /\ ~Awaited(q) /\ net' = net \ {q}
  /\ UNCHANGED <<plan, now, core, turn, scan, cour, msp, faults>>

\* A turn past its last fence is through with its call and its receipt within Wire.
Prompt ==
  /\ \A q \in net : q.op = "append" => now < q.at + Wire
  /\ \A j \in Jobs : turn[j].pc \in {"wait", "read", "write"} => now < turn[j].since + Wire

Pending ==
  \/ net # {}
  \/ plan.scanners # {} /\ DueNow # {}
  \/ \E j \in Jobs : turn[j].pc # "idle"
  \/ \E s \in Scanners : scan[s].pc # "idle"
  \/ \E c \in Couriers : cour[c].pc # "idle"
  \/ plan.couriers # {} /\ \E j \in Jobs : DueDelivery(j, now)

Tick ==
  /\ now < MaxTime /\ Prompt /\ (now < plan.horizon \/ ~Pending)
  /\ now' = now + 1
  /\ UNCHANGED <<plan, core, turn, scan, cour, net, msp, faults>>

Answering(j) ==
  FenceTurn(j) \/ ReadJob(j) \/ WriteReceipt(j) \/ CommitTurn(j)

Scanning(s) ==
  \/ StartScan(s) \/ ReadRecord(s) \/ ClaimAttempt(s) \/ FinalizeErasure(s)
  \/ FinalizeFails(s) \/ DeferErasure(s)

Delivering(c) ==
  \/ StartCourier(c) \/ \E j \in Jobs : ClaimDelivery(c, j)
  \/ EndCourier(c) \/ ReadSource(c) \/ CloseDelivery(c) \/ AcknowledgeDelivery(c)
  \/ ReleaseDelivery(c)

Init ==
  /\ plan \in Plans /\ now = 0 /\ on = TRUE
  /\ job = [j \in Jobs |-> NoJob] /\ turn = [j \in Jobs |-> NoTurn]
  /\ proj = [j \in Jobs |-> [d \in Directions |-> NoReceipt]]
  /\ customer = "NONE" /\ rec = <<>>
  /\ scan = [s \in Scanners |-> NoScan] /\ cour = [c \in Couriers |-> NoCourier]
  /\ net = {} /\ faults = 0
  /\ msp = [human |-> [j \in Jobs |-> "none"], keys |-> {}, delivered |-> {}]

Next ==
  \/ \E j \in Jobs : Admit(j) \/ Answering(j) \/ TurnStops(j)
  \/ SwitchOff \/ Erase \/ Tick
  \/ \E s \in Scanners : Scanning(s) \/ ScanTimesOut(s) \/ ScannerStops(s)
  \/ \E c \in Couriers : Delivering(c) \/ CourierTimesOut(c) \/ CourierStops(c)
  \/ \E q \in net : MspServes(q) \/ Lose(q)

\* Every replica ticks, so a turn, a scan and a courier go on; MSP answers a call
\* that is waited for unless it is one of the faults.
Fairness ==
  /\ \A j \in Jobs : WF_vars(Answering(j))
  /\ \A s \in Scanners : WF_vars(Scanning(s))
  /\ \A c \in Couriers : WF_vars(Delivering(c))
  /\ WF_vars(\E q \in net : MspServes(q) \/ Lose(q)) /\ WF_vars(Tick)

Spec == Init /\ [][Next]_vars
LiveSpec == Spec /\ Fairness
-----------------------------------------------------------------------------
\* Types.
TypeOK ==
  /\ plan \in Plans /\ now \in Nat /\ on \in BOOLEAN /\ faults \in 0..plan.faults
  /\ job \in [Jobs -> Job] /\ turn \in [Jobs -> Turn]
  /\ proj \in [Jobs -> [Directions -> Receipt]]
  /\ customer \in {"NONE", "PENDING_MSP", "ERASED"} /\ rec \in Seq(Record)
  /\ scan \in [Scanners -> Scan] /\ cour \in [Couriers -> Courier]
  /\ msp \in [human : [Jobs -> {"none", "text", "blank"}], keys : SUBSET DOMAIN rec,
              delivered : SUBSET Jobs]

AllAcked == \A i \in DOMAIN rec : rec[i].acked

\* Once MSP has acknowledged an erasure, no message of the jobs it covers is there or
\* comes back, although a turn may have been past its last fence when the erasure was
\* committed; and once every erasure is acknowledged no receipt is left pending and the
\* Customer is shown as erased, and never before one is.
ErasedStaysErased ==
  /\ \A i \in DOMAIN rec : rec[i].acked => \A j \in rec[i].jobs : msp.human[j] # "text"
  /\ rec # <<>> /\ AllAcked =>
       customer = "ERASED" /\ \A j \in Jobs, d \in Directions : proj[j][d].erasure # "PENDING_MSP"
  /\ customer = "ERASED" => \E i \in DOMAIN rec : rec[i].acked

\* A delivery ends once: what an erasure, the policy or another courier has closed or
\* acknowledged stands, and it is acknowledged only when MSP has the delivery and the
\* receipt of the answer says so too.
DeliveryTellsTruth ==
  [][\A j \in Jobs :
       /\ job[j].dlv \in {"ACKNOWLEDGED", "CLOSED"} => job'[j].dlv = job[j].dlv
       /\ job'[j].state = "ERASED" => job'[j].dlv # "PENDING"
       /\ (job'[j].dlv = "ACKNOWLEDGED") <=> (proj'[j].OUTBOUND.dlv = "ACKNOWLEDGED")
       /\ job'[j].dlv = "ACKNOWLEDGED" => j \in msp.delivered]_vars

Ended(i) == rec[i].acked \/ rec[i].failed

\* An erasure is never dropped: each record ends acknowledged or failed; and every
\* pending delivery ends acknowledged or closed.
OutboxesDrain ==
  /\ \A i \in 1..2 : plan.scanners # {} /\ i \in DOMAIN rec ~> i \in DOMAIN rec /\ Ended(i)
  /\ \A j \in Jobs : plan.couriers # {} /\ job[j].dlv = "PENDING" ~> job[j].dlv # "PENDING"
=============================================================================
