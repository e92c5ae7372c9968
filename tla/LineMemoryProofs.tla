-------------------------- MODULE LineMemoryProofs --------------------------
(***************************************************************************)
(* What the memory of a person promises, for any number of jobs, scanners, *)
(* couriers, erasures, faults and late calls: what MSP acknowledged as     *)
(* erased does not come back, and a delivery ends once and truthfully.     *)
(*                                                                         *)
(* The first rests on time.  A turn that was past its last fence when an   *)
(* erasure was committed is through within Wire, and no scan touches the   *)
(* record before Grace is over; from then on nothing of its jobs is under  *)
(* way, whatever is asked of MSP, and however often.                       *)
(***************************************************************************)
EXTENDS LineMemory, SequenceTheorems, WellFoundedInduction, TLAPS

AppendCalls  == [op : {"append"}, job : Jobs, dir : Directions, at : Nat]
ErasureCalls == [op : {"erase"}, by : Scanners, rec : Nat \ {0}, try : Nat]
DeliveryCalls == [op : {"deliver"}, by : Couriers, job : Jobs, version : Nat]

\* The turn is past its last fence and its receipt not written.
Past(j) == turn[j].pc \in {"wait", "read", "write"}

\* The erasure's grace period is over.
Old(i) == rec[i].at + Grace <= now

TurnSound(j) ==
  /\ turn[j].pc = "idle" => turn[j] = NoTurn
  /\ turn[j].pc # "idle" => job[j].state \in {"CLAIMED", "ERASED"}
  /\ Past(j) => turn[j].since <= now /\ now <= turn[j].since + Wire
  /\ turn[j].pc = "write" /\ turn[j].erased => job[j].state = "ERASED"

JobSound(j) ==
  /\ turn[j].pc # "idle" \/ job[j].state \in {"none", "CLAIMED", "ENDED"} => job[j].dlv = "NONE"
  /\ job[j].state = "ERASED" => job[j].dlv # "PENDING"
  /\ job[j].dlv = "ACKNOWLEDGED" <=> proj[j].OUTBOUND.dlv = "ACKNOWLEDGED"
  /\ job[j].dlv = "ACKNOWLEDGED" => j \in msp.delivered

NetSound ==
  /\ net \subseteq AppendCalls \cup ErasureCalls \cup DeliveryCalls
  /\ \A q \in net :
       /\ q.op = "append" => q.at <= now /\ now <= q.at + Wire
       /\ q.op = "erase" => q.rec \in DOMAIN rec /\ Old(q.rec)

RecSound(i) ==
  /\ \A j \in rec[i].jobs :
       /\ job[j].state = "ERASED"
       /\ Past(j) => turn[j].since <= rec[i].at
       /\ \A q \in net : q.op = "append" /\ q.job = j => q.at <= rec[i].at
  /\ rec[i].acked => i \in msp.keys
  /\ i \in msp.keys => Old(i) /\ \A j \in rec[i].jobs : msp.human[j] # "text"

ScanSound(s) ==
  /\ scan[s].pc # "idle" =>
       scan[s].batch # {} /\ scan[s].batch \subseteq DOMAIN rec /\ \A i \in scan[s].batch : Old(i)
  /\ scan[s].pc = "settle" => Current(s) \in msp.keys

CourSound(c) == cour[c].pc = "ack" => cour[c].job \in msp.delivered

\* Every erased job has its record.
Covered == \A j \in Jobs : job[j].state = "ERASED" => \E i \in DOMAIN rec : j \in rec[i].jobs

Unacked == \E i \in DOMAIN rec : ~rec[i].acked

Shown ==
  /\ DOMAIN rec # {} => customer # "NONE"
  /\ customer = "PENDING_MSP" => Unacked
  /\ customer = "ERASED" => \E i \in DOMAIN rec : rec[i].acked
  /\ \A j \in Jobs, d \in Directions : proj[j][d].erasure = "PENDING_MSP" => Unacked

IInv ==
  /\ TypeOK
  /\ \A j \in Jobs : TurnSound(j) /\ JobSound(j)
  /\ NetSound
  /\ \A i \in DOMAIN rec : RecSound(i)
  /\ \A s \in Scanners : ScanSound(s)
  /\ \A c \in Couriers : CourSound(c)
  /\ Covered /\ Shown
-----------------------------------------------------------------------------
(* The state at hand. *)

\* The oldest record of a batch is one of its own.
LEMMA CurrentIs ==
  ASSUME NEW S \in SUBSET Nat, S # {}
  PROVE  Min(S) \in S
<1>1. PICK n \in S : \A m \in S : <<m, n>> \notin OpToRel(<, Nat)
  BY ZenonT(40), WFMin, NatLessThanWellFounded
<1>2. ASSUME NEW m \in S PROVE n <= m
  <2>1. m \in Nat /\ n \in Nat
    OBVIOUS
  <2>2. <<m, n>> \notin OpToRel(<, Nat)
    BY ZenonT(40), <1>1
  <2>3. m < n => <<m, n>> \in OpToRel(<, Nat)
    BY <2>1 DEF OpToRel
  <2>4. ~(m < n)
    BY ZenonT(40), <2>2, <2>3
  <2> QED
    BY <2>1, <2>4
<1> QED
  BY ZenonT(40), <1>2 DEF Min

\* The types of the entries.
LEMMA Typed ==
  ASSUME IInv
  PROVE  /\ plan.faults \in Nat /\ now \in Nat /\ Wire \in Nat /\ Grace \in Nat /\ Wire < Grace
         /\ \A j \in Jobs : /\ job[j] \in Job /\ turn[j] \in Turn
                            /\ \A d \in Directions : proj[j][d] \in Receipt
         /\ \A i \in DOMAIN rec : rec[i] \in Record /\ rec[i].at \in Nat /\ i \in Nat \ {0}
         /\ \A s \in Scanners : scan[s] \in Scan
         /\ \A c \in Couriers : cour[c] \in Courier /\ cour[c].job \in Jobs
<1>1. plan.faults \in Nat /\ Wire \in Nat /\ Grace \in Nat /\ Wire < Grace
  BY MemoryAssumption DEF IInv, TypeOK, PlanType
<1>2. \A i \in DOMAIN rec : rec[i] \in Record /\ i \in Nat \ {0}
  BY DEF IInv, TypeOK
<1> QED
  BY SMTT(40), <1>1, <1>2 DEF IInv, TypeOK, Record, Courier

\* A scan that runs stands at one of its records, which is old enough.
LEMMA ScanAt ==
  ASSUME IInv, NEW s \in Scanners, scan[s].pc # "idle"
  PROVE  /\ Current(s) \in scan[s].batch /\ Current(s) \in DOMAIN rec /\ Old(Current(s))
<1>1. scan[s].batch \in SUBSET Nat /\ scan[s].batch # {}
  BY Typed DEF IInv, ScanSound, Scan
<1>2. Current(s) \in scan[s].batch
  BY <1>1, CurrentIs DEF Current
<1> QED
  BY <1>2 DEF IInv, ScanSound

\* Once the grace period is over, nothing of the erased jobs is on its way.
LEMMA NothingComes ==
  ASSUME IInv, NEW i \in DOMAIN rec, Old(i), NEW j \in rec[i].jobs
  PROVE  /\ j \in Jobs /\ ~Past(j)
         /\ \A q \in net : q.op = "append" => q.job # j
<1>1. j \in Jobs /\ rec[i].at \in Nat
  BY Typed DEF Record
<1>2. ~Past(j)
  <2>1. turn[j].since \in Nat
    BY <1>1, Typed DEF Turn
  <2> QED
    BY <1>1, <2>1, Typed DEF IInv, TurnSound, RecSound, Old
<1>3. ASSUME NEW q \in net, q.op = "append", q.job = j PROVE FALSE
  <2>1. q.at \in Nat
    BY <1>3 DEF IInv, NetSound, AppendCalls, ErasureCalls, DeliveryCalls
  <2> QED
    BY <1>1, <1>3, <2>1, Typed DEF IInv, NetSound, RecSound, Old
<1> QED
  BY <1>1, <1>2, <1>3
-----------------------------------------------------------------------------
(* What a step leaves alone. *)

Answers(j) == Admit(j) \/ Answering(j) \/ TurnStops(j)
Scans(s) == Scanning(s) \/ ScanTimesOut(s) \/ ScannerStops(s)
Delivers(c) == Delivering(c) \/ CourierTimesOut(c) \/ CourierStops(c)

\* The step of a turn touches no record, scan or courier.
LEMMA AnswersFrame ==
  ASSUME NEW j, Answers(j)
  PROVE  UNCHANGED <<plan, now, on, customer, rec, scan, cour, msp>>
BY DEF Answers, Answering, Admit, FenceTurn, ReadJob, WriteReceipt, CommitTurn, TurnStops, core

\* The step of a scan touches no job, turn or courier.
LEMMA ScansFrame ==
  ASSUME NEW s, Scans(s)
  PROVE  UNCHANGED <<plan, now, on, job, turn, cour, msp>>
BY DEF Scans, Scanning, StartScan, ReadRecord, ClaimAttempt, FinalizeErasure, FinalizeFails,
   DeferErasure, ScanTimesOut, ScannerStops, core

\* The step of a courier touches no record, turn or scan.
LEMMA DeliversFrame ==
  ASSUME NEW c, Delivers(c)
  PROVE  UNCHANGED <<plan, now, on, customer, rec, turn, scan, msp>>
BY ZenonT(40) DEF Delivers, Delivering, StartCourier, ClaimDelivery, EndCourier, ReadSource, CloseDelivery,
   AcknowledgeDelivery, ReleaseDelivery, CourierTimesOut, CourierStops, Rest, Then, core

\* The plan stands, and faults stay within it.
LEMMA FaultsKeep ==
  ASSUME IInv, [Next]_vars
  PROVE  plan' \in Plans /\ faults' \in 0..plan'.faults
<1>1. UNCHANGED plan
  BY AnswersFrame, ScansFrame, DeliversFrame DEF Next, Answers, Scans, Delivers, vars, SwitchOff,
     Erase, Tick, MspServes, Lose
<1>2. UNCHANGED faults \/ Fault
  BY ZenonT(40) DEF Next, vars, SwitchOff, Erase, Tick, MspServes, Lose, Answering, Admit, FenceTurn, ReadJob,
     WriteReceipt, CommitTurn, TurnStops, Scanning, StartScan, ReadRecord, ClaimAttempt,
     FinalizeErasure, FinalizeFails, DeferErasure, ScanTimesOut, ScannerStops, Delivering,
     StartCourier, ClaimDelivery, EndCourier, ReadSource, CloseDelivery, AcknowledgeDelivery,
     ReleaseDelivery, CourierTimesOut, CourierStops
<1>3. plan \in Plans /\ faults \in 0..plan.faults /\ plan.faults \in Nat
  BY Typed DEF IInv, TypeOK
<1> QED
  BY <1>1, <1>2, <1>3 DEF Fault
-----------------------------------------------------------------------------
(* A turn. *)

\* What a turn's step does to its job, its turn and its receipts; those of other jobs
\* are left alone.
TurnEffect(j) ==
  /\ job' \in [Jobs -> Job] /\ turn' \in [Jobs -> Turn] /\ proj' \in [Jobs -> [Directions -> Receipt]]
  /\ \A k \in Jobs \ {j} : job'[k] = job[k] /\ turn'[k] = turn[k] /\ proj'[k] = proj[k]
  /\ job'[j].state = "ERASED" <=> job[j].state = "ERASED"
  /\ \/ UNCHANGED job
     \/ /\ job[j].dlv = "NONE" /\ job'[j].dlv \in {"NONE", "PENDING"}
        /\ job'[j].state = "ERASED" => job'[j].dlv = "NONE"
  /\ TurnSound(j)'
  /\ turn'[j].pc # "idle" \/ job'[j].state \in {"none", "CLAIMED", "ENDED"} => job'[j].dlv = "NONE"
  /\ Past(j)' /\ job[j].state = "ERASED" => Past(j) /\ turn'[j].since = turn[j].since
  /\ \A d \in Directions :
       \/ proj'[j][d] = proj[j][d]
       \/ /\ turn[j].pc = "write" /\ (d = "OUTBOUND" => proj'[j][d].dlv = "PENDING")
          /\ proj'[j][d].erasure = "PENDING_MSP" => turn[j].erased
  /\ net' = net \/ (job[j].state = "CLAIMED" /\ net' = net \cup {AppendCall(j, turn[j].dir)})

\* A turn that does not run any more.
LEMMA FailEffect ==
  ASSUME IInv, NEW j \in Jobs, turn[j].pc # "idle", Fail(j), UNCHANGED <<proj, net, now>>
  PROVE  TurnEffect(j)
<1>t. /\ job \in [Jobs -> Job] /\ turn \in [Jobs -> Turn] /\ proj \in [Jobs -> [Directions -> Receipt]]
      /\ TurnSound(j) /\ JobSound(j)
  BY DEF IInv, TypeOK
<1>0. NoTurn \in Turn /\ NoTurn.pc = "idle"
  BY DEF NoTurn, Turn, Directions
<1>1. turn' = [turn EXCEPT ![j] = NoTurn] /\ turn' \in [Jobs -> Turn] /\ turn'[j] = NoTurn
  BY <1>t, <1>0 DEF Fail
<1>x. PICK row \in Job : row = job[j]
  BY <1>t
<1>y. PICK end : end = IF row.state = "CLAIMED" THEN "ENDED" ELSE row.state
  OBVIOUS
<1>z. /\ [row EXCEPT !.state = end] \in Job /\ [row EXCEPT !.state = end].state = end
      /\ [row EXCEPT !.state = end].dlv = row.dlv
  <2>1. end \in {"none", "CLAIMED", "RECORDED", "ENDED", "ERASED"}
    BY <1>y DEF Job
  <2> QED
    BY <2>1 DEF Job
<1>2. PICK new \in Job : new = [row EXCEPT !.state = end] /\ new.state = end /\ new.dlv = row.dlv
  BY ZenonT(40), <1>z
<1>3. job' = [job EXCEPT ![j] = new]
  <2>1. job' = [job EXCEPT ![j] = [row EXCEPT !.state = end]]
    BY <1>t, <1>x, <1>y DEF Fail
  <2> QED
    BY <2>1, <1>2
<1>4. job' \in [Jobs -> Job] /\ job'[j] = new /\ \A k \in Jobs \ {j} : job'[k] = job[k]
  BY <1>t, <1>3
<1>5. row.dlv = "NONE" /\ row.state \in {"CLAIMED", "ERASED"}
  BY <1>t, <1>x DEF JobSound, TurnSound
<1>6. TurnSound(j)' /\ ~Past(j)'
  BY <1>0, <1>1 DEF TurnSound, Past
<1>7. \A k \in Jobs \ {j} : turn'[k] = turn[k]
  BY <1>t, <1>1
<1> QED
  BY ZenonT(40), <1>t, <1>0, <1>1, <1>x, <1>y, <1>2, <1>4, <1>5, <1>6, <1>7 DEF TurnEffect

\* A turn that changes its place in the handler.
LEMMA MoveEffect ==
  ASSUME IInv, NEW j \in Jobs, NEW new \in Turn, turn' = [turn EXCEPT ![j] = new], new.pc # "idle",
         turn[j].pc # "idle", UNCHANGED <<job, proj, now>>,
         TurnSound(j)',
         Past(j)' /\ job[j].state = "ERASED" => Past(j) /\ new.since = turn[j].since,
         net' = net \/ (job[j].state = "CLAIMED" /\ net' = net \cup {AppendCall(j, turn[j].dir)})
  PROVE  TurnEffect(j)
<1>t. /\ job \in [Jobs -> Job] /\ turn \in [Jobs -> Turn] /\ proj \in [Jobs -> [Directions -> Receipt]]
      /\ TurnSound(j) /\ JobSound(j)
  BY DEF IInv, TypeOK
<1>1. turn' \in [Jobs -> Turn] /\ turn'[j] = new /\ \A k \in Jobs \ {j} : turn'[k] = turn[k]
  BY <1>t
<1>2. job[j].dlv = "NONE"
  BY <1>t DEF JobSound
<1> QED
  BY <1>t, <1>1, <1>2 DEF TurnEffect
\* Every step of a turn does no more than that.
LEMMA AnswersEffect ==
  ASSUME IInv, NEW j \in Jobs, Answers(j)
  PROVE  TurnEffect(j)
<1>t. /\ job \in [Jobs -> Job] /\ turn \in [Jobs -> Turn] /\ proj \in [Jobs -> [Directions -> Receipt]]
      /\ TurnSound(j) /\ JobSound(j) /\ now \in Nat /\ Wire \in Nat
  BY MemoryAssumption DEF IInv, TypeOK
<1>x. PICK row \in Job : row = job[j]
  BY <1>t
<1>y. PICK t \in Turn : t = turn[j]
  BY <1>t
<1>z. NoTurn \in Turn /\ NoTurn.pc = "idle"
  BY DEF NoTurn, Turn, Directions
<1>1. CASE Admit(j)
  <2>1. PICK new \in Job : new = [row EXCEPT !.state = "CLAIMED"] /\ new.state = "CLAIMED" /\ new.dlv = row.dlv
    <3>1. [row EXCEPT !.state = "CLAIMED"] \in Job
      BY DEF Job
    <3> QED
      BY <3>1 DEF Job
  <2>2. PICK next \in Turn : next = [t EXCEPT !.pc = "fence"] /\ next.pc = "fence"
    <3>1. [t EXCEPT !.pc = "fence"] \in Turn
      BY DEF Turn
    <3> QED
      BY <3>1 DEF Turn
  <2>3. job' = [job EXCEPT ![j] = new] /\ turn' = [turn EXCEPT ![j] = next] /\ row.state = "none"
    BY <1>1, <1>t, <1>x, <1>y, <2>1, <2>2 DEF Admit
  <2>4. /\ job' \in [Jobs -> Job] /\ job'[j] = new /\ turn' \in [Jobs -> Turn] /\ turn'[j] = next
        /\ \A k \in Jobs \ {j} : job'[k] = job[k] /\ turn'[k] = turn[k]
    BY <1>t, <2>3
  <2>5. UNCHANGED <<proj, net>>
    BY <1>1 DEF Admit
  <2>6. row.dlv = "NONE"
    BY <1>t, <1>x, <2>3 DEF JobSound
  <2>7. TurnSound(j)' /\ ~Past(j)'
    BY <2>1, <2>2, <2>4 DEF TurnSound, Past
  <2> QED
    BY <1>t, <1>x, <2>1, <2>2, <2>3, <2>4, <2>5, <2>6, <2>7 DEF TurnEffect
<1>2. CASE FenceTurn(j)
  <2>1. ASSUME ~Live(j), Fail(j), UNCHANGED <<proj, net, now>>, turn[j].pc # "idle" PROVE TurnEffect(j)
    BY <2>1, FailEffect
  <2>2. ASSUME Live(j), turn' = [turn EXCEPT ![j].pc = "wait", ![j].since = now],
               net' = net \cup {AppendCall(j, turn[j].dir)}, UNCHANGED job, turn[j].pc = "fence",
               UNCHANGED <<proj, now>>
        PROVE TurnEffect(j)
    <3>1. PICK next \in Turn : /\ next = [[t EXCEPT !.pc = "wait"] EXCEPT !.since = now]
                               /\ next.pc = "wait" /\ next.since = now
      <4>1. [[t EXCEPT !.pc = "wait"] EXCEPT !.since = now] \in Turn
        BY ZenonT(40), <1>t DEF Turn
      <4> QED
        BY ZenonT(40), <4>1 DEF Turn
    <3>2. turn' = [turn EXCEPT ![j] = next]
      BY ZenonT(40), <1>t, <1>y, <2>2, <3>1
    <3>3. turn'[j] = next
      BY <1>t, <3>2
    <3>4. TurnSound(j)'
      BY <1>t, <2>2, <3>1, <3>3 DEF TurnSound, Past, Live
    <3>5. job[j].state = "CLAIMED"
      BY <2>2 DEF Live
    <3> QED
      BY ZenonT(40), <2>2, <3>1, <3>2, <3>4, <3>5, MoveEffect
  <2> QED
    BY <1>2, <2>1, <2>2 DEF FenceTurn
<1>3. CASE TurnStops(j)
  BY <1>3, FailEffect DEF TurnStops
<1>4. CASE ReadJob(j)
  <2>0. turn[j].pc = "read" /\ UNCHANGED <<job, proj, now, net>>
    BY <1>4 DEF ReadJob, core
  <2>e. PICK erased \in BOOLEAN : erased = (job[j].state = "ERASED")
    OBVIOUS
  <2>1. PICK next \in Turn : /\ next = [[t EXCEPT !.pc = "write"] EXCEPT !.erased = erased]
                             /\ next.pc = "write" /\ next.since = t.since /\ next.erased = erased
    <3>1. [[t EXCEPT !.pc = "write"] EXCEPT !.erased = erased] \in Turn
      BY ZenonT(40) DEF Turn
    <3> QED
      BY ZenonT(40), <3>1 DEF Turn
  <2>2. turn' = [turn EXCEPT ![j] = next]
    BY ZenonT(40), <1>4, <1>t, <1>y, <2>e, <2>1 DEF ReadJob
  <2>3. turn'[j] = next
    BY <1>t, <2>2
  <2>4. TurnSound(j)'
    BY ZenonT(40), <1>t, <1>y, <2>0, <2>e, <2>1, <2>3 DEF TurnSound, Past
  <2>5. Past(j)
    BY <2>0 DEF Past
  <2> QED
    BY ZenonT(40), <1>y, <2>0, <2>1, <2>2, <2>4, <2>5, MoveEffect
<1>5. CASE CommitTurn(j)
  <2>0. turn[j].pc \in {"commit", "fence"} /\ UNCHANGED <<proj, net, now>>
    BY <1>5 DEF CommitTurn
  <2>1. CASE Fail(j)
    BY <2>0, <2>1, FailEffect
  <2>2. CASE /\ Live(j) /\ turn' = [turn EXCEPT ![j] = NoTurn]
             /\ job' = [job EXCEPT ![j].state = "RECORDED", ![j].dlv = "PENDING",
                              ![j].next = now, ![j].version = @ + 1]
    <3>0. PICK version \in Nat : version = row.version + 1
      BY DEF Job
    <3>1. PICK new \in Job :
            /\ new = [[[[row EXCEPT !.state = "RECORDED"] EXCEPT !.dlv = "PENDING"] EXCEPT !.next = now]
                       EXCEPT !.version = version]
            /\ new.state = "RECORDED" /\ new.dlv = "PENDING"
      <4>1. [row EXCEPT !.state = "RECORDED"] \in Job
        BY DEF Job
      <4>2. PICK a \in Job : a = [row EXCEPT !.state = "RECORDED"] /\ a.state = "RECORDED"
        BY <4>1 DEF Job
      <4>3. [a EXCEPT !.dlv = "PENDING"] \in Job
        BY DEF Job
      <4>4. PICK b \in Job : b = [a EXCEPT !.dlv = "PENDING"] /\ b.state = "RECORDED" /\ b.dlv = "PENDING"
        BY ZenonT(40), <4>2, <4>3 DEF Job
      <4>5. [[b EXCEPT !.next = now] EXCEPT !.version = version] \in Job
        BY ZenonT(40), <1>t DEF Job
      <4> QED
        BY ZenonT(40), <4>2, <4>4, <4>5 DEF Job
    <3>2. job' = [job EXCEPT ![j] = new]
      BY <1>t, <1>x, <2>2, <3>0, <3>1 DEF Job
    <3>3. /\ job' \in [Jobs -> Job] /\ job'[j] = new /\ turn' \in [Jobs -> Turn] /\ turn'[j] = NoTurn
          /\ \A k \in Jobs \ {j} : job'[k] = job[k] /\ turn'[k] = turn[k]
      <4>1. turn' = [turn EXCEPT ![j] = NoTurn]
        BY <2>2
      <4>2. /\ turn' \in [Jobs -> Turn] /\ turn'[j] = NoTurn
            /\ \A k \in Jobs \ {j} : turn'[k] = turn[k]
        BY <1>t, <1>z, <4>1
      <4>3. job' \in [Jobs -> Job] /\ job'[j] = new /\ \A k \in Jobs \ {j} : job'[k] = job[k]
        BY <1>t, <3>2
      <4> QED
        BY <4>2, <4>3
    <3>4. row.dlv = "NONE" /\ row.state = "CLAIMED"
      BY <1>t, <1>x, <2>0, <2>2 DEF JobSound, Live
    <3>5. TurnSound(j)' /\ ~Past(j)'
      BY <1>z, <3>3 DEF TurnSound, Past
    <3> QED
      BY <1>t, <1>x, <1>z, <2>0, <3>1, <3>3, <3>4, <3>5 DEF TurnEffect
  <2> QED
    BY <1>5, <2>1, <2>2 DEF CommitTurn
<1>6. CASE WriteReceipt(j)
  <2>0. turn[j].pc = "write" /\ UNCHANGED <<job, net, now>>
    BY <1>6 DEF WriteReceipt
  <2>1. PICK next \in Turn : next.pc \in {"fence", "commit"} /\ turn' = [turn EXCEPT ![j] = next]
    <3>1. CASE t.dir = "INBOUND"
      <4>1. [[t EXCEPT !.pc = "fence"] EXCEPT !.dir = "OUTBOUND"] \in Turn
        BY ZenonT(40) DEF Turn, Directions
      <4>2. [[t EXCEPT !.pc = "fence"] EXCEPT !.dir = "OUTBOUND"].pc = "fence"
        BY DEF Turn
      <4>3. turn' = [turn EXCEPT ![j] = [[t EXCEPT !.pc = "fence"] EXCEPT !.dir = "OUTBOUND"]]
        BY <1>6, <1>t, <1>y, <3>1 DEF WriteReceipt
      <4> QED
        BY ZenonT(40), <4>1, <4>2, <4>3
    <3>2. CASE t.dir # "INBOUND"
      <4>1. [t EXCEPT !.pc = "commit"] \in Turn /\ [t EXCEPT !.pc = "commit"].pc = "commit"
        BY DEF Turn
      <4>2. turn' = [turn EXCEPT ![j] = [t EXCEPT !.pc = "commit"]]
        BY <1>6, <1>t, <1>y, <3>2 DEF WriteReceipt
      <4> QED
        BY ZenonT(40), <4>1, <4>2
    <3> QED
      BY <3>1, <3>2
  <2>2. /\ turn' \in [Jobs -> Turn] /\ turn'[j] = next /\ \A k \in Jobs \ {j} : turn'[k] = turn[k]
    BY <1>t, <2>1
  <2>3. PICK r \in Receipt : /\ r = ReceiptOf(t) /\ (t.dir # "INBOUND" => r.dlv = "PENDING")
                             /\ (r.erasure = "PENDING_MSP" => t.erased)
    <3>1. ReceiptOf(t) \in Receipt
      BY DEF ReceiptOf, Receipt
    <3> QED
      BY <3>1 DEF ReceiptOf
  <2>4. proj' = [proj EXCEPT ![j][t.dir] = r] /\ t.dir \in Directions
    BY <1>6, <1>y, <2>3 DEF WriteReceipt, Turn
  <2>5. /\ proj' \in [Jobs -> [Directions -> Receipt]] /\ \A k \in Jobs \ {j} : proj'[k] = proj[k]
        /\ \A d \in Directions : proj'[j][d] = IF d = t.dir THEN r ELSE proj[j][d]
    BY <1>t, <2>4
  <2>6. TurnSound(j)' /\ ~Past(j)'
    BY <1>t, <2>0, <2>1, <2>2 DEF TurnSound, Past
  <2>7. job[j].dlv = "NONE"
    BY <1>t, <2>0 DEF JobSound
  <2>8. ASSUME NEW d \in Directions
        PROVE  \/ proj'[j][d] = proj[j][d]
               \/ /\ turn[j].pc = "write" /\ (d = "OUTBOUND" => proj'[j][d].dlv = "PENDING")
                  /\ proj'[j][d].erasure = "PENDING_MSP" => turn[j].erased
    BY <1>y, <2>0, <2>3, <2>5, <2>8
  <2> QED
    BY <1>t, <2>0, <2>1, <2>2, <2>5, <2>6, <2>7, <2>8 DEF TurnEffect
<1> QED
  BY <1>1, <1>2, <1>3, <1>4, <1>5, <1>6 DEF Answers, Answering
\* A turn writes a receipt as pending only while the erasure of its job is not
\* acknowledged.
LEMMA WritersAreCovered ==
  ASSUME IInv, NEW j \in Jobs, turn[j].pc = "write", turn[j].erased
  PROVE  Unacked
<1>1. job[j].state = "ERASED" /\ Past(j)
  BY DEF IInv, TurnSound, Past
<1>2. PICK i \in DOMAIN rec : j \in rec[i].jobs
  BY <1>1 DEF IInv, Covered
<1>3. ASSUME rec[i].acked PROVE FALSE
  <2>1. Old(i)
    BY <1>3 DEF IInv, RecSound
  <2> QED
    BY <1>1, <1>2, <2>1, NothingComes
<1> QED
  BY <1>3 DEF Unacked

\* A turn keeps the invariant.
LEMMA AnswersKeep ==
  ASSUME IInv, Next, NEW j \in Jobs, Answers(j)
  PROVE  IInv'
<1>f. UNCHANGED <<plan, now, on, customer, rec, scan, cour, msp>>
  BY AnswersFrame
<1>e. TurnEffect(j)
  BY AnswersEffect
<1>n. now \in Nat /\ Wire \in Nat
  BY Typed
<1>1. TypeOK'
  <2>1. plan' \in Plans /\ faults' \in 0..plan'.faults
    BY FaultsKeep
  <2>2. job' \in [Jobs -> Job] /\ turn' \in [Jobs -> Turn] /\ proj' \in [Jobs -> [Directions -> Receipt]]
    BY <1>e DEF TurnEffect
  <2> QED
    BY <1>f, <2>1, <2>2 DEF IInv, TypeOK
<1>2. ASSUME NEW k \in Jobs PROVE TurnSound(k)'
  <2>1. CASE k = j
    BY <1>e, <2>1 DEF TurnEffect
  <2>2. CASE k # j
    <3>1. job'[k] = job[k] /\ turn'[k] = turn[k] /\ TurnSound(k)
      BY <1>e, <2>2 DEF TurnEffect, IInv
    <3> QED
      BY <1>f, <3>1 DEF TurnSound, Past
  <2> QED
    BY <2>1, <2>2
<1>3. ASSUME NEW k \in Jobs PROVE JobSound(k)'
  <2>0. JobSound(k)
    BY DEF IInv
  <2>1. CASE k = j
    <3>1. proj'[j].OUTBOUND = proj[j].OUTBOUND \/ (turn[j].pc = "write" /\ proj'[j].OUTBOUND.dlv = "PENDING")
      BY <1>e DEF TurnEffect, Directions
    <3>2. \/ UNCHANGED job
          \/ /\ job[j].dlv = "NONE" /\ job'[j].dlv \in {"NONE", "PENDING"}
             /\ job'[j].state = "ERASED" => job'[j].dlv = "NONE"
      BY <1>e DEF TurnEffect
    <3>3. turn'[j].pc # "idle" \/ job'[j].state \in {"none", "CLAIMED", "ENDED"} => job'[j].dlv = "NONE"
      BY <1>e DEF TurnEffect
    <3>4. (job'[j].dlv = "ACKNOWLEDGED") <=> (proj'[j].OUTBOUND.dlv = "ACKNOWLEDGED")
      BY <2>0, <2>1, <3>1, <3>2 DEF JobSound
    <3> QED
      BY <1>f, <2>0, <2>1, <3>2, <3>3, <3>4 DEF JobSound
  <2>2. CASE k # j
    <3>1. job'[k] = job[k] /\ turn'[k] = turn[k] /\ proj'[k] = proj[k]
      BY <1>e, <2>2 DEF TurnEffect
    <3> QED
      BY <1>f, <2>0, <3>1 DEF JobSound
  <2> QED
    BY <2>1, <2>2
<1>4. NetSound'
  <2>0. NetSound
    BY DEF IInv
  <2>1. CASE net' = net
    BY <1>f, <2>0, <2>1 DEF NetSound, Old
  <2>2. CASE net' = net \cup {AppendCall(j, turn[j].dir)}
    <3>1. turn[j].dir \in Directions
      BY Typed DEF Turn
    <3>2. AppendCall(j, turn[j].dir) \in AppendCalls
      BY <1>n, <3>1 DEF AppendCall, AppendCalls
    <3>3. AppendCall(j, turn[j].dir).op = "append" /\ AppendCall(j, turn[j].dir).at = now
      BY DEF AppendCall
    <3> QED
      BY <1>f, <1>n, <2>0, <2>2, <3>2, <3>3 DEF NetSound, Old
  <2> QED
    BY <1>e, <2>1, <2>2 DEF TurnEffect
<1>5. ASSUME NEW i \in DOMAIN rec' PROVE RecSound(i)'
  <2>0. i \in DOMAIN rec /\ RecSound(i) /\ rec[i].jobs \subseteq Jobs
    BY <1>f, Typed DEF IInv, Record
  <2>1. ASSUME NEW k \in rec'[i].jobs
        PROVE  job'[k].state = "ERASED" /\ (Past(k)' => turn'[k].since <= rec'[i].at)
    <3>0. k \in Jobs /\ job[k].state = "ERASED" /\ (Past(k) => turn[k].since <= rec[i].at)
      BY <1>f, <2>0, <2>1 DEF RecSound
    <3>1. CASE k = j
      BY <1>e, <1>f, <3>0, <3>1 DEF TurnEffect
    <3>2. CASE k # j
      BY <1>e, <1>f, <3>0, <3>2 DEF TurnEffect, Past
    <3> QED
      BY <3>1, <3>2
  <2>2. ASSUME NEW k \in rec'[i].jobs, NEW q \in net', q.op = "append", q.job = k
        PROVE  q.at <= rec'[i].at
    <3>0. job[k].state = "ERASED"
      BY <1>f, <2>0, <2>2 DEF RecSound
    <3>1. CASE q \in net
      BY <1>f, <2>0, <2>2, <3>1 DEF RecSound
    <3>2. CASE q \notin net
      <4>1. job[j].state = "CLAIMED" /\ q = AppendCall(j, turn[j].dir)
        BY <1>e, <2>2, <3>2 DEF TurnEffect
      <4>2. q.job = j
        BY <4>1 DEF AppendCall
      <4> QED
        BY <2>2, <3>0, <4>1, <4>2
    <3> QED
      BY <3>1, <3>2
  <2> QED
    BY <1>f, <2>0, <2>1, <2>2 DEF RecSound, Old
<1>6. ASSUME NEW s \in Scanners PROVE ScanSound(s)'
  BY <1>f DEF IInv, ScanSound, Old, Current
<1>7. ASSUME NEW c \in Couriers PROVE CourSound(c)'
  BY <1>f DEF IInv, CourSound
<1>8. Covered'
  BY <1>e, <1>f DEF IInv, Covered, TurnEffect
<1>9. Shown'
  <2>1. ASSUME NEW k \in Jobs, NEW d \in Directions, proj'[k][d].erasure = "PENDING_MSP" PROVE Unacked
    <3>1. CASE proj'[k][d] = proj[k][d]
      BY <2>1, <3>1 DEF IInv, Shown
    <3>2. CASE proj'[k][d] # proj[k][d]
      <4>1. k = j
        BY <1>e, <3>2 DEF TurnEffect
      <4>2. turn[j].pc = "write" /\ turn[j].erased
        BY <1>e, <2>1, <3>2, <4>1 DEF TurnEffect
      <4> QED
        BY <4>2, WritersAreCovered
    <3> QED
      BY <3>1, <3>2
  <2> QED
    BY <1>f, <2>1 DEF IInv, Shown, Unacked
<1> QED
  BY <1>1, <1>2, <1>3, <1>4, <1>5, <1>6, <1>7, <1>8, <1>9 DEF IInv
-----------------------------------------------------------------------------
(* The erasure, the switch and the clock. *)

\* A closed row.
LEMMA ClosedRow ==
  ASSUME NEW row \in Job
  PROVE  /\ CloseOutbox(row) \in Job /\ CloseOutbox(row).state = row.state
         /\ CloseOutbox(row).dlv = IF row.dlv = "PENDING" THEN "CLOSED" ELSE row.dlv
<1>1. PICK dlv \in {"NONE", "PENDING", "ACKNOWLEDGED", "CLOSED"} :
        dlv = IF row.dlv = "PENDING" THEN "CLOSED" ELSE row.dlv
  BY DEF Job
<1>2. PICK version \in Nat : version = row.version + 1
  BY DEF Job
<1>3. [[[[row EXCEPT !.dlv = dlv] EXCEPT !.lease = 0] EXCEPT !.next = 0] EXCEPT !.version = version] \in Job
  BY ZenonT(40) DEF Job
<1>4. CloseOutbox(row) =
        [[[[row EXCEPT !.dlv = dlv] EXCEPT !.lease = 0] EXCEPT !.next = 0] EXCEPT !.version = version]
  BY <1>1, <1>2 DEF CloseOutbox, Job
<1>5. PICK new \in Job : new = CloseOutbox(row) /\ new.dlv = dlv /\ new.state = row.state
  BY ZenonT(40), <1>3, <1>4 DEF Job
<1> QED
  BY <1>1, <1>5

\* An erased row.
LEMMA ErasedRow ==
  ASSUME NEW row \in Job
  PROVE  LET new == [CloseOutbox(row) EXCEPT !.state = "ERASED"] IN
         /\ new \in Job /\ new.state = "ERASED"
         /\ new.dlv = IF row.dlv = "PENDING" THEN "CLOSED" ELSE row.dlv
<1>1. PICK a \in Job : a = CloseOutbox(row) /\ a.dlv = IF row.dlv = "PENDING" THEN "CLOSED" ELSE row.dlv
  BY ClosedRow
<1>2. [a EXCEPT !.state = "ERASED"] \in Job
  BY DEF Job
<1>3. [a EXCEPT !.state = "ERASED"].state = "ERASED" /\ [a EXCEPT !.state = "ERASED"].dlv = a.dlv
  BY DEF Job
<1> QED
  BY <1>1, <1>2, <1>3

\* What an erasure does to the rows, the receipts and the records.
EraseEffect ==
  /\ job' \in [Jobs -> Job] /\ proj' \in [Jobs -> [Directions -> Receipt]]
  /\ \A j \in Jobs :
       \/ job[j].state \in {"none", "ERASED"} /\ job'[j] = job[j]
       \/ /\ job[j].state \notin {"none", "ERASED"} /\ job'[j].state = "ERASED"
          /\ job'[j].dlv = IF job[j].dlv = "PENDING" THEN "CLOSED" ELSE job[j].dlv
  /\ \A j \in Jobs, d \in Directions : proj'[j][d].dlv = proj[j][d].dlv
  /\ rec' \in Seq(Record) /\ DOMAIN rec' = DOMAIN rec \cup {Len(rec) + 1}
  /\ Len(rec) + 1 \notin DOMAIN rec /\ \A i \in DOMAIN rec : rec'[i] = rec[i]
  /\ rec'[Len(rec) + 1].jobs = {j \in Jobs : job[j].state \notin {"none", "ERASED"}}
  /\ rec'[Len(rec) + 1].at = now /\ ~rec'[Len(rec) + 1].acked

\* An erasure overwrites the rows found and adds one record.
LEMMA EraseDoes ==
  ASSUME IInv, Erase
  PROVE  EraseEffect
<1>t. /\ job \in [Jobs -> Job] /\ proj \in [Jobs -> [Directions -> Receipt]]
      /\ rec \in Seq(Record) /\ now \in Nat
  BY DEF IInv, TypeOK
<1> DEFINE found == {j \in Jobs : job[j].state \notin {"none", "ERASED"}}
<1>1. \A j \in Jobs : job'[j] = IF j \in found
        THEN [CloseOutbox(job[j]) EXCEPT !.state = "ERASED"] ELSE job[j]
  BY DEF Erase
<1>2. ASSUME NEW j \in Jobs
      PROVE  /\ job'[j] \in Job
             /\ \/ job[j].state \in {"none", "ERASED"} /\ job'[j] = job[j]
                \/ /\ job[j].state \notin {"none", "ERASED"} /\ job'[j].state = "ERASED"
                   /\ job'[j].dlv = IF job[j].dlv = "PENDING" THEN "CLOSED" ELSE job[j].dlv
  <2>1. job[j] \in Job
    BY <1>t
  <2>2. CASE j \notin found
    BY ZenonT(40), <1>1, <2>1, <2>2
  <2>3. CASE j \in found
    <3>1. job'[j] = [CloseOutbox(job[j]) EXCEPT !.state = "ERASED"]
      BY <1>1, <2>3
    <3> QED
      BY <2>1, <2>3, <3>1, ErasedRow
  <2> QED
    BY <2>2, <2>3
<1>3. job' \in [Jobs -> Job]
  <2>1. job' = [j \in Jobs |-> job'[j]]
    BY DEF Erase
  <2> QED
    BY <1>2, <2>1
<1>4. ASSUME NEW j \in Jobs, NEW d \in Directions
      PROVE  proj'[j][d] \in Receipt /\ proj'[j][d].dlv = proj[j][d].dlv
  <2>1. PICK r \in Receipt : r = proj[j][d]
    BY <1>t
  <2>2. proj'[j][d] = IF r.erasure = "ACTIVE" THEN [r EXCEPT !.erasure = "PENDING_MSP"] ELSE r
    BY <2>1 DEF Erase
  <2>3. [r EXCEPT !.erasure = "PENDING_MSP"] \in Receipt /\ [r EXCEPT !.erasure = "PENDING_MSP"].dlv = r.dlv
    BY DEF Receipt
  <2> QED
    BY <2>1, <2>2, <2>3
<1>5. proj' \in [Jobs -> [Directions -> Receipt]]
  <2>1. proj' = [j \in Jobs |-> [d \in Directions |-> proj'[j][d]]]
    BY DEF Erase
  <2> QED
    BY <1>4, <2>1
<1>6. PICK r \in Record : r.jobs = found /\ r.at = now /\ ~r.acked /\ rec' = Append(rec, r)
  <2> DEFINE r == [jobs |-> found, at |-> now, tries |-> 0, claimed |-> 0, until |-> 0,
                   acked |-> FALSE, failed |-> FALSE]
  <2>1. r \in Record /\ r.jobs = found /\ r.at = now /\ ~r.acked
    BY <1>t DEF Record
  <2>2. rec' = Append(rec, r)
    BY DEF Erase
  <2> HIDE DEF r
  <2> QED
    BY <2>1, <2>2
<1>7. /\ rec' \in Seq(Record) /\ Len(rec') = Len(rec) + 1 /\ Len(rec) \in Nat
      /\ \A i \in 1..Len(rec) : rec'[i] = rec[i]
      /\ rec'[Len(rec) + 1] = r
  <2> HIDE DEF found
  <2> QED
    BY <1>t, <1>6, AppendProperties
<1>8. DOMAIN rec = 1..Len(rec) /\ DOMAIN rec' = 1..(Len(rec) + 1)
  BY <1>t, <1>7
<1>9. DOMAIN rec' = DOMAIN rec \cup {Len(rec) + 1} /\ Len(rec) + 1 \notin DOMAIN rec
  BY <1>7, <1>8
<1> QED
  BY <1>2, <1>3, <1>4, <1>5, <1>6, <1>7, <1>8, <1>9 DEF EraseEffect

\* An erasure keeps the invariant.
LEMMA EraseKeeps ==
  ASSUME IInv, Next, Erase
  PROVE  IInv'
<1>f. UNCHANGED <<plan, now, on, turn, scan, cour, net, msp>> /\ customer' = "PENDING_MSP"
  BY DEF Erase
<1>e. EraseEffect
  BY EraseDoes
<1>n. now \in Nat /\ Wire \in Nat
  BY Typed
<1>1. TypeOK'
  <2>1. plan' \in Plans /\ faults' \in 0..plan'.faults
    BY FaultsKeep
  <2>2. msp'.keys \subseteq DOMAIN rec'
    BY <1>e, <1>f DEF IInv, TypeOK, EraseEffect
  <2>3. msp' \in [human : [Jobs -> {"none", "text", "blank"}], keys : SUBSET DOMAIN rec',
                  delivered : SUBSET Jobs]
    BY <1>f, <2>2 DEF IInv, TypeOK
  <2> QED
    BY <1>e, <1>f, <2>1, <2>3 DEF IInv, TypeOK, EraseEffect
<1>2. ASSUME NEW k \in Jobs PROVE TurnSound(k)'
  BY <1>e, <1>f DEF IInv, TurnSound, Past, EraseEffect
<1>3. ASSUME NEW k \in Jobs PROVE JobSound(k)'
  <2>1. JobSound(k) /\ TurnSound(k)
    BY DEF IInv
  <2>2. proj'[k].OUTBOUND.dlv = proj[k].OUTBOUND.dlv
    BY <1>e DEF EraseEffect, Directions
  <2>3. CASE job'[k] = job[k]
    BY <1>f, <2>1, <2>2, <2>3 DEF JobSound
  <2>4. CASE job'[k] # job[k]
    <3>1. job'[k].state = "ERASED" /\ job'[k].dlv = IF job[k].dlv = "PENDING" THEN "CLOSED" ELSE job[k].dlv
      BY <1>e, <2>4 DEF EraseEffect
    <3> QED
      BY <1>f, <2>1, <2>2, <3>1 DEF JobSound
  <2> QED
    BY <2>3, <2>4
<1>4. NetSound'
  <2>1. ASSUME NEW i \in DOMAIN rec PROVE i \in DOMAIN rec' /\ (Old(i) => Old(i)')
    BY <1>e, <1>f DEF EraseEffect, Old
  <2> QED
    BY <1>f, <2>1 DEF IInv, NetSound
<1>5. ASSUME NEW i \in DOMAIN rec' PROVE RecSound(i)'
  <2>1. CASE i \in DOMAIN rec
    <3>1. rec'[i] = rec[i] /\ RecSound(i) /\ rec[i].jobs \subseteq Jobs
      BY <1>e, <2>1, Typed DEF IInv, EraseEffect, Record
    <3>2. \A k \in rec[i].jobs : job'[k].state = "ERASED"
      BY <1>e, <3>1 DEF EraseEffect, RecSound
    <3> QED
      BY <1>f, <3>1, <3>2 DEF RecSound, Past, Old
  <2>2. CASE i \notin DOMAIN rec
    <3>1. i = Len(rec) + 1 /\ i \notin msp'.keys
      BY <1>e, <1>f, <2>2 DEF EraseEffect, IInv, TypeOK
    <3>2. /\ rec'[i].jobs = {j \in Jobs : job[j].state \notin {"none", "ERASED"}}
          /\ rec'[i].at = now /\ ~rec'[i].acked
      BY <1>e, <3>1 DEF EraseEffect
    <3>3. ASSUME NEW k \in rec'[i].jobs
          PROVE  job'[k].state = "ERASED" /\ (Past(k)' => turn'[k].since <= rec'[i].at)
      BY <1>e, <1>f, <3>2, <3>3 DEF EraseEffect, IInv, TurnSound, Past
    <3>4. ASSUME NEW q \in net', q.op = "append" PROVE q.at <= rec'[i].at
      BY <1>f, <3>2, <3>4 DEF IInv, NetSound
    <3> QED
      BY <3>1, <3>2, <3>3, <3>4 DEF RecSound
  <2> QED
    BY <2>1, <2>2
<1>6. ASSUME NEW s \in Scanners PROVE ScanSound(s)'
  <2>1. ASSUME NEW i \in DOMAIN rec PROVE i \in DOMAIN rec' /\ (Old(i) => Old(i)')
    BY <1>e, <1>f DEF EraseEffect, Old
  <2> QED
    BY <1>f, <2>1 DEF IInv, ScanSound, Current
<1>7. ASSUME NEW c \in Couriers PROVE CourSound(c)'
  BY <1>f DEF IInv, CourSound
<1>8. Covered'
  BY <1>e DEF IInv, Covered, EraseEffect
<1>9. Shown'
  <2>1. Unacked'
    BY <1>e DEF Unacked, EraseEffect
  <2> QED
    BY <1>f, <2>1 DEF Shown
<1> QED
  BY <1>1, <1>2, <1>3, <1>4, <1>5, <1>6, <1>7, <1>8, <1>9 DEF IInv

\* The switch keeps the invariant: nothing in it speaks of the account.
LEMMA SwitchKeeps ==
  ASSUME IInv, Next, SwitchOff
  PROVE  IInv'
<1>1. plan' \in Plans /\ faults' \in 0..plan'.faults
  BY FaultsKeep
<1>2. UNCHANGED <<now, job, turn, proj, customer, rec, scan, cour, net, msp>> /\ on' \in BOOLEAN
  BY ZenonT(40) DEF SwitchOff
<1>3. TypeOK'
  BY <1>1, <1>2 DEF IInv, TypeOK
<1> QED
  BY <1>2, <1>3 DEF IInv, TurnSound, Past, JobSound, NetSound, Old, RecSound, ScanSound, Current,
     CourSound, Covered, Shown, Unacked

\* The clock waits for what is past its last fence, and a grace period that is over
\* stays over.
LEMMA TickKeeps ==
  ASSUME IInv, Next, Tick
  PROVE  IInv'
<1>1. plan' \in Plans /\ faults' \in 0..plan'.faults
  BY FaultsKeep
<1>2. UNCHANGED <<plan, on, job, turn, proj, customer, rec, scan, cour, net, msp>> /\ now' = now + 1
  BY DEF Tick, core
<1>n. now \in Nat /\ Wire \in Nat /\ Grace \in Nat
  BY Typed
<1>3. TypeOK'
  BY <1>1, <1>2, <1>n DEF IInv, TypeOK
<1>4. ASSUME NEW k \in Jobs PROVE TurnSound(k)'
  <2>1. TurnSound(k) /\ turn[k].since \in Nat
    BY Typed DEF IInv, Turn
  <2>2. Past(k) => now < turn[k].since + Wire
    BY DEF Tick, Prompt, Past
  <2> QED
    BY <1>2, <1>n, <2>1, <2>2 DEF TurnSound, Past
<1>5. ASSUME NEW i \in DOMAIN rec, Old(i) PROVE Old(i)'
  <2>1. rec[i].at \in Nat
    BY Typed
  <2> QED
    BY <1>2, <1>5, <1>n, <2>1 DEF Old
<1>6. NetSound'
  <2>1. ASSUME NEW q \in net, q.op = "append" PROVE q.at <= now' /\ now' <= q.at + Wire
    <3>1. q.at \in Nat /\ q.at <= now
      BY <2>1 DEF IInv, NetSound, AppendCalls, ErasureCalls, DeliveryCalls
    <3>2. now < q.at + Wire
      BY <2>1 DEF Tick, Prompt
    <3> QED
      BY <1>2, <1>n, <3>1, <3>2
  <2> QED
    BY <1>2, <1>5, <2>1 DEF IInv, NetSound
<1>7. ASSUME NEW i \in DOMAIN rec' PROVE RecSound(i)'
  <2>1. i \in DOMAIN rec /\ RecSound(i) /\ (Old(i) => Old(i)')
    BY <1>2, <1>5 DEF IInv
  <2> QED
    BY <1>2, <2>1 DEF RecSound, Past
<1>8. ASSUME NEW s \in Scanners PROVE ScanSound(s)'
  BY <1>2, <1>5 DEF IInv, ScanSound, Current
<1> QED
  BY <1>2, <1>3, <1>4, <1>6, <1>7, <1>8 DEF IInv, JobSound, CourSound, Covered, Shown, Unacked
-----------------------------------------------------------------------------
(* A scan. *)

\* The records are the ones they were, whatever their attempts.
RecKept ==
  /\ rec' \in Seq(Record) /\ DOMAIN rec' = DOMAIN rec
  /\ \A i \in DOMAIN rec :
       rec'[i].jobs = rec[i].jobs /\ rec'[i].at = rec[i].at /\ rec'[i].acked = rec[i].acked

\* One record changed.
LEMMA RecordPut ==
  ASSUME IInv, NEW i \in DOMAIN rec, NEW r \in Record, rec' = [rec EXCEPT ![i] = r]
  PROVE  /\ rec' \in Seq(Record) /\ DOMAIN rec' = DOMAIN rec /\ rec'[i] = r
         /\ \A k \in DOMAIN rec \ {i} : rec'[k] = rec[k]
<1>1. rec \in Seq(Record) /\ i \in 1..Len(rec)
  BY DEF IInv, TypeOK
<1>2. /\ rec' \in Seq(Record) /\ Len(rec') = Len(rec)
      /\ \A k \in 1..Len(rec) : rec'[k] = IF k = i THEN r ELSE rec[k]
  BY <1>1, ExceptSeq
<1> QED
  BY <1>1, <1>2

\* A scan that stands at a record of its batch, or is over.
ScanStands(new) ==
  \/ new.pc = "idle"
  \/ /\ new.batch # {} /\ new.batch \subseteq DOMAIN rec /\ \A i \in new.batch : Old(i)
     /\ new.pc # "settle"

\* What the step of a scan does to the scans.
ScanStep(s) ==
  /\ scan' \in [Scanners -> Scan] /\ \A t \in Scanners \ {s} : scan'[t] = scan[t]
  /\ ScanSound(s)'

\* A scan takes a place where it may stand.
LEMMA ScanMoves ==
  ASSUME IInv, NEW s \in Scanners, NEW new \in Scan, scan' = [scan EXCEPT ![s] = new],
         ScanStands(new), UNCHANGED now, DOMAIN rec' = DOMAIN rec,
         \A i \in DOMAIN rec : rec'[i].at = rec[i].at
  PROVE  ScanStep(s)
<1>1. /\ scan' \in [Scanners -> Scan] /\ scan'[s] = new
      /\ \A t \in Scanners \ {s} : scan'[t] = scan[t]
  BY DEF IInv, TypeOK
<1>2. ScanSound(s)'
  BY <1>1 DEF ScanSound, ScanStands, Old
<1> QED
  BY <1>1, <1>2 DEF ScanStep

\* A scan that is given up.
LEMMA ScanRests ==
  ASSUME IInv, NEW s \in Scanners, scan' = [scan EXCEPT ![s] = NoScan],
         UNCHANGED now, DOMAIN rec' = DOMAIN rec, \A i \in DOMAIN rec : rec'[i].at = rec[i].at
  PROVE  ScanStep(s)
<1>1. NoScan \in Scan /\ ScanStands(NoScan)
  BY DEF NoScan, Scan, ScanStands
<1> QED
  BY ZenonT(40), <1>1, ScanMoves

\* A scan that changes its place in the handler, with the same record.
LEMMA ScanTurns ==
  ASSUME IInv, NEW s \in Scanners, scan[s].pc # "idle", NEW pc \in {"read", "claim", "wait", "defer"},
         NEW try \in Nat, scan' = [scan EXCEPT ![s] = [[scan[s] EXCEPT !.pc = pc] EXCEPT !.try = try]],
         UNCHANGED now, DOMAIN rec' = DOMAIN rec, \A i \in DOMAIN rec : rec'[i].at = rec[i].at
  PROVE  ScanStep(s)
<1>1. PICK old \in Scan : old = scan[s]
  BY DEF IInv, TypeOK
<1>2. [[old EXCEPT !.pc = pc] EXCEPT !.try = try] \in Scan
  BY ZenonT(40) DEF Scan
<1>3. PICK new \in Scan : /\ new = [[old EXCEPT !.pc = pc] EXCEPT !.try = try]
                          /\ new.batch = old.batch /\ new.pc = pc
  BY ZenonT(40), <1>2 DEF Scan
<1>4. scan' = [scan EXCEPT ![s] = new]
  BY <1>1, <1>3
<1>5. ScanStands(new)
  BY <1>1, <1>3 DEF IInv, ScanSound, ScanStands
<1> QED
  BY ZenonT(40), <1>4, <1>5, ScanMoves

\* On to the next record.
LEMMA ScanGoesOn ==
  ASSUME IInv, NEW s \in Scanners, scan[s].pc # "idle", NextRecord(s),
         UNCHANGED now, DOMAIN rec' = DOMAIN rec, \A i \in DOMAIN rec : rec'[i].at = rec[i].at
  PROVE  ScanStep(s)
<1>1. PICK old \in Scan : old = scan[s]
  BY DEF IInv, TypeOK
<1>3. PICK rest : rest = scan[s].batch \ {Current(s)}
  OBVIOUS
<1>4. scan' = [scan EXCEPT ![s] = IF rest = {} THEN NoScan
                                  ELSE [scan[s] EXCEPT !.pc = "read", !.batch = rest]]
  BY <1>3 DEF NextRecord
<1>5. CASE rest = {}
  <2>1. scan' = [scan EXCEPT ![s] = NoScan]
    BY <1>4, <1>5
  <2> QED
    BY ZenonT(40), <2>1, ScanRests
<1>6. CASE rest # {}
  <2>1. rest \subseteq old.batch /\ rest \in SUBSET (Nat \ {0})
    BY <1>1, <1>3 DEF Scan
  <2>2. [[old EXCEPT !.pc = "read"] EXCEPT !.batch = rest] \in Scan
    BY ZenonT(40), <2>1 DEF Scan
  <2>3. PICK new \in Scan : /\ new = [[old EXCEPT !.pc = "read"] EXCEPT !.batch = rest]
                            /\ new.batch = rest /\ new.pc = "read"
    BY ZenonT(40), <2>2 DEF Scan
  <2>4. scan' = [scan EXCEPT ![s] = new]
    BY ZenonT(40), <1>1, <1>4, <1>6, <2>3
  <2>5. ScanStands(new)
    BY <1>1, <1>6, <2>1, <2>3 DEF IInv, ScanSound, ScanStands
  <2> QED
    BY ZenonT(40), <2>4, <2>5, ScanMoves
<1> QED
  BY <1>5, <1>6
\* What the step of a scan does.
ScanEffect(s) ==
  /\ ScanStep(s)
  /\ rec' \in Seq(Record) /\ DOMAIN rec' = DOMAIN rec
  /\ \A i \in DOMAIN rec :
       /\ rec'[i].jobs = rec[i].jobs /\ rec'[i].at = rec[i].at
       /\ rec'[i].acked => rec[i].acked \/ i \in msp.keys
  /\ net' = net \/ \E q \in ErasureCalls : q.rec \in DOMAIN rec /\ Old(q.rec) /\ net' = net \cup {q}
  /\ proj' \in [Jobs -> [Directions -> Receipt]]
  /\ \A j \in Jobs, d \in Directions : proj'[j][d].dlv = proj[j][d].dlv
  /\ customer' \in {"NONE", "PENDING_MSP", "ERASED"}
  /\ Shown'

\* A scan that leaves the receipts and the Customer alone.
LEMMA ScanQuiet ==
  ASSUME IInv, NEW s \in Scanners, ScanStep(s), RecKept, UNCHANGED <<proj, customer>>,
         net' = net \/ \E q \in ErasureCalls : q.rec \in DOMAIN rec /\ Old(q.rec) /\ net' = net \cup {q}
  PROVE  ScanEffect(s)
<1>1. Shown'
  BY DEF IInv, Shown, RecKept, Unacked
<1>2. \A i \in DOMAIN rec : rec'[i].acked => rec[i].acked \/ i \in msp.keys
  BY DEF RecKept
<1> QED
  BY <1>1, <1>2 DEF ScanEffect, RecKept, IInv, TypeOK

\* A record whose attempts change is the record it was.
LEMMA RecordKept ==
  ASSUME IInv, NEW i \in DOMAIN rec, NEW r \in Record, rec' = [rec EXCEPT ![i] = r],
         r.jobs = rec[i].jobs, r.at = rec[i].at, r.acked = rec[i].acked
  PROVE  RecKept
BY ZenonT(40), RecordPut DEF RecKept

\* Nothing happens to the records.
LEMMA RecordsStay ==
  ASSUME IInv, UNCHANGED rec
  PROVE  RecKept
BY DEF RecKept, IInv, TypeOK

\* The call for a record of the batch.
LEMMA CallIs ==
  ASSUME IInv, NEW s \in Scanners, scan[s].pc # "idle"
  PROVE  /\ ErasureCall(s) \in ErasureCalls /\ ErasureCall(s).rec = Current(s)
         /\ [ErasureCall(s) EXCEPT !.try = 0] \in ErasureCalls
         /\ [ErasureCall(s) EXCEPT !.try = 0].rec = Current(s)
<1>1. Current(s) \in Nat \ {0} /\ scan[s].try \in Nat
  BY ScanAt, Typed DEF Scan
<1>2. ErasureCall(s) = [op |-> "erase", by |-> s, rec |-> Current(s), try |-> scan[s].try]
  BY DEF ErasureCall, Current
<1>3. ErasureCall(s) \in ErasureCalls
  BY <1>1, <1>2 DEF ErasureCalls
<1>4. PICK q \in ErasureCalls : q = ErasureCall(s) /\ q.rec = Current(s)
  BY <1>2, <1>3
<1>5. [q EXCEPT !.try = 0] \in ErasureCalls /\ [q EXCEPT !.try = 0].rec = q.rec
  BY DEF ErasureCalls
<1> QED
  BY <1>4, <1>5

\* A scan that begins has something to do.
LEMMA StartScanDoes ==
  ASSUME IInv, NEW s \in Scanners, StartScan(s)
  PROVE  ScanEffect(s)
<1>0. UNCHANGED <<now, rec, net, proj, customer>>
  BY DEF StartScan, core
<1>1. PICK due : due = DueNow
  OBVIOUS
<1>2. due # {} /\ due \subseteq DOMAIN rec /\ \A i \in due : Old(i)
  BY <1>1 DEF StartScan, DueNow, Due, GraceOver, Old
<1>3. due \in SUBSET (Nat \ {0})
  BY <1>2, Typed
<1>4. [pc |-> "read", at |-> now, try |-> 0, batch |-> due] \in Scan
  BY <1>3, Typed DEF Scan
<1>5. PICK new \in Scan : /\ new = [pc |-> "read", at |-> now, try |-> 0, batch |-> due]
                          /\ new.batch = due /\ new.pc = "read"
  BY <1>4
<1>6. scan' = [scan EXCEPT ![s] = new] /\ ScanStands(new)
  BY <1>1, <1>2, <1>5 DEF StartScan, ScanStands
<1>7. ScanStep(s)
  BY ZenonT(40), <1>0, <1>6, ScanMoves
<1> QED
  BY <1>0, <1>7, ScanQuiet, RecordsStay

\* A record is read again: it is claimed next, or its receipt asked for.
LEMMA ReadRecordDoes ==
  ASSUME IInv, NEW s \in Scanners, ReadRecord(s)
  PROVE  ScanEffect(s)
<1>0. UNCHANGED <<now, rec, proj, customer>> /\ scan[s].pc = "read"
  BY DEF ReadRecord, core
<1>1. Current(s) \in DOMAIN rec /\ Old(Current(s))
  BY <1>0, ScanAt
<1>2. CASE ~rec[Current(s)].acked
  <2>1. rec[Current(s)].tries + 1 \in Nat
    BY <1>1, Typed DEF Record
  <2>2. PICK try \in Nat : try = rec[Current(s)].tries + 1
    BY <2>1
  <2>3. net' = net /\ scan' = [scan EXCEPT ![s] = [[scan[s] EXCEPT !.pc = "claim"] EXCEPT !.try = try]]
    BY ZenonT(40), <1>2, <2>2 DEF ReadRecord, IInv, TypeOK
  <2>4. ScanStep(s)
    BY ZenonT(40), <1>0, <2>3, ScanTurns
  <2> QED
    BY <1>0, <2>3, <2>4, ScanQuiet, RecordsStay
<1>3. CASE rec[Current(s)].acked
  <2>1. /\ net' = net \cup {[ErasureCall(s) EXCEPT !.try = 0]}
        /\ scan' = [scan EXCEPT ![s] = [[scan[s] EXCEPT !.pc = "wait"] EXCEPT !.try = 0]]
    BY ZenonT(40), <1>3 DEF ReadRecord, IInv, TypeOK
  <2>2. ScanStep(s)
    BY ZenonT(40), <1>0, <2>1, ScanTurns
  <2>3. \E q \in ErasureCalls : q.rec \in DOMAIN rec /\ Old(q.rec) /\ net' = net \cup {q}
    BY ZenonT(40), <1>0, <1>1, <2>1, CallIs
  <2> QED
    BY <1>0, <2>2, <2>3, ScanQuiet, RecordsStay
<1> QED
  BY <1>2, <1>3

\* An attempt that is won is called for; one that is lost is left.
LEMMA ClaimAttemptDoes ==
  ASSUME IInv, NEW s \in Scanners, ClaimAttempt(s)
  PROVE  ScanEffect(s)
<1>0. UNCHANGED <<now, proj, customer>> /\ scan[s].pc = "claim"
  BY DEF ClaimAttempt
<1>1. PICK i \in DOMAIN rec : i = Current(s) /\ Old(i)
  BY <1>0, ScanAt
<1>2. CASE NextRecord(s) /\ UNCHANGED <<rec, net>>
  <2>1. ScanStep(s)
    BY <1>0, <1>2, ScanGoesOn
  <2> QED
    BY <1>0, <1>2, <2>1, ScanQuiet, RecordsStay
<1>3. CASE /\ rec' = [rec EXCEPT ![i].tries = scan[s].try, ![i].claimed = Later(@, scan[s].at)]
           /\ net' = net \cup {ErasureCall(s)}
           /\ scan' = [scan EXCEPT ![s].pc = "wait"]
  <2>1. PICK old \in Record : old = rec[i]
    BY Typed
  <2>2. PICK claimed \in Nat : claimed = Later(old.claimed, scan[s].at)
    BY Typed DEF Later, Record, Scan
  <2>3. scan[s].try \in Nat /\ scan[s] \in Scan
    BY Typed DEF Scan
  <2>4. [[old EXCEPT !.tries = scan[s].try] EXCEPT !.claimed = claimed] \in Record
    BY ZenonT(40), <2>3 DEF Record
  <2>5. PICK r \in Record : /\ r = [[old EXCEPT !.tries = scan[s].try] EXCEPT !.claimed = claimed]
                            /\ r.jobs = old.jobs /\ r.at = old.at /\ r.acked = old.acked
    BY ZenonT(40), <2>4 DEF Record
  <2>6. rec' = [rec EXCEPT ![i] = r]
    BY ZenonT(40), <1>3, <2>1, <2>2, <2>5 DEF Record
  <2>7. RecKept
    BY ZenonT(40), <2>1, <2>5, <2>6, RecordKept
  <2>8. scan' = [scan EXCEPT ![s] = [[scan[s] EXCEPT !.pc = "wait"] EXCEPT !.try = scan[s].try]]
    BY ZenonT(40), <1>3, <2>3 DEF Scan
  <2>9. ScanStep(s)
    BY ZenonT(40), <1>0, <2>3, <2>7, <2>8, ScanTurns DEF RecKept
  <2>10. \E q \in ErasureCalls : q.rec \in DOMAIN rec /\ Old(q.rec) /\ net' = net \cup {q}
    BY ZenonT(40), <1>0, <1>1, <1>3, CallIs
  <2> QED
    BY <1>0, <2>7, <2>9, <2>10, ScanQuiet
<1> QED
  BY <1>1, <1>2, <1>3 DEF ClaimAttempt
\* A scan that changes its place only.
LEMMA ScanPlace ==
  ASSUME IInv, NEW s \in Scanners, scan[s].pc # "idle", scan' = [scan EXCEPT ![s].pc = "defer"],
         UNCHANGED <<now, rec>>
  PROVE  ScanStep(s)
<1>1. scan[s] \in Scan /\ scan[s].try \in Nat
  BY Typed DEF Scan
<1>2. scan' = [scan EXCEPT ![s] = [[scan[s] EXCEPT !.pc = "defer"] EXCEPT !.try = scan[s].try]]
  BY ZenonT(40), <1>1 DEF Scan
<1> QED
  BY ZenonT(40), <1>1, <1>2, ScanTurns

\* An attempt that failed is put off or its record given up.
LEMMA DeferErasureDoes ==
  ASSUME IInv, NEW s \in Scanners, DeferErasure(s)
  PROVE  ScanEffect(s)
<1>0. UNCHANGED <<now, net, proj, customer>> /\ scan[s].pc = "defer"
  BY DEF DeferErasure
<1>1. PICK i \in DOMAIN rec : i = Current(s)
  BY <1>0, ScanAt
<1>2. CASE rec' = [rec EXCEPT ![i] = Spent(i, s)] /\ NextRecord(s)
  <2>1. PICK old \in Record : old = rec[i]
    BY Typed
  <2>2. PICK r \in Record : r = Spent(i, s) /\ r.jobs = old.jobs /\ r.at = old.at /\ r.acked = old.acked
    <3>1. PICK until \in Nat : until = Later(old.until, scan[s].at + Backoff(scan[s].try))
      BY Typed DEF Later, Record, Scan, Backoff
    <3>2. [old EXCEPT !.failed = TRUE] \in Record /\ [old EXCEPT !.until = until] \in Record
      BY ZenonT(40) DEF Record
    <3>3. /\ [old EXCEPT !.failed = TRUE].jobs = old.jobs /\ [old EXCEPT !.until = until].jobs = old.jobs
          /\ [old EXCEPT !.failed = TRUE].at = old.at /\ [old EXCEPT !.until = until].at = old.at
          /\ [old EXCEPT !.failed = TRUE].acked = old.acked /\ [old EXCEPT !.until = until].acked = old.acked
      BY DEF Record
    <3>4. Spent(i, s) = [old EXCEPT !.failed = TRUE] \/ Spent(i, s) = [old EXCEPT !.until = until]
      BY <2>1, <3>1 DEF Spent
    <3> QED
      BY ZenonT(40), <3>2, <3>3, <3>4
  <2>3. RecKept
    BY ZenonT(40), <1>2, <2>1, <2>2, RecordKept
  <2>4. ScanStep(s)
    BY <1>0, <1>2, <2>3, ScanGoesOn DEF RecKept
  <2> QED
    BY <1>0, <2>3, <2>4, ScanQuiet
<1>3. CASE scan' = [scan EXCEPT ![s] = NoScan] /\ UNCHANGED rec
  <2>1. ScanStep(s)
    BY ZenonT(40), <1>0, <1>3, ScanRests
  <2> QED
    BY <1>0, <1>3, <2>1, ScanQuiet, RecordsStay
<1> QED
  BY <1>1, <1>2, <1>3 DEF DeferErasure

\* The steps of a scan that change nothing but the scan.
LEMMA ScanFaultDoes ==
  ASSUME IInv, NEW s \in Scanners, FinalizeFails(s) \/ ScanTimesOut(s) \/ ScannerStops(s)
  PROVE  ScanEffect(s)
<1>0. UNCHANGED <<now, rec, net, proj, customer>> /\ scan[s].pc # "idle"
  BY DEF FinalizeFails, ScanTimesOut, ScannerStops, core
<1>1. \/ scan' = [scan EXCEPT ![s] = NoScan]
      \/ scan' = [scan EXCEPT ![s].pc = "defer"]
      \/ NextRecord(s)
  BY DEF FinalizeFails, ScanTimesOut, ScannerStops
<1>2. ScanStep(s)
  BY <1>0, <1>1, ScanRests, ScanPlace, ScanGoesOn
<1> QED
  BY <1>0, <1>2, ScanQuiet, RecordsStay

\* The acknowledgement settles everything that is pending.
LEMMA FinalizeDoes ==
  ASSUME IInv, NEW s \in Scanners, FinalizeErasure(s)
  PROVE  ScanEffect(s)
<1>0. UNCHANGED <<now, net, msp>> /\ scan[s].pc = "settle" /\ NextRecord(s)
  BY DEF FinalizeErasure
<1>1. PICK i \in DOMAIN rec : i = Current(s) /\ i \in msp.keys
  BY <1>0, ScanAt DEF IInv, ScanSound
<1>2. PICK old \in Record : old = rec[i]
  BY Typed
<1>3. PICK r \in Record : r = [old EXCEPT !.acked = TRUE] /\ r.jobs = old.jobs /\ r.at = old.at /\ r.acked
  <2>1. [old EXCEPT !.acked = TRUE] \in Record
    BY ZenonT(40) DEF Record
  <2>2. /\ [old EXCEPT !.acked = TRUE].jobs = old.jobs /\ [old EXCEPT !.acked = TRUE].at = old.at
        /\ [old EXCEPT !.acked = TRUE].acked
    BY DEF Record
  <2> QED
    BY ZenonT(40), <2>1, <2>2
<1>4. rec' = [rec EXCEPT ![i] = r]
  BY <1>1, <1>2, <1>3 DEF FinalizeErasure
<1>5. /\ rec' \in Seq(Record) /\ DOMAIN rec' = DOMAIN rec /\ rec'[i] = r
      /\ \A k \in DOMAIN rec \ {i} : rec'[k] = rec[k]
  BY ZenonT(40), <1>4, RecordPut
<1>6. \A k \in DOMAIN rec :
        /\ rec'[k].jobs = rec[k].jobs /\ rec'[k].at = rec[k].at
        /\ rec'[k].acked => rec[k].acked \/ k \in msp.keys
  BY ZenonT(40), <1>1, <1>2, <1>3, <1>5
<1>7. ScanStep(s)
  BY <1>0, <1>5, <1>6, ScanGoesOn
<1>8. ASSUME NEW j \in Jobs, NEW d \in Directions
      PROVE  /\ proj'[j][d] \in Receipt /\ proj'[j][d].dlv = proj[j][d].dlv
             /\ proj'[j][d].erasure # "PENDING_MSP"
  <2>1. PICK p \in Receipt : p = proj[j][d]
    BY Typed
  <2>2. proj'[j][d] = Erased(p)
    BY <2>1 DEF FinalizeErasure
  <2>3. /\ [p EXCEPT !.erasure = "ERASED"] \in Receipt /\ [p EXCEPT !.erasure = "ERASED"].dlv = p.dlv
        /\ [p EXCEPT !.erasure = "ERASED"].erasure = "ERASED"
    BY DEF Receipt
  <2> QED
    BY <2>1, <2>2, <2>3 DEF Erased
<1>9. proj' \in [Jobs -> [Directions -> Receipt]]
  <2>1. proj' = [j \in Jobs |-> [d \in Directions |-> proj'[j][d]]]
    BY DEF FinalizeErasure
  <2> QED
    BY <1>8, <2>1
<1>10. customer' = "ERASED"
  BY <1>1 DEF FinalizeErasure, IInv, TypeOK, Shown
<1>11. Shown'
  BY ZenonT(40), <1>1, <1>3, <1>5, <1>8, <1>10 DEF Shown
<1> QED
  BY <1>0, <1>5, <1>6, <1>7, <1>8, <1>9, <1>10, <1>11 DEF ScanEffect

\* Every step of a scan does no more than that.
LEMMA ScansDo ==
  ASSUME IInv, NEW s \in Scanners, Scans(s)
  PROVE  ScanEffect(s)
BY StartScanDoes, ReadRecordDoes, ClaimAttemptDoes, FinalizeDoes, DeferErasureDoes, ScanFaultDoes
   DEF Scans, Scanning

\* A scan keeps the invariant.
LEMMA ScansKeep ==
  ASSUME IInv, Next, NEW s \in Scanners, Scans(s)
  PROVE  IInv'
<1>f. UNCHANGED <<plan, now, on, job, turn, cour, msp>>
  BY ScansFrame
<1>e. ScanEffect(s)
  BY ScansDo
<1>1. TypeOK'
  <2>1. plan' \in Plans /\ faults' \in 0..plan'.faults
    BY FaultsKeep
  <2> QED
    BY <1>e, <1>f, <2>1 DEF IInv, TypeOK, ScanEffect, ScanStep
<1>2. ASSUME NEW i \in DOMAIN rec PROVE i \in DOMAIN rec' /\ (Old(i) => Old(i)')
  BY <1>e, <1>f DEF ScanEffect, Old
<1>3. ASSUME NEW k \in Jobs PROVE TurnSound(k)'
  BY <1>f DEF IInv, TurnSound, Past
<1>4. ASSUME NEW k \in Jobs PROVE JobSound(k)'
  <2>1. proj'[k].OUTBOUND.dlv = proj[k].OUTBOUND.dlv
    BY <1>e DEF ScanEffect, Directions
  <2> QED
    BY <1>f, <2>1 DEF IInv, JobSound
<1>5. NetSound' /\ (\A q \in net' : q.op = "append" => q \in net)
  <2>1. CASE net' = net
    BY <1>2, <1>f, <2>1 DEF IInv, NetSound
  <2>2. CASE net' # net
    <3>1. PICK q \in ErasureCalls : q.rec \in DOMAIN rec /\ Old(q.rec) /\ net' = net \cup {q}
      BY <1>e, <2>2 DEF ScanEffect
    <3>2. q.op = "erase"
      BY DEF ErasureCalls
    <3> QED
      BY <1>2, <1>f, <3>1, <3>2 DEF IInv, NetSound
  <2> QED
    BY <2>1, <2>2
<1>6. ASSUME NEW i \in DOMAIN rec' PROVE RecSound(i)'
  <2>1. i \in DOMAIN rec /\ RecSound(i) /\ (Old(i) => Old(i)')
    BY <1>2, <1>e DEF ScanEffect, IInv
  <2>2. /\ rec'[i].jobs = rec[i].jobs /\ rec'[i].at = rec[i].at
        /\ rec'[i].acked => i \in msp.keys
    BY <1>e, <2>1 DEF ScanEffect, RecSound
  <2> QED
    BY <1>5, <1>f, <2>1, <2>2 DEF RecSound, Past
<1>7. ASSUME NEW t \in Scanners PROVE ScanSound(t)'
  <2>1. CASE t = s
    BY <1>e, <2>1 DEF ScanEffect, ScanStep
  <2>2. CASE t # s
    <3>1. scan'[t] = scan[t] /\ ScanSound(t)
      BY <1>e, <2>2 DEF ScanEffect, ScanStep, IInv
    <3> QED
      BY <1>2, <1>f, <3>1 DEF ScanSound, Current
  <2> QED
    BY <2>1, <2>2
<1>8. ASSUME NEW c \in Couriers PROVE CourSound(c)'
  BY <1>f DEF IInv, CourSound
<1>9. Covered' /\ Shown'
  BY <1>e, <1>f DEF IInv, Covered, ScanEffect
<1> QED
  BY <1>1, <1>3, <1>4, <1>5, <1>6, <1>7, <1>8, <1>9 DEF IInv
-----------------------------------------------------------------------------
(* A courier. *)

\* What the step of a courier does to the deliveries: one that pends may end, and is
\* acknowledged with its receipt, once MSP has it.
DeliveryStep ==
  /\ job' \in [Jobs -> Job] /\ proj' \in [Jobs -> [Directions -> Receipt]]
  /\ \A j \in Jobs :
       /\ job'[j].state = job[j].state
       /\ \A d \in Directions : proj'[j][d].erasure = proj[j][d].erasure
       /\ \/ job'[j].dlv = job[j].dlv /\ proj'[j] = proj[j]
          \/ /\ job[j].dlv = "PENDING" /\ job'[j].dlv = "CLOSED"
             /\ proj'[j].OUTBOUND.dlv # "ACKNOWLEDGED"
          \/ /\ job[j].dlv = "PENDING" /\ job'[j].dlv = "ACKNOWLEDGED"
             /\ proj'[j].OUTBOUND.dlv = "ACKNOWLEDGED" /\ j \in msp.delivered

\* What it does to the courier, and to the calls.
CourStep(c) ==
  /\ cour' \in [Couriers -> Courier] /\ \A d \in Couriers \ {c} : cour'[d] = cour[d]
  /\ CourSound(c)'
  /\ net' = net \/ \E q \in DeliveryCalls : net' = net \cup {q}

\* The rows and the receipts are left alone.
LEMMA DeliveriesStay ==
  ASSUME IInv, UNCHANGED <<job, proj>>
  PROVE  DeliveryStep
BY DEF DeliveryStep, IInv, TypeOK

\* A row whose lease changes, and not its delivery.
LEMMA LeaseChanges ==
  ASSUME IInv, NEW j \in Jobs, NEW new \in Job, job' = [job EXCEPT ![j] = new],
         new.state = job[j].state, new.dlv = job[j].dlv, UNCHANGED proj
  PROVE  DeliveryStep
<1>1. /\ job' \in [Jobs -> Job] /\ job'[j] = new /\ \A k \in Jobs \ {j} : job'[k] = job[k]
  BY DEF IInv, TypeOK
<1> QED
  BY <1>1 DEF DeliveryStep, IInv, TypeOK

\* A delivery that ends.
LEMMA DeliveryEnds ==
  ASSUME IInv, NEW j \in Jobs, job[j].dlv = "PENDING",
         NEW new \in Job, job' = [job EXCEPT ![j] = new], new.state = job[j].state,
         NEW r \in Receipt, r.erasure = proj[j].OUTBOUND.erasure,
         proj' = [proj EXCEPT ![j].OUTBOUND = r],
         \/ new.dlv = "CLOSED" /\ r.dlv # "ACKNOWLEDGED"
         \/ new.dlv = "ACKNOWLEDGED" /\ r.dlv = "ACKNOWLEDGED" /\ j \in msp.delivered
  PROVE  DeliveryStep
<1>1. /\ job' \in [Jobs -> Job] /\ job'[j] = new /\ \A k \in Jobs \ {j} : job'[k] = job[k]
  BY DEF IInv, TypeOK
<1>2. proj \in [Jobs -> [Directions -> Receipt]] /\ "OUTBOUND" \in Directions
  BY DEF IInv, TypeOK, Directions
<1>3. /\ proj' \in [Jobs -> [Directions -> Receipt]] /\ \A k \in Jobs \ {j} : proj'[k] = proj[k]
      /\ \A d \in Directions : proj'[j][d] = IF d = "OUTBOUND" THEN r ELSE proj[j][d]
  BY <1>2
<1>4. proj'[j].OUTBOUND = r
  BY <1>2, <1>3
<1>5. \A d \in Directions : proj'[j][d].erasure = proj[j][d].erasure
  BY <1>3
<1> QED
  BY <1>1, <1>3, <1>4, <1>5 DEF DeliveryStep

\* A courier that changes its place in the handler.
LEMMA CourMoves ==
  ASSUME IInv, NEW c \in Couriers, NEW new \in Courier, cour' = [cour EXCEPT ![c] = new],
         new.pc # "ack", net' = net \/ \E q \in DeliveryCalls : net' = net \cup {q}
  PROVE  CourStep(c)
<1>1. /\ cour' \in [Couriers -> Courier] /\ cour'[c] = new
      /\ \A d \in Couriers \ {c} : cour'[d] = cour[d]
  BY DEF IInv, TypeOK
<1> QED
  BY <1>1 DEF CourStep, CourSound

\* The two ways to go on.
LEMMA CourGoesOn ==
  ASSUME IInv, NEW c \in Couriers,
         net' = net \/ \E q \in DeliveryCalls : net' = net \cup {q},
         \/ Rest(c)
         \/ \E pc \in {"pick", "check", "send", "wait", "close", "release"} : Then(c, pc)
  PROVE  CourStep(c)
<1>1. CASE Rest(c)
  <2>1. NoCourier \in Courier /\ NoCourier.pc # "ack"
    <3>1. cour[c].job \in Jobs
      BY Typed
    <3>2. (CHOOSE j \in Jobs : TRUE) \in Jobs
      BY <3>1
    <3> QED
      BY <3>2 DEF NoCourier, Courier
  <2> QED
    BY ZenonT(40), <1>1, <2>1, CourMoves DEF Rest
<1>2. ASSUME NEW pc \in {"pick", "check", "send", "wait", "close", "release"}, Then(c, pc)
      PROVE CourStep(c)
  <2>1. PICK old \in Courier : old = cour[c]
    BY Typed
  <2>2. PICK new \in Courier : new = [old EXCEPT !.pc = pc] /\ new.pc # "ack"
    <3>1. [old EXCEPT !.pc = pc] \in Courier /\ [old EXCEPT !.pc = pc].pc = pc
      BY DEF Courier
    <3> QED
      BY ZenonT(40), <3>1
  <2>3. cour' = [cour EXCEPT ![c] = new]
    BY <1>2, <2>1, <2>2 DEF Then
  <2> QED
    BY ZenonT(40), <2>2, <2>3, CourMoves
<1> QED
  BY <1>1, <1>2
\* A claim moves a row's lease and version.
LEMMA ClaimDeliveryDoes ==
  ASSUME IInv, NEW c \in Couriers, NEW j \in Jobs, ClaimDelivery(c, j)
  PROVE  DeliveryStep /\ CourStep(c)
<1>1. PICK row \in Job : row = job[j]
  BY Typed
<1>2. PICK old \in Courier : old = cour[c]
  BY Typed
<1>3. DeliveryLease \in Nat /\ now \in Nat
  BY MemoryAssumption, Typed
<1>4. PICK lease \in Nat : lease = old.at + DeliveryLease
  BY <1>3 DEF Courier
<1>5. PICK version \in Nat : version = row.version + 1
  BY DEF Job
<1>6. DeliveryStep
  <2>1. [[row EXCEPT !.lease = lease] EXCEPT !.version = version] \in Job
    BY ZenonT(40) DEF Job
  <2>2. PICK new \in Job : /\ new = [[row EXCEPT !.lease = lease] EXCEPT !.version = version]
                           /\ new.state = row.state /\ new.dlv = row.dlv
    BY ZenonT(40), <2>1 DEF Job
  <2>3. job' = [job EXCEPT ![j] = new] /\ UNCHANGED proj
    BY ZenonT(40), <1>1, <1>2, <1>4, <1>5, <2>2 DEF ClaimDelivery, Job
  <2> QED
    BY ZenonT(40), <1>1, <2>2, <2>3, LeaseChanges
<1>7. CourStep(c)
  <2>1. [[[old EXCEPT !.pc = "check"] EXCEPT !.job = j] EXCEPT !.version = version] \in Courier
    BY ZenonT(40) DEF Courier
  <2>2. PICK new \in Courier :
          /\ new = [[[old EXCEPT !.pc = "check"] EXCEPT !.job = j] EXCEPT !.version = version]
          /\ new.pc # "ack"
    BY ZenonT(40), <2>1 DEF Courier
  <2>3. cour' = [cour EXCEPT ![c] = new] /\ UNCHANGED net
    BY ZenonT(40), <1>1, <1>2, <1>5, <2>2 DEF ClaimDelivery, Courier
  <2> QED
    BY ZenonT(40), <2>2, <2>3, CourMoves
<1> QED
  BY <1>6, <1>7

\* A courier sets out.
LEMMA StartCourierDoes ==
  ASSUME IInv, NEW c \in Couriers, StartCourier(c)
  PROVE  DeliveryStep /\ CourStep(c)
<1>1. PICK old \in Courier : old = cour[c]
  BY Typed
<1>2. now \in Nat
  BY Typed
<1>3. [[old EXCEPT !.pc = "pick"] EXCEPT !.at = now] \in Courier
  BY ZenonT(40), <1>2 DEF Courier
<1>4. PICK new \in Courier : new = [[old EXCEPT !.pc = "pick"] EXCEPT !.at = now] /\ new.pc # "ack"
  BY ZenonT(40), <1>3 DEF Courier
<1>5. cour' = [cour EXCEPT ![c] = new] /\ UNCHANGED <<net, job, proj>>
  BY ZenonT(40), <1>1, <1>4 DEF StartCourier, core
<1> QED
  BY ZenonT(40), <1>4, <1>5, CourMoves, DeliveriesStay

\* A courier looks at the source of its delivery and changes no row.
LEMMA ReadSourceDoes ==
  ASSUME IInv, NEW c \in Couriers, ReadSource(c)
  PROVE  DeliveryStep /\ CourStep(c)
<1>1. UNCHANGED <<job, proj>>
  BY DEF ReadSource, core
<1>2. \E pc \in {"pick", "check", "send", "wait", "close", "release"} : Then(c, pc)
  BY DEF ReadSource
<1>3. net' = net \/ \E q \in DeliveryCalls : net' = net \cup {q}
  <2>1. DeliveryCall(c) \in DeliveryCalls
    BY Typed DEF DeliveryCall, DeliveryCalls, Courier
  <2> QED
    BY <2>1 DEF ReadSource
<1> QED
  BY <1>1, <1>2, <1>3, DeliveriesStay, CourGoesOn

\* A delivery is closed by the courier that has the row, or left.
LEMMA CloseDeliveryDoes ==
  ASSUME IInv, NEW c \in Couriers, CloseDelivery(c)
  PROVE  DeliveryStep /\ CourStep(c)
<1>1. UNCHANGED net /\ Then(c, "pick")
  BY DEF CloseDelivery
<1>2. CourStep(c)
  BY <1>1, CourGoesOn
<1>3. PICK j \in Jobs : j = cour[c].job
  BY Typed
<1>4. CASE ~Owned(c)
  <2>1. UNCHANGED <<job, proj>>
    BY <1>4 DEF CloseDelivery
  <2> QED
    BY <1>2, <2>1, DeliveriesStay
<1>5. CASE Owned(c)
  <2>1. PICK row \in Job : row = job[j] /\ row.dlv = "PENDING"
    BY <1>3, <1>5, Typed DEF Owned
  <2>2. PICK new \in Job : new = CloseOutbox(row) /\ new.state = row.state /\ new.dlv = "CLOSED"
    BY <2>1, ClosedRow
  <2>3. job' = [job EXCEPT ![j] = new]
    BY <1>3, <1>5, <2>1, <2>2 DEF CloseDelivery
  <2>4. PICK p \in Receipt : p = proj[j].OUTBOUND
    BY Typed DEF Directions
  <2>5. PICK dlv : dlv = IF p.dlv = "none" THEN p.dlv ELSE "CLOSED"
    OBVIOUS
  <2>6. /\ [p EXCEPT !.dlv = dlv] \in Receipt /\ [p EXCEPT !.dlv = dlv].dlv = dlv
        /\ [p EXCEPT !.dlv = dlv].erasure = p.erasure
    <3>1. dlv \in {"none", "PENDING", "ACKNOWLEDGED", "CLOSED"}
      BY <2>5
    <3> QED
      BY <3>1 DEF Receipt
  <2>7. PICK r \in Receipt : r = [p EXCEPT !.dlv = dlv] /\ r.dlv # "ACKNOWLEDGED" /\ r.erasure = p.erasure
    <3>1. dlv # "ACKNOWLEDGED"
      BY <2>5
    <3> QED
      BY ZenonT(40), <2>6, <3>1
  <2>8. proj' = [proj EXCEPT ![j].OUTBOUND.dlv = IF @ = "none" THEN @ ELSE "CLOSED"]
    BY <1>3, <1>5 DEF CloseDelivery
  <2>9. proj' = [proj EXCEPT ![j].OUTBOUND = r]
    BY SMTT(40), <2>4, <2>5, <2>7, <2>8
  <2>10. DeliveryStep
    BY ZenonT(40), <2>1, <2>2, <2>3, <2>4, <2>7, <2>9, DeliveryEnds
  <2> QED
    BY <1>2, <2>10
<1> QED
  BY <1>4, <1>5

\* A delivery is acknowledged by the courier that has the row, or left.
LEMMA AcknowledgeDeliveryDoes ==
  ASSUME IInv, NEW c \in Couriers, AcknowledgeDelivery(c)
  PROVE  DeliveryStep /\ CourStep(c)
<1>1. UNCHANGED net /\ Then(c, "pick") /\ cour[c].pc = "ack"
  BY ZenonT(40) DEF AcknowledgeDelivery
<1>2. CourStep(c)
  BY <1>1, CourGoesOn
<1>3. PICK j \in Jobs : j = cour[c].job /\ j \in msp.delivered
  BY SMTT(40), <1>1, Typed DEF IInv, CourSound
<1>4. CASE ~Owned(c)
  <2>1. UNCHANGED <<job, proj>>
    BY ZenonT(40), <1>4 DEF AcknowledgeDelivery
  <2> QED
    BY <1>2, <2>1, DeliveriesStay
<1>5. CASE Owned(c)
  <2>1. PICK row \in Job : row = job[j] /\ row.dlv = "PENDING"
    BY <1>3, <1>5, Typed DEF Owned
  <2>2. PICK version \in Nat : version = row.version + 1
    BY DEF Job
  <2>3. PICK new \in Job :
          /\ new = [[[[row EXCEPT !.dlv = "ACKNOWLEDGED"] EXCEPT !.lease = 0] EXCEPT !.next = 0]
                    EXCEPT !.version = version]
          /\ new.state = row.state /\ new.dlv = "ACKNOWLEDGED"
    <3>1. [[[[row EXCEPT !.dlv = "ACKNOWLEDGED"] EXCEPT !.lease = 0] EXCEPT !.next = 0]
                    EXCEPT !.version = version] \in Job
      BY ZenonT(40) DEF Job
    <3> QED
      BY ZenonT(40), <3>1 DEF Job
  <2>4. job' = [job EXCEPT ![j] = new]
    <3>1. job' = [job EXCEPT ![j].dlv = "ACKNOWLEDGED", ![j].lease = 0, ![j].next = 0,
                              ![j].version = @ + 1]
      BY ZenonT(40), <1>3, <1>5 DEF AcknowledgeDelivery
    <3> QED
      BY ZenonT(40), <2>1, <2>2, <2>3, <3>1 DEF Job
  <2>5. PICK p \in Receipt : p = proj[j].OUTBOUND
    BY Typed DEF Directions
  <2>6. /\ [p EXCEPT !.dlv = "ACKNOWLEDGED"] \in Receipt
        /\ [p EXCEPT !.dlv = "ACKNOWLEDGED"].dlv = "ACKNOWLEDGED"
        /\ [p EXCEPT !.dlv = "ACKNOWLEDGED"].erasure = p.erasure
    BY SMTT(40) DEF Receipt
  <2>7. PICK r \in Receipt : /\ r = [p EXCEPT !.dlv = "ACKNOWLEDGED"] /\ r.dlv = "ACKNOWLEDGED"
                             /\ r.erasure = p.erasure
    BY ZenonT(40), <2>6
  <2>8. proj' = [proj EXCEPT ![j].OUTBOUND = r]
    <3>1. proj' = [proj EXCEPT ![j].OUTBOUND.dlv = "ACKNOWLEDGED"]
      BY ZenonT(40), <1>3, <1>5 DEF AcknowledgeDelivery
    <3>2. [proj[j].OUTBOUND EXCEPT !.dlv = "ACKNOWLEDGED"] = r
      BY ZenonT(40), <2>5, <2>7
    <3> QED
      BY ONLY ZenonT(40), <3>1, <3>2
  <2>9. /\ job[j].dlv = "PENDING" /\ new.state = job[j].state /\ new.dlv = "ACKNOWLEDGED"
        /\ r.erasure = proj[j].OUTBOUND.erasure /\ r.dlv = "ACKNOWLEDGED"
    BY <2>1, <2>3, <2>5, <2>7
  <2>10. DeliveryStep
    BY ZenonT(40), <1>3, <2>4, <2>8, <2>9, DeliveryEnds
  <2> QED
    BY <1>2, <2>10
<1> QED
  BY <1>4, <1>5

\* A row is released for a later try.
LEMMA ReleaseDeliveryDoes ==
  ASSUME IInv, NEW c \in Couriers, ReleaseDelivery(c)
  PROVE  DeliveryStep /\ CourStep(c)
<1>1. UNCHANGED <<net, proj>> /\ Then(c, "pick")
  BY DEF ReleaseDelivery
<1>2. CourStep(c)
  BY <1>1, CourGoesOn
<1>3. PICK j \in Jobs : j = cour[c].job
  BY Typed
<1>4. CASE UNCHANGED job
  BY <1>1, <1>2, <1>4, DeliveriesStay
<1>5. CASE job' = [job EXCEPT ![j].lease = 0, ![j].next = cour[c].at + 1, ![j].version = @ + 1]
  <2>1. PICK row \in Job : row = job[j]
    BY Typed
  <2>2. PICK version \in Nat : version = row.version + 1
    BY DEF Job
  <2>3. PICK next \in Nat : next = cour[c].at + 1
    BY Typed DEF Courier
  <2>4. PICK new \in Job :
          /\ new = [[[row EXCEPT !.lease = 0] EXCEPT !.next = next] EXCEPT !.version = version]
          /\ new.state = row.state /\ new.dlv = row.dlv
    <3>1. [[[row EXCEPT !.lease = 0] EXCEPT !.next = next] EXCEPT !.version = version] \in Job
      BY ZenonT(40) DEF Job
    <3> QED
      BY ZenonT(40), <3>1 DEF Job
  <2>5. job' = [job EXCEPT ![j] = new]
    BY ZenonT(40), <1>5, <2>1, <2>2, <2>3, <2>4 DEF Job
  <2>6. DeliveryStep
    BY ZenonT(40), <1>1, <2>1, <2>4, <2>5, LeaseChanges
  <2> QED
    BY <1>2, <2>6
<1> QED
  BY <1>3, <1>4, <1>5 DEF ReleaseDelivery

\* The steps of a courier that touch no row.
LEMMA CourierRestsDoes ==
  ASSUME IInv, NEW c \in Couriers, EndCourier(c) \/ CourierTimesOut(c) \/ CourierStops(c)
  PROVE  DeliveryStep /\ CourStep(c)
<1>1. UNCHANGED <<job, proj, net>>
  BY DEF EndCourier, CourierTimesOut, CourierStops, core
<1>2. Rest(c) \/ Then(c, "release")
  BY DEF EndCourier, CourierTimesOut, CourierStops
<1> QED
  BY <1>1, <1>2, DeliveriesStay, CourGoesOn

\* Every step of a courier does no more than that.
LEMMA DeliversDo ==
  ASSUME IInv, NEW c \in Couriers, Delivers(c)
  PROVE  DeliveryStep /\ CourStep(c)
BY StartCourierDoes, ClaimDeliveryDoes, ReadSourceDoes, CloseDeliveryDoes, AcknowledgeDeliveryDoes,
   ReleaseDeliveryDoes, CourierRestsDoes DEF Delivers, Delivering
\* A courier keeps the invariant.
LEMMA DeliversKeep ==
  ASSUME IInv, Next, NEW c \in Couriers, Delivers(c)
  PROVE  IInv'
<1>f. UNCHANGED <<plan, now, on, customer, rec, turn, scan, msp>>
  BY DeliversFrame
<1>e. DeliveryStep /\ CourStep(c)
  BY DeliversDo
<1>1. TypeOK'
  <2>1. plan' \in Plans /\ faults' \in 0..plan'.faults
    BY FaultsKeep
  <2> QED
    BY <1>e, <1>f, <2>1 DEF IInv, TypeOK, DeliveryStep, CourStep
<1>2. ASSUME NEW k \in Jobs PROVE TurnSound(k)'
  BY <1>e, <1>f DEF IInv, TurnSound, Past, DeliveryStep
<1>3. ASSUME NEW k \in Jobs PROVE JobSound(k)'
  <2>1. JobSound(k)
    BY DEF IInv
  <2>2. /\ job'[k].state = job[k].state
        /\ \/ job'[k].dlv = job[k].dlv /\ proj'[k] = proj[k]
           \/ /\ job[k].dlv = "PENDING" /\ job'[k].dlv = "CLOSED"
              /\ proj'[k].OUTBOUND.dlv # "ACKNOWLEDGED"
           \/ /\ job[k].dlv = "PENDING" /\ job'[k].dlv = "ACKNOWLEDGED"
              /\ proj'[k].OUTBOUND.dlv = "ACKNOWLEDGED" /\ k \in msp.delivered
    BY <1>e DEF DeliveryStep
  <2> QED
    BY <1>f, <2>1, <2>2 DEF JobSound
<1>4. NetSound' /\ (\A q \in net' : q.op = "append" => q \in net)
  <2>1. CASE net' = net
    BY <1>f, <2>1 DEF IInv, NetSound, Old
  <2>2. CASE net' # net
    <3>1. PICK q \in DeliveryCalls : net' = net \cup {q}
      BY <1>e, <2>2 DEF CourStep
    <3>2. q.op = "deliver"
      BY DEF DeliveryCalls
    <3> QED
      BY <1>f, <3>1, <3>2 DEF IInv, NetSound, Old
  <2> QED
    BY <2>1, <2>2
<1>5. ASSUME NEW i \in DOMAIN rec' PROVE RecSound(i)'
  <2>1. i \in DOMAIN rec /\ RecSound(i) /\ rec[i].jobs \subseteq Jobs
    BY <1>f, Typed DEF IInv, Record
  <2>2. \A k \in rec[i].jobs : job'[k].state = job[k].state
    BY <1>e, <2>1 DEF DeliveryStep
  <2> QED
    BY <1>4, <1>f, <2>1, <2>2 DEF RecSound, Past, Old
<1>6. ASSUME NEW t \in Scanners PROVE ScanSound(t)'
  BY <1>f DEF IInv, ScanSound, Old, Current
<1>7. ASSUME NEW d \in Couriers PROVE CourSound(d)'
  <2>1. CASE d = c
    BY <1>e, <2>1 DEF CourStep
  <2>2. CASE d # c
    BY <1>e, <1>f, <2>2 DEF CourStep, CourSound, IInv
  <2> QED
    BY <2>1, <2>2
<1>8. Covered'
  BY <1>e, <1>f DEF IInv, Covered, DeliveryStep
<1>9. Shown'
  BY <1>e, <1>f DEF IInv, Shown, Unacked, DeliveryStep
<1> QED
  BY <1>1, <1>2, <1>3, <1>4, <1>5, <1>6, <1>7, <1>8, <1>9 DEF IInv
-----------------------------------------------------------------------------
(* MSP. *)

\* What a call that is gone leaves as it was.
LEMMA CallGone ==
  ASSUME IInv, NEW q \in net, net' = net \ {q}, UNCHANGED <<now, rec>>
  PROVE  NetSound'
BY DEF IInv, NetSound, Old

\* A message that arrives is none of a job whose erasure MSP has been told of.
LEMMA MspAppendsKeeps ==
  ASSUME IInv, Next, NEW q \in net, MspServes(q), MspAppends(q)
  PROVE  IInv'
<1>f. UNCHANGED <<plan, now, on, job, proj, customer, rec, scan, cour>> /\ net' = net \ {q}
  BY DEF MspServes, MspAppends, core
<1>q. q.op = "append" /\ q.job \in Jobs
  BY DEF MspAppends, IInv, NetSound, AppendCalls, ErasureCalls, DeliveryCalls
<1>t. /\ turn \in [Jobs -> Turn]
      /\ msp \in [human : [Jobs -> {"none", "text", "blank"}], keys : SUBSET DOMAIN rec,
                  delivered : SUBSET Jobs]
  BY DEF IInv, TypeOK
<1>1. /\ turn' \in [Jobs -> Turn]
      /\ \A k \in Jobs : \/ turn'[k] = turn[k]
                         \/ turn[k].pc = "wait" /\ turn'[k].pc = "read" /\ turn'[k].since = turn[k].since
  <2>1. CASE turn' = turn
    BY <1>t, <2>1
  <2>2. CASE turn' # turn
    <3>1. PICK t \in Turn : t = turn[q.job] /\ t.pc = "wait"
      BY <1>q, <1>t, <2>2 DEF MspAppends
    <3>2. PICK new \in Turn : new = [t EXCEPT !.pc = "read"] /\ new.pc = "read" /\ new.since = t.since
      <4>1. [t EXCEPT !.pc = "read"] \in Turn
        BY DEF Turn
      <4> QED
        BY <4>1 DEF Turn
    <3>3. turn' = [turn EXCEPT ![q.job] = new]
      BY <2>2, <3>1, <3>2 DEF MspAppends
    <3> QED
      BY <1>q, <1>t, <3>1, <3>2, <3>3
  <2> QED
    BY <2>1, <2>2
<1>2. /\ msp' \in [human : [Jobs -> {"none", "text", "blank"}], keys : SUBSET DOMAIN rec,
                   delivered : SUBSET Jobs]
      /\ msp'.keys = msp.keys /\ msp'.delivered = msp.delivered
      /\ \A k \in Jobs : k # q.job => msp'.human[k] = msp.human[k]
  <2>1. PICK h \in {"none", "text", "blank"} :
          h = IF q.dir = "INBOUND" /\ msp.human[q.job] = "none" THEN "text" ELSE msp.human[q.job]
    BY <1>q, <1>t
  <2>2. PICK human \in [Jobs -> {"none", "text", "blank"}] : human = [msp.human EXCEPT ![q.job] = h]
    BY ZenonT(40), <1>t
  <2>3. \A k \in Jobs : k # q.job => human[k] = msp.human[k]
    BY <1>t, <2>2
  <2>4. msp' = [msp EXCEPT !.human = human]
    BY <2>1, <2>2 DEF MspAppends
  <2> QED
    BY <1>t, <2>3, <2>4
<1>3. TypeOK'
  <2>1. plan' \in Plans /\ faults' \in 0..plan'.faults
    BY FaultsKeep
  <2> QED
    BY <1>1, <1>2, <1>f, <2>1 DEF IInv, TypeOK
<1>4. ASSUME NEW k \in Jobs PROVE TurnSound(k)' /\ JobSound(k)'
  <2>1. CASE turn'[k] = turn[k]
    BY <1>2, <1>f, <2>1 DEF IInv, TurnSound, JobSound, Past
  <2>2. CASE turn[k].pc = "wait" /\ turn'[k].pc = "read" /\ turn'[k].since = turn[k].since
    <3>1. TurnSound(k) /\ JobSound(k)
      BY DEF IInv
    <3>2. TurnSound(k)'
      BY <1>f, <2>2, <3>1 DEF TurnSound, Past
    <3>3. JobSound(k)'
      BY <1>2, <1>f, <2>2, <3>1 DEF JobSound
    <3> QED
      BY <3>2, <3>3
  <2> QED
    BY <1>1, <2>1, <2>2
<1>5. NetSound'
  BY <1>f, CallGone
<1>6. ASSUME NEW i \in DOMAIN rec' PROVE RecSound(i)'
  <2>1. i \in DOMAIN rec /\ RecSound(i) /\ rec[i].jobs \subseteq Jobs
    BY <1>f, Typed DEF IInv, Record
  <2>2. \A k \in rec[i].jobs : (Past(k)' => Past(k)) /\ turn'[k].since = turn[k].since
    BY <1>1, <2>1 DEF Past
  <2>3. ASSUME i \in msp.keys, NEW k \in rec[i].jobs PROVE msp'.human[k] # "text"
    <3>1. Old(i) /\ msp.human[k] # "text"
      BY <2>1, <2>3 DEF RecSound
    <3>2. k # q.job
      BY <1>q, <2>1, <2>3, <3>1, NothingComes
    <3> QED
      BY <1>2, <2>1, <3>1, <3>2
  <2> QED
    BY <1>2, <1>f, <2>1, <2>2, <2>3 DEF RecSound, Old
<1>7. ASSUME NEW t \in Scanners PROVE ScanSound(t)'
  BY <1>2, <1>f DEF IInv, ScanSound, Old, Current
<1>8. ASSUME NEW d \in Couriers PROVE CourSound(d)'
  BY <1>2, <1>f DEF IInv, CourSound
<1>9. Covered' /\ Shown'
  BY <1>f DEF IInv, Covered, Shown, Unacked
<1> QED
  BY <1>3, <1>4, <1>5, <1>6, <1>7, <1>8, <1>9 DEF IInv

\* An erasure blanks every message, and is called for only when its record is old.
LEMMA MspErasesKeeps ==
  ASSUME IInv, Next, NEW q \in net, MspServes(q), MspErases(q)
  PROVE  IInv'
<1>f. UNCHANGED <<plan, now, on, job, proj, customer, rec, turn, cour>> /\ net' = net \ {q}
  BY DEF MspServes, MspErases, core
<1>q. q.op = "erase" /\ q.by \in Scanners /\ q.rec \in DOMAIN rec /\ Old(q.rec)
  BY DEF MspErases, IInv, NetSound, AppendCalls, ErasureCalls, DeliveryCalls
<1>t. /\ scan \in [Scanners -> Scan]
      /\ msp \in [human : [Jobs -> {"none", "text", "blank"}], keys : SUBSET DOMAIN rec,
                  delivered : SUBSET Jobs]
  BY DEF IInv, TypeOK
<1>1. /\ msp' \in [human : [Jobs -> {"none", "text", "blank"}], keys : SUBSET DOMAIN rec,
                   delivered : SUBSET Jobs]
      /\ msp'.keys = msp.keys \cup {q.rec} /\ msp'.delivered = msp.delivered
      /\ \A k \in Jobs : msp.human[k] # "text" => msp'.human[k] # "text"
      /\ q.rec \in msp.keys \/ \A k \in Jobs : msp'.human[k] # "text"
  <2>1. CASE q.rec \in msp.keys
    BY <1>t, <2>1 DEF MspErases
  <2>2. CASE q.rec \notin msp.keys
    <3>1. PICK keys \in SUBSET DOMAIN rec : keys = msp.keys \cup {q.rec}
      BY ZenonT(40), <1>q, <1>t
    <3>2. PICK human : human = [k \in Jobs |-> IF msp.human[k] = "text" THEN "blank" ELSE msp.human[k]]
      OBVIOUS
    <3>3. human \in [Jobs -> {"none", "text", "blank"}] /\ \A k \in Jobs : human[k] # "text"
      BY <1>t, <3>2
    <3>4. msp' = [msp EXCEPT !.keys = keys, !.human = human]
      BY <1>t, <2>2, <3>1, <3>2 DEF MspErases
    <3> QED
      BY ZenonT(40), <1>t, <3>1, <3>3, <3>4
  <2> QED
    BY <2>1, <2>2
<1>2. /\ scan' \in [Scanners -> Scan]
      /\ \A s \in Scanners : \/ scan'[s] = scan[s]
                             \/ /\ scan[s].pc # "idle" /\ scan'[s].batch = scan[s].batch
                                /\ Current(s) = q.rec
  <2>1. CASE scan' = scan
    BY <1>t, <2>1
  <2>2. CASE scan' # scan
    <3>1. PICK old \in Scan : old = scan[q.by] /\ old.pc = "wait" /\ Current(q.by) = q.rec
      BY <1>q, <1>t, <2>2 DEF MspErases
    <3>2. PICK new \in Scan : new = [old EXCEPT !.pc = "settle"] /\ new.batch = old.batch
      <4>1. [old EXCEPT !.pc = "settle"] \in Scan
        BY DEF Scan
      <4> QED
        BY <4>1 DEF Scan
    <3>3. scan' = [scan EXCEPT ![q.by] = new]
      BY <2>2, <3>1, <3>2 DEF MspErases
    <3> QED
      BY <1>q, <1>t, <3>1, <3>2, <3>3
  <2> QED
    BY <2>1, <2>2
<1>3. TypeOK'
  <2>1. plan' \in Plans /\ faults' \in 0..plan'.faults
    BY FaultsKeep
  <2> QED
    BY <1>1, <1>2, <1>f, <2>1 DEF IInv, TypeOK
<1>4. ASSUME NEW k \in Jobs PROVE TurnSound(k)' /\ JobSound(k)'
  BY <1>1, <1>f DEF IInv, TurnSound, JobSound, Past
<1>5. NetSound'
  BY <1>f, CallGone
<1>6. ASSUME NEW i \in DOMAIN rec' PROVE RecSound(i)'
  <2>1. i \in DOMAIN rec /\ RecSound(i) /\ rec[i].jobs \subseteq Jobs
    BY <1>f, Typed DEF IInv, Record
  <2>2. ASSUME i \in msp'.keys PROVE Old(i) /\ \A k \in rec[i].jobs : msp'.human[k] # "text"
    <3>1. CASE i \in msp.keys
      BY <1>1, <2>1, <3>1 DEF RecSound
    <3>2. CASE i \notin msp.keys
      BY <1>1, <1>q, <2>1, <2>2, <3>2
    <3> QED
      BY <3>1, <3>2
  <2>3. rec[i].acked => i \in msp'.keys
    BY <1>1, <2>1 DEF RecSound
  <2> QED
    BY <1>f, <2>1, <2>2, <2>3 DEF RecSound, Past, Old
<1>7. ASSUME NEW s \in Scanners PROVE ScanSound(s)'
  <2>1. ScanSound(s)
    BY DEF IInv
  <2>2. CASE scan'[s] = scan[s]
    BY <1>1, <1>f, <2>1, <2>2 DEF ScanSound, Old, Current
  <2>3. CASE scan[s].pc # "idle" /\ scan'[s].batch = scan[s].batch /\ Current(s) = q.rec
    BY <1>1, <1>f, <2>1, <2>3 DEF ScanSound, Old, Current
  <2> QED
    BY <1>2, <2>2, <2>3
<1>8. ASSUME NEW d \in Couriers PROVE CourSound(d)'
  BY <1>1, <1>f DEF IInv, CourSound
<1>9. Covered' /\ Shown'
  BY <1>f DEF IInv, Covered, Shown, Unacked
<1> QED
  BY <1>3, <1>4, <1>5, <1>6, <1>7, <1>8, <1>9 DEF IInv

\* A courier is told of a delivery MSP has.
LEMMA MspDeliversKeeps ==
  ASSUME IInv, Next, NEW q \in net, MspServes(q), MspDelivers(q)
  PROVE  IInv'
<1>f. UNCHANGED <<plan, now, on, job, proj, customer, rec, turn, scan>> /\ net' = net \ {q}
  BY DEF MspServes, MspDelivers, core
<1>q. q.op = "deliver" /\ q.by \in Couriers /\ q.job \in Jobs
  BY DEF MspDelivers, IInv, NetSound, AppendCalls, ErasureCalls, DeliveryCalls
<1>t. /\ cour \in [Couriers -> Courier]
      /\ msp \in [human : [Jobs -> {"none", "text", "blank"}], keys : SUBSET DOMAIN rec,
                  delivered : SUBSET Jobs]
  BY DEF IInv, TypeOK
<1>1. /\ msp' \in [human : [Jobs -> {"none", "text", "blank"}], keys : SUBSET DOMAIN rec,
                   delivered : SUBSET Jobs]
      /\ msp'.keys = msp.keys /\ msp'.delivered = msp.delivered \cup {q.job}
      /\ msp'.human = msp.human
  BY <1>q, <1>t DEF MspDelivers
<1>2. /\ cour' \in [Couriers -> Courier]
      /\ \A c \in Couriers : cour'[c] = cour[c] \/ cour'[c].job = q.job
  <2>1. CASE cour' = cour
    BY <1>t, <2>1
  <2>2. CASE cour' # cour
    <3>1. PICK old \in Courier : old = cour[q.by] /\ old.job = q.job
      BY <1>q, <1>t, <2>2 DEF MspDelivers, DeliveryCall
    <3>2. PICK new \in Courier : new = [old EXCEPT !.pc = "ack"] /\ new.job = old.job
      <4>1. [old EXCEPT !.pc = "ack"] \in Courier
        BY DEF Courier
      <4> QED
        BY <4>1 DEF Courier
    <3>3. cour' = [cour EXCEPT ![q.by] = new]
      BY <2>2, <3>1, <3>2 DEF MspDelivers
    <3> QED
      BY <1>q, <1>t, <3>1, <3>2, <3>3
  <2> QED
    BY <2>1, <2>2
<1>3. TypeOK'
  <2>1. plan' \in Plans /\ faults' \in 0..plan'.faults
    BY FaultsKeep
  <2> QED
    BY <1>1, <1>2, <1>f, <2>1 DEF IInv, TypeOK
<1>4. ASSUME NEW k \in Jobs PROVE TurnSound(k)' /\ JobSound(k)'
  BY <1>1, <1>f DEF IInv, TurnSound, JobSound, Past
<1>5. NetSound'
  BY <1>f, CallGone
<1>6. ASSUME NEW i \in DOMAIN rec' PROVE RecSound(i)'
  BY <1>1, <1>f DEF IInv, RecSound, Past, Old
<1>7. ASSUME NEW s \in Scanners PROVE ScanSound(s)'
  BY <1>1, <1>f DEF IInv, ScanSound, Old, Current
<1>8. ASSUME NEW d \in Couriers PROVE CourSound(d)'
  BY <1>1, <1>2 DEF IInv, CourSound
<1>9. Covered' /\ Shown'
  BY <1>f DEF IInv, Covered, Shown, Unacked
<1> QED
  BY <1>3, <1>4, <1>5, <1>6, <1>7, <1>8, <1>9 DEF IInv

\* A call that never arrives.
LEMMA LoseKeeps ==
  ASSUME IInv, Next, NEW q \in net, Lose(q)
  PROVE  IInv'
<1>1. /\ UNCHANGED <<plan, now, on, job, proj, customer, rec, turn, scan, cour, msp>>
      /\ net' = net \ {q}
  BY DEF Lose, core
<1>2. plan' \in Plans /\ faults' \in 0..plan'.faults
  BY FaultsKeep
<1>3. TypeOK' /\ NetSound'
  BY <1>1, <1>2, CallGone DEF IInv, TypeOK
<1> QED
  BY <1>1, <1>3 DEF IInv, TurnSound, JobSound, Past, RecSound, Old, ScanSound, Current, CourSound,
     Covered, Shown, Unacked
-----------------------------------------------------------------------------
(* The theorems. *)

\* The invariant holds to begin with.
LEMMA InitHolds ==
  ASSUME Init
  PROVE  IInv
<1>1. plan \in PlanType /\ plan.faults \in Nat
  BY MemoryAssumption DEF Init, PlanType
<1>2. NoJob \in Job /\ NoTurn \in Turn /\ NoReceipt \in Receipt /\ NoScan \in Scan
  BY DEF NoJob, Job, NoTurn, Turn, Directions, NoReceipt, Receipt, NoScan, Scan
<1>3. NoCourier \in Courier
  <2>1. (CHOOSE j \in Jobs : TRUE) \in Jobs
    BY MemoryAssumption
  <2> QED
    BY <2>1 DEF NoCourier, Courier
<1>4. rec = <<>> /\ rec \in Seq(Record) /\ DOMAIN rec = {}
  BY DEF Init
<1>5. TypeOK
  <2>1. /\ job \in [Jobs -> Job] /\ turn \in [Jobs -> Turn]
        /\ scan \in [Scanners -> Scan] /\ cour \in [Couriers -> Courier]
    BY <1>2, <1>3 DEF Init
  <2>2. proj \in [Jobs -> [Directions -> Receipt]]
    BY <1>2 DEF Init
  <2>3. msp \in [human : [Jobs -> {"none", "text", "blank"}], keys : SUBSET DOMAIN rec,
                 delivered : SUBSET Jobs]
    BY DEF Init
  <2> QED
    BY <1>1, <1>4, <2>1, <2>2, <2>3 DEF Init, TypeOK
<1>6. ASSUME NEW j \in Jobs PROVE TurnSound(j) /\ JobSound(j)
  <2>1. turn[j] = NoTurn /\ job[j] = NoJob /\ proj[j] = [d \in Directions |-> NoReceipt]
    BY DEF Init
  <2>2. proj[j].OUTBOUND = NoReceipt
    BY <2>1 DEF Directions
  <2> QED
    BY <2>1, <2>2 DEF TurnSound, JobSound, Past, NoTurn, NoJob, NoReceipt
<1>7. NetSound
  BY DEF Init, NetSound
<1>8. \A s \in Scanners : ScanSound(s)
  BY DEF Init, ScanSound, NoScan
<1>9. \A c \in Couriers : CourSound(c)
  BY DEF Init, CourSound, NoCourier
<1>10. Covered
  BY DEF Init, Covered, NoJob
<1>11. Shown
  BY <1>4 DEF Init, Shown, NoReceipt, Directions
<1> QED
  BY <1>4, <1>5, <1>6, <1>7, <1>8, <1>9, <1>10, <1>11 DEF IInv

\* Every step keeps the invariant.
LEMMA NextHolds ==
  ASSUME IInv, [Next]_vars
  PROVE  IInv'
<1>1. CASE UNCHANGED vars
  BY <1>1 DEF vars, core, IInv, TypeOK, TurnSound, Past, JobSound, NetSound, Old, RecSound, ScanSound,
     Current, CourSound, Covered, Shown, Unacked
<1>2. CASE Next
  <2>1. CASE \E j \in Jobs : Admit(j) \/ Answering(j) \/ TurnStops(j)
    BY <1>2, <2>1, AnswersKeep DEF Answers
  <2>2. CASE SwitchOff \/ Erase \/ Tick
    BY <1>2, <2>2, SwitchKeeps, EraseKeeps, TickKeeps
  <2>3. CASE \E s \in Scanners : Scanning(s) \/ ScanTimesOut(s) \/ ScannerStops(s)
    BY <1>2, <2>3, ScansKeep DEF Scans
  <2>4. CASE \E c \in Couriers : Delivering(c) \/ CourierTimesOut(c) \/ CourierStops(c)
    BY <1>2, <2>4, DeliversKeep DEF Delivers
  <2>5. CASE \E q \in net : MspServes(q) \/ Lose(q)
    BY <1>2, <2>5, MspAppendsKeeps, MspErasesKeeps, MspDeliversKeeps, LoseKeeps DEF MspServes
  <2> QED
    BY <1>2, <2>1, <2>2, <2>3, <2>4, <2>5 DEF Next
<1> QED
  BY <1>1, <1>2

\* The invariant holds always.
LEMMA MemoryInvariant == Spec => []IInv
<1>1. Init => IInv
  BY InitHolds
<1>2. IInv /\ [Next]_vars => IInv'
  BY NextHolds
<1> QED
  BY <1>1, <1>2, PTL DEF Spec

\* Types are kept.
THEOREM MemoryTypeCorrect == Spec => []TypeOK
<1>1. IInv => TypeOK
  BY DEF IInv
<1> QED
  BY <1>1, MemoryInvariant, PTL

\* An acknowledged erasure has erased: no message of its jobs is at MSP, nor comes back
\* from a turn that was under way; and what the person and the receipts are shown as
\* follows the records.
THEOREM ErasedStaysErasedAlways == Spec => []ErasedStaysErased
<1>1. IInv => ErasedStaysErased
  <2> SUFFICES ASSUME IInv PROVE ErasedStaysErased
    OBVIOUS
  <2>1. \A i \in DOMAIN rec : rec[i].acked => \A j \in rec[i].jobs : msp.human[j] # "text"
    BY DEF IInv, RecSound
  <2>2. ASSUME rec # <<>>, AllAcked
        PROVE  /\ customer = "ERASED"
               /\ \A j \in Jobs, d \in Directions : proj[j][d].erasure # "PENDING_MSP"
    <3>1. DOMAIN rec # {}
      <4>1. rec \in Seq(Record)
        BY DEF IInv, TypeOK
      <4>2. Len(rec) \in Nat /\ DOMAIN rec = 1..Len(rec) /\ Len(rec) # 0
        BY <2>2, <4>1, EmptySeq
      <4> QED
        BY <4>2
    <3>2. ~Unacked
      BY <2>2 DEF AllAcked, Unacked
    <3> QED
      BY <3>1, <3>2 DEF IInv, Shown, TypeOK
  <2>3. customer = "ERASED" => \E i \in DOMAIN rec : rec[i].acked
    BY DEF IInv, Shown
  <2> QED
    BY <2>1, <2>2, <2>3 DEF ErasedStaysErased
<1> QED
  BY <1>1, MemoryInvariant, PTL

\* What a step may do to a delivery.
DeliveryTruth(j) ==
  /\ job[j].dlv \in {"ACKNOWLEDGED", "CLOSED"} => job'[j].dlv = job[j].dlv
  /\ job'[j].state = "ERASED" => job'[j].dlv # "PENDING"
  /\ (job'[j].dlv = "ACKNOWLEDGED") <=> (proj'[j].OUTBOUND.dlv = "ACKNOWLEDGED")
  /\ job'[j].dlv = "ACKNOWLEDGED" => j \in msp.delivered

\* A delivery that has ended does not change, and one is acknowledged only by a courier
\* whom MSP has answered.
LEMMA DeliveriesEndOnce ==
  ASSUME IInv, [Next]_vars, NEW j \in Jobs
  PROVE  DeliveryTruth(j)
<1>1. JobSound(j) /\ JobSound(j)'
  BY NextHolds DEF IInv
<1>2. /\ job[j].dlv \in {"ACKNOWLEDGED", "CLOSED"} => job'[j].dlv = job[j].dlv
      /\ job'[j].dlv = "ACKNOWLEDGED" => job[j].dlv = "ACKNOWLEDGED" \/ j \in msp.delivered
  <2>1. CASE job' = job
    BY <2>1
  <2>2. CASE Erase
    BY <2>2, EraseDoes DEF EraseEffect
  <2>3. ASSUME NEW k \in Jobs, Answers(k)
        PROVE  /\ job[j].dlv \in {"ACKNOWLEDGED", "CLOSED"} => job'[j].dlv = job[j].dlv
               /\ job'[j].dlv = "ACKNOWLEDGED" => job[j].dlv = "ACKNOWLEDGED"
    <3>1. TurnEffect(k)
      BY <2>3, AnswersEffect
    <3>2. \/ job'[j] = job[j]
          \/ job[j].dlv = "NONE" /\ job'[j].dlv \in {"NONE", "PENDING"}
      BY <3>1 DEF TurnEffect
    <3> QED
      BY <3>2
  <2>4. CASE DeliveryStep
    BY <2>4 DEF DeliveryStep
  <2>5. CASE \E c \in Couriers : Delivers(c)
    BY <2>4, <2>5, DeliversDo
  <2>6. ASSUME NEW s \in Scanners, Scans(s) PROVE job' = job
    BY <2>6, ScansFrame
  <2>7. CASE UNCHANGED vars \/ SwitchOff \/ Tick \/ \E q \in net : MspServes(q) \/ Lose(q)
    BY <2>1, <2>7 DEF vars, core, SwitchOff, Tick, MspServes, Lose
  <2> QED
    BY <2>1, <2>2, <2>3, <2>5, <2>6, <2>7 DEF Next, Answers, Delivers, Scans
<1> QED
  BY <1>1, <1>2 DEF DeliveryTruth, JobSound

\* A delivery ends once, and is acknowledged only when MSP has it.
THEOREM DeliveriesTellTruth == Spec => DeliveryTellsTruth
<1>1. IInv /\ [Next]_vars =>
        [\A j \in Jobs :
           /\ job[j].dlv \in {"ACKNOWLEDGED", "CLOSED"} => job'[j].dlv = job[j].dlv
           /\ job'[j].state = "ERASED" => job'[j].dlv # "PENDING"
           /\ (job'[j].dlv = "ACKNOWLEDGED") <=> (proj'[j].OUTBOUND.dlv = "ACKNOWLEDGED")
           /\ job'[j].dlv = "ACKNOWLEDGED" => j \in msp.delivered]_vars
  BY DeliveriesEndOnce DEF DeliveryTruth
<1> QED
  BY <1>1, MemoryInvariant, PTL DEF Spec, DeliveryTellsTruth
=============================================================================
