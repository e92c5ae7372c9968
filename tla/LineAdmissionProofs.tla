------------------------ MODULE LineAdmissionProofs ------------------------
(***************************************************************************)
(* The promises of the admission, for any number of events, deliveries,    *)
(* sweeps, retries and crashes: what LINE heard accepted can be recovered, *)
(* an event has one job at most, and a label never hides a loss.           *)
(*                                                                         *)
(* All three rest on facts that no step takes back: a row that is marked   *)
(* stays marked or labelled, a job or a message that is stored stays, and  *)
(* the account's epoch only grows.  A verdict in the hands of a            *)
(* continuation or of a sweep tells the truth of them already.             *)
(***************************************************************************)
EXTENDS LineAdmission, FiniteSetTheorems, SequenceTheorems, TLAPS

\* The row is where the sweep finds it, or labelled.
Safe(w) == rows[w].status \in {"ADMITTING"} \cup Final

SafeEvent(e) == \E c \in Copies : Safe(<<e, c>>)

\* What the status v says of the event e is so.
Told(e, v) ==
  /\ v = "ADMITTED" => jobs[e] > 0 /\ e \in stored
  /\ v = "SKIPPED" => \/ e \in stored /\ e \notin Wanted
                      \/ Kind(e) = "attach" /\ ~plan.known
                      \/ Kind(e) \in {"void", "refused"}
                      \/ account.epoch > 0

\* How far a request has come, and what that means for its events.
Reached(r) ==
  LET q == request[r] IN
  /\ q.pc = "unsent" => q.i = 1 /\ ~q.bad
  /\ q.pc = "record" => /\ q.i \in Events
                        /\ ~q.bad => \A e \in 1..(q.i - 1) : \E k \in DOMAIN q.got : q.got[k][1] = e
  /\ q.pc = "mark" => /\ ~q.bad => \A e \in Events : \E k \in DOMAIN q.got : q.got[k][1] = e
                      /\ q.i # 0 /\ \A k \in DOMAIN q.got : k < q.i => Safe(q.got[k])
  /\ q.pc = "answer" => (~q.bad => \A e \in Events : SafeEvent(e))
  /\ q.epoch <= account.epoch

\* A continuation belongs to a request that is over, and is at one of its rows.
Continues(r) ==
  /\ cont[r].pc # "off" => request[r].pc = "over" /\ cont[r].i \in DOMAIN request[r].got
  /\ cont[r].pc = "label" => cont[r].verdict \in Final /\ Told(Current(r)[1], cont[r].verdict)

\* A sweep that is under way is at a row.
Sweeps(s) ==
  /\ sweep[s].pc # "idle" => sweep[s].list # <<>>
  /\ sweep[s].pc = "label" =>
       sweep[s].verdict \in Final /\ Told(Head(sweep[s].list)[1], sweep[s].verdict)

\* The inductive invariant.
IInv ==
  /\ TypeOK
  /\ AckedIsRecoverable /\ OneJob /\ LabelsTell
  /\ \A r \in Requests : Reached(r) /\ Continues(r)
  /\ \A s \in Sweepers : Sweeps(s)
  /\ ~account.active => account.epoch > 0

\* What no step takes back.
Grows ==
  /\ plan' = plan
  /\ \A w \in Row : Safe(w) => Safe(w)'
  /\ \A e \in Events : jobs[e] > 0 => jobs'[e] > 0
  /\ stored \subseteq stored'
  /\ account.epoch \in Nat /\ account'.epoch \in Nat /\ account.epoch <= account'.epoch
-----------------------------------------------------------------------------
\* The bounds of a behaviour have the types of PlanType.
LEMMA PlanTyped ==
  ASSUME plan \in Plans
  PROVE  /\ plan.body \in Seq(Kinds) /\ Len(plan.body) \in Nat \ {0} /\ plan.requests \in Nat \ {0} /\ plan.take \in Nat \ {0}
         /\ plan.retries \in Nat /\ plan.crashes \in Nat /\ plan.epochs \in Nat
<1>1. plan.body \in Seq(Kinds) /\ plan.body # <<>>
  BY AdmissionAssumption DEF PlanType
<1>2. Len(plan.body) \in Nat \ {0}
  BY <1>1
<1> QED
  BY <1>1, <1>2, AdmissionAssumption DEF PlanType

\* The sets that depend on the plan stay, since the plan does.
LEMMA SetsStay ==
  ASSUME plan' = plan
  PROVE  /\ Events' = Events /\ Requests' = Requests /\ Row' = Row
         /\ Request' = Request /\ Cont' = Cont /\ Sweep' = Sweep
         /\ Wanted' = Wanted /\ \A e : Kind(e)' = Kind(e)
BY DEF Events, Wanted, Kind, Requests, Row, Request, Cont, Sweep

\* So the types stand when each variable has its type.
LEMMA TypesStand ==
  ASSUME TypeOK, plan' = plan, now' \in 0..MaxTime,
         account' \in [active : BOOLEAN, epoch : 0..plan.epochs],
         request' \in [Requests -> Request], cont' \in [Requests -> Cont],
         rows' \in [Row -> [status : Status, at : Nat]],
         jobs' \in [Events -> Nat], stored' \subseteq Events, sweep' \in [Sweepers -> Sweep],
         acked' \in BOOLEAN, crashes' \in 0..plan.crashes
  PROVE  TypeOK'
BY SetsStay DEF TypeOK

\* A status that tells the truth keeps doing so.
LEMMA ToldStays ==
  ASSUME Grows, NEW e \in Events, NEW v, Told(e, v)
  PROVE  Told(e, v)'
<1>1. plan' = plan /\ Wanted' = Wanted /\ Kind(e)' = Kind(e)
  BY SetsStay DEF Grows
<1> QED
  BY <1>1 DEF Grows, Told

\* So does what a request has reached while the request itself stays.
LEMMA ReachedStays ==
  ASSUME Grows, NEW r \in Requests, request \in [Requests -> Request],
         Reached(r), request'[r] = request[r]
  PROVE  Reached(r)'
<1> DEFINE q == request[r]
<1>1. q.got \in Seq(Row) /\ q.epoch \in Nat
  BY DEF Request
<1>2. Events' = Events /\ Row' = Row
  BY DEF Grows, Events, Row
<1>3. \A k \in DOMAIN q.got : Safe(q.got[k]) => Safe(q.got[k])'
  BY <1>1 DEF Grows
<1>4. \A e \in Events : SafeEvent(e) => SafeEvent(e)'
  BY DEF Grows, SafeEvent, Row
<1>5. q.epoch <= account'.epoch
  BY <1>1 DEF Reached, Grows
<1> QED
  BY <1>2, <1>3, <1>4, <1>5 DEF Reached, Safe

\* A continuation that stays is where it was.
LEMMA ContinuesStays ==
  ASSUME Grows, NEW r \in Requests, request \in [Requests -> Request],
         Continues(r), request'[r] = request[r], cont'[r] = cont[r]
  PROVE  Continues(r)'
<1>1. CASE cont[r].pc = "label"
  <2>1. Current(r) \in Row /\ Current(r)' = Current(r)
    BY <1>1 DEF Continues, Current, Request
  <2>2. Current(r)[1] \in Events
    BY <2>1 DEF Row
  <2>3. Told(Current(r)[1], cont[r].verdict)'
    BY <1>1, <2>1, <2>2, ToldStays DEF Continues, Told
  <2> QED
    BY <1>1, <2>1, <2>3 DEF Continues
<1>2. CASE cont[r].pc # "label"
  BY <1>2 DEF Continues
<1> QED
  BY <1>1, <1>2

\* So is a sweep.
LEMMA SweepStays ==
  ASSUME Grows, NEW s \in Sweepers, sweep \in [Sweepers -> Sweep],
         Sweeps(s), sweep'[s] = sweep[s]
  PROVE  Sweeps(s)'
<1>1. CASE sweep[s].pc = "label"
  <2>1. Head(sweep[s].list) \in Row
    BY <1>1 DEF Sweeps, Sweep
  <2>2. Head(sweep[s].list)[1] \in Events
    BY <2>1 DEF Row
  <2>3. Told(Head(sweep[s].list)[1], sweep[s].verdict)'
    BY ZenonT(40), <1>1, <2>2, ToldStays DEF Sweeps, Told
  <2> QED
    BY <1>1, <2>3 DEF Sweeps
<1>2. CASE sweep[s].pc # "label"
  BY <1>2 DEF Sweeps
<1> QED
  BY <1>1, <1>2
-----------------------------------------------------------------------------
\* Labels stay true where a new one is.
LEMMA LabelsStay ==
  ASSUME Grows, LabelsTell,
         \A w \in Row : rows'[w].status = rows[w].status \/ Told(w[1], rows[w].status)'
  PROVE  LabelsTell'
<1>1. ASSUME NEW w \in Row PROVE Told(w[1], rows[w].status)'
  <2>1. w[1] \in Events /\ Told(w[1], rows[w].status)
    BY DEF Row, LabelsTell, Told
  <2>2. CASE rows'[w].status = rows[w].status
    BY <2>1, <2>2, ToldStays DEF Told
  <2> QED
    BY <2>2
<1>2. Row' = Row
  BY DEF Grows, Row, Events
<1> QED
  BY <1>1, <1>2 DEF LabelsTell, Told

\* What LINE heard accepted stays recoverable.
LEMMA AckedStays ==
  ASSUME Grows, AckedIsRecoverable, acked' = acked
  PROVE  AckedIsRecoverable'
<1>1. Events' = Events /\ \A e \in Events, c \in Copies : <<e, c>> \in Row
  BY DEF Grows, Events, Row
<1> QED
  BY ZenonT(40), <1>1 DEF Grows, AckedIsRecoverable, Safe

\* The part of the invariant that is about the ledgers, not the processes, and the
\* ways a step keeps it.
Books == AckedIsRecoverable /\ OneJob /\ LabelsTell /\ (~account.active => account.epoch > 0)

\* A step that leaves rows, jobs, messages and the account alone.
LEMMA QuietKeepsBooks ==
  ASSUME IInv, UNCHANGED <<plan, account, rows, jobs, stored, acked>>
  PROVE  Books' /\ Grows
<1>1. Grows
  BY PlanTyped DEF IInv, TypeOK, Grows, Safe
<1>2. LabelsTell'
  BY <1>1, LabelsStay DEF IInv
<1>3. AckedIsRecoverable'
  BY <1>1, AckedStays DEF IInv
<1>4. OneJob'
  BY SetsStay DEF IInv, OneJob
<1> QED
  BY <1>1, <1>2, <1>3, <1>4 DEF Books, IInv

\* Where the processes are what they were, the invariant's part about them stands.
LEMMA RequestsStay ==
  ASSUME IInv, Grows, request' = request
  PROVE  \A r \in Requests' : Reached(r)'
<1>1. Requests' = Requests
  BY DEF Grows, Requests
<1> QED
  BY <1>1, ReachedStays DEF IInv, TypeOK

\* The same of the continuations,
LEMMA ContinuationsStay ==
  ASSUME IInv, Grows, request' = request, cont' = cont
  PROVE  \A r \in Requests' : Continues(r)'
<1>1. Requests' = Requests
  BY DEF Grows, Requests
<1> QED
  BY <1>1, ContinuesStays DEF IInv, TypeOK

\* and of the sweeps.
LEMMA SweepsStay ==
  ASSUME IInv, Grows, sweep' = sweep
  PROVE  \A s \in Sweepers : Sweeps(s)'
BY SweepStays DEF IInv, TypeOK

\* A continuation is of a request that is over, so no other request's step moves it.
LEMMA ContinuationsAside ==
  ASSUME IInv, Grows, NEW r \in Requests, request[r].pc # "over", cont' = cont,
         NEW q, request' = [request EXCEPT ![r] = q]
  PROVE  \A t \in Requests' : Continues(t)'
<1>1. Requests' = Requests
  BY DEF Grows, Requests
<1>2. ASSUME NEW t \in Requests PROVE Continues(t)'
  <2>1. CASE t = r
    <3>1. cont[r].pc = "off"
      BY DEF IInv, Continues
    <3>2. cont'[r].pc = "off"
      BY <3>1
    <3> QED
      BY <2>1, <3>2 DEF Continues
  <2>2. CASE t # r
    <3>1. request'[t] = request[t]
      BY <2>2 DEF IInv, TypeOK
    <3> QED
      BY <3>1, ContinuesStays DEF IInv, TypeOK
  <2> QED
    BY <2>1, <2>2
<1> QED
  BY <1>1, <1>2

\* The other requests stay where they were.
LEMMA OthersStay ==
  ASSUME IInv, Grows, NEW r \in Requests, NEW q, Reached(r)',
         request' = [request EXCEPT ![r] = q]
  PROVE  \A t \in Requests' : Reached(t)'
<1>1. Requests' = Requests
  BY DEF Grows, Requests
<1>2. ASSUME NEW t \in Requests, t # r PROVE Reached(t)'
  <2>1. request'[t] = request[t]
    BY <1>2 DEF IInv, TypeOK
  <2> QED
    BY <2>1, ReachedStays DEF IInv, TypeOK
<1> QED
  BY <1>1, <1>2
-----------------------------------------------------------------------------
\* The route.

\* A delivery starts to be recorded or is refused.
LEMMA DeliverKeeps ==
  ASSUME IInv, NEW r \in Requests, Deliver(r)
  PROVE  IInv'
<1> DEFINE q == request'[r]
<1>1. Books' /\ Grows
  BY QuietKeepsBooks DEF Deliver
<1>2. request[r].pc = "unsent" /\ request[r] \in Request /\ Reached(r)
  BY DEF Deliver, IInv, TypeOK
<1>3. /\ q = [request[r] EXCEPT !.pc = IF account.active THEN "record" ELSE "over",
                                !.epoch = account.epoch, !.at = now]
      /\ account.epoch \in Nat /\ now \in Nat
  BY DEF Deliver, Step, IInv, TypeOK
<1>4. TypeOK'
  <2>1. q \in Request
    BY ZenonT(40), <1>2, <1>3 DEF Request
  <2>2. request' \in [Requests -> Request]
    BY <2>1 DEF IInv, TypeOK, Deliver, Step
  <2>3. TypeOK /\ UNCHANGED <<plan, now, account, cont, rows, jobs, stored, sweep, acked, crashes>>
    BY DEF IInv, Deliver
  <2> QED
    BY <2>2, <2>3, TypesStand DEF TypeOK
<1>5. \A t \in Requests' : Reached(t)'
  <2>1. 1 \in Events /\ Events' = Events /\ account' = account
    BY PlanTyped DEF IInv, TypeOK, Events, Deliver
  <2>2. /\ q.pc \in {"record", "over"} /\ q.i = 1 /\ q.epoch = account'.epoch
    BY <1>2, <1>3, <2>1 DEF Request, Reached
  <2>3. Reached(r)'
    BY <2>1, <2>2, <1>3 DEF Reached
  <2> QED
    BY ZenonT(40), <2>3, <1>1, OthersStay DEF Deliver, Step
<1>6. \A t \in Requests' : Continues(t)'
  BY ZenonT(40), <1>1, <1>2, ContinuationsAside DEF Deliver, Step
<1>7. \A s \in Sweepers : Sweeps(s)'
  BY <1>1, SweepsStay DEF Deliver
<1> QED
  BY <1>1, <1>4, <1>5, <1>6, <1>7 DEF IInv, Books

\* A step that sets the status of one row, to a marker or to a label that is true.
LEMMA OneRowKeepsBooks ==
  ASSUME IInv, NEW w \in Row, NEW row, UNCHANGED <<plan, account, jobs, stored, acked>>,
         rows' = [rows EXCEPT ![w] = row], row.status \in Status,
         row.status = "RECEIVED" => ~Safe(w), row.status # "NONE",
         Told(w[1], row.status)
  PROVE  Books' /\ Grows
<1>1. rows'[w] = row /\ \A v \in Row \ {w} : rows'[v] = rows[v]
  BY DEF IInv, TypeOK
<1>2. \A v \in Row : Safe(v) => Safe(v)'
  BY <1>1 DEF Safe, Status, Final
<1>3. Grows
  BY <1>2, PlanTyped DEF IInv, TypeOK, Grows
<1>4. LabelsTell'
  <2>1. Told(w[1], row.status)'
    BY SetsStay DEF Told
  <2>2. Told(w[1], rows[w].status)'
    BY <1>1, <2>1 DEF Told
  <2> QED
    BY <1>1, <1>3, <2>2, LabelsStay DEF IInv
<1>5. AckedIsRecoverable'
  BY <1>3, AckedStays DEF IInv
<1>6. OneJob'
  BY SetsStay DEF IInv, OneJob
<1> QED
  BY <1>3, <1>4, <1>5, <1>6 DEF Books, IInv

\* An event is recorded, was there already or is spoilt.
LEMMA RecordKeeps ==
  ASSUME IInv, NEW r \in Requests, Record(r)
  PROVE  IInv'
<1> DEFINE p == request[r]
           q == request'[r]
           w == <<p.i, Copy(r)>>
           more == IF p.i < Len(plan.body) THEN "record" ELSE "mark"
           next == [p EXCEPT !.i = IF more = "mark" THEN 1 ELSE @ + 1, !.pc = more]
<1>1. p.pc = "record" /\ p \in Request /\ Reached(r) /\ p.i \in Events
  BY DEF Record, IInv, TypeOK, Reached
<1>2. w \in Row /\ Len(plan.body) \in Nat \ {0} /\ p.i \in Nat /\ p.i <= Len(plan.body)
  BY <1>1, PlanTyped DEF Row, Copy, Copies, Events, IInv, TypeOK
<1>3. ASSUME rows' = rows PROVE Books' /\ Grows
  <2>1. UNCHANGED <<plan, account, jobs, stored, acked>>
    BY DEF Record
  <2> HIDE DEF q, next, w, more
  <2> QED
    BY <1>3, <2>1, QuietKeepsBooks
<1>4. ASSUME rows' = [rows EXCEPT ![w] = [status |-> "RECEIVED", at |-> now]],
             rows[w].status = "NONE"
      PROVE  Books' /\ Grows
  <2> DEFINE row == [status |-> "RECEIVED", at |-> now]
  <2>1. ~Safe(w)
    BY <1>4 DEF Safe, Final
  <2>2. row.status = "RECEIVED" /\ Told(w[1], row.status)
    BY DEF Told
  <2>3. UNCHANGED <<plan, account, jobs, stored, acked>>
    BY DEF Record
  <2>4. row.status \in Status
    BY <2>2 DEF Status
  <2> HIDE DEF w, row
  <2> QED
    BY ZenonT(40), <1>2, <1>4, <2>1, <2>2, <2>3, <2>4, OneRowKeepsBooks DEF row
<1>5. rows' = rows \/ (rows' = [rows EXCEPT ![w] = [status |-> "RECEIVED", at |-> now]] /\ rows[w].status = "NONE")
  BY DEF Record
<1>6. Books' /\ Grows
  <2> HIDE DEF q, next, w, more
  <2> QED
    BY <1>3, <1>4, <1>5
<1>7. /\ request' = [request EXCEPT ![r] = q]
      /\ q = [next EXCEPT !.got = Append(@, w)] \/ q = [next EXCEPT !.bad = TRUE]
  BY DEF Record, Step, IInv, TypeOK
<1>8. /\ q.pc = more /\ q.i = (IF more = "mark" THEN 1 ELSE p.i + 1) /\ q.epoch = p.epoch
      /\ (q.got = Append(p.got, w) /\ q.bad = p.bad) \/ q.bad = TRUE
      /\ q \in Request
  <2> DEFINE i == IF more = "mark" THEN 1 ELSE p.i + 1
  <2>1. Append(p.got, w) \in Seq(Row) /\ i \in Nat /\ more \in {"record", "mark"}
    BY <1>1, <1>2 DEF Request
  <2> HIDE DEF more, w, i
  <2>2. /\ next.pc = more /\ next.i = i /\ next.epoch = p.epoch /\ next.got = p.got
        /\ next.bad = p.bad /\ next \in Request
    BY ZenonT(40), <1>1, <2>1 DEF Request, i
  <2> HIDE DEF next
  <2>3. CASE q = [next EXCEPT !.got = Append(@, w)]
    BY ZenonT(40), <2>1, <2>2, <2>3 DEF Request, i
  <2>4. CASE q = [next EXCEPT !.bad = TRUE]
    BY ZenonT(40), <2>2, <2>4 DEF Request, i
  <2> QED
    BY ZenonT(40), <1>7, <2>3, <2>4
<1>9. TypeOK'
  <2>1. rows' \in [Row -> [status : Status, at : Nat]]
    <3>1. now \in Nat /\ rows \in [Row -> [status : Status, at : Nat]]
      BY AdmissionAssumption DEF IInv, TypeOK
    <3>2. [status |-> "RECEIVED", at |-> now] \in [status : Status, at : Nat]
      BY <3>1 DEF Status
    <3> HIDE DEF w
    <3>3. w \in Row
      BY <1>2
    <3> QED
      BY ZenonT(40), <3>1, <3>2, <3>3, <1>5
  <2>2. request' \in [Requests -> Request]
    BY SMTT(40), <1>7, <1>8 DEF IInv, TypeOK
  <2>3. TypeOK /\ UNCHANGED <<plan, now, account, cont, jobs, stored, sweep, acked, crashes>>
    BY DEF IInv, Record
  <2> QED
    BY <2>1, <2>2, <2>3, TypesStand DEF TypeOK
<1>10. Reached(r)'
  <2>1. Events' = Events /\ account' = account
    BY <1>6 DEF Grows, Events, Record
  <2>2. ASSUME ~q.bad, NEW e \in 1..p.i PROVE \E k \in DOMAIN q.got : q.got[k][1] = e
    <3>1. q.got = Append(p.got, w) /\ p.got \in Seq(Row) /\ ~p.bad
      BY ZenonT(40), <1>1, <1>8, <2>2 DEF Request
    <3>2. CASE e = p.i
      <4>1. Len(p.got) + 1 \in DOMAIN q.got /\ q.got[Len(p.got) + 1] = w
        BY SMTT(40), <3>1, <1>2
      <4> QED
        BY <4>1, <3>2
    <3>3. CASE e # p.i
      <4>1. e \in 1..(p.i - 1)
        BY <3>3, <1>2
      <4>2. PICK k \in DOMAIN p.got : p.got[k][1] = e
        BY <4>1, <3>1, <1>1 DEF Reached
      <4>3. k \in DOMAIN q.got /\ q.got[k] = p.got[k]
        BY <3>1, <4>2, <1>2
      <4> QED
        BY <4>2, <4>3
    <3> QED
      BY <3>2, <3>3
  <2>3. CASE more = "record"
    <3>1. q.i \in Events /\ q.i - 1 = p.i
      BY <2>3, <1>2, <1>8 DEF Events
    <3> QED
      BY <2>1, <2>2, <2>3, <3>1, <1>1, <1>8 DEF Reached
  <2>4. CASE more = "mark"
    <3>1. Events = 1..p.i /\ q.i = 1
      BY SMTT(40), <2>4, <1>2, <1>8 DEF Events
    <3>2. \A k \in DOMAIN q.got : ~(k < q.i)
      BY <3>1, <1>8 DEF Request
    <3> QED
      BY SMTT(40), <2>1, <2>2, <2>4, <3>1, <3>2, <1>1, <1>8 DEF Reached
  <2> QED
    BY <2>3, <2>4
<1>12. \A t \in Requests' : Reached(t)'
  <2> HIDE DEF q
  <2> QED
    BY ZenonT(40), <1>6, <1>7, <1>10, OthersStay
<1>13. \A t \in Requests' : Continues(t)'
  <2>1. cont' = cont /\ request[r].pc # "over"
    BY <1>1 DEF Record
  <2> HIDE DEF q
  <2> QED
    BY ZenonT(40), <1>6, <1>7, <2>1, ContinuationsAside
<1>14. \A s \in Sweepers : Sweeps(s)'
  BY <1>6, SweepsStay DEF Record
<1> QED
  BY <1>6, <1>9, <1>12, <1>13, <1>14 DEF IInv, Books

\* A label or a marker is written, or the write is lost.
LEMMA LabelKeepsBooks ==
  ASSUME IInv, NEW w \in Row, NEW v \in {"ADMITTING"} \cup Final, Told(w[1], v), Label(w, v),
         UNCHANGED <<plan, account, jobs, stored, acked>>
  PROVE  Books' /\ Grows /\ rows' \in [Row -> [status : Status, at : Nat]]
<1> DEFINE row == [rows[w] EXCEPT !.status = v]
<1>1. rows[w] \in [status : Status, at : Nat] /\ rows \in [Row -> [status : Status, at : Nat]]
  BY DEF IInv, TypeOK
<1>2. rows' = rows \/ rows' = [rows EXCEPT ![w] = row]
  BY DEF Label
<1>3. /\ row.status = v /\ row \in [status : Status, at : Nat]
      /\ v \in Status /\ v \notin {"NONE", "RECEIVED"}
  BY <1>1 DEF Status, Final
<1> HIDE DEF row
<1>4. CASE rows' = rows
  BY <1>1, <1>4, QuietKeepsBooks
<1>5. CASE rows' = [rows EXCEPT ![w] = row]
  <2>1. Books' /\ Grows
    BY ZenonT(40), <1>3, <1>5, OneRowKeepsBooks
  <2> QED
    BY <1>1, <1>3, <1>5, <2>1
<1> QED
  BY <1>2, <1>4, <1>5

\* A captured event is marked, all of them are, or the marker's write fails.
LEMMA MarkKeeps ==
  ASSUME IInv, NEW r \in Requests, Mark(r)
  PROVE  IInv'
<1> DEFINE p == request[r]
           q == request'[r]
           w == p.got[p.i]
<1>1. /\ p.pc = "mark" /\ p \in Request /\ Reached(r) /\ p.got \in Seq(Row)
      /\ p.i \in Nat \ {0}
  BY ZenonT(40) DEF Mark, IInv, TypeOK, Request, Reached
<1>2. \/ rows' = rows /\ p.i > Len(p.got) /\ q = [p EXCEPT !.pc = "answer"]
      \/ /\ p.i <= Len(p.got) /\ q = [p EXCEPT !.i = @ + 1]
         /\ rows' = [rows EXCEPT ![w].status = "ADMITTING"]
      \/ rows' = rows /\ q = [p EXCEPT !.pc = "over"]
  BY ZenonT(40) DEF Mark, Step, IInv, TypeOK
<1>3. /\ request' = [request EXCEPT ![r] = q]
      /\ UNCHANGED <<plan, now, account, cont, jobs, stored, sweep, acked, crashes>>
  BY DEF Mark, Step, IInv, TypeOK
<1>4. /\ q \in Request /\ q.bad = p.bad /\ q.got = p.got /\ q.epoch = p.epoch
      /\ q.pc \in {"mark", "answer", "over"}
  BY SMTT(30), <1>1, <1>2 DEF Request
<1>5. Books' /\ Grows /\ rows' \in [Row -> [status : Status, at : Nat]]
  <2>1. CASE rows' = rows
    BY <1>3, <2>1, QuietKeepsBooks DEF IInv, TypeOK
  <2>2. CASE p.i <= Len(p.got) /\ rows' = [rows EXCEPT ![w].status = "ADMITTING"]
    <3>1. w \in Row /\ Told(w[1], "ADMITTING") /\ Label(w, "ADMITTING")
      BY <1>1, <2>2 DEF Told, Label
    <3> HIDE DEF w
    <3> QED
      BY <1>3, <3>1, LabelKeepsBooks
  <2> QED
    BY <1>2, <2>1, <2>2
<1>6. TypeOK'
  <2>1. request' \in [Requests -> Request]
    BY <1>3, <1>4 DEF IInv, TypeOK
  <2> QED
    BY <1>3, <1>5, <2>1, TypesStand DEF TypeOK, IInv
<1>7. Reached(r)'
  <2>0. PICK g : g = p.got
    OBVIOUS
  <2>1. Events' = Events /\ account' = account /\ Row' = Row
    BY <1>3, SetsStay
  <2>2. \A k \in DOMAIN g : k < p.i => Safe(g[k])'
    BY <1>1, <1>5, <2>0 DEF Reached, Grows
  <2>3. CASE p.i > Len(g) /\ q = [p EXCEPT !.pc = "answer"]
    <3>1. \A k \in DOMAIN g : Safe(g[k])'
      BY <2>0, <1>1, <2>2, <2>3
    <3>2. ASSUME ~p.bad, NEW e \in Events PROVE SafeEvent(e)'
      <4>1. PICK k \in DOMAIN g : g[k][1] = e
        BY <2>0, <1>1, <3>2 DEF Reached
      <4>2. g[k] \in Events \X Copies
        BY <1>1, <2>0, <4>1 DEF Row
      <4>3. g[k] = <<e, g[k][2]>> /\ g[k][2] \in Copies
        BY <4>1, <4>2
      <4> QED
        BY <2>0, <3>1, <4>3 DEF SafeEvent
    <3>3. q.pc = "answer" /\ q.epoch <= account'.epoch
      BY <2>0, <1>1, <1>4, <2>1, <2>3 DEF Reached, Request
    <3> QED
      BY <2>0, <1>4, <2>1, <3>2, <3>3 DEF Reached
  <2>4. CASE p.i <= Len(g) /\ q = [p EXCEPT !.i = @ + 1]
             /\ rows' = [rows EXCEPT ![w].status = "ADMITTING"]
    <3>1. w \in Row
      BY SMTT(40), <2>0, <1>1, <2>4
    <3>2. rows'[w].status = "ADMITTING"
      BY <2>0, <2>4, <3>1 DEF IInv, TypeOK
    <3>3. ASSUME NEW k \in DOMAIN g, k = p.i PROVE Safe(g[k])'
      BY <2>0, <3>2, <3>3 DEF Safe
    <3>4. \A k \in DOMAIN g : k < p.i + 1 => Safe(g[k])'
      BY <2>0, <1>1, <2>2, <3>3
    <3>5. q.pc = "mark" /\ q.i = p.i + 1 /\ q.epoch <= account'.epoch
      BY <2>0, <1>1, <1>4, <2>1, <2>4 DEF Reached, Request
    <3> QED
      BY <2>0, <1>1, <1>4, <2>1, <3>4, <3>5 DEF Reached
  <2>5. CASE q = [p EXCEPT !.pc = "over"]
    <3>1. q.pc = "over" /\ q.epoch <= account'.epoch
      BY <2>0, <1>1, <1>4, <2>1, <2>5 DEF Reached, Request
    <3> QED
      BY <2>0, <3>1 DEF Reached
  <2> QED
    BY <2>0, <1>2, <2>3, <2>4, <2>5
<1> HIDE DEF q
<1>8. \A t \in Requests' : Reached(t)'
  BY ZenonT(40), <1>3, <1>5, <1>7, OthersStay
<1>9. \A t \in Requests' : Continues(t)'
  BY ZenonT(40), <1>1, <1>3, <1>5, ContinuationsAside
<1>10. \A s \in Sweepers : Sweeps(s)'
  BY <1>3, <1>5, SweepsStay
<1> QED
  BY <1>5, <1>6, <1>8, <1>9, <1>10 DEF IInv, Books

\* The request is answered, and LINE may hear it.
LEMMA RespondKeeps ==
  ASSUME IInv, NEW r \in Requests, Respond(r)
  PROVE  IInv'
<1> DEFINE p == request[r]
           q == request'[r]
           c == cont'[r]
<1>1. p.pc = "answer" /\ p \in Request /\ Reached(r) /\ p.got \in Seq(Row)
  BY DEF Respond, IInv, TypeOK, Request
<1>2. /\ request' = [request EXCEPT ![r] = q] /\ q = [p EXCEPT !.pc = "over"]
      /\ acked' \in {acked, acked \/ Accepted(p)}
      /\ UNCHANGED <<plan, now, account, rows, jobs, stored, sweep, crashes>>
  BY DEF Respond, Step, IInv, TypeOK
<1>3. cont' = cont \/ (p.got # <<>> /\ cont' = [cont EXCEPT ![r] = c] /\ c = [Off EXCEPT !.pc = "take"])
  BY ZenonT(40) DEF Respond, IInv, TypeOK
<1>4. q \in Request /\ q.pc = "over" /\ q.got = p.got /\ q.epoch = p.epoch
  BY <1>1, <1>2 DEF Request
<1>5. Grows
  BY <1>2, PlanTyped DEF IInv, TypeOK, Grows, Safe
<1>6. Books'
  <2>1. LabelsTell' /\ OneJob'
    BY <1>2, <1>5, LabelsStay, SetsStay DEF IInv, OneJob
  <2>2. ASSUME acked' = acked PROVE AckedIsRecoverable'
    BY <1>5, <2>2, AckedStays DEF IInv
  <2>3. ASSUME ~p.bad PROVE AckedIsRecoverable'
    <3>1. \A e \in Events : SafeEvent(e)
      BY <1>1, <2>3 DEF Reached
    <3>2. Events' = Events /\ rows' = rows
      BY <1>2, SetsStay
    <3> QED
      BY <3>1, <3>2 DEF AckedIsRecoverable, SafeEvent, Safe
  <2>4. acked' = acked \/ ~p.bad
    BY <1>2 DEF Accepted, IInv, TypeOK
  <2> QED
    BY <1>2, <2>1, <2>2, <2>3, <2>4 DEF Books, IInv
<1>7. TypeOK'
  <2>1. request' \in [Requests -> Request]
    BY <1>2, <1>4 DEF IInv, TypeOK
  <2>2. cont' \in [Requests -> Cont]
    <3>1. [Off EXCEPT !.pc = "take"] \in Cont
      BY DEF Off, Cont, Verdicts
    <3> QED
      BY <1>3, <3>1 DEF IInv, TypeOK
  <2>3. acked' \in BOOLEAN /\ TypeOK
    BY ZenonT(40), <1>2 DEF Accepted, IInv, TypeOK
  <2> QED
    BY <1>2, <2>1, <2>2, <2>3, TypesStand DEF TypeOK
<1>8. Reached(r)'
  <2>1. q.epoch <= account'.epoch
    BY <1>1, <1>2, <1>4 DEF Reached
  <2> QED
    BY <1>4, <2>1 DEF Reached
<1>9. \A t \in Requests' : Continues(t)'
  <2>1. CASE cont' = cont
    <3> HIDE DEF q
    <3> QED
      BY ZenonT(40), <1>1, <1>2, <1>5, <2>1, ContinuationsAside
  <2>2. CASE p.got # <<>> /\ cont' = [cont EXCEPT ![r] = c] /\ c = [Off EXCEPT !.pc = "take"]
    <3>1. c.pc = "take" /\ c.i = 1
      BY <2>2 DEF Off
    <3>2. 1 \in DOMAIN p.got
      BY <1>1, <2>2
    <3>3. Continues(r)'
      BY <1>4, <3>1, <3>2 DEF Continues
    <3>4. ASSUME NEW t \in Requests, t # r PROVE Continues(t)'
      <4>1. request'[t] = request[t] /\ cont'[t] = cont[t]
        BY <1>2, <2>2, <3>4 DEF IInv, TypeOK
      <4> QED
        BY <1>5, <4>1, ContinuesStays DEF IInv, TypeOK
    <3> QED
      BY <1>2, <3>3, <3>4, SetsStay
  <2> QED
    BY <1>3, <2>1, <2>2
<1> HIDE DEF q
<1>10. \A t \in Requests' : Reached(t)'
  BY ZenonT(40), <1>2, <1>5, <1>8, OthersStay
<1>11. \A s \in Sweepers : Sweeps(s)'
  BY <1>2, <1>5, SweepsStay
<1> QED
  BY <1>6, <1>7, <1>9, <1>10, <1>11 DEF IInv, Books
-----------------------------------------------------------------------------
\* The admission after the answer.

\* The event a continuation is at.
LEMMA AtAnEvent ==
  ASSUME IInv, NEW r \in Requests, cont[r].pc # "off"
  PROVE  Current(r) \in Row /\ Current(r)[1] \in Events
<1>1. request[r].got \in Seq(Row) /\ cont[r].i \in DOMAIN request[r].got
  BY DEF IInv, TypeOK, Request, Continues
<1>2. Current(r) \in Row
  BY <1>1 DEF Current
<1> QED
  BY <1>2 DEF Row

\* A step of one continuation that keeps its part keeps that of all.
LEMMA OneContinues ==
  ASSUME IInv, Grows, NEW r \in Requests, request' = request, NEW c,
         cont' = [cont EXCEPT ![r] = c], Continues(r)'
  PROVE  \A t \in Requests' : Continues(t)'
<1>1. ASSUME NEW t \in Requests, t # r PROVE Continues(t)'
  <2>1. cont'[t] = cont[t]
    BY <1>1 DEF IInv, TypeOK
  <2> QED
    BY <2>1, ContinuesStays DEF IInv, TypeOK
<1>2. Requests' = Requests
  BY SetsStay DEF Grows
<1> QED
  BY <1>1, <1>2

\* The marker is written again, which no label depends on.
LEMMA TakeUpKeeps ==
  ASSUME IInv, NEW r \in Requests, TakeUp(r)
  PROVE  IInv'
<1> DEFINE c == [cont[r] EXCEPT !.pc = "admit"]
<1>1. /\ cont[r].pc = "take" /\ cont' = [cont EXCEPT ![r] = c] /\ Label(Current(r), "ADMITTING")
      /\ UNCHANGED <<plan, now, account, request, jobs, stored, sweep, acked, crashes>>
  BY DEF TakeUp
<1>2. Books' /\ Grows /\ rows' \in [Row -> [status : Status, at : Nat]]
  <2>1. PICK w \in Row : w = Current(r)
    BY <1>1, AtAnEvent
  <2>2. Told(w[1], "ADMITTING")
    BY DEF Told
  <2> QED
    BY <1>1, <2>1, <2>2, LabelKeepsBooks
<1>3. cont[r] \in Cont /\ c \in Cont /\ c.pc = "admit" /\ c.i = cont[r].i
  BY DEF IInv, TypeOK, Cont
<1>4. TypeOK'
  <2>1. cont' \in [Requests -> Cont]
    BY <1>1, <1>3 DEF IInv, TypeOK
  <2> QED
    BY <1>1, <1>2, <2>1, TypesStand DEF TypeOK, IInv
<1>5. Continues(r)'
  <2>1. cont'[r] = c /\ request'[r] = request[r]
    BY <1>1 DEF IInv, TypeOK
  <2> QED
    BY <1>1, <1>3, <2>1 DEF Continues, IInv
<1> HIDE DEF c
<1>6. \A t \in Requests' : Continues(t)'
  BY ZenonT(40), <1>1, <1>2, <1>5, OneContinues
<1> QED
  BY <1>1, <1>2, <1>4, <1>6, RequestsStay, SweepsStay DEF IInv, Books

\* An admission that commits keeps the message where it belongs, and makes the job the
\* event wants, once.
LEMMA CommitKeepsBooks ==
  ASSUME IInv, NEW e \in Events, Lands(e), Commit(e), UNCHANGED <<plan, account, rows, acked>>
  PROVE  /\ Books' /\ Grows /\ jobs' \in [Events -> Nat] /\ stored' \subseteq Events
         /\ \A v : v = Landed(e) => v \in Final /\ Told(e, v)'
<1>1. /\ jobs \in [Events -> Nat] /\ stored \subseteq Events
      /\ stored' = IF Keeps(e) THEN stored \cup {e} ELSE stored
      /\ jobs' = IF e \in Wanted THEN [jobs EXCEPT ![e] = Created(e)] ELSE jobs
      /\ \A d \in Events : jobs[d] <= (IF d \in Wanted THEN 1 ELSE 0)
  BY DEF IInv, TypeOK, Commit, OneJob
<1>2. /\ jobs' \in [Events -> Nat] /\ (e \in Wanted => jobs'[e] = 1)
      /\ \A d \in Events : jobs'[d] <= (IF d \in Wanted THEN 1 ELSE 0)
      /\ \A d \in Events : jobs[d] > 0 => jobs'[d] > 0
  BY <1>1 DEF Created
<1>3. stored \subseteq stored' /\ stored' \subseteq Events
  BY <1>1
<1>4. Grows
  BY <1>2, <1>3, PlanTyped DEF IInv, TypeOK, Grows, Safe
<1>5. LabelsTell' /\ AckedIsRecoverable'
  BY <1>4, LabelsStay, AckedStays DEF IInv
<1>6. Events' = Events /\ Wanted' = Wanted /\ Kind(e)' = Kind(e)
  BY SetsStay
<1>7. OneJob'
  BY <1>2, <1>6 DEF OneJob
<1>8. Kind(e) \in {"ask", "tell", "attach"} /\ (e \in Wanted <=> Kind(e) = "ask")
  <2>1. Kind(e) \in Kinds
    BY PlanTyped DEF IInv, TypeOK, Kind, Events
  <2> QED
    BY <2>1 DEF Kinds, Lands, Wanted
<1>9. ASSUME NEW v, v = Landed(e) PROVE v \in Final /\ Told(e, v)'
  <2>1. CASE Kind(e) = "ask"
    BY <1>1, <1>2, <1>6, <1>8, <1>9, <2>1 DEF Told, Landed, Final, Keeps
  <2>2. CASE Kind(e) # "ask" /\ Keeps(e)
    BY <1>1, <1>6, <1>8, <1>9, <2>2 DEF Told, Landed, Final
  <2>3. CASE ~Keeps(e)
    BY <1>6, <1>8, <1>9, <2>3 DEF Told, Landed, Final, Keeps, Threaded
  <2> QED
    BY <2>1, <2>2, <2>3
<1> QED
  BY <1>2, <1>3, <1>4, <1>5, <1>7, <1>9 DEF Books, IInv

\* An admission attempt ends with a verdict that is true, or is made again.
LEMMA AdmitKeeps ==
  ASSUME IInv, NEW r \in Requests, Admit(r)
  PROVE  IInv'
<1> DEFINE c == cont'[r]
<1>1. PICK e \in Events : e = Current(r)[1]
  BY AtAnEvent DEF Admit
<1>2. /\ cont[r].pc = "admit" /\ cont[r] \in Cont
      /\ UNCHANGED <<plan, now, account, request, rows, sweep, acked, crashes>>
  BY DEF Admit, IInv, TypeOK
<1>3. /\ (Lands(e) /\ Commit(e)) \/ Nothing
      /\ \/ Lands(e) /\ Commit(e) /\ Decide(r, Landed(e))
         \/ (~Lands(e) \/ ~Owned(request[r].epoch)) /\ Decide(r, "SKIPPED")
         \/ Failed(r)
  BY <1>1 DEF Admit
<1>4. Books' /\ Grows /\ jobs' \in [Events -> Nat] /\ stored' \subseteq Events
  <2>1. CASE Lands(e) /\ Commit(e)
    BY <1>2, <2>1, CommitKeepsBooks
  <2>2. CASE Nothing
    BY <1>2, <2>2, QuietKeepsBooks DEF Nothing, IInv, TypeOK
  <2> QED
    BY <1>3, <2>1, <2>2
<1>5. /\ cont' = [cont EXCEPT ![r] = c] /\ c \in Cont /\ c.i = cont[r].i
      /\ \/ c.pc = "admit"
         \/ c.pc = "label" /\ \E v \in Final : c.verdict = v /\ Told(e, v)'
  <2>1. CASE Lands(e) /\ Commit(e) /\ Decide(r, Landed(e))
    <3> PICK v : v = Landed(e)
      OBVIOUS
    <3>1. Told(e, v)' /\ v \in Final
      BY <1>2, <2>1, CommitKeepsBooks
    <3>2. c = [cont[r] EXCEPT !.pc = "label", !.verdict = v] /\ cont' = [cont EXCEPT ![r] = c]
      BY ZenonT(40), <2>1 DEF Decide, IInv, TypeOK
    <3>3. c.pc = "label" /\ c.verdict = v /\ c.i = cont[r].i /\ c \in Cont
      BY ZenonT(40), <1>2, <3>1, <3>2 DEF Cont, Verdicts
    <3> QED
      BY <3>1, <3>2, <3>3
  <2>2. CASE (~Lands(e) \/ ~Owned(request[r].epoch)) /\ Decide(r, "SKIPPED")
    <3>1. c = [cont[r] EXCEPT !.pc = "label", !.verdict = "SKIPPED"] /\ cont' = [cont EXCEPT ![r] = c]
      BY ZenonT(40), <2>2 DEF Decide, IInv, TypeOK
    <3>2. c.pc = "label" /\ c.verdict = "SKIPPED" /\ c.i = cont[r].i /\ c \in Cont
      BY ZenonT(40), <1>2, <3>1 DEF Cont, Verdicts, Final
    <3>3. account.epoch \in Nat /\ request[r].epoch \in Nat /\ request[r].epoch <= account.epoch
      BY PlanTyped DEF IInv, TypeOK, Request, Reached
    <3>4. account'.epoch > 0 \/ Kind(e)' \in {"void", "refused"}
      BY <1>2, <2>2, <3>3, SetsStay DEF Owned, Lands, IInv
    <3>5. "SKIPPED" \in Final /\ Told(e, "SKIPPED")'
      BY <3>4 DEF Told, Final
    <3> QED
      BY <3>1, <3>2, <3>5
  <2>3. CASE Failed(r) /\ cont[r].try < plan.retries
    <3>1. c = [cont[r] EXCEPT !.try = @ + 1] /\ cont' = [cont EXCEPT ![r] = c]
      BY <2>3 DEF Failed, IInv, TypeOK
    <3> QED
      BY <1>2, <3>1 DEF Cont
  <2>4. CASE Failed(r) /\ ~(cont[r].try < plan.retries)
    <3>1. c = [cont[r] EXCEPT !.pc = "label", !.verdict = "FAILED"] /\ cont' = [cont EXCEPT ![r] = c]
      BY ZenonT(40), <2>4 DEF Failed, Decide, IInv, TypeOK
    <3>2. c.pc = "label" /\ c.verdict = "FAILED" /\ c.i = cont[r].i /\ c \in Cont
      BY ZenonT(40), <1>2, <3>1 DEF Cont, Verdicts, Final
    <3>3. "FAILED" \in Final /\ Told(e, "FAILED")'
      BY DEF Told, Final
    <3> QED
      BY <3>1, <3>2, <3>3
  <2> QED
    BY <1>3, <2>1, <2>2, <2>3, <2>4
<1>6. TypeOK'
  <2>1. cont' \in [Requests -> Cont]
    BY <1>5 DEF IInv, TypeOK
  <2> QED
    BY <1>2, <1>4, <2>1, TypesStand DEF TypeOK, IInv
<1>7. Continues(r)'
  <2>1. request'[r] = request[r] /\ Current(r)'[1] = e
    BY <1>1, <1>2, <1>5 DEF Current
  <2>2. ASSUME c.pc = "label"
        PROVE  cont'[r].verdict \in Final /\ Told(Current(r)[1], cont[r].verdict)'
    <3>1. PICK v \in Final : c.verdict = v /\ Told(e, v)'
      BY <1>5, <2>2
    <3> QED
      BY <2>1, <3>1 DEF Told
  <2> QED
    BY <1>2, <1>5, <2>1, <2>2 DEF Continues, IInv
<1> HIDE DEF c
<1>8. \A t \in Requests' : Continues(t)'
  BY ZenonT(40), <1>2, <1>4, <1>5, <1>7, OneContinues
<1> QED
  BY <1>2, <1>4, <1>6, <1>8, RequestsStay, SweepsStay DEF IInv, Books

\* The verdict becomes the row's label, and the continuation goes to the next row.
LEMMA FinishKeeps ==
  ASSUME IInv, NEW r \in Requests, Finish(r)
  PROVE  IInv'
<1> DEFINE c == cont'[r]
<1>1. /\ cont[r].pc = "label" /\ cont[r] \in Cont /\ Label(Current(r), cont[r].verdict)
      /\ UNCHANGED <<plan, now, account, request, jobs, stored, sweep, acked, crashes>>
  BY DEF Finish, IInv, TypeOK
<1>2. /\ cont' = [cont EXCEPT ![r] = c]
      /\ \/ /\ cont[r].i < Len(request[r].got)
            /\ c = [Off EXCEPT !.pc = "take", !.i = cont[r].i + 1]
         \/ c = Off
  BY DEF Finish, IInv, TypeOK
<1>3. Books' /\ Grows /\ rows' \in [Row -> [status : Status, at : Nat]]
  <2>1. PICK w \in Row : w = Current(r)
    BY <1>1, AtAnEvent
  <2>2. Told(w[1], cont[r].verdict) /\ cont[r].verdict \in Final
    BY <1>1, <2>1 DEF Continues, IInv
  <2> QED
    BY <1>1, <2>1, <2>2, LabelKeepsBooks
<1>4. c \in Cont
  <2>1. cont[r].i \in Nat /\ Off \in Cont
    BY <1>1 DEF Off, Cont, Verdicts
  <2>2. ASSUME NEW i \in Nat PROVE [Off EXCEPT !.pc = "take", !.i = i] \in Cont
    BY ZenonT(40) DEF Off, Cont, Verdicts
  <2>3. cont[r].i + 1 \in Nat
    BY <2>1
  <2> HIDE DEF c
  <2> QED
    BY ZenonT(40), <1>2, <2>1, <2>2, <2>3
<1>5. TypeOK'
  <2>1. cont' \in [Requests -> Cont]
    BY ZenonT(40), <1>2, <1>4 DEF IInv, TypeOK
  <2> QED
    BY <1>1, <1>3, <2>1, TypesStand DEF TypeOK, IInv
<1>6. Continues(r)'
  <2>1. /\ request'[r] = request[r] /\ request[r].pc = "over"
        /\ cont[r].i \in DOMAIN request[r].got /\ request[r].got \in Seq(Row)
    BY <1>1 DEF Continues, IInv, TypeOK, Request
  <2>2. CASE c = [Off EXCEPT !.pc = "take", !.i = cont[r].i + 1] /\ cont[r].i < Len(request[r].got)
    <3>1. c.pc = "take" /\ c.i = cont[r].i + 1
      BY <2>2 DEF Off
    <3>2. c.i \in DOMAIN request[r].got
      BY <2>1, <2>2, <3>1
    <3> QED
      BY <2>1, <3>1, <3>2 DEF Continues
  <2>3. CASE c = Off
    BY <2>3 DEF Continues, Off
  <2> QED
    BY <1>2, <2>2, <2>3
<1> HIDE DEF c
<1>7. \A t \in Requests' : Continues(t)'
  BY ZenonT(40), <1>1, <1>2, <1>3, <1>6, OneContinues
<1> QED
  BY <1>1, <1>3, <1>5, <1>7, RequestsStay, SweepsStay DEF IInv, Books
-----------------------------------------------------------------------------
\* The sweep, which steps one tick at a time.

\* A step of one sweep that keeps its part keeps that of all.
LEMMA OneSweeps ==
  ASSUME IInv, Grows, NEW s \in Sweepers, NEW c, sweep' = [sweep EXCEPT ![s] = c], Sweeps(s)'
  PROVE  \A t \in Sweepers : Sweeps(t)'
<1>1. ASSUME NEW t \in Sweepers, t # s PROVE Sweeps(t)'
  <2>1. sweep'[t] = sweep[t]
    BY <1>1 DEF IInv, TypeOK
  <2> QED
    BY <2>1, SweepStays DEF IInv, TypeOK
<1> QED
  BY <1>1

\* The row a sweep is at.
LEMMA AtARow ==
  ASSUME IInv, NEW s \in Sweepers, sweep[s].pc # "idle"
  PROVE  /\ sweep[s] \in Sweep /\ sweep[s].list \in Seq(Row) /\ sweep[s].list # <<>>
         /\ Head(sweep[s].list) \in Row /\ Head(sweep[s].list)[1] \in Events
<1>1. sweep[s] \in Sweep /\ sweep[s].list \in Seq(Row) /\ sweep[s].list # <<>>
  BY DEF IInv, TypeOK, Sweep, Sweeps
<1>2. Head(sweep[s].list) \in Row
  BY <1>1
<1> QED
  BY <1>1, <1>2 DEF Row

\* There are stale rows, so a list of them is not empty.
LEMMA CandidatesAreRows ==
  ASSUME IInv, Stale # {}, NEW q \in Candidates
  PROVE  q \in Seq(Row) /\ q # <<>>
<1> DEFINE n == IF Cardinality(Stale) < plan.take THEN Cardinality(Stale) ELSE plan.take
<1>1. plan.take \in Nat \ {0} /\ Len(plan.body) \in Nat
  BY PlanTyped DEF IInv, TypeOK
<1>2. IsFiniteSet(Events) /\ IsFiniteSet(Copies)
  <2>1. IsFiniteSet(Events)
    BY <1>1, FS_Interval DEF Events
  <2>2. IsFiniteSet({} \cup {"sent"})
    BY FS_EmptySet, FS_AddElement
  <2>3. IsFiniteSet(({} \cup {"sent"}) \cup {"again"})
    BY <2>2, FS_AddElement
  <2>4. Copies = ({} \cup {"sent"}) \cup {"again"}
    BY DEF Copies
  <2> QED
    BY <2>1, <2>3, <2>4
<1>3. IsFiniteSet(Stale)
  <2>1. IsFiniteSet(Row)
    BY <1>2, FS_Product DEF Row
  <2> QED
    BY <2>1, FS_Subset DEF Stale
<1>4. Cardinality(Stale) \in Nat /\ Cardinality(Stale) # 0
  BY <1>3, FS_CardinalityType, FS_EmptySet
<1>5. n \in Nat /\ n > 0
  BY <1>1, <1>4
<1>6. q \in [1..n -> Stale]
  BY DEF Candidates
<1> HIDE DEF n
<1>7. q \in [1..n -> Row]
  BY <1>6 DEF Stale
<1> QED
  BY <1>5, <1>7

\* A sweep that goes to the first row of a list.
LEMMA AtItsFirstRow ==
  ASSUME NEW q \in Seq(Row), NEW c, c = [Idle EXCEPT !.pc = "read", !.list = q]
  PROVE  c \in Sweep /\ c.pc = "read" /\ c.list = q
BY ZenonT(40) DEF Idle, Sweep, Verdicts

\* What is left of a list of more than one row.
LEMMA TailIsRows ==
  ASSUME NEW l \in Seq(Row), Len(l) > 1
  PROVE  Tail(l) \in Seq(Row) /\ Tail(l) # <<>>
<1>1. l # <<>> /\ Len(l) \in Nat
  OBVIOUS
<1>2. Tail(l) \in Seq(Row) /\ Len(Tail(l)) = Len(l) - 1
  BY <1>1, HeadTailProperties
<1>3. Len(Tail(l)) # 0
  BY SMTT(30), <1>1, <1>2
<1> QED
  BY ZenonT(40), <1>2, <1>3, EmptySeq

\* A sweep starts with the oldest stale rows.
LEMMA LookKeeps ==
  ASSUME IInv, NEW s \in Sweepers, Look(s)
  PROVE  IInv'
<1>1. PICK q \in Candidates : sweep' = [sweep EXCEPT ![s] = [Idle EXCEPT !.pc = "read", !.list = q]]
  BY ZenonT(40) DEF Look
<1> DEFINE c == [Idle EXCEPT !.pc = "read", !.list = q]
<1>2. Stale # {} /\ UNCHANGED <<plan, now, account, request, cont, rows, jobs, stored, acked, crashes>>
  BY DEF Look
<1>3. Books' /\ Grows
  BY <1>2, QuietKeepsBooks
<1>4. q \in Seq(Row) /\ q # <<>>
  BY <1>2, CandidatesAreRows
<1>5. c \in Sweep /\ c.pc = "read" /\ c.list = q
  BY ZenonT(40), <1>4, AtItsFirstRow
<1> HIDE DEF c
<1>6. sweep' = [sweep EXCEPT ![s] = c] /\ sweep' \in [Sweepers -> Sweep] /\ sweep'[s] = c
  BY <1>1, <1>5 DEF c, IInv, TypeOK
<1>7. TypeOK'
  BY <1>2, <1>6, TypesStand DEF TypeOK, IInv
<1>8. Sweeps(s)'
  BY <1>4, <1>5, <1>6 DEF Sweeps
<1>9. \A t \in Sweepers : Sweeps(t)'
  BY ZenonT(40), <1>3, <1>6, <1>8, OneSweeps
<1> QED
  BY <1>2, <1>3, <1>7, <1>9, RequestsStay, ContinuationsStay DEF IInv, Books

\* A read that fails ends in the verdict FAILED, which claims nothing.
LEMMA ReadAccountKeeps ==
  ASSUME IInv, NEW s \in Sweepers, ReadAccount(s)
  PROVE  IInv'
<1> DEFINE c == sweep'[s]
<1>1. /\ sweep[s].pc = "read"
      /\ UNCHANGED <<plan, now, account, request, cont, rows, jobs, stored, acked, crashes>>
  BY DEF ReadAccount
<1>2. /\ sweep' = [sweep EXCEPT ![s] = c]
      /\ \/ c = [sweep[s] EXCEPT !.pc = "admit", !.epoch = account.epoch]
         \/ c = [sweep[s] EXCEPT !.pc = "label", !.verdict = "FAILED"]
  BY ZenonT(40) DEF ReadAccount, SweepDecides, IInv, TypeOK
<1>3. Books' /\ Grows
  BY <1>1, QuietKeepsBooks
<1>4. /\ c \in Sweep /\ c.list = sweep[s].list /\ c.list # <<>>
      /\ c.pc = "label" => c.verdict = "FAILED"
  <2>1. account.epoch \in Nat
    BY <1>3 DEF Grows
  <2> QED
    BY ZenonT(40), <1>1, <1>2, <2>1, AtARow DEF Sweep, Verdicts, Final
<1>5. TypeOK'
  <2>1. sweep' \in [Sweepers -> Sweep]
    BY <1>2, <1>4 DEF IInv, TypeOK
  <2> QED
    BY <1>1, <2>1, TypesStand DEF TypeOK, IInv
<1>6. Sweeps(s)'
  BY <1>4 DEF Sweeps, Told, Final
<1> HIDE DEF c
<1>7. \A t \in Sweepers : Sweeps(t)'
  BY ZenonT(40), <1>2, <1>3, <1>6, OneSweeps
<1> QED
  BY <1>1, <1>3, <1>5, <1>7, RequestsStay, ContinuationsStay DEF IInv, Books

\* The sweep's own attempt commits, with or without its answer, or it does not.
LEMMA SweepAdmitKeeps ==
  ASSUME IInv, NEW s \in Sweepers, SweepAdmit(s)
  PROVE  IInv'
<1> DEFINE c == sweep'[s]
<1>1. PICK e \in Events : e = Head(sweep[s].list)[1]
  BY AtARow DEF SweepAdmit
<1>2. /\ sweep[s].pc = "admit"
      /\ UNCHANGED <<plan, now, account, request, cont, rows, acked, crashes>>
  BY DEF SweepAdmit
<1>3. (Lands(e) /\ Commit(e)) \/ Nothing
  BY <1>1 DEF SweepAdmit
<1>4. Books' /\ Grows /\ jobs' \in [Events -> Nat] /\ stored' \subseteq Events
  <2>1. CASE Lands(e) /\ Commit(e)
    BY <1>2, <2>1, CommitKeepsBooks
  <2>2. CASE Nothing
    BY <1>2, <2>2, QuietKeepsBooks DEF Nothing, IInv, TypeOK
  <2> QED
    BY <1>3, <2>1, <2>2
<1>5. PICK v \in Final : SweepDecides(s, v) /\ Told(e, v)'
  <2>1. "FAILED" \in Final /\ Told(e, "FAILED")'
    BY DEF Final, Told
  <2>2. \/ Lands(e) /\ Commit(e) /\ SweepDecides(s, Landed(e))
        \/ Kind(e) = "void" /\ SweepDecides(s, "SKIPPED")
        \/ SweepDecides(s, "FAILED")
    BY <1>1 DEF SweepAdmit
  <2>3. PICK v : v = Landed(e)
    OBVIOUS
  <2>4. ASSUME Lands(e), Commit(e) PROVE Told(e, v)' /\ v \in Final
    BY <1>2, <2>3, <2>4, CommitKeepsBooks
  <2>5. ASSUME Kind(e) = "void" PROVE "SKIPPED" \in Final /\ Told(e, "SKIPPED")'
    BY <1>2, <2>5, SetsStay DEF Told, Final
  <2> QED
    BY <2>1, <2>2, <2>3, <2>4, <2>5
<1>6. /\ sweep' = [sweep EXCEPT ![s] = c] /\ c \in Sweep /\ c.list = sweep[s].list
      /\ c.pc = "label" /\ c.verdict = v /\ c.list # <<>>
  <2>1. sweep' = [sweep EXCEPT ![s] = c] /\ c = [sweep[s] EXCEPT !.pc = "label", !.verdict = v]
    BY ZenonT(40), <1>5 DEF SweepDecides, IInv, TypeOK
  <2> QED
    BY ZenonT(40), <1>2, <2>1, AtARow DEF Sweep, Verdicts
<1>7. TypeOK'
  <2>1. sweep' \in [Sweepers -> Sweep]
    BY <1>6 DEF IInv, TypeOK
  <2> QED
    BY <1>2, <1>4, <2>1, TypesStand DEF TypeOK, IInv
<1>8. Sweeps(s)'
  BY <1>1, <1>5, <1>6 DEF Sweeps, Told
<1> HIDE DEF c
<1>9. \A t \in Sweepers : Sweeps(t)'
  BY ZenonT(40), <1>4, <1>6, <1>8, OneSweeps
<1> QED
  BY <1>2, <1>4, <1>7, <1>9, RequestsStay, ContinuationsStay DEF IInv, Books

\* The verdict is written, and the sweep goes to the next row of its list.
LEMMA SweepLabelKeeps ==
  ASSUME IInv, NEW s \in Sweepers, SweepLabel(s)
  PROVE  IInv'
<1> DEFINE c == sweep'[s]
<1>1. /\ sweep[s].pc = "label" /\ Label(Head(sweep[s].list), sweep[s].verdict)
      /\ UNCHANGED <<plan, now, account, request, cont, jobs, stored, acked, crashes>>
  BY DEF SweepLabel
<1>2. /\ sweep' = [sweep EXCEPT ![s] = c]
      /\ \/ /\ Len(sweep[s].list) > 1
            /\ c = [Idle EXCEPT !.pc = "read", !.list = Tail(sweep[s].list)]
         \/ c = Idle
  BY DEF SweepLabel, IInv, TypeOK
<1>3. Books' /\ Grows /\ rows' \in [Row -> [status : Status, at : Nat]]
  <2>1. PICK w \in Row : w = Head(sweep[s].list)
    BY <1>1, AtARow
  <2>2. Told(w[1], sweep[s].verdict) /\ sweep[s].verdict \in Final
    BY <1>1, <2>1 DEF Sweeps, IInv
  <2> QED
    BY <1>1, <2>1, <2>2, LabelKeepsBooks
<1>4. c \in Sweep /\ c.pc # "label" /\ (c.pc # "idle" => c.list # <<>>)
  <2>1. Idle \in Sweep /\ Idle.pc = "idle"
    BY DEF Idle, Sweep, Verdicts
  <2>2. CASE Len(sweep[s].list) > 1 /\ c = [Idle EXCEPT !.pc = "read", !.list = Tail(sweep[s].list)]
    <3>1. PICK l \in Seq(Row) : l = sweep[s].list
      BY <1>1, AtARow
    <3>2. Tail(l) \in Seq(Row) /\ Tail(l) # <<>>
      BY <2>2, <3>1, TailIsRows
    <3>3. PICK q : q = Tail(l)
      OBVIOUS
    <3> HIDE DEF c
    <3> QED
      BY ZenonT(40), <2>2, <3>1, <3>2, <3>3, AtItsFirstRow
  <2> HIDE DEF c
  <2> QED
    BY <1>2, <2>1, <2>2
<1>5. TypeOK'
  <2>1. sweep' \in [Sweepers -> Sweep]
    BY ZenonT(40), <1>2, <1>4 DEF IInv, TypeOK
  <2> QED
    BY <1>1, <1>3, <2>1, TypesStand DEF TypeOK, IInv
<1>6. Sweeps(s)'
  BY <1>4 DEF Sweeps
<1> HIDE DEF c
<1>7. \A t \in Sweepers : Sweeps(t)'
  BY ZenonT(40), <1>2, <1>3, <1>6, OneSweeps
<1> QED
  BY <1>1, <1>3, <1>5, <1>7, RequestsStay, ContinuationsStay DEF IInv, Books
-----------------------------------------------------------------------------
\* The account, the clock and crashes.

\* A pause moves the epoch on, which only makes refusals truer.
LEMMA PauseKeeps ==
  ASSUME IInv, Pause
  PROVE  IInv'
<1>1. /\ account.epoch \in Nat /\ plan.epochs \in Nat /\ account.epoch < plan.epochs
      /\ account' = [active |-> FALSE, epoch |-> account.epoch + 1]
      /\ UNCHANGED <<plan, now, request, cont, rows, jobs, stored, sweep, acked, crashes>>
  BY PlanTyped DEF Pause, IInv, TypeOK
<1>2. Grows
  BY <1>1 DEF Grows, Safe
<1>3. TypeOK'
  BY <1>1, TypesStand DEF TypeOK, IInv
<1>4. LabelsTell' /\ AckedIsRecoverable' /\ OneJob'
  BY <1>1, <1>2, LabelsStay, AckedStays, SetsStay DEF IInv, OneJob
<1> QED
  BY <1>1, <1>2, <1>3, <1>4, RequestsStay, ContinuationsStay, SweepsStay DEF IInv

\* The account resumes at the epoch the pause gave it.
LEMMA ResumeKeeps ==
  ASSUME IInv, Resume
  PROVE  IInv'
<1>1. /\ account \in [active : BOOLEAN, epoch : 0..plan.epochs] /\ plan.epochs \in Nat
      /\ account' = [account EXCEPT !.active = TRUE]
      /\ UNCHANGED <<plan, now, request, cont, rows, jobs, stored, sweep, acked, crashes>>
  BY PlanTyped DEF Resume, IInv, TypeOK
<1>2. /\ account' \in [active : BOOLEAN, epoch : 0..plan.epochs]
      /\ account'.epoch = account.epoch /\ account'.active
  BY ZenonT(40), <1>1
<1>3. Grows
  BY <1>1, <1>2 DEF Grows, Safe
<1>4. TypeOK'
  BY <1>1, <1>2, TypesStand DEF TypeOK, IInv
<1>5. LabelsTell' /\ AckedIsRecoverable' /\ OneJob'
  BY <1>1, <1>3, LabelsStay, AckedStays, SetsStay DEF IInv, OneJob
<1> QED
  BY <1>1, <1>2, <1>3, <1>4, <1>5, RequestsStay, ContinuationsStay, SweepsStay DEF IInv

\* Nothing of the invariant is about the time.
LEMMA TickKeeps ==
  ASSUME IInv, Tick
  PROVE  IInv'
<1>1. /\ now' \in 0..MaxTime
      /\ UNCHANGED <<plan, account, request, cont, rows, jobs, stored, sweep, acked, crashes>>
  BY AdmissionAssumption DEF Tick, IInv, TypeOK
<1>2. Books' /\ Grows
  BY <1>1, QuietKeepsBooks
<1>3. TypeOK'
  BY <1>1, TypesStand DEF TypeOK, IInv
<1> QED
  BY <1>1, <1>2, <1>3, RequestsStay, ContinuationsStay, SweepsStay DEF IInv, Books

\* A crash leaves the books and takes every process's place.
LEMMA CrashKeeps ==
  ASSUME IInv, Crash
  PROVE  IInv'
<1>1. /\ request' = [r \in Requests |->
           IF request[r].pc = "unsent" THEN request[r] ELSE [request[r] EXCEPT !.pc = "over"]]
      /\ cont' = [r \in Requests |-> Off] /\ sweep' = [s \in Sweepers |-> Idle]
      /\ crashes < plan.crashes /\ crashes' = crashes + 1
      /\ UNCHANGED <<plan, now, account, rows, jobs, stored, acked>>
  BY DEF Crash
<1>2. Books' /\ Grows
  BY <1>1, QuietKeepsBooks
<1>3. ASSUME NEW r \in Requests
      PROVE  /\ request'[r] \in Request /\ request'[r].pc \in {"unsent", "over"}
             /\ request'[r] = request[r] \/ request'[r].pc = "over"
             /\ request'[r].epoch = request[r].epoch
  BY ZenonT(40), <1>1 DEF IInv, TypeOK, Request
<1>4. TypeOK'
  <2>1. request' \in [Requests -> Request]
    <3>1. request' = [r \in Requests |-> request'[r]]
      BY <1>1
    <3> QED
      BY <1>3, <3>1
  <2>2. Off \in Cont /\ Idle \in Sweep
    BY DEF Off, Cont, Idle, Sweep, Verdicts
  <2>3. crashes' \in 0..plan.crashes
    BY <1>1, PlanTyped DEF IInv, TypeOK
  <2> QED
    BY <1>1, <2>1, <2>2, <2>3, TypesStand DEF TypeOK, IInv
<1>5. ASSUME NEW r \in Requests PROVE Reached(r)' /\ Continues(r)'
  <2>1. ASSUME request'[r] = request[r] PROVE Reached(r)'
    BY <1>2, <2>1, ReachedStays DEF IInv, TypeOK
  <2>2. ASSUME request'[r].pc = "over" PROVE Reached(r)'
    <3>1. request'[r].epoch <= account'.epoch
      BY <1>1, <1>3 DEF IInv, Reached
    <3> QED
      BY <2>2, <3>1 DEF Reached
  <2>3. cont'[r].pc = "off"
    BY <1>1 DEF Off
  <2> QED
    BY <1>3, <2>1, <2>2, <2>3 DEF Continues
<1>6. \A s \in Sweepers : Sweeps(s)'
  BY <1>1 DEF Sweeps, Idle
<1> QED
  BY <1>1, <1>2, <1>4, <1>5, <1>6, SetsStay DEF IInv, Books
-----------------------------------------------------------------------------
\* The invariant holds at the start.
LEMMA InitEstablishes ==
  ASSUME Init
  PROVE  IInv
<1>1. /\ plan \in Plans /\ plan.epochs \in Nat /\ plan.crashes \in Nat /\ Len(plan.body) \in Nat \ {0}
      /\ MaxTime \in Nat
  BY PlanTyped, AdmissionAssumption DEF Init
<1>2. TypeOK
  <2>1. Unsent \in Request /\ Off \in Cont /\ Idle \in Sweep
    BY DEF Unsent, Request, Off, Cont, Idle, Sweep, Verdicts
  <2>2. NoRow \in [status : Status, at : Nat]
    BY DEF NoRow, Status
  <2>3. account \in [active : BOOLEAN, epoch : 0..plan.epochs]
    BY <1>1 DEF Init
  <2>4. now \in 0..MaxTime /\ crashes \in 0..plan.crashes /\ stored \subseteq Events
    BY <1>1 DEF Init
  <2>5. acked \in BOOLEAN
    BY ZenonT(40) DEF Init
  <2>6. /\ request \in [Requests -> Request] /\ cont \in [Requests -> Cont]
        /\ sweep \in [Sweepers -> Sweep] /\ rows \in [Row -> [status : Status, at : Nat]]
        /\ jobs \in [Events -> Nat]
    BY <2>1, <2>2 DEF Init
  <2> QED
    BY <1>1, <2>3, <2>4, <2>5, <2>6 DEF TypeOK
<1>3. AckedIsRecoverable /\ OneJob /\ LabelsTell
  BY DEF Init, AckedIsRecoverable, OneJob, LabelsTell, NoRow
<1>4. \A r \in Requests : Reached(r) /\ Continues(r)
  BY DEF Init, Reached, Continues, Unsent, Off
<1>5. \A s \in Sweepers : Sweeps(s)
  BY DEF Init, Sweeps, Idle
<1> QED
  BY <1>2, <1>3, <1>4, <1>5 DEF IInv, Init

\* Every step keeps it.
LEMMA StepKeeps ==
  ASSUME IInv, [Next]_vars
  PROVE  IInv'
<1>1. CASE \E r \in Requests : Deliver(r) \/ Route(r) \/ Admission(r)
  <2>1. PICK r \in Requests : Deliver(r) \/ Route(r) \/ Admission(r)
    BY <1>1
  <2> QED
    BY <2>1, DeliverKeeps, RecordKeeps, MarkKeeps, RespondKeeps, TakeUpKeeps, AdmitKeeps,
       FinishKeeps DEF Route, Admission
<1>2. CASE \E s \in Sweepers : Sweeping(s)
  <2>1. PICK s \in Sweepers : Sweeping(s)
    BY <1>2
  <2> QED
    BY <2>1, LookKeeps, ReadAccountKeeps, SweepAdmitKeeps, SweepLabelKeeps DEF Sweeping
<1>3. CASE Pause \/ Resume \/ Tick \/ Crash
  BY <1>3, PauseKeeps, ResumeKeeps, TickKeeps, CrashKeeps
<1>4. CASE UNCHANGED vars
  <2>1. UNCHANGED <<plan, now, account, request, cont, rows, jobs, stored, sweep, acked, crashes>>
    BY <1>4 DEF vars
  <2>2. Books' /\ Grows
    BY <2>1, QuietKeepsBooks
  <2>3. TypeOK'
    BY <2>1, TypesStand DEF TypeOK, IInv
  <2> QED
    BY <2>1, <2>2, <2>3, RequestsStay, ContinuationsStay, SweepsStay DEF IInv, Books
<1> QED
  BY <1>1, <1>2, <1>3, <1>4 DEF Next

\* The invariant holds throughout.
LEMMA InvariantHolds == Spec => []IInv
<1>1. Init => IInv
  BY InitEstablishes
<1>2. IInv /\ [Next]_vars => IInv'
  BY StepKeeps
<1> QED
  BY <1>1, <1>2, PTL DEF Spec

\* Whatever the body, the redeliveries, the sweeps and the crashes, the route, the
\* continuation and the sweep keep requests, rows and verdicts of their types.
THEOREM AdmissionTypeCorrect == Spec => []TypeOK
BY InvariantHolds, PTL DEF IInv

\* A 2xx that LINE heard means that every event of the body is marked for the sweep or
\* labelled, for any body and any number of redeliveries, sweeps and crashes.
THEOREM AckedCanBeRecovered == Spec => []AckedIsRecoverable
BY InvariantHolds, PTL DEF IInv

\* No overlap of redeliveries, retries, sweeps and lost answers gives an event a
\* second job, or a job to an event that wants no reply.
THEOREM OnlyOneJob == Spec => []OneJob
BY InvariantHolds, PTL DEF IInv

\* An ADMITTED row has its job and its message; a SKIPPED one was stored without wanting
\* a reply, had no conversation to attach to, was left aside unread, or was refused, for
\* good or by an account that changed.
THEOREM LabelsTellTheTruth == Spec => []LabelsTell
BY InvariantHolds, PTL DEF IInv
=============================================================================
