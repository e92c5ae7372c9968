------------------------- MODULE LineDeliveryProofs -------------------------
(***************************************************************************)
(* At most one delivery, and the channel's contract, for any number of     *)
(* jobs, senders, executors, crashes, erasures and account actions, and    *)
(* any delays LineDelivery's assumptions allow.                            *)
(*                                                                         *)
(* An answer leaves as one reply, or as pushes under one retry key.  The   *)
(* reply is single: a row that chose it is never READY again, so one       *)
(* handler has it and one request carries it, until LINE refuses that      *)
(* request for good, which is when the row may fall back to push.  The     *)
(* pushes are many, but each is under way before the key of the first      *)
(* dies, since all of them count from the row's first send.                *)
(*                                                                         *)
(* The contract: every step of LineDelivery is a step of DeliveryContract  *)
(* or changes nothing it sees.  A row which is READY, being sent or        *)
(* accepted keeps one answer, so that every handler, request and LINE hold *)
(* the same text, and LINE has shown what a handler or a row calls         *)
(* accepted.  On the way: closed rows stay closed, and a fenced account's  *)
(* work stops.                                                             *)
(***************************************************************************)
EXTENDS LineDelivery, LineJobsProofs

\* The handler has claimed a send, and may have called LINE.
Post(s) == snd[s].pc \in {"calling", "waiting", "answered"}

Sending(s, j) == Post(s) /\ snd[s].job = j

\* What a row's first send and its method say of its status, at time t.
RowSound(row, t) ==
  /\ row.status = "ABSENT" => row.version = 0 /\ row.method = "NONE"
  /\ row.first = NoTime => row.method # "REPLY" /\ row.status # "SENDING"
  /\ row.first # NoTime =>
       row.method # "NONE" /\ row.status \notin {"ABSENT", "QUEUED", "CLAIMED"} /\ row.first <= t
  /\ row.method = "REPLY" => row.status # "READY"

\* A handler before its claim has read the row as it was at that version.
Snapshot(s) ==
  LET h == snd[s] IN
  /\ h.row.status = "READY" /\ h.row.method # "REPLY"
  /\ h.row.version <= job[h.job].version
  /\ h.row.version = job[h.job].version => h.row = job[h.job]
  /\ h.row.method # "NONE" => h.method = h.row.method
  /\ h.since <= now /\ now <= h.since + MaxPause

HandlerSound(s) ==
  LET h == snd[s] IN
  /\ h.pc \in {"read", "resolved"} => Snapshot(s)
  /\ h.pc = "resolved" => /\ h.method # "NONE" /\ h.since <= h.at /\ h.at <= now
                          /\ h.row.first # NoTime => h.since < h.row.first + RetryWindow
  /\ Post(s) => /\ h.row.version < job[h.job].version
                /\ job[h.job].first # NoTime /\ h.method = job[h.job].method
  /\ h.pc = "calling" => /\ now <= h.since + MaxPause
                         /\ h.method = "PUSH" => h.since < job[h.job].first + RetryWindow
  /\ h.pc = "answered" /\ h.method = "REPLY" =>
       h.result \in {"ACCEPTED", "UNKNOWN", "HTTP_400", "PERMANENT"}

WireSound(q) ==
  /\ job[q.job].first # NoTime /\ q.method = job[q.job].method
  /\ now <= q.at + WireLife
  /\ q.method = "PUSH" => q.at < job[q.job].first + RetryWindow + MaxPause

\* LINE has shown nothing for the job and is not about to.
Unsent(j) == line[j].seen = 0 /\ \A q \in wire : q.job # j

\* The reply of a job is in one place.
SingleReply(j) ==
  job[j].method = "REPLY" =>
    /\ \A s, t \in Senders : Sending(s, j) /\ Sending(t, j) => s = t
    /\ \A q, r \in wire : q.job = j /\ r.job = j => q = r
    /\ \A q \in wire : q.job = j => line[j].seen = 0
    /\ \A s \in Senders :
         /\ Sending(s, j)
         /\ \/ snd[s].pc = "calling"
            \/ snd[s].pc = "answered" /\ snd[s].result \in {"HTTP_400", "PERMANENT"}
         => Unsent(j)
    /\ job[j].status = "FAILED" => Unsent(j) /\ \A s \in Senders : ~Sending(s, j)

\* LINE has shown a job's answer as its row's method says, and once.
LineSound(j) ==
  LET l == line[j] IN
  /\ l.replied => job[j].method = "REPLY"
  /\ l.pushAt # NoTime =>
       job[j].method = "PUSH" /\ job[j].first # NoTime /\ job[j].first <= l.pushAt
  /\ l.seen = (IF l.replied \/ l.pushAt # NoTime THEN 1 ELSE 0)

\* The inductive invariant.
SendInv ==
  /\ JobsInv
  /\ TypeOK
  /\ \A j \in Jobs : RowSound(job[j], now) /\ LineSound(j) /\ SingleReply(j)
  /\ \A s \in Senders : HandlerSound(s)
  /\ \A q \in wire : WireSound(q)
-----------------------------------------------------------------------------
\* The types at hand.
LEMMA Typed ==
  ASSUME SendInv
  PROVE  /\ now \in Nat /\ account \in AccountRow
         /\ \A j \in Jobs : job[j] \in JobRow /\ job[j].version \in Nat
                            /\ job[j].first \in OptTime /\ line[j] \in Accepted
         /\ \A s \in Senders : /\ snd[s] \in Handler /\ snd[s].job \in Jobs
                               /\ snd[s].row \in JobRow /\ snd[s].row.version \in Nat
                               /\ snd[s].since \in Nat /\ snd[s].at \in Nat
         /\ \A q \in wire : q \in Request /\ q.job \in Jobs /\ q.at \in Nat
BY DEF SendInv, TypeOK, JobsInv, JobsTypeOK, JobRow, Handler, Request

\* A handler that is idle has nothing to lose.
LEMMA IdleIsSound ==
  ASSUME NEW s \in Senders, snd'[s] = Idle
  PROVE  HandlerSound(s)' /\ ~Post(s)'
BY DEF HandlerSound, Post, Idle

\* A write that is not a send's claim or fallback: the first send and the method of a
\* row that has begun to be sent stay, and a reply fails only when it is safe.
Aside(j) ==
  LET old == job[j]
      new == job'[j] IN
  \/ new = old
  \/ /\ old.version < new.version
     /\ new.first = old.first
     /\ new.method = old.method \/ (old.first = NoTime /\ new.method = "PUSH")
     /\ RowSound(new, now)
     /\ new.method = "REPLY" /\ new.status = "FAILED" /\ old.status # "FAILED" =>
          Unsent(j) /\ \A s \in Senders : Sending(s, j) => snd'[s] = Idle

\* Such a write keeps a row sound,
LEMMA AsideRow ==
  ASSUME SendInv, NEW j \in Jobs, Aside(j), now' = now
  PROVE  RowSound(job[j], now)'
BY DEF Aside, SendInv, RowSound

\* and what LINE has shown of it,
LEMMA AsideLine ==
  ASSUME SendInv, JobsInv', NEW j \in Jobs, Aside(j), line' = line
  PROVE  LineSound(j)'
BY DEF Aside, SendInv, RowSound, LineSound

\* and a handler that stays where it is,
LEMMA AsideHandler ==
  ASSUME SendInv, JobsInv', NEW s \in Senders, Aside(snd[s].job), now' = now, snd'[s] = snd[s]
  PROVE  HandlerSound(s)'
<1> DEFINE h == snd[s]
           old == job[h.job]
           new == job'[h.job]
<1>1. /\ h.job \in Jobs /\ old.version \in Nat /\ h.row.version \in Nat /\ new.version \in Nat
      /\ HandlerSound(s)
  BY Typed DEF SendInv, JobsInv, JobsTypeOK, JobRow
<1>2. h.pc \in {"read", "resolved"} => Snapshot(s)'
  <2>1. CASE new = old
    BY <1>1, <2>1 DEF HandlerSound, Snapshot
  <2>2. CASE old.version < new.version
    BY <1>1, <2>2 DEF HandlerSound, Snapshot
  <2> QED
    BY <2>1, <2>2 DEF Aside
<1>3. Post(s) => /\ h.row.version < new.version
                 /\ new.first = old.first /\ new.first # NoTime /\ h.method = new.method
  BY <1>1 DEF HandlerSound, Aside
<1> QED
  BY <1>1, <1>2, <1>3 DEF HandlerSound, Post

\* and a request,
LEMMA AsideWire ==
  ASSUME SendInv, NEW q \in wire, Aside(q.job), now' = now
  PROVE  job'[q.job].first = job[q.job].first /\ job'[q.job].method = job[q.job].method
BY DEF SendInv, WireSound, Aside

\* and the reply in its one place.
LEMMA AsideSingle ==
  ASSUME SendInv, NEW j \in Jobs, Aside(j), wire' = wire, line' = line,
         \A s \in Senders : snd'[s] = snd[s] \/ snd'[s] = Idle
  PROVE  SingleReply(j)'
<1>1. SUFFICES ASSUME job'[j].method = "REPLY" PROVE SingleReply(j)'
  BY DEF SingleReply
<1>2. job[j].method = "REPLY" /\ SingleReply(j)
  BY <1>1 DEF Aside, SendInv
<1>3. Unsent(j) => Unsent(j)'
  BY DEF Unsent
<1>4. \A s \in Senders : Sending(s, j)' => Sending(s, j) /\ snd'[s] = snd[s]
  <2>1. ASSUME NEW s \in Senders, Sending(s, j)' PROVE Sending(s, j) /\ snd'[s] = snd[s]
    <3>1. CASE snd'[s] = Idle
      BY <2>1, <3>1, IdleIsSound DEF Sending
    <3>2. CASE snd'[s] = snd[s]
      BY <2>1, <3>2 DEF Sending, Post
    <3> QED
      BY <3>1, <3>2
  <2> QED
    BY <2>1
<1>5. job'[j].status = "FAILED" => Unsent(j)' /\ \A s \in Senders : ~Sending(s, j)'
  <2>1. CASE job[j].status = "FAILED"
    BY <1>2, <1>3, <1>4, <2>1 DEF SingleReply
  <2>2. CASE job[j].status # "FAILED"
    <3>1. job'[j].status = "FAILED" =>
            Unsent(j) /\ \A s \in Senders : Sending(s, j) => snd'[s] = Idle
      BY <1>1, <2>2 DEF Aside
    <3> QED
      BY <1>3, <1>4, <3>1, IdleIsSound DEF Sending
  <2> QED
    BY <2>1, <2>2
<1> QED
  BY <1>2, <1>3, <1>4, <1>5 DEF SingleReply

\* So a step of such writes, in which handlers stay or stop, keeps the invariant.
LEMMA AsideKeeps ==
  ASSUME SendInv, JobsInv', TypeOK', now' = now, wire' = wire, line' = line,
         \A j \in Jobs : Aside(j),
         \A s \in Senders : snd'[s] = snd[s] \/ snd'[s] = Idle
  PROVE  SendInv'
<1>1. \A j \in Jobs : RowSound(job[j], now)' /\ LineSound(j)' /\ SingleReply(j)'
  BY AsideRow, AsideLine, AsideSingle
<1>2. \A s \in Senders : HandlerSound(s)'
  BY Typed, AsideHandler, IdleIsSound
<1>3. \A q \in wire' : WireSound(q)'
  <2>1. ASSUME NEW q \in wire PROVE WireSound(q)'
    <3>1. q.job \in Jobs /\ WireSound(q)
      BY Typed DEF SendInv
    <3>2. job'[q.job].first = job[q.job].first /\ job'[q.job].method = job[q.job].method
      BY <3>1, AsideWire
    <3> QED
      BY <3>1, <3>2 DEF WireSound
  <2> QED
    BY <2>1
<1> QED
  BY <1>1, <1>2, <1>3 DEF SendInv
-----------------------------------------------------------------------------
\* One row is written aside, the others stay.
LEMMA WriteAside ==
  ASSUME SendInv, NEW j \in Jobs, NEW row \in JobRow, Write(j, row),
         row.version = job[j].version, row.first = job[j].first, row.status # "ABSENT",
         row.method = job[j].method \/ (job[j].first = NoTime /\ row.method = "PUSH"),
         RowSound(row, now),
         row.method = "REPLY" /\ row.status = "FAILED" /\ job[j].status # "FAILED" =>
           Unsent(j) /\ \A s \in Senders : Sending(s, j) => snd'[s] = Idle
  PROVE  \A k \in Jobs : Aside(k)
<1>1. /\ job'[j] = [row EXCEPT !.version = row.version + 1]
      /\ \A k \in Jobs \ {j} : job'[k] = job[k]
  BY WriteRow DEF SendInv, JobsInv, JobsTypeOK
<1>2. /\ job'[j].version = row.version + 1 /\ job'[j].first = row.first
      /\ job'[j].method = row.method /\ job'[j].status = row.status /\ row.version \in Nat
  BY <1>1 DEF JobRow
<1>3. RowSound(job'[j], now)
  BY <1>2 DEF RowSound
<1>4. Aside(j)
  BY <1>2, <1>3 DEF Aside
<1> QED
  BY ZenonT(40), <1>1, <1>4 DEF Aside

\* A row whose first send has not come waits, or is closed before it was sent.
LEMMA UnsentWrite ==
  ASSUME SendInv, NEW j \in Jobs, NEW row \in JobRow, Write(j, row),
         row.version = job[j].version, row.first = NoTime, job[j].first = NoTime,
         row.method = job[j].method \/ row.method = "PUSH",
         row.status \notin {"ABSENT", "SENDING"}
  PROVE  \A k \in Jobs : Aside(k)
<1>1. RowSound(job[j], now)
  BY DEF SendInv
<1>2. RowSound(row, now) /\ row.method # "REPLY"
  BY <1>1 DEF RowSound
<1> QED
  BY <1>2, WriteAside

\* Admission, maintenance and claims concern rows that have not been sent.
LEMMA QueueAside ==
  ASSUME SendInv, Admitting \/ Maintaining \/ Claiming
  PROVE  \A k \in Jobs : Aside(k)
<1>1. CASE Admitting
  <2>1. PICK j \in Jobs, cohort \in Owners, left \in 0 .. ReplyWindow,
             hasToken \in BOOLEAN, outOfHours \in BOOLEAN :
               Admit(j, cohort, hasToken, left, outOfHours)
    BY <1>1 DEF Admitting
  <2> DEFINE row == [NoRow EXCEPT
       !.status = IF outOfHours /\ cohort = "SERVER" THEN "READY" ELSE "QUEUED",
       !.owner = cohort,
       !.expires = now + TTL,
       !.token = hasToken,
       !.replyExp = IF hasToken THEN now + left ELSE NoTime,
       !.push = account.allowPush,
       !.avail = now,
       !.answer = IF outOfHours THEN Fixed ELSE NoAnswer,
       !.epoch = account.epoch]
  <2>2. Write(j, row) /\ job[j].status = "ABSENT"
    BY <2>1 DEF Admit
  <2>3. RowSound(job[j], now) /\ JobsInv
    BY DEF SendInv
  <2>4. job[j].first = NoTime /\ job[j].version = 0 /\ job[j].method = "NONE"
    BY <2>2, <2>3 DEF RowSound
  <2>5. /\ (IF outOfHours /\ cohort = "SERVER" THEN "READY" ELSE "QUEUED") \in Statuses
        /\ now + TTL \in OptTime /\ now \in OptTime
        /\ (IF hasToken THEN now + left ELSE NoTime) \in OptTime
        /\ account.allowPush \in BOOLEAN /\ account.epoch \in Nat
        /\ (IF outOfHours THEN Fixed ELSE NoAnswer) \in Nat \cup {NoAnswer}
    BY <2>3, RowType, JobsAssumption DEF AccountRow, Statuses, Waiting, OptTime, Fixed
  <2>6. row \in JobRow
    BY ZenonT(40), <2>5, NoRowType DEF JobRow
  <2>7. /\ row.status \in {"READY", "QUEUED"} /\ row.first = NoTime /\ row.version = 0
        /\ row.method = "NONE"
    BY DEF NoRow
  <2> HIDE DEF row
  <2> QED
    BY <2>2, <2>4, <2>6, <2>7, UnsentWrite
<1>2. CASE Maintaining
  <2>1. PICK j \in Jobs : ExpireWaiting(j) \/ RequeueClaimed(j)
    BY <1>2 DEF Maintaining
  <2>2. RowSound(job[j], now) /\ job[j] \in JobRow
    BY Typed DEF SendInv
  <2>3. CASE ExpireWaiting(j)
    <3> DEFINE row == [job[j] EXCEPT !.status = "FAILED", !.error = "CODE", !.token = FALSE]
    <3>1. /\ row \in JobRow /\ row.version = job[j].version /\ row.first = job[j].first
          /\ row.method = job[j].method /\ row.status = "FAILED"
      BY ZenonT(40), <2>2 DEF JobRow, Statuses, Errors
    <3>2. Write(j, row) /\ job[j].first = NoTime
      BY <2>3 DEF ExpireWaiting
    <3> HIDE DEF row
    <3> QED
      BY <3>1, <3>2, UnsentWrite
  <2>4. CASE RequeueClaimed(j)
    <3> DEFINE row == Released([job[j] EXCEPT !.status = "QUEUED"])
    <3>1. /\ row \in JobRow /\ row.version = job[j].version /\ row.first = job[j].first
          /\ row.method = job[j].method /\ row.status = "QUEUED"
      BY ZenonT(40), <2>2 DEF JobRow, Statuses, Waiting, OptTime, Released
    <3>2. Write(j, row) /\ job[j].first = NoTime
      BY <2>2, <2>4 DEF RequeueClaimed, RowSound
    <3> HIDE DEF row
    <3> QED
      BY <3>1, <3>2, UnsentWrite
  <2> QED
    BY ZenonT(40), <2>1, <2>3, <2>4
<1>3. CASE Claiming
  <2>1. PICK j \in Jobs, who \in Claimants : ClaimExecution(j, who)
    BY <1>3 DEF Claiming
  <2>2. /\ RowSound(job[j], now) /\ job[j] \in JobRow
        /\ now + Lease \in OptTime /\ "CLAIMED" \in Statuses /\ job[j].exec + 1 \in Nat
    BY Typed, JobsAssumption DEF SendInv, JobRow, OptTime, Statuses, Waiting
  <2> DEFINE row == [job[j] EXCEPT !.status = "CLAIMED", !.claimant = who,
                                   !.exec = @ + 1, !.lease = now + Lease]
  <2>3. /\ row \in JobRow /\ row.version = job[j].version /\ row.first = job[j].first
        /\ row.method = job[j].method /\ row.status = "CLAIMED"
    BY ZenonT(40), <2>2 DEF JobRow
  <2>4. Write(j, row) /\ job[j].first = NoTime
    BY <2>1, <2>2 DEF ClaimExecution, Claimable, RowSound
  <2> HIDE DEF row
  <2> QED
    BY <2>3, <2>4, UnsentWrite
<1> QED
  BY ZenonT(40), <1>1, <1>2, <1>3

\* So do executors: a claim is held of a CLAIMED row.
LEMMA ExecutorAside ==
  ASSUME SendInv, Executing
  PROVE  \A k \in Jobs : Aside(k)
<1>1. PICK c \in claims : Renew(c) \/ CommitAnswer(c) \/ FailExecution(c) \/ LeaveUnknown(c)
  BY DEF Executing
<1> DEFINE j == c.job
<1>2. JobsInv /\ Holds(c)
  BY <1>1 DEF SendInv, Renew, CommitAnswer, FailExecution, LeaveUnknown
<1>3. /\ c \in Claim /\ j \in Jobs /\ job[j] \in JobRow /\ job[j].status = "CLAIMED"
      /\ c.exec = job[j].exec /\ now \in Nat
  BY <1>2, HoldsRow, RowType
<1>4. job[j].first = NoTime
  <2>1. RowSound(job[j], now)
    BY <1>3 DEF SendInv
  <2> QED
    BY <1>3, <2>1 DEF RowSound
<1>. /\ {"READY", "FAILED", "UNKNOWN"} \subseteq Statuses /\ {"NONE", "CODE"} \subseteq Errors
     /\ NoTime \in OptTime /\ now \in OptTime /\ NoAnswer \in Nat \cup {NoAnswer}
  BY <1>3 DEF Statuses, Waiting, Errors, OptTime
<1>5. CASE Renew(c)
  <2> DEFINE lease == Earlier(job[j].expires, now + Lease)
             row == [job[j] EXCEPT !.lease = lease]
  <2>1. Write(j, row)
    BY <1>5 DEF Renew
  <2>2. lease \in OptTime
    BY <1>3, JobsAssumption DEF Earlier, JobRow, OptTime
  <2> HIDE DEF lease
  <2>3. /\ row \in JobRow /\ row.version = job[j].version /\ row.first = job[j].first
        /\ row.method = job[j].method /\ row.status = "CLAIMED"
    BY <1>3, <2>2 DEF JobRow
  <2> HIDE DEF row, j
  <2> QED
    BY <1>3, <1>4, <2>1, <2>3, UnsentWrite
<1>6. CASE CommitAnswer(c)
  <2> DEFINE answer == IF OutOfHoursReply(job[j]) THEN job[j].answer ELSE c.exec
             method == IF ~OutOfHoursReply(job[j]) /\ LeavesByPush(job[j])
                       THEN "PUSH" ELSE job[j].method
             row == Released([job[j] EXCEPT !.status = "READY", !.answer = answer,
                                !.error = "NONE", !.method = method, !.avail = now])
  <2>1. Write(j, row)
    BY <1>6 DEF CommitAnswer
  <2>2. /\ answer \in Nat \cup {NoAnswer} /\ method \in Methods
        /\ method = job[j].method \/ method = "PUSH"
    BY <1>3 DEF JobRow, Methods
  <2> HIDE DEF answer, method
  <2>3. /\ row \in JobRow /\ row.version = job[j].version /\ row.first = job[j].first
        /\ row.method = method /\ row.status = "READY"
    BY ZenonT(40), <1>3, <2>2 DEF JobRow, Released
  <2> HIDE DEF row, j
  <2> QED
    BY <1>3, <1>4, <2>1, <2>2, <2>3, UnsentWrite
<1>7. CASE FailExecution(c) \/ LeaveUnknown(c)
  <2> DEFINE row(status) == Released([job[j] EXCEPT !.status = status,
               !.answer = NoAnswer, !.error = "CODE", !.token = FALSE, !.avail = now])
  <2>1. PICK status \in {"FAILED", "UNKNOWN"} : Write(j, row(status))
    BY <1>7 DEF FailExecution, LeaveUnknown
  <2>2. /\ row(status) \in JobRow /\ row(status).version = job[j].version
        /\ row(status).first = job[j].first /\ row(status).method = job[j].method
        /\ row(status).status = status
    BY ZenonT(40), <1>3 DEF JobRow, Released
  <2> HIDE DEF row, j
  <2> QED
    BY <1>3, <1>4, <2>1, <2>2, UnsentWrite
<1> QED
  BY ZenonT(40), <1>1, <1>5, <1>6, <1>7

\* An account action cancels what waits.
LEMMA AccountAside ==
  ASSUME SendInv, Administering
  PROVE  \A k \in Jobs : Aside(k)
<1>1. CancelWaiting \/ job' = job
  BY DEF Administering, Pause, Disable, Enable, Archive, SetPush, Resume, Configure,
     SwitchOwner, RevokeCredential, Fence
<1>2. CASE job' = job
  BY <1>2 DEF Aside
<1>3. CASE CancelWaiting
  <2>1. ASSUME NEW k \in Jobs PROVE Aside(k)
    <3>1. job'[k] = Cancelled(job[k]) \/ job'[k] = job[k]
      BY <1>3 DEF CancelWaiting
    <3>2. CASE job'[k] = Cancelled(job[k])
      <4>1. job[k] \in JobRow /\ RowSound(job[k], now)
        BY Typed DEF SendInv
      <4>2. /\ job'[k].version = job[k].version + 1 /\ job'[k].first = job[k].first
            /\ job'[k].method = job[k].method /\ job'[k].status = "CANCELLED"
            /\ job[k].version \in Nat
        BY <3>2, <4>1 DEF Cancelled, Released, JobRow
      <4>3. RowSound(job'[k], now)
        BY <4>1, <4>2 DEF RowSound
      <4> QED
        BY <4>2, <4>3 DEF Aside
    <3> QED
      BY <3>1, <3>2 DEF Aside
  <2> QED
    BY ZenonT(40), <2>1
<1> QED
  BY <1>1, <1>2, <1>3

\* Erasure and acknowledgement close a row, and never as FAILED.
LEMMA InterventionAside ==
  ASSUME SendInv, Intervening
  PROVE  \A k \in Jobs : Aside(k)
<1>1. PICK j \in Jobs : Erase(j) \/ Acknowledge(j)
  BY DEF Intervening
<1>2. job[j] \in JobRow /\ RowSound(job[j], now)
  BY Typed DEF SendInv
<1>. /\ {"UNKNOWN", "CANCELLED"} \subseteq Statuses
     /\ {"PDPA_ERASURE", "ACKNOWLEDGED"} \subseteq Errors
     /\ NoTime \in OptTime /\ NoAnswer \in Nat \cup {NoAnswer}
  BY DEF Statuses, Errors, OptTime
<1>3. CASE Erase(j)
  <2> DEFINE status == IF job[j].status \in {"SENDING", "UNKNOWN"}
                       THEN "UNKNOWN" ELSE "CANCELLED"
             row == Released([job[j] EXCEPT !.status = status, !.answer = NoAnswer,
                !.token = FALSE, !.replyExp = NoTime, !.error = "PDPA_ERASURE"])
  <2>1. Write(j, row) /\ status \in {"UNKNOWN", "CANCELLED"}
    BY <1>3 DEF Erase
  <2> HIDE DEF status
  <2>2. /\ row \in JobRow /\ row.version = job[j].version /\ row.first = job[j].first
        /\ row.method = job[j].method /\ row.status = status
    BY ZenonT(40), <1>2, <2>1 DEF JobRow, Released
  <2> HIDE DEF row
  <2>3. RowSound(row, now)
    BY <1>2, <2>1, <2>2 DEF RowSound
  <2> QED
    BY <2>1, <2>2, <2>3, WriteAside
<1>4. CASE Acknowledge(j)
  <2> DEFINE row == [job[j] EXCEPT !.status = "CANCELLED", !.error = "ACKNOWLEDGED"]
  <2>1. Write(j, row)
    BY <1>4 DEF Acknowledge
  <2>2. /\ row \in JobRow /\ row.version = job[j].version /\ row.first = job[j].first
        /\ row.method = job[j].method /\ row.status = "CANCELLED"
    BY ZenonT(40), <1>2 DEF JobRow
  <2> HIDE DEF row
  <2>3. RowSound(row, now)
    BY <1>2, <2>2 DEF RowSound
  <2> QED
    BY <2>1, <2>2, <2>3, WriteAside
<1> QED
  BY ZenonT(40), <1>1, <1>3, <1>4

\* Whatever happens to the job table beside the senders keeps the invariant.
LEMMA TableKeeps ==
  ASSUME SendInv, Beside,
         Admitting \/ Maintaining \/ Claiming \/ Executing \/ Administering \/ Intervening
  PROVE  SendInv'
<1>1. \A k \in Jobs : Aside(k)
  BY ZenonT(40), QueueAside, ExecutorAside, AccountAside, InterventionAside
<1>2. now' = now
  BY ZenonT(40) DEF Admitting, Admit, Maintaining, ExpireWaiting, RequeueClaimed, Claiming,
     ClaimExecution, Executing, Renew, CommitAnswer, FailExecution, LeaveUnknown,
     Administering, Pause, Disable, Enable, Archive, SetPush, Resume, Configure,
     SwitchOwner, RevokeCredential, Fence, AccountStep, Intervening, Erase, Acknowledge
<1>3. JobsInv'
  BY JobsStepHolds DEF JobsNext, SendInv
<1>4. TypeOK'
  BY <1>3 DEF Beside, SendInv, TypeOK, JobsInv
<1> QED
  BY <1>1, <1>2, <1>3, <1>4, AsideKeeps DEF Beside
-----------------------------------------------------------------------------
\* A step that leaves rows and claims alone keeps the table's invariant,
LEMMA RowsStay ==
  ASSUME SendInv, job' = job, claims' = claims, now' \in Nat, account' \in AccountRow
  PROVE  JobsInv'
BY DEF SendInv, JobsInv, JobsTypeOK, ClaimsBehind, Unanswered, AnswerOfLatestExecution,
   ClosedHoldsNoToken

\* and so does a sender's write.
LEMMA SenderWrite ==
  ASSUME SendInv, NEW j \in Jobs, NEW row \in JobRow, Write(j, row),
         now' = now, claims' = claims, account' \in AccountRow,
         row.version = job[j].version, row.exec = job[j].exec,
         row.answer = job[j].answer \/ row.answer = NoAnswer,
         row.status \notin {"ABSENT", "QUEUED", "CLAIMED"},
         row.status \in Terminal => ~row.token
  PROVE  JobsInv'
<1>1. JobsInv /\ now' \in Nat
  BY Typed DEF SendInv
<1>2. row.answer > Fixed => row.answer = row.exec
  BY <1>1 DEF JobsInv, AnswerOfLatestExecution, NoAnswer, Fixed
<1> QED
  BY <1>1, <1>2, RowStep

LEMMA AccountBumped == ASSUME SendInv PROVE [account EXCEPT !.version = @ + 1] \in AccountRow
<1>1. account \in AccountRow
  BY Typed
<1> QED
  BY ZenonT(40), <1>1, AccountMoves

LEMMA IdleType == Idle \in Handler
<1>1. (CHOOSE j \in Jobs : TRUE) \in Jobs
  BY DeliveryAssumption
<1> QED
  BY <1>1, NoRowType DEF Idle, Handler, Stages, Methods, Results

\* The handlers' variable is a function of handlers.
LEMMA OneMoves ==
  ASSUME SendInv, NEW s \in Senders, NEW h \in Handler, snd' = [snd EXCEPT ![s] = h]
  PROVE  /\ snd' \in [Senders -> Handler] /\ snd'[s] = h
         /\ \A t \in Senders \ {s} : snd'[t] = snd[t]
BY DEF SendInv, TypeOK

\* A handler that stops leaves the others where they were.
LEMMA DoneMoves ==
  ASSUME SendInv, NEW s \in Senders, Done(s)
  PROVE  /\ snd' \in [Senders -> Handler] /\ snd'[s] = Idle
         /\ \A t \in Senders : snd'[t] = snd[t] \/ snd'[t] = Idle
BY ZenonT(40), OneMoves, IdleType DEF Done

\* The row a handler finds as it read it is the row it read.
LEMMA FreshRow ==
  ASSUME SendInv, NEW s \in Senders, Fresh(s), snd[s].pc \in {"read", "resolved"}
  PROVE  /\ snd[s].job \in Jobs /\ snd[s].row = job[snd[s].job]
         /\ snd[s].row \in JobRow /\ snd[s].row.status = "READY" /\ snd[s].row.method # "REPLY"
         /\ RowSound(snd[s].row, now)
BY Typed DEF SendInv, HandlerSound, Snapshot, Fresh

\* A handler that stops, with nothing written but the account's fence.
LEMMA QuitKeeps ==
  ASSUME SendInv, NEW s \in Senders, LeaveFenced(s) \/ LoseRow(s) \/ Contended(s) \/ Crash(s)
  PROVE  SendInv'
<1>1. /\ now' = now /\ job' = job /\ claims' = claims /\ wire' = wire /\ line' = line
      /\ crm' = crm /\ early' = early /\ crashes' \in Nat /\ account' \in AccountRow /\ Done(s)
  BY Typed, AccountBumped DEF LeaveFenced, LoseRow, Contended, Crash, SendInv, TypeOK
<1>2. JobsInv'
  BY <1>1, Typed, RowsStay
<1>3. TypeOK'
  BY <1>1, <1>2, DoneMoves DEF SendInv, TypeOK, JobsInv
<1>4. \A j \in Jobs : Aside(j)
  BY <1>1 DEF Aside
<1> QED
  BY <1>1, <1>2, <1>3, <1>4, DoneMoves, AsideKeeps

\* A send that stops before LINE is called closes a row that is no reply yet.
LEMMA StopKeeps ==
  ASSUME SendInv, NEW s \in Senders, NEW status \in {"FAILED", "UNKNOWN"},
         snd[s].pc = "read", Stop(s, status)
  PROVE  SendInv'
<1> DEFINE j == snd[s].job
           row == [job[j] EXCEPT !.status = status, !.error = "CODE", !.token = FALSE]
<1>1. UNCHANGED <<now, account, claims, wire, line, crm, crashes, early>> /\ Done(s)
  BY DEF Stop
<1>2. JobsInv' /\ \A k \in Jobs : Aside(k)
  <2>1. CASE Fresh(s)
    <3>1. /\ j \in Jobs /\ job[j] \in JobRow /\ job[j].method # "REPLY" /\ job[j].status = "READY"
          /\ RowSound(job[j], now)
      BY <2>1, FreshRow
    <3>2. /\ row \in JobRow /\ row.version = job[j].version /\ row.exec = job[j].exec
          /\ row.answer = job[j].answer /\ row.first = job[j].first
          /\ row.method = job[j].method /\ row.status = status /\ ~row.token
      BY ZenonT(40), <3>1 DEF JobRow, Statuses, Errors
    <3>3. Write(j, row)
      BY <2>1 DEF Stop
    <3>4. account' \in AccountRow
      BY <1>1, Typed
    <3> HIDE DEF row, j
    <3>5. RowSound(row, now)
      BY <3>1, <3>2 DEF RowSound
    <3> QED
      BY <1>1, <3>1, <3>2, <3>3, <3>4, <3>5, SenderWrite, WriteAside
  <2>2. CASE ~Fresh(s)
    <3>1. job' = job
      BY <2>2 DEF Stop
    <3> QED
      BY <1>1, <3>1, Typed, RowsStay DEF Aside
  <2> QED
    BY <2>1, <2>2
<1>3. TypeOK'
  BY <1>1, <1>2, DoneMoves DEF SendInv, TypeOK, JobsInv
<1> QED
  BY <1>1, <1>2, <1>3, DoneMoves, AsideKeeps

\* In the claim's transaction the answer is revoked instead.
LEMMA RevokeKeeps ==
  ASSUME SendInv, NEW s \in Senders, RevokeAnswer(s)
  PROVE  SendInv'
<1> DEFINE j == snd[s].job
           row == [job[j] EXCEPT !.status = "CANCELLED", !.answer = NoAnswer,
                                 !.error = "CODE", !.token = FALSE]
<1>1. /\ UNCHANGED <<now, claims, wire, line, crm, crashes, early>> /\ Done(s)
      /\ account' \in AccountRow /\ Write(j, row) /\ Fresh(s) /\ snd[s].pc = "resolved"
  BY AccountBumped DEF RevokeAnswer, Sendworthy
<1>2. /\ j \in Jobs /\ job[j] \in JobRow /\ job[j].method # "REPLY" /\ job[j].status = "READY"
      /\ RowSound(job[j], now)
  BY <1>1, FreshRow
<1>3. /\ row \in JobRow /\ row.version = job[j].version /\ row.exec = job[j].exec
      /\ row.answer = NoAnswer /\ row.first = job[j].first
      /\ row.method = job[j].method /\ row.status = "CANCELLED" /\ ~row.token
  BY ZenonT(40), <1>2 DEF JobRow, Statuses, Errors
<1> HIDE DEF row, j
<1>4. RowSound(row, now)
  BY <1>2, <1>3 DEF RowSound
<1>5. JobsInv' /\ \A k \in Jobs : Aside(k)
  BY <1>1, <1>2, <1>3, <1>4, SenderWrite, WriteAside
<1>6. TypeOK'
  BY <1>1, <1>5, DoneMoves DEF SendInv, TypeOK, JobsInv
<1> QED
  BY <1>1, <1>5, <1>6, DoneMoves, AsideKeeps

\* A row cancelled where it is read, an accepted one recorded, and an expired
\* send lease: no handler moves.
LEMMA SettleKeeps ==
  ASSUME SendInv, NEW j \in Jobs,
         CancelAtSend(j) \/ ReconcileAccepted(j) \/ CloseReply(j) \/ RetryPush(j)
  PROVE  SendInv'
<1>1. /\ UNCHANGED <<now, account, claims, snd, wire, line, crashes, early>>
      /\ crm' \in [Jobs -> Nat \cup {NoAnswer}]
  BY Typed DEF CancelAtSend, ReconcileAccepted, CloseReply, RetryPush, SendInv, TypeOK, JobRow
<1>2. job[j] \in JobRow /\ RowSound(job[j], now) /\ now \in Nat /\ account' \in AccountRow
  BY <1>1, Typed DEF SendInv
<1>3. ASSUME NEW row \in JobRow, Write(j, row), row.version = job[j].version,
             row.exec = job[j].exec, row.answer = job[j].answer \/ row.answer = NoAnswer,
             row.first = job[j].first, row.method = job[j].method,
             \/ job[j].status = "READY" /\ row.status = "CANCELLED"
             \/ job[j].status = "ACCEPTED" /\ row.status = "RECORDED"
             \/ job[j].status = "SENDING" /\ row.status = "UNKNOWN"
             \/ job[j].status = "SENDING" /\ job[j].method = "PUSH" /\ row.status = "READY",
             row.status # "READY" => ~row.token
      PROVE  SendInv'
  <2>1. RowSound(row, now)
    BY <1>2, <1>3 DEF RowSound
  <2>2. JobsInv' /\ \A k \in Jobs : Aside(k)
    BY <1>1, <1>2, <1>3, <2>1, SenderWrite, WriteAside DEF Terminal
  <2>3. TypeOK'
    BY <1>1, <2>2 DEF SendInv, TypeOK, JobsInv
  <2> QED
    BY <1>1, <2>2, <2>3, AsideKeeps
<1>. /\ {"CANCELLED", "RECORDED", "UNKNOWN", "READY"} \subseteq Statuses
     /\ "CODE" \in Errors /\ NoTime \in OptTime /\ now \in OptTime
     /\ NoAnswer \in Nat \cup {NoAnswer}
  BY <1>2 DEF Statuses, Waiting, Errors, OptTime
<1>4. CASE CancelAtSend(j)
  <2> DEFINE answer == IF job[j].owner = "RUNTIME" THEN NoAnswer ELSE job[j].answer
             error == IF job[j].owner = "RUNTIME" THEN "CODE" ELSE job[j].error
             row == [job[j] EXCEPT !.status = "CANCELLED", !.token = FALSE,
                                   !.answer = answer, !.error = error]
  <2>1. Write(j, row) /\ job[j].status = "READY"
    BY <1>4 DEF CancelAtSend
  <2>2. /\ answer \in Nat \cup {NoAnswer} /\ error \in Errors
        /\ answer = job[j].answer \/ answer = NoAnswer
    BY <1>2 DEF JobRow
  <2> HIDE DEF answer, error
  <2>3. /\ row \in JobRow /\ row.version = job[j].version /\ row.exec = job[j].exec
        /\ row.answer = answer /\ row.first = job[j].first /\ row.method = job[j].method
        /\ row.status = "CANCELLED" /\ ~row.token
    BY ZenonT(40), <1>2, <2>2 DEF JobRow
  <2> HIDE DEF row
  <2> QED
    BY <1>3, <2>1, <2>2, <2>3
<1>5. CASE ReconcileAccepted(j)
  <2> DEFINE row == [job[j] EXCEPT !.status = "RECORDED", !.token = FALSE]
  <2>1. Write(j, row) /\ job[j].status = "ACCEPTED"
    BY <1>5 DEF ReconcileAccepted
  <2>2. /\ row \in JobRow /\ row.version = job[j].version /\ row.exec = job[j].exec
        /\ row.answer = job[j].answer /\ row.first = job[j].first /\ row.method = job[j].method
        /\ row.status = "RECORDED" /\ ~row.token
    BY ZenonT(40), <1>2 DEF JobRow
  <2> HIDE DEF row
  <2> QED
    BY <1>3, <2>1, <2>2
<1>6. CASE CloseReply(j)
  <2> DEFINE row == [job[j] EXCEPT !.status = "UNKNOWN", !.error = "CODE", !.token = FALSE]
  <2>1. Write(j, row) /\ job[j].status = "SENDING"
    BY <1>6 DEF CloseReply
  <2>2. /\ row \in JobRow /\ row.version = job[j].version /\ row.exec = job[j].exec
        /\ row.answer = job[j].answer /\ row.first = job[j].first /\ row.method = job[j].method
        /\ row.status = "UNKNOWN" /\ ~row.token
    BY ZenonT(40), <1>2 DEF JobRow
  <2> HIDE DEF row
  <2> QED
    BY <1>3, <2>1, <2>2
<1>7. CASE RetryPush(j)
  <2> DEFINE row == Released([job[j] EXCEPT !.status = "READY", !.avail = now])
  <2>1. Write(j, row) /\ job[j].status = "SENDING" /\ job[j].method = "PUSH"
    BY <1>7 DEF RetryPush
  <2>2. /\ row \in JobRow /\ row.version = job[j].version /\ row.exec = job[j].exec
        /\ row.answer = job[j].answer /\ row.first = job[j].first /\ row.method = job[j].method
        /\ row.status = "READY"
    BY ZenonT(40), <1>2 DEF JobRow, Released
  <2> HIDE DEF row
  <2> QED
    BY <1>3, <2>1, <2>2
<1> QED
  BY <1>4, <1>5, <1>6, <1>7
-----------------------------------------------------------------------------
\* One handler moves while rows, requests and LINE stay.  A reply that will still be
\* called, or is known to be refused, must be unsent.
LEMMA MoveKeeps ==
  ASSUME SendInv, NEW s \in Senders, NEW h \in Handler, snd' = [snd EXCEPT ![s] = h],
         UNCHANGED <<now, account, job, claims, wire, line, crm, crashes>>, early' \in Nat,
         HandlerSound(s)',
         h.pc \in {"calling", "waiting", "answered"} =>
           /\ Post(s) /\ h.job = snd[s].job
           /\ job[h.job].method = "REPLY" /\
              (h.pc = "calling" \/ (h.pc = "answered" /\ h.result \in {"HTTP_400", "PERMANENT"}))
                => Unsent(h.job)
  PROVE  SendInv'
<1>1. /\ snd' \in [Senders -> Handler] /\ snd'[s] = h
      /\ \A t \in Senders \ {s} : snd'[t] = snd[t]
  BY ZenonT(40), OneMoves
<1>2. JobsInv'
  BY Typed, RowsStay
<1>3. TypeOK'
  BY <1>1, <1>2 DEF SendInv, TypeOK, JobsInv
<1>4. \A t \in Senders : HandlerSound(t)'
  <2>1. ASSUME NEW t \in Senders \ {s} PROVE HandlerSound(t)'
    BY SMTT(40), <1>1 DEF SendInv, HandlerSound, Snapshot, Post
  <2> QED
    BY <2>1
<1>5. \A t \in Senders, j \in Jobs : Sending(t, j)' => Sending(t, j)
  <2>1. ASSUME NEW j \in Jobs PROVE Sending(s, j)' => Sending(s, j)
    BY <1>1 DEF Sending, Post
  <2>2. ASSUME NEW t \in Senders \ {s}, NEW j \in Jobs PROVE Sending(t, j)' => Sending(t, j)
    BY <1>1 DEF Sending, Post
  <2> QED
    BY <2>1, <2>2
<1>6. \A j \in Jobs : SingleReply(j)'
  <2>1. SUFFICES ASSUME NEW j \in Jobs, job'[j].method = "REPLY" PROVE SingleReply(j)'
    BY DEF SingleReply
  <2>2. SingleReply(j) /\ job[j].method = "REPLY" /\ (Unsent(j) => Unsent(j)')
    BY <2>1 DEF SendInv, Unsent
  <2>3. ASSUME NEW t \in Senders, Sending(t, j)',
               \/ snd'[t].pc = "calling"
               \/ snd'[t].pc = "answered" /\ snd'[t].result \in {"HTTP_400", "PERMANENT"}
        PROVE  Unsent(j)'
    <3>1. CASE t = s
      <4>1. snd'[s] = h /\ h.job = j /\ h.pc \in {"calling", "waiting", "answered"}
        BY <1>1, <2>3, <3>1 DEF Sending, Post
      <4>2. Unsent(h.job)
        BY <2>2, <2>3, <3>1, <4>1
      <4> QED
        BY <2>2, <4>1, <4>2
    <3>2. CASE t # s
      BY <1>1, <1>5, <2>2, <2>3, <3>2 DEF SingleReply
    <3> QED
      BY <3>1, <3>2
  <2> QED
    BY <1>5, <2>2, <2>3 DEF SingleReply
<1>7. \A j \in Jobs : RowSound(job[j], now)' /\ LineSound(j)'
  BY DEF SendInv, LineSound
<1>8. \A q \in wire' : WireSound(q)'
  BY DEF SendInv, WireSound
<1> QED
  BY <1>2, <1>3, <1>4, <1>6, <1>7, <1>8 DEF SendInv

\* The method a row already has is the one chosen.
LEMMA ChosenMethod ==
  ASSUME NEW row \in JobRow
  PROVE  /\ ChooseMethod(row) \in Methods
         /\ row.method # "NONE" => ChooseMethod(row) = row.method
<1>1. row.method \in Methods /\ row.token \in BOOLEAN /\ row.push \in BOOLEAN
  BY DEF JobRow
<1> QED
  BY <1>1 DEF ChooseMethod, Methods

\* A handler reads a READY row and chooses how to send it.
LEMMA ReadKeeps ==
  ASSUME SendInv, NEW s \in Senders, NEW j \in Jobs, ReadServer(s, j) \/ ReadRuntime(s, j)
  PROVE  SendInv'
<1> DEFINE h == [Idle EXCEPT !.pc = "read", !.job = j, !.row = job[j], !.since = now,
                             !.at = now, !.method = ChooseMethod(job[j])]
<1>1. /\ snd' = [snd EXCEPT ![s] = h] /\ job[j].status = "READY"
      /\ UNCHANGED <<now, account, job, claims, wire, line, crm, crashes>>
      /\ early' \in Nat
  BY DEF ReadServer, ReadRuntime, Asking, Begin, SendInv, TypeOK
<1>2. job[j] \in JobRow /\ now \in Nat /\ RowSound(job[j], now)
  BY Typed DEF SendInv
<1>3. /\ ChooseMethod(job[j]) \in Methods
      /\ job[j].method # "NONE" => ChooseMethod(job[j]) = job[j].method
  BY <1>2, ChosenMethod
<1>4. /\ h \in Handler /\ h.pc = "read" /\ h.job = j /\ h.row = job[j] /\ h.since = now
      /\ h.method = ChooseMethod(job[j])
  <2> HIDE DEF ChooseMethod
  <2> QED
    BY ZenonT(40), <1>2, <1>3, IdleType DEF Handler, Stages, Idle
<1> HIDE DEF h
<1>5. snd'[s] = h
  BY ZenonT(40), <1>1, <1>4, OneMoves
<1>6. Snapshot(s)'
  BY <1>1, <1>2, <1>3, <1>4, <1>5, DeliveryAssumption DEF Snapshot, RowSound, JobRow
<1>7. HandlerSound(s)'
  BY <1>4, <1>5, <1>6 DEF HandlerSound, Post
<1> QED
  BY ZenonT(40), <1>1, <1>4, <1>7, MoveKeeps

\* The account is resolved; a reply that missed its deadline becomes a push.
LEMMA ResolveKeeps ==
  ASSUME SendInv, NEW s \in Senders, Resolve(s)
  PROVE  SendInv'
<1> DEFINE method == IF ReplyMissed(s) THEN "PUSH" ELSE snd[s].method
           h == [snd[s] EXCEPT !.pc = "resolved", !.at = now, !.acct = account.version,
                               !.method = method]
<1>1. /\ snd' = [snd EXCEPT ![s] = h] /\ Sendable(s)
      /\ UNCHANGED <<now, account, job, claims, wire, line, crm, crashes, early>>
      /\ early \in Nat
  BY ZenonT(40) DEF Resolve, SendInv, TypeOK
<1>2. /\ snd[s] \in Handler /\ now \in Nat /\ account.version \in Nat /\ HandlerSound(s)
      /\ snd[s].job \in Jobs /\ snd[s].row \in JobRow
  BY Typed DEF SendInv, AccountRow
<1>3. Snapshot(s) /\ snd[s].method # "NONE" /\ ~WindowClosed(s)
  BY <1>1, <1>2 DEF Sendable, HandlerSound
<1>4. method \in Methods /\ method # "NONE"
      /\ (snd[s].row.method # "NONE" => method = snd[s].row.method)
  BY <1>2, <1>3 DEF Snapshot, ReplyMissed, Handler, Methods, JobRow
<1> HIDE DEF method
<1>5. /\ h \in Handler /\ h.pc = "resolved" /\ h.job = snd[s].job /\ h.row = snd[s].row
      /\ h.since = snd[s].since /\ h.at = now /\ h.method = method
  BY ZenonT(40), <1>2, <1>4 DEF Handler, Stages
<1> HIDE DEF h
<1>6. snd'[s] = h
  BY ZenonT(40), <1>1, <1>5, OneMoves
<1>7. Snapshot(s)'
  BY <1>1, <1>3, <1>4, <1>5, <1>6 DEF Snapshot
<1>8. /\ h.since <= h.at /\ h.at <= now
      /\ h.row.first # NoTime => h.since < h.row.first + RetryWindow
  BY <1>2, <1>3, <1>5, DeliveryAssumption DEF Snapshot, WindowClosed, Handler, JobRow, OptTime, NoTime
<1>9. HandlerSound(s)'
  BY <1>1, <1>4, <1>5, <1>6, <1>7, <1>8 DEF HandlerSound, Post
<1> QED
  BY ZenonT(40), <1>1, <1>5, <1>9, MoveKeeps

\* A reply token that expired behind the claim, and a request nobody answered.
LEMMA NoAnswerKeeps ==
  ASSUME SendInv, NEW s \in Senders, RefuseLate(s) \/ TimeOut(s)
  PROVE  SendInv'
<1> DEFINE h(result) == [snd[s] EXCEPT !.pc = "answered", !.result = result]
<1>1. /\ snd[s] \in Handler /\ snd[s].job \in Jobs /\ HandlerSound(s) /\ early \in Nat
      /\ SingleReply(snd[s].job)
  BY Typed DEF SendInv, TypeOK
<1>2. Post(s) /\ UNCHANGED <<now, account, job, claims, wire, line, crm, crashes, early>>
  BY DEF RefuseLate, TimeOut, Post
<1>3. ASSUME NEW result \in Results, snd' = [snd EXCEPT ![s] = h(result)],
             snd[s].method = "REPLY" => result \in {"UNKNOWN", "PERMANENT"},
             snd[s].method = "REPLY" /\ result = "PERMANENT" => snd[s].pc = "calling"
      PROVE  SendInv'
  <2>1. /\ h(result) \in Handler /\ h(result).pc = "answered" /\ h(result).result = result
        /\ h(result).job = snd[s].job /\ h(result).row = snd[s].row
        /\ h(result).method = snd[s].method
    BY ZenonT(40), <1>1 DEF Handler, Stages
  <2> HIDE DEF h
  <2>2. snd'[s] = h(result)
    BY ZenonT(40), <1>3, <2>1, OneMoves
  <2>3. HandlerSound(s)'
    BY <1>1, <1>2, <1>3, <2>1, <2>2 DEF HandlerSound, Post
  <2>4. job[snd[s].job].method = "REPLY" /\ result \in {"HTTP_400", "PERMANENT"} => Unsent(snd[s].job)
    BY <1>1, <1>2, <1>3 DEF HandlerSound, SingleReply, Sending
  <2> QED
    BY ZenonT(40), <1>1, <1>2, <1>3, <2>1, <2>3, <2>4, MoveKeeps
<1>4. CASE RefuseLate(s)
  <2>1. snd' = [snd EXCEPT ![s] = h("PERMANENT")] /\ snd[s].pc = "calling"
    BY ZenonT(40), <1>4 DEF RefuseLate
  <2> QED
    BY <1>3, <2>1 DEF Results
<1>5. CASE TimeOut(s)
  <2>1. snd' = [snd EXCEPT ![s] = h(Ambiguous(snd[s].method))]
    BY ZenonT(40), <1>5 DEF TimeOut
  <2>2. /\ Ambiguous(snd[s].method) \in Results
        /\ snd[s].method = "REPLY" => Ambiguous(snd[s].method) = "UNKNOWN"
    BY DEF Ambiguous, Results
  <2> QED
    BY ZenonT(40), <1>3, <2>1, <2>2
<1> QED
  BY <1>4, <1>5
-----------------------------------------------------------------------------
\* A handler calls LINE: its request is the only one of a reply, and a push goes out
\* inside the retry window and one pause.
LEMMA CallKeeps ==
  ASSUME SendInv, NEW s \in Senders, CallLine(s)
  PROVE  SendInv'
<1>x. PICK j \in Jobs : j = snd[s].job
  BY Typed
<1>y. PICK q : q = RequestOf(s, now)
  OBVIOUS
<1> DEFINE h == [snd[s] EXCEPT !.pc = "waiting", !.since = now]
<1>1. /\ snd' = [snd EXCEPT ![s] = h] /\ wire' = wire \cup {q} /\ snd[s].pc = "calling"
      /\ UNCHANGED <<now, account, job, claims, line, crm, crashes, early>>
  BY ZenonT(40), <1>y DEF CallLine
<1>2. /\ snd[s] \in Handler /\ now \in Nat /\ j \in Jobs /\ snd[s].row \in JobRow
      /\ job[j] \in JobRow /\ HandlerSound(s) /\ RowSound(job[j], now) /\ SingleReply(j)
      /\ snd[s].row.version \in Nat /\ snd[s].since \in Nat /\ job[j].first \in OptTime
  BY <1>x, Typed DEF SendInv
<1>3. Post(s) /\ Sending(s, j)
  BY <1>1, <1>x DEF Post, Sending
<1>4. /\ job[j].first # NoTime /\ snd[s].method = job[j].method /\ job[j].method # "NONE"
      /\ snd[s].row.version < job[j].version /\ now <= snd[s].since + MaxPause
      /\ snd[s].method = "PUSH" => snd[s].since < job[j].first + RetryWindow
  BY <1>1, <1>2, <1>3, <1>x DEF HandlerSound, RowSound
<1>5. /\ h \in Handler /\ h.pc = "waiting" /\ h.job = j /\ h.row = snd[s].row
      /\ h.method = snd[s].method
  BY ZenonT(40), <1>2, <1>x DEF Handler, Stages
<1>6. q \in Request /\ q.job = j /\ q.method = job[j].method /\ q.at = now
  <2>1. snd[s].row.version + 1 \in Nat /\ snd[s].method \in {"REPLY", "PUSH"}
        /\ snd[s].row.answer \in Nat \cup {NoAnswer}
    BY <1>2, <1>4 DEF JobRow, Methods
  <2> QED
    BY <1>2, <1>4, <2>1, <1>x, <1>y DEF RequestOf, Request
<1> HIDE DEF h
<1>7. /\ snd' \in [Senders -> Handler] /\ snd'[s] = h
      /\ \A t \in Senders \ {s} : snd'[t] = snd[t]
  BY ZenonT(40), <1>1, <1>5, OneMoves
<1>8. JobsInv'
  BY <1>1, Typed, RowsStay
<1>9. TypeOK'
  BY <1>1, <1>6, <1>7, <1>8 DEF SendInv, TypeOK, JobsInv
<1>10. \A t \in Senders : HandlerSound(t)'
  <2>1. HandlerSound(s)'
    BY <1>1, <1>4, <1>5, <1>7, <1>x DEF HandlerSound, Post
  <2>2. ASSUME NEW t \in Senders \ {s} PROVE HandlerSound(t)'
    BY <1>1, <1>7 DEF SendInv, HandlerSound, Snapshot, Post
  <2> QED
    BY <2>1, <2>2
<1>11. \A r \in wire' : WireSound(r)'
  <2>1. WireSound(q)'
    BY <1>1, <1>2, <1>4, <1>6, DeliveryAssumption DEF WireSound, OptTime, NoTime
  <2>2. ASSUME NEW r \in wire PROVE WireSound(r)'
    BY <1>1 DEF SendInv, WireSound
  <2> QED
    BY <1>1, <2>1, <2>2
<1>12. \A k \in Jobs, t \in Senders : Sending(t, k)' => Sending(t, k)
  <2>1. ASSUME NEW k \in Jobs PROVE Sending(s, k)' => Sending(s, k)
    BY <1>3, <1>5, <1>7 DEF Sending, Post
  <2>2. ASSUME NEW k \in Jobs, NEW t \in Senders \ {s} PROVE Sending(t, k)' => Sending(t, k)
    BY <1>7 DEF Sending, Post
  <2> QED
    BY <2>1, <2>2
<1>13. SingleReply(j)'
  <2>1. SUFFICES ASSUME job'[j].method = "REPLY" PROVE SingleReply(j)'
    BY DEF SingleReply
  <2>2. Unsent(j)
    BY <1>1, <1>2, <1>3, <2>1 DEF SingleReply
  <2>3. \A t \in Senders : Sending(t, j) => t = s
    BY <1>1, <1>2, <1>3, <2>1 DEF SingleReply
  <2>4. \A r \in wire' : r.job = j => r = q
    BY <1>1, <2>2 DEF Unsent
  <2>5. job'[j].status # "FAILED" /\ line'[j].seen = 0
    BY <1>1, <1>2, <1>3, <2>1, <2>2 DEF SingleReply, Unsent
  <2>6. \A t \in Senders : Sending(t, j)' => t = s
    BY <1>12, <2>3, <1>2
  <2>7. \A t \in Senders : Sending(t, j)' => snd'[t].pc = "waiting"
    BY <2>6, <1>5, <1>7
  <2> QED
    BY <2>4, <2>5, <2>6, <2>7 DEF SingleReply
<1>14. ASSUME NEW k \in Jobs, k # j PROVE SingleReply(k)'
  <2>1. SingleReply(k) /\ job'[k] = job[k]
    BY <1>1 DEF SendInv
  <2>2. \A r \in wire' : r.job = k => r \in wire
    BY <1>1, <1>6, <1>14
  <2>3. Unsent(k) => Unsent(k)'
    BY <1>1, <2>2 DEF Unsent
  <2>4. \A t \in Senders : Sending(t, k)' => t # s
    BY <1>5, <1>7, <1>14 DEF Sending
  <2> QED
    BY <1>1, <1>7, <1>12, <2>1, <2>2, <2>3, <2>4 DEF SingleReply
<1>15. \A k \in Jobs : RowSound(job[k], now)' /\ LineSound(k)'
  BY <1>1 DEF SendInv, LineSound
<1> QED
  BY <1>8, <1>9, <1>10, <1>11, <1>13, <1>14, <1>15 DEF SendInv
-----------------------------------------------------------------------------
\* The claim of a send opens the window of a first send and keeps that of a retry, so
\* what other handlers, requests and LINE say of the row stays true; a row that
\* chooses a reply has nothing of it under way.
LEMMA ClaimSendKeeps ==
  ASSUME SendInv, NEW s \in Senders, ClaimSend(s)
  PROVE  SendInv'
<1>x. PICK j \in Jobs : j = snd[s].job
  BY Typed
<1>y. PICK first : first = FirstSend(s)
  OBVIOUS
<1> DEFINE h == [snd[s] EXCEPT !.pc = "calling", !.at = 0, !.acct = 0]
           row == [job[j] EXCEPT !.status = "SENDING", !.method = snd[s].method,
                                 !.first = first, !.lease = snd[s].at + SendLease]
<1>1. /\ snd' = [snd EXCEPT ![s] = h] /\ Write(j, row) /\ snd[s].pc = "resolved" /\ Fresh(s)
      /\ UNCHANGED <<now, claims, wire, line, crm, crashes, early>>
      /\ account' \in AccountRow
  BY ZenonT(40), <1>x, <1>y, AccountBumped DEF ClaimSend, Sendworthy
<1>2. /\ snd[s].row = job[j] /\ job[j].status = "READY" /\ job[j].method # "REPLY"
      /\ RowSound(job[j], now) /\ job[j] \in JobRow
  BY <1>1, <1>x, FreshRow
<1>3. /\ snd[s] \in Handler /\ HandlerSound(s) /\ Snapshot(s) /\ now \in Nat
      /\ snd[s].at \in Nat /\ snd[s].since \in Nat /\ job[j].first \in OptTime
      /\ job[j].version \in Nat /\ snd[s].method \in Methods
  BY <1>1, Typed DEF SendInv, HandlerSound, Handler
<1>4. /\ snd[s].method # "NONE" /\ snd[s].since <= snd[s].at /\ snd[s].at <= now
      /\ job[j].first # NoTime => /\ snd[s].since < job[j].first + RetryWindow
                                /\ snd[s].method = job[j].method /\ job[j].method = "PUSH"
                                /\ job[j].first <= now
      /\ now <= snd[s].since + MaxPause
  <2>1. job[j].first # NoTime => job[j].method = "PUSH" /\ job[j].first <= now
    BY <1>2 DEF RowSound, JobRow, Methods
  <2> QED
    BY <1>1, <1>2, <1>3, <2>1 DEF HandlerSound, Snapshot
<1>5. /\ first \in Nat /\ first <= now /\ snd[s].since < first + RetryWindow
      /\ job[j].first # NoTime => first = job[j].first
  BY <1>2, <1>3, <1>4, <1>y, DeliveryAssumption DEF FirstSend, OptTime, NoTime
<1>6. /\ row \in JobRow /\ row.version = job[j].version /\ row.exec = job[j].exec
      /\ row.answer = job[j].answer /\ row.status = "SENDING" /\ row.first = first
      /\ row.method = snd[s].method
  <2>1. /\ snd[s].at + SendLease \in OptTime /\ "SENDING" \in Statuses /\ first \in OptTime
    BY <1>3, <1>5, DeliveryAssumption DEF OptTime, Statuses
  <2> QED
    BY ZenonT(40), <1>2, <1>3, <2>1 DEF JobRow
<1>7. /\ h \in Handler /\ h.pc = "calling" /\ h.job = j /\ h.row = job[j]
      /\ h.since = snd[s].since /\ h.method = snd[s].method
  BY ZenonT(40), <1>2, <1>3, <1>x DEF Handler, Stages
<1> HIDE DEF h, row
<1>8. JobsInv'
  BY <1>1, <1>6, SenderWrite DEF Terminal
<1>9. /\ snd' \in [Senders -> Handler] /\ snd'[s] = h
      /\ \A t \in Senders \ {s} : snd'[t] = snd[t]
  BY ZenonT(40), <1>1, <1>7, OneMoves
<1>10. TypeOK'
  BY <1>1, <1>8, <1>9 DEF SendInv, TypeOK, JobsInv
<1>11. /\ job'[j].version = job[j].version + 1 /\ job'[j].first = first
       /\ job'[j].method = snd[s].method /\ job'[j].status = "SENDING"
       /\ \A k \in Jobs \ {j} : job'[k] = job[k]
  <2>1. job \in [Jobs -> JobRow]
    BY DEF SendInv, JobsInv, JobsTypeOK
  <2>2. job'[j] = [row EXCEPT !.version = row.version + 1] /\ \A k \in Jobs \ {j} : job'[k] = job[k]
    BY <1>1, <1>6, <2>1, WriteRow
  <2> QED
    BY <1>6, <2>2 DEF JobRow
<1>12. \A k \in Jobs : job[k].first # NoTime =>
          job'[k].first = job[k].first /\ job'[k].method = job[k].method
  BY <1>4, <1>5, <1>11
<1>13. \A k \in Jobs : RowSound(job[k], now)'
  <2>1. RowSound(job[j], now)'
    BY <1>1, <1>4, <1>5, <1>11 DEF RowSound, NoTime
  <2> QED
    BY <1>1, <1>11, <2>1 DEF SendInv
<1>14. \A t \in Senders : HandlerSound(t)'
  <2>1. HandlerSound(s)'
    BY <1>1, <1>3, <1>4, <1>5, <1>7, <1>9, <1>11 DEF HandlerSound, Post, NoTime
  <2>2. ASSUME NEW t \in Senders \ {s} PROVE HandlerSound(t)'
    <3>1. /\ HandlerSound(t) /\ snd'[t] = snd[t] /\ snd[t].job \in Jobs
          /\ snd[t].row.version \in Nat
      BY <1>9, Typed DEF SendInv
    <3>2. CASE snd[t].job = j
      BY SMTT(40), <1>1, <1>3, <1>11, <1>12, <3>1, <3>2 DEF HandlerSound, Snapshot, Post
    <3>3. CASE snd[t].job # j
      BY <1>1, <1>11, <3>1, <3>3 DEF HandlerSound, Snapshot, Post
    <3> QED
      BY <3>2, <3>3
  <2> QED
    BY <2>1, <2>2
<1>15. \A q \in wire' : WireSound(q)'
  <2>1. ASSUME NEW q \in wire PROVE WireSound(q)'
    <3>1. WireSound(q) /\ q.job \in Jobs
      BY Typed DEF SendInv
    <3> QED
      BY <1>1, <1>12, <3>1 DEF WireSound
  <2> QED
    BY <1>1, <2>1
<1>16. \A k \in Jobs : LineSound(k)'
  <2>1. LineSound(j)'
    <3>1. LineSound(j) /\ RowSound(job[j], now)
      BY <1>2 DEF SendInv
    <3> QED
      BY <1>1, <1>2, <1>12, <3>1 DEF LineSound
  <2> QED
    BY <1>1, <1>11, <2>1 DEF SendInv, LineSound
<1>17. SingleReply(j)'
  <2>1. SUFFICES ASSUME snd[s].method = "REPLY" PROVE SingleReply(j)'
    BY <1>11 DEF SingleReply
  <2>2. job[j].first = NoTime
    BY <1>4, <2>1
  <2>3. \A t \in Senders : ~Sending(t, j)
    BY <2>2 DEF SendInv, HandlerSound, Sending
  <2>4. line[j].seen = 0
    <3>1. LineSound(j) /\ line[j] \in Accepted
      BY Typed DEF SendInv
    <3> QED
      BY <1>2, <2>2, <3>1 DEF LineSound
  <2>5. \A q \in wire : q.job # j
    BY <2>2 DEF SendInv, WireSound
  <2>6. \A t \in Senders : Sending(t, j)' => t = s
    BY <1>9, <2>3 DEF Sending, Post
  <2>7. Unsent(j)'
    BY <1>1, <2>4, <2>5 DEF Unsent
  <2> QED
    BY <1>1, <1>11, <2>4, <2>5, <2>6, <2>7 DEF SingleReply
<1>18. ASSUME NEW k \in Jobs, k # j PROVE SingleReply(k)'
  <2>1. SingleReply(k) /\ job'[k] = job[k] /\ (Unsent(k) => Unsent(k)')
    BY <1>1, <1>11, <1>18 DEF SendInv, Unsent
  <2>2. \A t \in Senders : Sending(t, k)' => t # s
    BY <1>7, <1>9, <1>18 DEF Sending
  <2>3. \A t \in Senders : Sending(t, k)' => Sending(t, k) /\ snd'[t] = snd[t]
    BY <1>9, <2>2 DEF Sending, Post
  <2>4. \A t \in Senders : ~Sending(t, k) => ~Sending(t, k)'
    BY <2>3
  <2> QED
    BY <1>1, <2>1, <2>3, <2>4 DEF SingleReply
<1> QED
  BY <1>8, <1>10, <1>13, <1>14, <1>15, <1>16, <1>17, <1>18 DEF SendInv
-----------------------------------------------------------------------------
\* What the outcome of a send may be.
LEMMA OutcomeIs ==
  ASSUME SendInv, NEW s \in Senders, snd[s].pc = "answered"
  PROVE  /\ Outcome(s) \in {"ACCEPTED", "UNKNOWN", "READY", "FAILED"}
         /\ Outcome(s) = "READY" => FallsBack(s) \/ snd[s].method = "PUSH"
         /\ Outcome(s) = "FAILED" /\ snd[s].method = "REPLY" =>
              snd[s].result \in {"HTTP_400", "PERMANENT"}
<1>1. snd[s] \in Handler /\ HandlerSound(s)
  BY Typed DEF SendInv
<1>2. /\ snd[s].method = "REPLY" => snd[s].result \in {"ACCEPTED", "UNKNOWN", "HTTP_400", "PERMANENT"}
      /\ snd[s].method \in Methods /\ snd[s].result \in Results /\ snd[s].row.push \in BOOLEAN
  BY <1>1, snd[s].pc = "answered" DEF HandlerSound, Handler, JobRow
<1>3. CASE snd[s].result = "ACCEPTED"
  BY <1>3 DEF Outcome, FallsBack
<1>4. CASE snd[s].result = "UNKNOWN"
  BY <1>4 DEF Outcome, FallsBack
<1>5. CASE snd[s].result = "RETRYABLE"
  BY <1>2, <1>5 DEF Outcome, FallsBack
<1>6. CASE snd[s].result = "HTTP_400"
  BY <1>2, <1>6 DEF Outcome, FallsBack
<1>7. CASE snd[s].result \in {"NONE", "PERMANENT"}
  BY <1>2, <1>7 DEF Outcome, FallsBack
<1> QED
  BY <1>2, <1>3, <1>4, <1>5, <1>6, <1>7 DEF Results

\* A refused reply falls back to push: it was in one place, and is in none now.
LEMMA FallbackKeeps ==
  ASSUME SendInv, JobsInv', TypeOK', NEW s \in Senders, snd[s].pc = "answered", OwnsSend(s),
         FallsBack(s), Done(s), UNCHANGED <<now, wire, line>>,
         NEW j \in Jobs, j = snd[s].job,
         job[j].version < job'[j].version, job'[j].first = job[j].first,
         job'[j].method = "PUSH", job'[j].status = "READY",
         \A k \in Jobs \ {j} : job'[k] = job[k]
  PROVE  SendInv'
<1>1. /\ HandlerSound(s) /\ RowSound(job[j], now) /\ SingleReply(j) /\ LineSound(j)
      /\ line[j] \in Accepted /\ Sending(s, j)
  BY Typed DEF SendInv, Sending, Post
<1>2. job[j].method = "REPLY" /\ job[j].first # NoTime /\ job[j].first <= now
  BY <1>1 DEF HandlerSound, Sending, FallsBack, RowSound
<1>3. Unsent(j) /\ \A t \in Senders : Sending(t, j) => t = s
  BY <1>1, <1>2 DEF SingleReply, FallsBack
<1>4. ~line[j].replied /\ line[j].pushAt = NoTime
  BY SMTT(40), <1>1, <1>3 DEF LineSound, Unsent, Accepted
<1>5. RowSound(job[j], now)' /\ LineSound(j)' /\ SingleReply(j)'
  <2>1. RowSound(job[j], now)'
    BY <1>2 DEF RowSound
  <2>2. LineSound(j)'
    BY <1>1, <1>4 DEF LineSound
  <2>3. SingleReply(j)'
    BY DEF SingleReply
  <2> QED
    BY <2>1, <2>2, <2>3
<1>6. \A t \in Senders : snd'[t] = snd[t] \/ snd'[t] = Idle
  BY DoneMoves
<1>7. ASSUME NEW k \in Jobs \ {j} PROVE RowSound(job[k], now)' /\ LineSound(k)' /\ SingleReply(k)'
  <2>1. Aside(k) /\ k \in Jobs
    BY DEF Aside
  <2> QED
    BY <1>6, <2>1, AsideRow, AsideLine, AsideSingle
<1>8. ASSUME NEW t \in Senders PROVE HandlerSound(t)'
  <2>1. CASE snd'[t] = Idle
    BY <2>1, IdleIsSound
  <2>2. CASE snd'[t] = snd[t] /\ snd[t].job # j
    <3>1. Aside(snd[t].job)
      BY <2>2, Typed DEF Aside
    <3> QED
      BY <2>2, <3>1, AsideHandler
  <2>3. CASE snd'[t] = snd[t] /\ snd[t].job = j
    <3>1. CASE t = s
      BY <3>1, DoneMoves, IdleIsSound
    <3>2. CASE t # s
      <4>1. ~Post(t) /\ HandlerSound(t) /\ snd[t].row.version \in Nat
            /\ job[j].version \in Nat /\ job'[j].version \in Nat
        BY <1>3, <2>3, <3>2, Typed DEF Sending, SendInv, JobsInv, JobsTypeOK, JobRow
      <4> QED
        BY <2>3, <4>1 DEF HandlerSound, Snapshot, Post
    <3> QED
      BY <3>1, <3>2
  <2> QED
    BY <1>6, <2>1, <2>2, <2>3
<1>9. ASSUME NEW q \in wire PROVE WireSound(q)'
  <2>1. q.job # j /\ q.job \in Jobs /\ WireSound(q)
    BY <1>3, Typed DEF Unsent, SendInv
  <2> QED
    BY <2>1 DEF WireSound
<1> QED
  BY <1>5, <1>7, <1>8, <1>9 DEF SendInv

\* The outcome of a send is written by the handler that still owns it.
LEMMA RecordKeeps ==
  ASSUME SendInv, NEW s \in Senders, RecordResult(s)
  PROVE  SendInv'
<1>x. PICK j \in Jobs : j = snd[s].job
  BY Typed
<1>1. /\ UNCHANGED <<now, account, claims, wire, line, crm, crashes, early>> /\ Done(s)
      /\ snd[s].pc = "answered" /\ account' \in AccountRow /\ now \in Nat
  BY ZenonT(40), Typed DEF RecordResult
<1>2. CASE ~OwnsSend(s)
  <2>1. job' = job
    BY <1>2 DEF RecordResult
  <2>2. JobsInv' /\ \A k \in Jobs : Aside(k)
    BY <1>1, <2>1, RowsStay DEF Aside
  <2>3. TypeOK'
    BY <1>1, <2>2, DoneMoves DEF SendInv, TypeOK, JobsInv
  <2> QED
    BY <1>1, <2>2, <2>3, DoneMoves, AsideKeeps
<1>3. CASE OwnsSend(s)
  <2>1. PICK delay \in 1 .. Backoff :
          Write(j, Released([job[j] EXCEPT
            !.status = Outcome(s),
            !.error = IF snd[s].result = "ACCEPTED" THEN "NONE" ELSE "CODE",
            !.token = FALSE,
            !.method = IF FallsBack(s) THEN "PUSH" ELSE @,
            !.avail = now + delay]))
    BY ZenonT(40), <1>3, <1>x DEF RecordResult
  <2>2. PICK status, error, method :
          /\ status = Outcome(s)
          /\ error = IF snd[s].result = "ACCEPTED" THEN "NONE" ELSE "CODE"
          /\ method = IF FallsBack(s) THEN "PUSH" ELSE job[j].method
    OBVIOUS
  <2> DEFINE row == Released([job[j] EXCEPT !.status = status, !.error = error, !.token = FALSE,
                               !.method = method, !.avail = now + delay])
  <2>3. Write(j, row)
    BY <2>1, <2>2
  <2>4. /\ job[j] \in JobRow /\ job[j].status = "SENDING" /\ RowSound(job[j], now)
        /\ HandlerSound(s) /\ Sending(s, j) /\ SingleReply(j) /\ snd[s].method = job[j].method
    BY <1>1, <1>3, <1>x, Typed DEF SendInv, OwnsSend, Sending, Post, HandlerSound
  <2>5. /\ status \in {"ACCEPTED", "UNKNOWN", "READY", "FAILED"}
        /\ status \in Statuses /\ error \in Errors
        /\ method \in Methods /\ now + delay \in OptTime
        /\ NoTime \in OptTime
    BY <1>1, <2>2, <2>4, OutcomeIs, DeliveryAssumption
       DEF Statuses, Waiting, Errors, Methods, OptTime, JobRow
  <2>6. /\ row \in JobRow /\ row.version = job[j].version /\ row.exec = job[j].exec
        /\ row.answer = job[j].answer /\ row.first = job[j].first /\ row.method = method
        /\ row.status = status /\ ~row.token
    BY ZenonT(40), <2>4, <2>5 DEF JobRow, Released
  <2> HIDE DEF row
  <2>7. JobsInv'
    BY <1>1, <2>3, <2>5, <2>6, SenderWrite
  <2>8. TypeOK'
    BY <1>1, <2>7, DoneMoves DEF SendInv, TypeOK, JobsInv
  <2>9. CASE FallsBack(s)
    <3>1. job \in [Jobs -> JobRow] /\ snd[s].result = "HTTP_400"
      BY <2>9 DEF SendInv, JobsInv, JobsTypeOK, FallsBack
    <3>2. /\ job'[j] = [row EXCEPT !.version = row.version + 1]
          /\ \A k \in Jobs \ {j} : job'[k] = job[k]
      BY <2>3, <2>6, <3>1, WriteRow
    <3>3. status = "READY" /\ method = "PUSH"
      BY <2>2, <2>9, <3>1 DEF Outcome
    <3>4. /\ job[j].version < job'[j].version /\ job'[j].first = job[j].first
          /\ job'[j].method = "PUSH" /\ job'[j].status = "READY"
      BY <2>6, <3>2, <3>3 DEF JobRow
    <3> QED
      BY ZenonT(40), <1>1, <1>3, <1>x, <2>7, <2>8, <2>9, <3>2, <3>4, FallbackKeeps
  <2>10. CASE ~FallsBack(s)
    <3>1. method = job[j].method
      BY <2>2, <2>10
    <3>2. RowSound(row, now)
      <4>1. status = "READY" => job[j].method = "PUSH"
        BY ZenonT(40), <1>1, <2>2, <2>4, <2>10, OutcomeIs
      <4> QED
        BY <2>4, <2>5, <2>6, <3>1, <4>1 DEF RowSound
    <3>3. row.method = "REPLY" /\ row.status = "FAILED" =>
            Unsent(j) /\ \A t \in Senders : Sending(t, j) => snd'[t] = Idle
      <4>1. SUFFICES ASSUME row.method = "REPLY", row.status = "FAILED"
                     PROVE  Unsent(j) /\ \A t \in Senders : Sending(t, j) => snd'[t] = Idle
        OBVIOUS
      <4>2. snd[s].result \in {"HTTP_400", "PERMANENT"} /\ job[j].method = "REPLY"
        BY ZenonT(40), <1>1, <2>2, <2>4, <2>6, <3>1, <4>1, OutcomeIs
      <4>3. Unsent(j) /\ \A t \in Senders : Sending(t, j) => t = s
        BY <1>1, <2>4, <4>2 DEF SingleReply
      <4> QED
        BY <1>1, <4>3, DoneMoves
    <3>4. \A k \in Jobs : Aside(k)
      BY <2>3, <2>5, <2>6, <3>1, <3>2, <3>3, WriteAside
    <3> QED
      BY <1>1, <2>7, <2>8, <3>4, DoneMoves, AsideKeeps
  <2> QED
    BY <2>9, <2>10
<1> QED
  BY <1>2, <1>3
-----------------------------------------------------------------------------
\* LINE's answer reaches only handlers that wait for this very request.
LEMMA RespondMoves ==
  ASSUME SendInv, NEW q \in wire, NEW result \in Results, Respond(q, result)
  PROVE  /\ snd' \in [Senders -> Handler]
         /\ \A s \in Senders :
              \/ snd'[s] = snd[s]
              \/ /\ snd[s].pc = "waiting" /\ snd[s].job = q.job /\ snd[s].method = q.method
                 /\ snd'[s].pc = "answered" /\ snd'[s].result = result
                 /\ snd'[s].job = snd[s].job /\ snd'[s].row = snd[s].row
                 /\ snd'[s].method = snd[s].method
<1>1. ASSUME NEW s \in Senders
      PROVE  /\ snd'[s] \in Handler
             /\ \/ snd'[s] = snd[s]
                \/ /\ snd[s].pc = "waiting" /\ snd[s].job = q.job /\ snd[s].method = q.method
                   /\ snd'[s].pc = "answered" /\ snd'[s].result = result
                   /\ snd'[s].job = snd[s].job /\ snd'[s].row = snd[s].row
                   /\ snd'[s].method = snd[s].method
  <2>1. snd[s] \in Handler
    BY Typed
  <2>2. CASE snd[s].pc = "waiting" /\ RequestOf(s, snd[s].since) = q
    <3>1. snd'[s] = [snd[s] EXCEPT !.pc = "answered", !.result = result]
      BY ZenonT(40), <2>2 DEF Respond
    <3>2. snd[s].job = q.job /\ snd[s].method = q.method
      BY <2>2 DEF RequestOf
    <3> QED
      BY ZenonT(40), <2>1, <2>2, <3>1, <3>2 DEF Handler, Stages
  <2>3. CASE ~(snd[s].pc = "waiting" /\ RequestOf(s, snd[s].since) = q)
    BY ZenonT(40), <2>1, <2>3 DEF Respond
  <2> QED
    BY <2>2, <2>3
<1>2. snd' = [s \in Senders |-> snd'[s]]
  BY ZenonT(40) DEF Respond
<1> QED
  BY <1>1, <1>2

\* An accepted request was the first to be: a reply is in this one place, and a push
\* arrives while the key of an earlier one would still be honoured.
LEMMA AcceptedOnce ==
  ASSUME SendInv, NEW q \in wire, ~Spent(q)
  PROVE  ~line[q.job].replied /\ line[q.job].pushAt = NoTime /\ line[q.job].seen = 0
<1>1. /\ q \in Request /\ q.job \in Jobs /\ q.at \in Nat /\ line[q.job] \in Accepted
      /\ job[q.job].first \in OptTime /\ now \in Nat
      /\ WireSound(q) /\ LineSound(q.job)
  BY Typed DEF SendInv
<1>2. CASE q.method = "REPLY"
  BY <1>1, <1>2 DEF WireSound, LineSound, Spent, Accepted
<1>3. CASE q.method = "PUSH"
  <2>1. ~KeyLive(q)
    BY <1>3 DEF Spent
  <2>2. ~line[q.job].replied
    BY <1>1, <1>3 DEF LineSound, WireSound
  <2>3. line[q.job].pushAt = NoTime
    <3>1. SUFFICES ASSUME line[q.job].pushAt # NoTime PROVE FALSE
      OBVIOUS
    <3>2. /\ job[q.job].first \in Nat /\ line[q.job].pushAt \in Nat
          /\ job[q.job].first <= line[q.job].pushAt
      BY <1>1, <3>1 DEF LineSound, Accepted, OptTime
    <3>3. now <= q.at + WireLife /\ q.at < job[q.job].first + RetryWindow + MaxPause
      BY <1>1, <1>3 DEF WireSound
    <3>4. now >= line[q.job].pushAt + KeyLife
      BY <1>1, <2>1, <3>1, <3>2, DeliveryAssumption DEF KeyLive
    <3> QED
      BY <1>1, <3>2, <3>3, <3>4, DeliveryAssumption
  <2> QED
    BY <1>1, <2>2, <2>3 DEF LineSound
<1> QED
  BY <1>1, <1>2, <1>3 DEF Request

\* LINE accepts or declines a request: one lemma of what the answer may not say.
LEMMA ReceiveKeeps ==
  ASSUME SendInv, NEW q \in wire, NEW result \in Results, Respond(q, result),
         UNCHANGED <<now, account, job, claims, crm, crashes, early>>, wire' = wire \ {q},
         line' \in [Jobs -> Accepted], \A j \in Jobs \ {q.job} : line'[j] = line[j],
         LineSound(q.job)',
         q.method = "REPLY" =>
           \/ result \in {"ACCEPTED", "UNKNOWN"}
           \/ result \in {"HTTP_400", "PERMANENT"} /\ line' = line
  PROVE  SendInv'
<1>x. PICK j \in Jobs : j = q.job
  BY Typed
<1>y. /\ snd' \in [Senders -> Handler]
      /\ \A s \in Senders :
           \/ snd'[s] = snd[s]
           \/ /\ snd[s].pc = "waiting" /\ snd[s].job = q.job /\ snd[s].method = q.method
              /\ snd'[s].pc = "answered" /\ snd'[s].result = result
              /\ snd'[s].job = snd[s].job /\ snd'[s].row = snd[s].row
              /\ snd'[s].method = snd[s].method
  BY RespondMoves
<1>1. JobsInv'
  BY Typed, RowsStay
<1>2. TypeOK'
  BY <1>1, <1>y DEF SendInv, TypeOK, JobsInv
<1>3. WireSound(q) /\ LineSound(j) /\ SingleReply(j)
  BY <1>x DEF SendInv
<1>4. ASSUME NEW s \in Senders PROVE HandlerSound(s)'
  <2>1. HandlerSound(s) /\ snd[s] \in Handler
    BY Typed DEF SendInv
  <2>2. CASE snd'[s] = snd[s]
    BY <2>1, <2>2 DEF HandlerSound, Snapshot, Post
  <2>3. CASE snd'[s] # snd[s]
    <3>1. /\ snd[s].pc = "waiting" /\ snd[s].method = q.method
          /\ snd'[s].pc = "answered" /\ snd'[s].result = result
          /\ snd'[s].job = snd[s].job /\ snd'[s].row = snd[s].row
          /\ snd'[s].method = snd[s].method
      BY <2>3, <1>y
    <3> QED
      BY <2>1, <3>1 DEF HandlerSound, Post
  <2> QED
    BY <2>2, <2>3
<1>5. \A r \in wire' : WireSound(r)'
  BY DEF SendInv, WireSound
<1>6. ASSUME NEW k \in Jobs PROVE RowSound(job[k], now)' /\ LineSound(k)'
  BY <1>6 DEF SendInv, LineSound
<1>7. ASSUME NEW k \in Jobs, NEW s \in Senders PROVE Sending(s, k)' <=> Sending(s, k)
  BY <1>y DEF Sending, Post
<1>8. ASSUME NEW k \in Jobs, k # j PROVE SingleReply(k)'
  <2>1. SingleReply(k) /\ line'[k] = line[k] /\ (Unsent(k) => Unsent(k)')
    BY <1>x, <1>8 DEF SendInv, Unsent
  <2>2. \A s \in Senders : Sending(s, k)' => snd'[s] = snd[s]
    BY <1>x, <1>y, <1>8 DEF Sending
  <2> QED
    BY <1>7, <2>1, <2>2 DEF SingleReply
<1>9. SingleReply(j)'
  <2>1. SUFFICES ASSUME job[j].method = "REPLY" PROVE SingleReply(j)'
    BY DEF SingleReply
  <2>2. /\ \A r \in wire' : r.job # j
        /\ line[j].seen = 0 /\ ~Unsent(j) /\ job[j].status # "FAILED" /\ q.method = "REPLY"
    BY <1>3, <1>x, <2>1 DEF SingleReply, Unsent, WireSound
  <2>3. ASSUME NEW s \in Senders, Sending(s, j)',
               \/ snd'[s].pc = "calling"
               \/ snd'[s].pc = "answered" /\ snd'[s].result \in {"HTTP_400", "PERMANENT"}
        PROVE  Unsent(j)'
    <3>1. Sending(s, j)
      BY <1>7, <2>3
    <3>2. snd'[s] # snd[s]
      BY <1>3, <2>1, <2>2, <2>3, <3>1 DEF SingleReply
    <3>3. snd'[s].pc = "answered" /\ snd'[s].result = result
      BY <3>2, <1>y
    <3>4. line' = line
      BY <2>2, <2>3, <3>3
    <3> QED
      BY <2>2, <3>4 DEF Unsent
  <2> QED
    BY <1>3, <1>7, <2>1, <2>2, <2>3 DEF SingleReply
<1> QED
  BY <1>1, <1>2, <1>4, <1>5, <1>6, <1>8, <1>9 DEF SendInv

\* LINE shows the message, once.
LEMMA AcceptKeeps ==
  ASSUME SendInv, NEW q \in wire, LineReceives(q), LineAccepts(q)
  PROVE  SendInv'
<1>x. PICK j \in Jobs : j = q.job
  BY Typed
<1>1. PICK result \in {"ACCEPTED", Ambiguous(q.method)} : Respond(q, result)
  BY DEF LineAccepts
<1>2. /\ q \in Request /\ WireSound(q) /\ RowSound(job[j], now) /\ now \in Nat
      /\ line \in [Jobs -> Accepted] /\ line[j] \in Accepted
  BY <1>x, Typed DEF SendInv, TypeOK
<1>3. ~line[j].replied /\ line[j].pushAt = NoTime /\ line[j].seen = 0
  BY <1>x, AcceptedOnce DEF LineAccepts
<1>4. result \in Results /\ (q.method = "REPLY" => result \in {"ACCEPTED", "UNKNOWN"})
  BY <1>1 DEF Ambiguous, Results
<1>5. PICK l : l = [replied |-> line[j].replied \/ q.method = "REPLY",
                    pushAt |-> IF q.method = "PUSH" THEN now ELSE line[j].pushAt,
                    seen |-> line[j].seen + 1, text |-> q.text]
  OBVIOUS
<1>6. line' = [line EXCEPT ![j] = l]
  BY <1>x, <1>5 DEF LineAccepts
<1>7. /\ l.replied = (q.method = "REPLY") /\ l.seen = 1
      /\ l.pushAt = (IF q.method = "PUSH" THEN now ELSE NoTime)
      /\ l \in Accepted
  <2>1. /\ (line[j].replied \/ q.method = "REPLY") \in BOOLEAN
        /\ (IF q.method = "PUSH" THEN now ELSE line[j].pushAt) \in OptTime
        /\ line[j].seen + 1 \in Nat /\ q.text \in Nat \cup {NoAnswer}
    BY <1>2, <1>3 DEF Request, Accepted, OptTime
  <2>2. l \in Accepted
    BY <1>5, <2>1 DEF Accepted
  <2> QED
    BY <1>3, <1>5, <2>2
<1>8. line' \in [Jobs -> Accepted] /\ line'[j] = l /\ \A k \in Jobs \ {j} : line'[k] = line[k]
  BY <1>2, <1>6, <1>7
<1>9. LineSound(j)'
  <2>1. job'[j] = job[j]
    BY DEF LineReceives
  <2>2. job[j].method = q.method /\ job[j].first # NoTime /\ job[j].first <= now
    BY <1>2, <1>x DEF WireSound, RowSound
  <2>3. q.method \in {"REPLY", "PUSH"} /\ now # NoTime
    BY <1>2 DEF Request, NoTime
  <2> QED
    BY ZenonT(40), <1>7, <1>8, <2>1, <2>2, <2>3 DEF LineSound
<1> QED
  BY <1>1, <1>4, <1>8, <1>9, <1>x, ReceiveKeeps DEF LineReceives

\* LINE shows nothing, whatever it answers.
LEMMA DeclineKeeps ==
  ASSUME SendInv, NEW q \in wire, LineReceives(q), LineDeclines(q)
  PROVE  SendInv'
<1>1. PICK result \in {"HTTP_400", "PERMANENT", "ACCEPTED", Ambiguous(q.method)} :
         Respond(q, result)
  BY DEF LineDeclines
<1>2. result \in Results /\ (q.method = "REPLY" =>
         result \in {"HTTP_400", "PERMANENT", "ACCEPTED", "UNKNOWN"})
  BY <1>1 DEF Ambiguous, Results
<1>3. line' = line /\ UNCHANGED <<now, account, job, claims, crm, crashes, early>> /\ wire' = wire \ {q}
  BY DEF LineDeclines, LineReceives
<1>4. LineSound(q.job)' /\ line \in [Jobs -> Accepted]
  BY <1>3, Typed DEF SendInv, TypeOK, LineSound
<1> QED
  BY <1>1, <1>2, <1>3, <1>4, ReceiveKeeps

\* A request is lost.
LEMMA LoseKeeps ==
  ASSUME SendInv, NEW q \in wire, Lose(q)
  PROVE  SendInv'
<1>1. wire' = wire \ {q} /\ UNCHANGED <<now, account, job, claims, snd, line, crm, crashes, early>>
  BY DEF Lose
<1>2. JobsInv'
  BY <1>1, Typed, RowsStay
<1>3. TypeOK'
  BY <1>1, <1>2 DEF SendInv, TypeOK, JobsInv
<1>4. ASSUME NEW j \in Jobs PROVE SingleReply(j)'
  <2>1. SingleReply(j) /\ (Unsent(j) => Unsent(j)')
    BY <1>1 DEF SendInv, Unsent
  <2>2. \A s \in Senders : Sending(s, j)' <=> Sending(s, j)
    BY <1>1 DEF Sending, Post
  <2> QED
    BY <1>1, <2>1, <2>2 DEF SingleReply
<1>5. ASSUME NEW j \in Jobs PROVE RowSound(job[j], now)' /\ LineSound(j)'
  BY <1>1 DEF SendInv, LineSound
<1>6. ASSUME NEW s \in Senders PROVE HandlerSound(s)'
  BY <1>1 DEF SendInv, HandlerSound, Snapshot, Post
<1>7. \A r \in wire' : WireSound(r)'
  BY <1>1 DEF SendInv, WireSound
<1> QED
  BY <1>2, <1>3, <1>4, <1>5, <1>6, <1>7 DEF SendInv

\* Time passes no handler's pause and no request's life.
LEMMA AdvanceKeeps ==
  ASSUME SendInv, Advance
  PROVE  SendInv'
<1>1. /\ now' = now + 1 /\ now \in Nat /\ Punctual
      /\ UNCHANGED <<account, job, claims, snd, wire, line, crm, crashes, early>>
  BY Typed DEF Advance, Tick, Beside
<1>2. JobsInv'
  BY <1>1, Typed, RowsStay
<1>3. TypeOK'
  BY <1>1, <1>2 DEF SendInv, TypeOK, JobsInv
<1>4. ASSUME NEW j \in Jobs PROVE SingleReply(j)' /\ LineSound(j)' /\ RowSound(job[j], now)'
  <2>1. SingleReply(j) /\ LineSound(j) /\ RowSound(job[j], now) /\ job[j].first \in OptTime
    BY Typed DEF SendInv
  <2>2. SingleReply(j)'
    <3>1. Unsent(j)' <=> Unsent(j)
      BY <1>1 DEF Unsent
    <3>2. \A s \in Senders : Sending(s, j)' <=> Sending(s, j)
      BY <1>1 DEF Sending, Post
    <3> QED
      BY <1>1, <2>1, <3>1, <3>2 DEF SingleReply
  <2>3. LineSound(j)'
    BY <1>1, <2>1 DEF LineSound
  <2>4. RowSound(job[j], now)'
    BY <1>1, <2>1 DEF RowSound, OptTime, NoTime
  <2> QED
    BY <2>2, <2>3, <2>4
<1>5. ASSUME NEW s \in Senders PROVE HandlerSound(s)'
  <2>1. HandlerSound(s) /\ snd[s].since \in Nat /\ snd[s].at \in Nat
    BY Typed DEF SendInv
  <2>2. snd[s].pc \in {"read", "resolved", "calling"} => now < snd[s].since + MaxPause
    BY <1>1 DEF Punctual
  <2>3. snd[s].pc \in {"read", "resolved"} => Snapshot(s)'
    BY <1>1, <2>1, <2>2, DeliveryAssumption DEF HandlerSound, Snapshot
  <2> QED
    BY <1>1, <2>1, <2>2, <2>3, DeliveryAssumption DEF HandlerSound, Post
<1>6. ASSUME NEW q \in wire PROVE WireSound(q)'
  <2>1. WireSound(q) /\ q.at \in Nat /\ now < q.at + WireLife
    BY <1>1, Typed DEF SendInv, Punctual
  <2> QED
    BY <1>1, <2>1, DeliveryAssumption DEF WireSound
<1> QED
  BY <1>1, <1>2, <1>3, <1>4, <1>5, <1>6 DEF SendInv
-----------------------------------------------------------------------------
LEMMA SendInitHolds == Init => SendInv
<1> SUFFICES ASSUME Init PROVE SendInv
  OBVIOUS
<1>2. JobsInv
  BY JobsInitHolds DEF Init
<1>3. /\ now = 0 /\ job = [j \in Jobs |-> NoRow] /\ wire = {} /\ crashes = 0 /\ early = 0
      /\ snd = [s \in Senders |-> Idle] /\ crm = [j \in Jobs |-> NoAnswer]
      /\ line = [j \in Jobs |-> [replied |-> FALSE, pushAt |-> NoTime, seen |-> 0,
                                 text |-> NoAnswer]]
  BY DEF Init, JobsInit
<1>4. TypeOK
  <2>1. snd \in [Senders -> Handler]
    BY <1>3, IdleType
  <2>2. line \in [Jobs -> Accepted]
    BY <1>3 DEF Accepted, OptTime
  <2> QED
    BY ZenonT(40), <1>2, <1>3, <2>1, <2>2 DEF TypeOK, JobsInv
<1>5. ASSUME NEW j \in Jobs PROVE RowSound(job[j], now) /\ LineSound(j) /\ SingleReply(j)
  <2>1. /\ job[j].status = "ABSENT" /\ job[j].first = NoTime /\ job[j].method = "NONE"
        /\ job[j].version = 0
    BY <1>3 DEF NoRow
  <2>2. ~line[j].replied /\ line[j].pushAt = NoTime /\ line[j].seen = 0
    BY <1>3
  <2> QED
    BY <2>1, <2>2 DEF RowSound, LineSound, SingleReply
<1>6. ASSUME NEW s \in Senders PROVE HandlerSound(s)
  BY <1>3 DEF HandlerSound, Post, Idle
<1> QED
  BY <1>2, <1>3, <1>4, <1>5, <1>6 DEF SendInv

\* Every step of senders, LINE, the table and the clock preserves the invariant.
LEMMA SendStepHolds ==
  ASSUME SendInv, Next
  PROVE  SendInv'
<1>1. CASE (Admitting \/ Claiming) /\ Beside
  BY <1>1, TableKeeps
<1>2. CASE Execute \/ Intervene
  BY <1>2, TableKeeps DEF Execute, Intervene
<1>3. CASE Network
  <2>1. PICK q \in wire : LineReceives(q) \/ Lose(q)
    BY <1>3 DEF Network
  <2> QED
    BY <2>1, AcceptKeeps, DeclineKeeps, LoseKeeps DEF LineReceives
<1>4. ASSUME NEW j \in Jobs, Maintain(j) \/ Settle(j) \/ CancelAtSend(j)
      PROVE  SendInv'
  <2>1. CASE Maintain(j)
    BY <2>1, TableKeeps DEF Maintain, Maintaining
  <2>2. CASE Settle(j) \/ CancelAtSend(j)
    BY <2>2, SettleKeeps DEF Settle
  <2> QED
    BY <1>4, <2>1, <2>2
<1>5. ASSUME NEW s \in Senders, Read(s) \/ Prepare(s) \/ Await(s) \/ Crash(s)
      PROVE  SendInv'
  <2>1. CASE Read(s)
    BY <2>1, ReadKeeps DEF Read
  <2>2. CASE StopUnsendable(s) \/ StopUnresolved(s) \/ StopMissed(s)
    <3>1. Undelivered(s) \in {"FAILED", "UNKNOWN"}
      BY DEF Undelivered
    <3> QED
      BY <2>2, <3>1, StopKeeps DEF StopUnsendable, StopUnresolved, StopMissed, Sendable
  <2>3. CASE LeaveFenced(s) \/ LoseRow(s) \/ Contended(s) \/ Crash(s)
    BY <2>3, QuitKeeps
  <2>4. CASE Resolve(s) \/ ClaimSend(s) \/ RevokeAnswer(s)
    BY <2>4, ResolveKeeps, ClaimSendKeeps, RevokeKeeps
  <2>5. CASE RefuseLate(s) \/ TimeOut(s) \/ CallLine(s)
    BY <2>5, NoAnswerKeeps, CallKeeps
  <2>6. CASE RecordResult(s)
    BY <2>6, RecordKeeps
  <2> QED
    BY <1>5, <2>1, <2>2, <2>3, <2>4, <2>5, <2>6 DEF Prepare, Await
<1>6. CASE Advance
  BY <1>6, AdvanceKeeps
<1> QED
  BY <1>1, <1>2, <1>3, <1>4, <1>5, <1>6 DEF Next, Step

LEMMA SendStutterHolds ==
  ASSUME SendInv, UNCHANGED vars
  PROVE  SendInv'
<1>1. UNCHANGED <<now, account, job, claims, snd, wire, line, crm, crashes, early>>
  BY DEF vars
<1>2. JobsInv'
  BY <1>1, Typed, RowsStay
<1>3. TypeOK'
  BY <1>1, <1>2 DEF SendInv, TypeOK, JobsInv
<1>4. \A j \in Jobs : Aside(j)
  BY <1>1 DEF Aside
<1> QED
  BY <1>1, <1>2, <1>3, <1>4, AsideKeeps

LEMMA SendInvariance == Spec => []SendInv
<1>1. SendInv /\ [Next]_vars => SendInv'
  BY SendStepHolds, SendStutterHolds
<1> QED
  BY SendInitHolds, <1>1, PTL DEF Spec
-----------------------------------------------------------------------------
\* Every variable of the composition keeps its type.
THEOREM DeliveryTypeCorrect == Spec => []TypeOK
<1>1. SendInv => TypeOK
  BY DEF SendInv
<1> QED
  BY SendInvariance, <1>1, PTL

\* LINE shows at most one message per inbound event, for any number of senders,
\* crashes, retries and operators: sendReadyJob's claim, its single fallback and the
\* fixed retry window are enough.
THEOREM DeliveredAtMostOnce == Spec => []AtMostOneDelivery
<1>1. ASSUME SendInv, NEW j \in Jobs PROVE line[j].seen <= 1
  <2>1. LineSound(j) /\ line[j] \in Accepted
    BY <1>1, Typed DEF SendInv
  <2> QED
    BY <2>1 DEF LineSound
<1>2. SendInv => AtMostOneDelivery
  BY ZenonT(40), <1>1 DEF AtMostOneDelivery
<1> QED
  BY SendInvariance, <1>2, PTL

\* A reply that is recorded as failed was not shown and is not on its way.
THEOREM FailedRepliesAreSafe == Spec => []FailedReplyIsSafe
<1>1. ASSUME SendInv, NEW j \in Jobs, job[j].status = "FAILED", job[j].method # "PUSH"
      PROVE  line[j].seen = 0 /\ \A q \in wire : q.job # j
  <2>1. /\ RowSound(job[j], now) /\ LineSound(j) /\ SingleReply(j)
        /\ job[j] \in JobRow /\ line[j] \in Accepted
    BY <1>1, Typed DEF SendInv
  <2>2. CASE job[j].method = "REPLY"
    BY <1>1, <2>1, <2>2 DEF SingleReply, Unsent
  <2>3. CASE job[j].method = "NONE"
    <3>1. line[j].seen = 0
      BY <2>1, <2>3 DEF LineSound
    <3>2. job[j].first = NoTime
      BY <2>1, <2>3 DEF RowSound
    <3> QED
      BY <1>1, <3>1, <3>2 DEF SendInv, WireSound
  <2> QED
    BY <1>1, <2>1, <2>2, <2>3 DEF JobRow, Methods
<1>2. SendInv => FailedReplyIsSafe
  BY <1>1 DEF FailedReplyIsSafe
<1> QED
  BY SendInvariance, <1>2, PTL

\* Among all the senders and LINE's answers, the execution lease still holds: an
\* answer is of its job's last execution, and a closed row keeps no reply token.
THEOREM ExecutionStaysSafe ==
  Spec => [](AnswerOfLatestExecution /\ ClosedHoldsNoToken)
<1>1. SendInv => AnswerOfLatestExecution /\ ClosedHoldsNoToken
  BY DEF SendInv, JobsInv
<1> QED
  BY SendInvariance, <1>1, PTL
-----------------------------------------------------------------------------
Unread == {"ABSENT", "QUEUED", "CLAIMED"}
Begun  == {"READY", "SENDING", "ACCEPTED"}
Closed == {"RECORDED", "FAILED", "CANCELLED"}

\* What is known of the text of a job, wherever it is.
TextSound(j) ==
  LET row == job[j] IN
  /\ row.status \in Unread => \A s \in Senders : snd[s].pc # "idle" => snd[s].job # j
  /\ row.status \in Unread \cup Begun => crm[j] = NoAnswer
  /\ row.status \in Begun =>
       /\ \A s \in Senders : snd[s].pc # "idle" /\ snd[s].job = j =>
            snd[s].row.answer = row.answer
       /\ \A q \in wire : q.job = j => q.text = row.answer
       /\ line[j].seen # 0 => line[j].text = row.answer
  /\ row.status \in {"ACCEPTED", "RECORDED"} => row.first # NoTime /\ line[j].seen # 0
  /\ line[j].seen = 0 => line[j].text = NoAnswer

ToldSound(s) ==
  snd[s].pc = "answered" /\ snd[s].result = "ACCEPTED" => line[snd[s].job].seen # 0

Tombstone(row) ==
  row.status \in {"UNKNOWN", "CANCELLED"} /\ row.answer = NoAnswer /\ ~row.token

\* How a row stands to the account, and an erased row.
FenceSound(j) ==
  LET row == job[j] IN
  /\ row.status \in Waiting /\ row.first = NoTime => ActiveFor(j)
  /\ row.status = "ABSENT" => row.owner = "SERVER" /\ row.error = "NONE"
  /\ row.owner = "RUNTIME" /\ row.status \notin Closed => account.owner = "RUNTIME"
  /\ row.error = "PDPA_ERASURE" => Tombstone(row)

ToldInv ==
  /\ SendInv
  /\ \A j \in Jobs : TextSound(j) /\ FenceSound(j)
  /\ \A s \in Senders : ToldSound(s)
-----------------------------------------------------------------------------
\* The moves the contract allows a record.
RecordMoves(a, b) ==
  \/ a = b
  \/ a = "none" /\ b = "pending"
  \/ a = "pending" /\ b \in {"sending", "dropped"}
  \/ a = "sending" /\ b \in {"delivered", "doubt", "ended"}
  \/ a \in {"doubt", "delivered"} /\ b = "ended"

\* What every write of a row respects.
Onward(j) ==
  LET old == job[j]
      new == job'[j] IN
  \/ new = old
  \/ /\ new.status # "ABSENT"
     /\ old.status \in Terminal => new.status \in Terminal
     /\ old.status \in Closed => new.status \in Closed
     /\ old.status \notin Unread => new.status \notin Unread
     /\ old.status \in Begun /\ new.status \in Begun => new.answer = old.answer
     /\ new.status \in {"ACCEPTED", "RECORDED"} => new.first # NoTime /\ line[j].seen # 0
     /\ old.status # "ABSENT" => new.owner = old.owner /\ new.epoch = old.epoch
     /\ old.status = "ABSENT" =>
          /\ Active /\ new.epoch = account.epoch
          /\ new.owner = "RUNTIME" => account.owner = "RUNTIME"
     /\ new.status \in Waiting /\ new.first = NoTime =>
          old.status = "ABSENT" \/ (old.status \in Waiting /\ old.first = NoTime)
     /\ new.error = "PDPA_ERASURE" \/ old.error = "PDPA_ERASURE" => Tombstone(new)
     /\ RecordMoves(RecordOf(old), RecordOf(new))

OneRow(j) == Onward(j) /\ \A k \in Jobs \ {j} : job'[k] = job[k]

\* What is known of a row before it is written.
LEMMA RowKnown ==
  ASSUME ToldInv, NEW j \in Jobs
  PROVE  /\ job \in [Jobs -> JobRow] /\ job[j] \in JobRow /\ now \in Nat /\ account \in AccountRow
         /\ RowSound(job[j], now) /\ TextSound(j) /\ FenceSound(j)
         /\ job[j].status \in Unread => job[j].first = NoTime
         /\ job[j].status # "ABSENT" /\ job[j].status # "UNKNOWN" /\ job[j].status # "CANCELLED" =>
              job[j].error # "PDPA_ERASURE"
<1>1. /\ job \in [Jobs -> JobRow] /\ job[j] \in JobRow /\ now \in Nat /\ account \in AccountRow
      /\ RowSound(job[j], now) /\ TextSound(j) /\ FenceSound(j)
  BY Typed DEF ToldInv, SendInv, JobsInv, JobsTypeOK
<1>2. job[j].status \in Unread => job[j].first = NoTime
  BY <1>1 DEF RowSound, Unread
<1> QED
  BY <1>1, <1>2 DEF FenceSound, Tombstone

\* A row that has not been read by a sender stays unsent, or is closed unsent.
LEMMA UnsentOnward ==
  ASSUME ToldInv, NEW j \in Jobs,
         job[j].status \in {"QUEUED", "CLAIMED"} \/
           (job[j].status = "READY" /\ job[j].first = NoTime),
         job'[j].status \in {"QUEUED", "CLAIMED", "READY", "FAILED", "UNKNOWN", "CANCELLED"},
         job[j].status = "READY" => job'[j].status \in Terminal,
         job'[j].first = NoTime, job'[j].owner = job[j].owner, job'[j].epoch = job[j].epoch,
         job'[j].error # "PDPA_ERASURE" \/ Tombstone(job'[j]),
         \A k \in Jobs \ {j} : job'[k] = job[k]
  PROVE  OneRow(j)
<1>1. job[j].first = NoTime /\ job[j].error # "PDPA_ERASURE"
  BY RowKnown DEF Unread
<1>2. RecordMoves(RecordOf(job[j]), RecordOf(job'[j]))
  BY <1>1 DEF RecordMoves, RecordOf, Terminal
<1> QED
  BY <1>1, <1>2 DEF OneRow, Onward, Terminal, Closed, Unread, Begun, Waiting

\* Admission, maintenance and claims.
LEMMA QueueOnward ==
  ASSUME ToldInv, Admitting \/ Maintaining \/ Claiming
  PROVE  \E j \in Jobs : OneRow(j)
<1>1. CASE Admitting
  <2>1. PICK j \in Jobs, cohort \in Owners, left \in 0 .. ReplyWindow,
             hasToken \in BOOLEAN, outOfHours \in BOOLEAN :
               Admit(j, cohort, hasToken, left, outOfHours)
    BY <1>1 DEF Admitting
  <2>2. job \in [Jobs -> JobRow] /\ FenceSound(j) /\ job[j].status = "ABSENT"
    BY <2>1, RowKnown DEF Admit
  <2>3. /\ job'[j].status \in {"QUEUED", "READY"} /\ job'[j].first = NoTime
        /\ job'[j].owner = cohort /\ job'[j].epoch = account.epoch
        /\ job'[j].error = "NONE"
        /\ \A k \in Jobs \ {j} : job'[k] = job[k]
        /\ Active /\ (cohort = "RUNTIME" => account.owner = "RUNTIME")
    BY <2>1, <2>2 DEF Admit, Write, NoRow
  <2>4. job[j].error = "NONE"
    BY <2>2 DEF FenceSound
  <2>5. RecordMoves(RecordOf(job[j]), RecordOf(job'[j]))
    BY <2>2, <2>3 DEF RecordMoves, RecordOf, Terminal
  <2> QED
    BY <2>2, <2>3, <2>4, <2>5 DEF OneRow, Onward, Terminal, Closed, Unread, Begun
<1>2. CASE Maintaining
  <2>1. PICK j \in Jobs : ExpireWaiting(j) \/ RequeueClaimed(j)
    BY <1>2 DEF Maintaining
  <2>2. CASE ExpireWaiting(j)
    <3>1. /\ job'[j].status = "FAILED" /\ job'[j].first = NoTime /\ job'[j].owner = job[j].owner
          /\ job'[j].epoch = job[j].epoch /\ job'[j].error = "CODE"
          /\ job[j].status \in Waiting /\ job[j].first = NoTime
          /\ \A k \in Jobs \ {j} : job'[k] = job[k]
      BY <2>2, RowKnown DEF ExpireWaiting, Write, JobRow
    <3> QED
      BY <3>1, UnsentOnward DEF Waiting, Terminal
  <2>3. CASE RequeueClaimed(j)
    <3>1. /\ job'[j].status = "QUEUED" /\ job'[j].first = job[j].first
          /\ job'[j].owner = job[j].owner /\ job'[j].epoch = job[j].epoch
          /\ job'[j].error = job[j].error /\ job[j].status = "CLAIMED"
          /\ \A k \in Jobs \ {j} : job'[k] = job[k]
      BY <2>3, RowKnown DEF RequeueClaimed, Released, Write, JobRow
    <3>2. job[j].first = NoTime /\ job[j].error # "PDPA_ERASURE"
      BY <3>1, RowKnown DEF Unread
    <3> QED
      BY <3>1, <3>2, UnsentOnward
  <2> QED
    BY <2>1, <2>2, <2>3
<1>3. CASE Claiming
  <2>1. PICK j \in Jobs, who \in Claimants : ClaimExecution(j, who)
    BY <1>3 DEF Claiming
  <2>2. /\ job'[j].status = "CLAIMED" /\ job'[j].first = job[j].first
        /\ job'[j].owner = job[j].owner /\ job'[j].epoch = job[j].epoch
        /\ job'[j].error = job[j].error /\ job[j].status = "QUEUED"
        /\ \A k \in Jobs \ {j} : job'[k] = job[k]
    BY <2>1, RowKnown DEF ClaimExecution, Claimable, Write, JobRow
  <2>3. job[j].first = NoTime /\ job[j].error # "PDPA_ERASURE"
    BY <2>2, RowKnown DEF Unread
  <2> QED
    BY <2>2, <2>3, UnsentOnward
<1> QED
  BY <1>1, <1>2, <1>3

\* Executors.
LEMMA ExecutorOnward ==
  ASSUME ToldInv, Executing
  PROVE  \E j \in Jobs : OneRow(j)
<1>1. PICK c \in claims : Renew(c) \/ CommitAnswer(c) \/ FailExecution(c) \/ LeaveUnknown(c)
  BY DEF Executing
<1>2. Holds(c) /\ JobsInv
  BY <1>1 DEF Renew, CommitAnswer, FailExecution, LeaveUnknown, ToldInv, SendInv
<1>3. PICK j \in Jobs : j = c.job /\ job[j].status = "CLAIMED"
  BY <1>2, HoldsRow
<1>4. job[j].first = NoTime /\ job[j].error # "PDPA_ERASURE"
  BY <1>3, RowKnown DEF Unread
<1>5. /\ job'[j].status \in {"CLAIMED", "READY", "FAILED", "UNKNOWN"}
      /\ job'[j].first = job[j].first /\ job'[j].owner = job[j].owner
      /\ job'[j].epoch = job[j].epoch /\ job'[j].error \in {job[j].error, "NONE", "CODE"}
      /\ \A k \in Jobs \ {j} : job'[k] = job[k]
  <2>1. job \in [Jobs -> JobRow] /\ job[j] \in JobRow
    BY RowKnown
  <2>2. CASE Renew(c)
    BY <1>3, <2>1, <2>2 DEF Renew, Write, JobRow
  <2>3. CASE CommitAnswer(c)
    BY <1>3, <2>1, <2>3 DEF CommitAnswer, Released, Write, JobRow
  <2>4. CASE FailExecution(c)
    BY <1>3, <2>1, <2>4 DEF FailExecution, Released, Write, JobRow
  <2>5. CASE LeaveUnknown(c)
    BY <1>3, <2>1, <2>5 DEF LeaveUnknown, Released, Write, JobRow
  <2> QED
    BY <1>1, <2>2, <2>3, <2>4, <2>5
<1> QED
  BY <1>3, <1>4, <1>5, UnsentOnward

\* Erasure, acknowledgement, and the answer revoked or cancelled before it is sent.
LEMMA ClosedOnward ==
  ASSUME ToldInv, NEW j \in Jobs, job[j].status # "ABSENT",
         job'[j].status \in {"UNKNOWN", "CANCELLED"},
         job[j].status \in {"RECORDED", "FAILED", "CANCELLED", "ACCEPTED"} =>
           job'[j].status = "CANCELLED",
         job'[j].first = job[j].first, job'[j].owner = job[j].owner, job'[j].epoch = job[j].epoch,
         job'[j].error = "PDPA_ERASURE" \/ job[j].error = "PDPA_ERASURE" => Tombstone(job'[j]),
         \A k \in Jobs \ {j} : job'[k] = job[k]
  PROVE  OneRow(j)
<1>1. /\ job[j].status \in Statuses
      /\ job[j].status \in Unread => job[j].first = NoTime
      /\ job[j].status = "SENDING" \/ job[j].status = "ACCEPTED" \/ job[j].status = "RECORDED" =>
           job[j].first # NoTime
  BY RowKnown DEF RowSound, TextSound, JobRow
<1>2. RecordMoves(RecordOf(job[j]), RecordOf(job'[j]))
  <2>1. CASE job[j].first = NoTime
    BY <1>1, <2>1 DEF RecordMoves, RecordOf, Terminal
  <2>2. CASE job[j].first # NoTime
    BY <1>1, <2>2 DEF RecordMoves, RecordOf, Unread, Statuses, Waiting
  <2> QED
    BY <2>1, <2>2
<1> QED
  BY <1>1, <1>2 DEF OneRow, Onward, Terminal, Closed, Unread, Begun, Waiting

LEMMA InterventionOnward ==
  ASSUME ToldInv, Intervening
  PROVE  \E j \in Jobs : OneRow(j)
<1>1. PICK j \in Jobs : Erase(j) \/ Acknowledge(j)
  BY DEF Intervening
<1>2. job \in [Jobs -> JobRow] /\ job[j] \in JobRow /\ FenceSound(j)
  BY RowKnown
<1>3. CASE Erase(j)
  <2>1. /\ job[j].status # "ABSENT" /\ Tombstone(job'[j])
        /\ job'[j].status = IF job[j].status \in {"SENDING", "UNKNOWN"} THEN "UNKNOWN" ELSE "CANCELLED"
        /\ job'[j].first = job[j].first /\ job'[j].owner = job[j].owner
        /\ job'[j].epoch = job[j].epoch
        /\ \A k \in Jobs \ {j} : job'[k] = job[k]
    BY <1>2, <1>3 DEF Erase, Released, Write, JobRow, Tombstone
  <2> QED
    BY <2>1, ClosedOnward
<1>4. CASE Acknowledge(j)
  <2>1. /\ job[j].status = "UNKNOWN" /\ job'[j].status = "CANCELLED"
        /\ job'[j].first = job[j].first /\ job'[j].owner = job[j].owner
        /\ job'[j].epoch = job[j].epoch /\ job'[j].error = "ACKNOWLEDGED"
        /\ job'[j].answer = job[j].answer /\ job'[j].token = job[j].token
        /\ \A k \in Jobs \ {j} : job'[k] = job[k]
    BY <1>2, <1>4 DEF Acknowledge, Write, JobRow
  <2>2. job[j].error = "PDPA_ERASURE" => Tombstone(job'[j])
    BY <1>2, <2>1 DEF FenceSound, Tombstone
  <2> QED
    BY <2>1, <2>2, ClosedOnward
<1> QED
  BY <1>1, <1>3, <1>4

\* An account action cancels what waits, or nothing.
LEMMA AccountOnward ==
  ASSUME ToldInv, Administering, NEW j \in Jobs
  PROVE  /\ Onward(j)
         /\ job'[j] = job[j] \/ (job[j].status \in Waiting /\ job'[j].status = "CANCELLED")
<1>1. job'[j] = job[j] \/ (job[j].status \in Waiting /\ job'[j] = Cancelled(job[j]))
  BY DEF Administering, Pause, Disable, Enable, Archive, SetPush, Resume, Configure,
     SwitchOwner, RevokeCredential, Fence, CancelWaiting
<1>2. CASE job[j].status \in Waiting /\ job'[j] = Cancelled(job[j])
  <2>1. /\ job'[j].status = "CANCELLED" /\ job'[j].first = job[j].first
        /\ job'[j].owner = job[j].owner /\ job'[j].epoch = job[j].epoch
        /\ job'[j].error = job[j].error
    BY <1>2, RowKnown DEF Cancelled, Released, JobRow
  <2>2. job[j].error # "PDPA_ERASURE" /\ (job[j].status \in Unread => job[j].first = NoTime)
    BY <1>2, RowKnown DEF Waiting
  <2>3. RecordMoves(RecordOf(job[j]), RecordOf(job'[j]))
    BY <1>2, <2>1, <2>2 DEF RecordMoves, RecordOf, Terminal, Waiting
  <2> QED
    BY <1>2, <2>1, <2>2, <2>3 DEF Onward, Terminal, Closed, Unread, Begun, Waiting
<1> QED
  BY <1>1, <1>2 DEF Onward

\* The steps of a row that senders may read, up to its outcome.
LEMMA BegunOnward ==
  ASSUME ToldInv, NEW j \in Jobs,
         \/ job[j].status = "READY" /\ job'[j].status \in {"SENDING", "UNKNOWN", "FAILED", "CANCELLED"}
         \/ job[j].status = "SENDING" /\ job'[j].status \in {"READY", "ACCEPTED", "UNKNOWN", "FAILED"}
         \/ job[j].status = "ACCEPTED" /\ job'[j].status = "RECORDED",
         \/ job'[j].first = job[j].first /\ job'[j].status # "SENDING"
         \/ job'[j].first # NoTime /\ job'[j].status = "SENDING",
         job'[j].owner = job[j].owner, job'[j].epoch = job[j].epoch,
         job'[j].error # "PDPA_ERASURE", job'[j].status \in Begun => job'[j].answer = job[j].answer,
         job'[j].status = "ACCEPTED" => line[j].seen # 0,
         \A k \in Jobs \ {j} : job'[k] = job[k]
  PROVE  OneRow(j)
<1>1. /\ job[j].error # "PDPA_ERASURE"
      /\ job[j].status \in {"SENDING", "ACCEPTED"} => job[j].first # NoTime
      /\ job[j].status = "ACCEPTED" => line[j].seen # 0
  BY RowKnown DEF RowSound, TextSound
<1>2. RecordMoves(RecordOf(job[j]), RecordOf(job'[j]))
  <2>1. CASE job[j].first = NoTime
    BY <1>1, <2>1 DEF RecordMoves, RecordOf, Terminal
  <2>2. CASE job[j].first # NoTime
    BY <1>1, <2>2 DEF RecordMoves, RecordOf
  <2> QED
    BY <2>1, <2>2
<1> QED
  BY <1>1, <1>2 DEF OneRow, Onward, Terminal, Closed, Unread, Begun, Waiting

\* Rows that are settled or cancelled by maintenance and by the sender's query.
LEMMA SettleOnward ==
  ASSUME ToldInv, NEW j \in Jobs,
         CancelAtSend(j) \/ ReconcileAccepted(j) \/ CloseReply(j) \/ RetryPush(j)
  PROVE  OneRow(j)
<1>1. /\ job \in [Jobs -> JobRow] /\ job[j] \in JobRow
      /\ job[j].status \notin {"ABSENT", "UNKNOWN", "CANCELLED"} => job[j].error # "PDPA_ERASURE"
  BY RowKnown
<1>2. CASE CancelAtSend(j)
  <2>1. /\ job[j].status = "READY" /\ job'[j].status = "CANCELLED"
        /\ job'[j].first = job[j].first /\ job'[j].owner = job[j].owner
        /\ job'[j].epoch = job[j].epoch /\ job'[j].error \in {job[j].error, "CODE"}
        /\ \A k \in Jobs \ {j} : job'[k] = job[k]
    BY <1>1, <1>2 DEF CancelAtSend, Write, JobRow
  <2> QED
    BY <1>1, <2>1, BegunOnward DEF Begun
<1>3. CASE ReconcileAccepted(j)
  <2>1. /\ job[j].status = "ACCEPTED" /\ job'[j].status = "RECORDED"
        /\ job'[j].first = job[j].first /\ job'[j].owner = job[j].owner
        /\ job'[j].epoch = job[j].epoch /\ job'[j].error = job[j].error
        /\ \A k \in Jobs \ {j} : job'[k] = job[k]
    BY <1>1, <1>3 DEF ReconcileAccepted, Write, JobRow
  <2> QED
    BY <1>1, <2>1, BegunOnward DEF Begun
<1>4. CASE CloseReply(j)
  <2>1. /\ job[j].status = "SENDING" /\ job'[j].status = "UNKNOWN"
        /\ job'[j].first = job[j].first /\ job'[j].owner = job[j].owner
        /\ job'[j].epoch = job[j].epoch /\ job'[j].error = "CODE"
        /\ \A k \in Jobs \ {j} : job'[k] = job[k]
    BY <1>1, <1>4 DEF CloseReply, Write, JobRow
  <2> QED
    BY <1>1, <2>1, BegunOnward DEF Begun
<1>5. CASE RetryPush(j)
  <2>1. /\ job[j].status = "SENDING" /\ job'[j].status = "READY"
        /\ job'[j].first = job[j].first /\ job'[j].owner = job[j].owner
        /\ job'[j].epoch = job[j].epoch /\ job'[j].error = job[j].error
        /\ job'[j].answer = job[j].answer
        /\ \A k \in Jobs \ {j} : job'[k] = job[k]
    BY <1>1, <1>5 DEF RetryPush, Released, Write, JobRow
  <2> QED
    BY <1>1, <2>1, BegunOnward DEF Begun
<1> QED
  BY <1>2, <1>3, <1>4, <1>5

\* The rows a handler writes.
LEMMA SenderOnward ==
  ASSUME ToldInv, NEW s \in Senders,
         \/ snd[s].pc = "read" /\ \E status \in {"FAILED", "UNKNOWN"} : Stop(s, status)
         \/ RevokeAnswer(s) \/ ClaimSend(s) \/ RecordResult(s)
  PROVE  job' = job \/ OneRow(snd[s].job)
<1>1. PICK j \in Jobs : j = snd[s].job
  BY Typed DEF ToldInv
<1>2. /\ job \in [Jobs -> JobRow] /\ job[j] \in JobRow /\ SendInv
      /\ job[j].status \notin {"ABSENT", "UNKNOWN", "CANCELLED"} => job[j].error # "PDPA_ERASURE"
  BY RowKnown DEF ToldInv
<1>3. CASE snd[s].pc = "read" /\ \E status \in {"FAILED", "UNKNOWN"} : Stop(s, status)
  <2>1. PICK status \in {"FAILED", "UNKNOWN"} : Stop(s, status)
    BY <1>3
  <2>2. CASE Fresh(s)
    <3>1. /\ job[j].status = "READY" /\ job'[j].status = status
          /\ job'[j].first = job[j].first /\ job'[j].owner = job[j].owner
          /\ job'[j].epoch = job[j].epoch /\ job'[j].error = "CODE"
          /\ \A k \in Jobs \ {j} : job'[k] = job[k]
      <4>1. /\ Write(j, [job[j] EXCEPT !.status = status, !.error = "CODE", !.token = FALSE])
            /\ job[j].status = "READY"
        BY <1>1, <2>1, <2>2 DEF Stop, Fresh
      <4> QED
        BY <1>2, <4>1 DEF Write, JobRow
    <3> QED
      BY <1>1, <1>2, <3>1, BegunOnward DEF Begun
  <2> QED
    BY <2>1, <2>2 DEF Stop
<1>4. CASE RevokeAnswer(s)
  <2>1. /\ job[j].status = "READY" /\ job'[j].status = "CANCELLED"
        /\ job'[j].first = job[j].first /\ job'[j].owner = job[j].owner
        /\ job'[j].epoch = job[j].epoch /\ job'[j].error = "CODE"
        /\ \A k \in Jobs \ {j} : job'[k] = job[k]
    BY <1>1, <1>2, <1>4 DEF RevokeAnswer, Sendworthy, Fresh, Write, JobRow
  <2> QED
    BY <1>1, <1>2, <2>1, BegunOnward DEF Begun
<1>5. CASE ClaimSend(s)
  <2>1. snd[s].row.first \in OptTime /\ snd[s].at \in Nat
    BY <1>2, Typed DEF JobRow
  <2>2. FirstSend(s) # NoTime
    BY <2>1 DEF FirstSend, NoTime
  <2>3. /\ job[j].status = "READY" /\ job'[j].status = "SENDING"
        /\ job'[j].first = FirstSend(s) /\ job'[j].owner = job[j].owner
        /\ job'[j].epoch = job[j].epoch /\ job'[j].error = job[j].error
        /\ job'[j].answer = job[j].answer
        /\ \A k \in Jobs \ {j} : job'[k] = job[k]
    BY SMTT(40), <1>1, <1>2, <1>5 DEF ClaimSend, Sendworthy, Fresh, Write, JobRow
  <2> QED
    BY <1>1, <1>2, <2>2, <2>3, BegunOnward DEF Begun
<1>6. CASE RecordResult(s)
  <2>1. CASE OwnsSend(s)
    <3>1. PICK delay \in 1 .. Backoff :
            Write(j, Released([job[j] EXCEPT
              !.status = Outcome(s),
              !.error = IF snd[s].result = "ACCEPTED" THEN "NONE" ELSE "CODE",
              !.token = FALSE,
              !.method = IF FallsBack(s) THEN "PUSH" ELSE @,
              !.avail = now + delay]))
      BY ZenonT(40), <1>1, <1>6, <2>1 DEF RecordResult
    <3>2. /\ job[j].status = "SENDING" /\ job'[j].status = Outcome(s)
          /\ job'[j].first = job[j].first /\ job'[j].owner = job[j].owner
          /\ job'[j].epoch = job[j].epoch /\ job'[j].error \in {"NONE", "CODE"}
          /\ job'[j].answer = job[j].answer
          /\ \A k \in Jobs \ {j} : job'[k] = job[k]
      <4>1. job[j].status = "SENDING"
        BY SMTT(40), <1>1, <2>1 DEF OwnsSend
      <4> QED
        BY <1>2, <3>1, <4>1 DEF Released, Write, JobRow
    <3>3. Outcome(s) \in {"ACCEPTED", "UNKNOWN", "READY", "FAILED"}
      BY ZenonT(40), <1>2, <1>6, OutcomeIs DEF RecordResult
    <3>4. Outcome(s) = "ACCEPTED" => line[j].seen # 0
      <4>1. snd[s].result # "ACCEPTED" => Outcome(s) # "ACCEPTED"
        BY DEF Outcome
      <4> QED
        BY ZenonT(40), <1>1, <1>6, <4>1 DEF ToldInv, ToldSound, RecordResult
    <3> QED
      BY SMTT(40), <1>1, <1>2, <3>2, <3>3, <3>4, BegunOnward
  <2> QED
    BY ZenonT(40), <1>6, <2>1 DEF RecordResult
<1> QED
  BY <1>3, <1>4, <1>5, <1>6
-----------------------------------------------------------------------------
\* A row whose send has not begun has nothing under way.
LEMMA NothingSent ==
  ASSUME ToldInv, NEW j \in Jobs, job[j].first = NoTime
  PROVE  line[j].seen = 0 /\ \A q \in wire : q.job # j
<1>1. LineSound(j) /\ RowSound(job[j], now) /\ line[j] \in Accepted
  BY Typed DEF ToldInv, SendInv
<1>2. line[j].seen = 0
  BY <1>1 DEF LineSound, RowSound
<1> QED
  BY <1>2 DEF ToldInv, SendInv, WireSound

\* A handler that stays with the row it read, or stops.
Stays(s) ==
  \/ snd'[s] = snd[s]
  \/ snd'[s].pc = "idle"
  \/ snd[s].pc # "idle" /\ snd'[s].job = snd[s].job /\ snd'[s].row = snd[s].row

\* Where nothing is sent or shown, what is known of a text stays so.
LEMMA TextKeeps ==
  ASSUME ToldInv, NEW j \in Jobs, Onward(j), line' = line, wire' \subseteq wire,
         crm'[j] = crm[j] \/ job'[j].status = "RECORDED",
         \A s \in Senders : Stays(s)
  PROVE  TextSound(j)'
<1>1. TextSound(j)
  BY DEF ToldInv
<1>2. \A s \in Senders : snd'[s].pc # "idle" /\ snd'[s].job = j =>
         snd[s].pc # "idle" /\ snd[s].job = j /\ snd'[s].row = snd[s].row
  BY DEF Stays
<1>3. CASE job'[j] = job[j]
  BY <1>1, <1>2, <1>3 DEF TextSound, Begun, Unread
<1>4. CASE job'[j] # job[j]
  <2>1. /\ job[j].status \notin Unread => job'[j].status \notin Unread
        /\ job[j].status \in Terminal => job'[j].status \in Terminal
        /\ job[j].status \in Begun /\ job'[j].status \in Begun => job'[j].answer = job[j].answer
        /\ job'[j].status \in {"ACCEPTED", "RECORDED"} => job'[j].first # NoTime /\ line[j].seen # 0
        /\ job[j].status \in Statuses
    BY <1>4, RowKnown DEF Onward, JobRow
  <2>2. job'[j].status \in Unread => \A s \in Senders : snd'[s].pc # "idle" => snd'[s].job # j
    BY <1>1, <1>2, <2>1 DEF TextSound
  <2>3. job'[j].status \in Unread \cup Begun => crm'[j] = NoAnswer
    BY <1>1, <2>1 DEF TextSound, Unread, Begun, Terminal, Statuses, Waiting
  <2>4. CASE job'[j].status \in Begun /\ job[j].status \in Begun
    BY <1>1, <1>2, <2>1, <2>2, <2>3, <2>4 DEF TextSound
  <2>5. CASE job'[j].status \in Begun /\ job[j].status \in Unread
    <3>1. job[j].first = NoTime
      BY <2>5, RowKnown
    <3> QED
      BY <1>1, <1>2, <2>1, <2>2, <2>3, <2>5, <3>1, NothingSent DEF TextSound
  <2>6. CASE job'[j].status \notin Begun
    BY <1>1, <2>1, <2>2, <2>3, <2>6 DEF TextSound
  <2> QED
    BY <2>1, <2>4, <2>5, <2>6 DEF Unread, Begun, Terminal, Statuses, Waiting
<1> QED
  BY <1>3, <1>4

\* Nor does any handler learn of an acceptance there.
LEMMA ToldKeeps ==
  ASSUME ToldInv, NEW s \in Senders, line' = line,
         \/ snd'[s] = snd[s]
         \/ snd'[s].pc # "answered" \/ snd'[s].result # "ACCEPTED"
  PROVE  ToldSound(s)'
BY DEF ToldInv, ToldSound

\* A row's standing to an account whose fence, cohort and epoch stay.
LEMMA FenceKeeps ==
  ASSUME ToldInv, NEW j \in Jobs, Onward(j),
         account'.enabled = account.enabled, account'.status = account.status,
         account'.epoch = account.epoch, account'.owner = account.owner
  PROVE  FenceSound(j)'
<1>1. FenceSound(j) /\ job[j].status \in Statuses
  BY RowKnown DEF JobRow
<1>2. CASE job'[j] = job[j]
  BY <1>1, <1>2 DEF FenceSound, ActiveFor, Active, Tombstone
<1>3. CASE job'[j] # job[j]
  <2>1. CASE job[j].status = "ABSENT"
    BY <1>1, <1>3, <2>1 DEF Onward, FenceSound, ActiveFor, Active, Tombstone
  <2>2. CASE job[j].status # "ABSENT"
    BY <1>1, <1>3, <2>2 DEF Onward, FenceSound, ActiveFor, Active, Tombstone
  <2> QED
    BY <2>1, <2>2
<1> QED
  BY <1>2, <1>3

\* An account action leaves no unsent work where it moves the fence.
LEMMA AccountFence ==
  ASSUME ToldInv, Administering, NEW j \in Jobs
  PROVE  FenceSound(j)'
<1>1. /\ Onward(j) /\ FenceSound(j) /\ account \in AccountRow
      /\ job'[j] = job[j] \/ (job[j].status \in Waiting /\ job'[j].status = "CANCELLED")
  BY AccountOnward, RowKnown
<1>2. ASSUME account'.owner = account.owner, job'[j].status \notin Waiting
      PROVE  FenceSound(j)'
    BY <1>1, <1>2 DEF Onward, FenceSound, Tombstone
<1>3. CASE Pause \/ Disable \/ Enable \/ Archive \/ SetPush \/ RevokeCredential
  <2>1. CancelWaiting /\ account'.owner = account.owner
    BY ZenonT(40), <1>1, <1>3 DEF Pause, Disable, Enable, Archive, SetPush, RevokeCredential, Fence, AccountRow
  <2>2. job'[j].status \notin Waiting
    <3>1. job'[j] = IF job[j].status \in Waiting THEN Cancelled(job[j]) ELSE job[j]
      BY <2>1 DEF CancelWaiting
    <3> QED
      BY <3>1, CancelledRow, RowKnown DEF Waiting
  <2> QED
    BY <1>2, <2>1, <2>2
<1>4. CASE Configure
  <2>1. /\ account'.enabled = account.enabled /\ account'.status = account.status
        /\ account'.epoch = account.epoch /\ account'.owner = account.owner
    BY <1>1, <1>4 DEF Configure, AccountRow
  <2> QED
    BY <1>1, <2>1, FenceKeeps
<1>5. CASE Resume
  <2>1. ~Active /\ account'.owner = account.owner /\ job' = job
    BY <1>1, <1>5 DEF Resume, Active, AccountRow
  <2> QED
    BY <1>1, <2>1 DEF FenceSound, ActiveFor, Tombstone
<1>6. CASE SwitchOwner
  <2>1. job' = job /\ job[j].status \in {"ABSENT", "RECORDED", "FAILED", "CANCELLED"}
    BY <1>6 DEF SwitchOwner, Quiet
  <2> QED
    BY <1>1, <2>1 DEF FenceSound, Tombstone, Waiting, Closed
<1> QED
  BY <1>3, <1>4, <1>5, <1>6 DEF Administering
-----------------------------------------------------------------------------
\* What a step must show to keep the whole of it, where LINE shows nothing.
LEMMA QuietKeeps ==
  ASSUME ToldInv, SendInv', line' = line, wire' \subseteq wire,
         \A j \in Jobs : /\ Onward(j) /\ FenceSound(j)'
                         /\ crm'[j] = crm[j] \/ job'[j].status = "RECORDED",
         \A s \in Senders :
           /\ Stays(s)
           /\ \/ snd'[s] = snd[s]
              \/ snd'[s].pc # "answered" \/ snd'[s].result # "ACCEPTED"
  PROVE  ToldInv'
<1>1. ASSUME NEW j \in Jobs PROVE TextSound(j)' /\ FenceSound(j)'
  <2>1. /\ Onward(j) /\ FenceSound(j)' /\ \A s \in Senders : Stays(s)
        /\ crm'[j] = crm[j] \/ job'[j].status = "RECORDED"
    OBVIOUS
  <2> QED
    BY <2>1, TextKeeps
<1>2. ASSUME NEW s \in Senders PROVE ToldSound(s)'
  <2>1. \/ snd'[s] = snd[s]
        \/ snd'[s].pc # "answered" \/ snd'[s].result # "ACCEPTED"
    OBVIOUS
  <2> QED
    BY <2>1, ToldKeeps
<1>3. \A j \in Jobs : TextSound(j)' /\ FenceSound(j)'
  BY <1>1
<1>4. \A s \in Senders : ToldSound(s)'
  BY <1>2
<1> QED
  BY <1>3, <1>4 DEF ToldInv

\* The job table.
LEMMA TableTold ==
  ASSUME ToldInv, SendInv', Beside,
         Admitting \/ Maintaining \/ Claiming \/ Executing \/ Administering \/ Intervening
  PROVE  ToldInv'
<1>1. /\ line' = line /\ wire' = wire /\ crm' = crm
      /\ \A s \in Senders : Stays(s) /\ snd'[s] = snd[s]
  BY DEF Beside, Stays
<1>2. CASE Administering
  BY <1>1, <1>2, AccountOnward, AccountFence, QuietKeeps
<1>3. CASE Admitting \/ Maintaining \/ Claiming \/ Executing \/ Intervening
  <2>1. PICK j \in Jobs : OneRow(j)
    BY <1>3, QueueOnward, ExecutorOnward, InterventionOnward
  <2>2. \A k \in Jobs : Onward(k)
    BY SMTT(40), <2>1 DEF OneRow, Onward
  <2>3. account' = account
    BY ZenonT(40), <1>3 DEF Admitting, Admit, Maintaining, ExpireWaiting, RequeueClaimed, Claiming,
       ClaimExecution, Executing, Renew, CommitAnswer, FailExecution, LeaveUnknown,
       Intervening, Erase, Acknowledge
  <2> QED
    BY <1>1, <2>2, <2>3, FenceKeeps, QuietKeeps
<1> QED
  BY <1>2, <1>3

\* The version of the account row moves with every claim of a send.
LEMMA OnlyVersion ==
  ASSUME ToldInv, account' = account \/ account' = [account EXCEPT !.version = @ + 1]
  PROVE  /\ account'.enabled = account.enabled /\ account'.status = account.status
         /\ account'.epoch = account.epoch /\ account'.owner = account.owner
<1>1. account \in AccountRow
  BY Typed DEF ToldInv
<1> QED
  BY <1>1 DEF AccountRow

\* Settled rows.
LEMMA SettleTold ==
  ASSUME ToldInv, SendInv', NEW j \in Jobs,
         CancelAtSend(j) \/ ReconcileAccepted(j) \/ CloseReply(j) \/ RetryPush(j)
  PROVE  ToldInv'
<1>1. UNCHANGED <<account, snd, wire, line>> /\ OneRow(j)
  BY ZenonT(40), SettleOnward DEF CancelAtSend, ReconcileAccepted, CloseReply, RetryPush
<1>2. \A k \in Jobs : Onward(k) /\ FenceSound(k)'
  <2>1. \A k \in Jobs : Onward(k)
    BY <1>1 DEF OneRow, Onward
  <2> QED
    BY <1>1, <2>1, FenceKeeps
<1>3. \A k \in Jobs : crm'[k] = crm[k] \/ job'[k].status = "RECORDED"
  <2>1. CASE ReconcileAccepted(j)
    <3>1. job'[j].status = "RECORDED"
      BY <2>1, RowKnown DEF ReconcileAccepted, Write, JobRow
    <3>2. \A k \in Jobs \ {j} : crm'[k] = crm[k]
      BY <2>1 DEF ReconcileAccepted, ToldInv, SendInv, TypeOK
    <3> QED
      BY <3>1, <3>2
  <2>2. CASE CancelAtSend(j) \/ CloseReply(j) \/ RetryPush(j)
    BY <2>2 DEF CancelAtSend, CloseReply, RetryPush
  <2> QED
    BY <2>1, <2>2
<1>4. \A s \in Senders : Stays(s) /\ snd'[s] = snd[s]
  BY SMTT(40), <1>1 DEF Stays
<1> QED
  BY SMTT(40), <1>1, <1>2, <1>3, <1>4, QuietKeeps

\* A handler's own steps: it writes its row or none, and moves on or stops.
LEMMA SenderTold ==
  ASSUME ToldInv, SendInv', NEW s \in Senders,
         Prepare(s) \/ Await(s) \/ Crash(s), ~CallLine(s)
  PROVE  ToldInv'
<1>1. /\ UNCHANGED <<wire, line, crm>>
      /\ account' = account \/ account' = [account EXCEPT !.version = @ + 1]
  BY ZenonT(40) DEF Prepare, Await, StopUnsendable, StopUnresolved, StopMissed, Stop, LeaveFenced, Resolve,
     ClaimSend, RevokeAnswer, LoseRow, Contended, RefuseLate, TimeOut, RecordResult, Crash
<1>2. \A j \in Jobs : Onward(j)
  <2>1. CASE StopUnsendable(s) \/ StopUnresolved(s) \/ StopMissed(s)
             \/ ClaimSend(s) \/ RevokeAnswer(s) \/ RecordResult(s)
    <3>1. Undelivered(s) \in {"FAILED", "UNKNOWN"}
      BY DEF Undelivered
    <3>2. job' = job \/ OneRow(snd[s].job)
      BY <2>1, <3>1, SenderOnward DEF StopUnsendable, StopUnresolved, StopMissed, Sendable
    <3> QED
      BY <3>2 DEF OneRow, Onward
  <2>2. CASE job' = job
    BY SMTT(40), <2>2 DEF Onward
  <2> QED
    BY <2>1, <2>2 DEF Prepare, Await, LeaveFenced, Resolve, LoseRow, Contended, RefuseLate,
       TimeOut, Crash
<1>3. \A j \in Jobs : FenceSound(j)'
  BY SMTT(40), <1>1, <1>2, OnlyVersion, FenceKeeps
<1>4. /\ \A t \in Senders \ {s} : snd'[t] = snd[t]
      /\ \/ snd'[s] = Idle
         \/ /\ snd[s].pc # "idle" /\ snd'[s].job = snd[s].job /\ snd'[s].row = snd[s].row
            /\ snd'[s].pc # "answered" \/ snd'[s].result # "ACCEPTED"
  <2>1. snd \in [Senders -> Handler] /\ snd[s] \in Handler
    BY DEF ToldInv, SendInv, TypeOK
  <2>2. CASE Done(s)
    BY <2>1, <2>2 DEF Done
  <2>3. CASE Resolve(s)
    BY <2>1, <2>3 DEF Resolve, Sendable, Handler
  <2>4. CASE ClaimSend(s)
    BY <2>1, <2>4 DEF ClaimSend, Handler
  <2>5. CASE RefuseLate(s)
    BY <2>1, <2>5 DEF RefuseLate, Handler
  <2>6. CASE TimeOut(s)
    BY <2>1, <2>6 DEF TimeOut, Handler, Ambiguous
  <2> QED
    BY ZenonT(40), <2>2, <2>3, <2>4, <2>5, <2>6 DEF Prepare, Await, StopUnsendable, StopUnresolved,
       StopMissed, Stop, LeaveFenced, RevokeAnswer, LoseRow, Contended, RecordResult, Crash
<1>5. \A t \in Senders :
        /\ Stays(t)
        /\ \/ snd'[t] = snd[t]
           \/ snd'[t].pc # "answered" \/ snd'[t].result # "ACCEPTED"
  BY <1>4 DEF Stays, Idle
<1> QED
  BY SMTT(40), <1>1, <1>2, <1>3, <1>5, QuietKeeps

\* A handler reads a row: it holds the row's answer.
LEMMA ReadTold ==
  ASSUME ToldInv, SendInv', NEW s \in Senders, NEW k \in Jobs, ReadServer(s, k) \/ ReadRuntime(s, k)
  PROVE  ToldInv'
<1>1. /\ UNCHANGED <<account, job, wire, line, crm>> /\ job[k].status = "READY"
      /\ snd' = [snd EXCEPT ![s] = [Idle EXCEPT !.pc = "read", !.job = k, !.row = job[k],
                   !.since = now, !.at = now, !.method = ChooseMethod(job[k])]]
  BY DEF ReadServer, ReadRuntime, Asking, Begin
<1>2. /\ snd'[s].pc = "read" /\ snd'[s].job = k /\ snd'[s].row = job[k]
      /\ \A t \in Senders \ {s} : snd'[t] = snd[t]
  BY <1>1 DEF Idle, ToldInv, SendInv, TypeOK
<1>3. ASSUME NEW j \in Jobs PROVE TextSound(j)' /\ FenceSound(j)'
  <2>1. TextSound(j) /\ FenceSound(j)
    BY DEF ToldInv
  <2>2. FenceSound(j)'
    BY <1>1, <2>1 DEF FenceSound, ActiveFor, Active, Tombstone
  <2>3. CASE j = k
    BY <1>1, <1>2, <2>1, <2>2, <2>3 DEF TextSound, Unread
  <2>4. CASE j # k
    BY <1>1, <1>2, <2>1, <2>2, <2>4 DEF TextSound
  <2> QED
    BY <2>3, <2>4
<1>4. ASSUME NEW t \in Senders PROVE ToldSound(t)'
  <2>1. snd'[t] = snd[t] \/ snd'[t].pc = "read"
    BY <1>2
  <2> QED
    BY <1>1, <2>1, ToldKeeps
<1> QED
  BY <1>3, <1>4 DEF ToldInv

\* A request carries the answer of the row its handler read.
LEMMA CallTold ==
  ASSUME ToldInv, SendInv', NEW s \in Senders, CallLine(s)
  PROVE  ToldInv'
<1>x. PICK q : q = RequestOf(s, now)
  OBVIOUS
<1>1. /\ UNCHANGED <<account, job, line, crm>> /\ wire' = wire \cup {q} /\ snd[s].pc = "calling"
      /\ snd' = [snd EXCEPT ![s].pc = "waiting", ![s].since = now]
  BY <1>x DEF CallLine
<1>2. /\ snd'[s].pc = "waiting" /\ snd'[s].job = snd[s].job /\ snd'[s].row = snd[s].row
      /\ \A t \in Senders \ {s} : snd'[t] = snd[t]
      /\ q.job = snd[s].job /\ q.text = snd[s].row.answer
  BY <1>x, <1>1 DEF ToldInv, SendInv, TypeOK, Handler, RequestOf
<1>3. ASSUME NEW j \in Jobs PROVE TextSound(j)' /\ FenceSound(j)'
  <2>1. TextSound(j) /\ FenceSound(j)
    BY DEF ToldInv
  <2>2. FenceSound(j)'
    BY <1>1, <2>1 DEF FenceSound, ActiveFor, Active, Tombstone
  <2>3. \A t \in Senders : snd'[t].pc # "idle" /\ snd'[t].job = j =>
           snd[t].pc # "idle" /\ snd[t].job = j /\ snd'[t].row = snd[t].row
    BY ZenonT(40), <1>1, <1>2
  <2>4. job[j].status \in Begun => \A r \in wire' : r.job = j => r.text = job[j].answer
    BY <1>1, <1>2, <2>1 DEF TextSound
  <2>5. TextSound(j)'
    BY ZenonT(40), <1>1, <2>1, <2>3, <2>4 DEF TextSound
  <2> QED
    BY <2>2, <2>5
<1>4. ASSUME NEW t \in Senders PROVE ToldSound(t)'
  <2>1. snd'[t] = snd[t] \/ snd'[t].pc = "waiting"
    BY <1>2
  <2> QED
    BY ZenonT(40), <1>1, <2>1, ToldKeeps
<1> QED
  BY <1>3, <1>4 DEF ToldInv

\* What LINE's answer may say: accepted only what it has shown.
LEMMA AnswerTold ==
  ASSUME ToldInv, SendInv', NEW q \in wire, NEW result \in Results, Respond(q, result),
         UNCHANGED <<account, job, crm>>, wire' \subseteq wire,
         \A j \in Jobs : /\ line'[j].seen # 0 \/ line'[j] = line[j]
                         /\ job[j].status \in Begun /\ line'[j].seen # 0 =>
                              line'[j].text = job[j].answer,
         result = "ACCEPTED" => line'[q.job].seen # 0
  PROVE  ToldInv'
<1>1. \A s \in Senders :
        \/ snd'[s] = snd[s]
        \/ /\ snd[s].pc = "waiting" /\ snd[s].job = q.job
           /\ snd'[s].pc = "answered" /\ snd'[s].result = result
           /\ snd'[s].job = snd[s].job /\ snd'[s].row = snd[s].row
  BY RespondMoves DEF ToldInv
<1>2. ASSUME NEW j \in Jobs PROVE TextSound(j)' /\ FenceSound(j)'
  <2>1. TextSound(j) /\ FenceSound(j)
    BY DEF ToldInv
  <2>2. FenceSound(j)'
    BY <2>1 DEF FenceSound, ActiveFor, Active, Tombstone
  <2>3. \A s \in Senders : snd'[s].pc # "idle" /\ snd'[s].job = j =>
           snd[s].pc # "idle" /\ snd[s].job = j /\ snd'[s].row = snd[s].row
    BY <1>1
  <2>4. /\ line'[j].seen # 0 \/ line'[j] = line[j]
        /\ job[j].status \in Begun /\ line'[j].seen # 0 => line'[j].text = job[j].answer
    OBVIOUS
  <2>5. TextSound(j)'
    BY <2>1, <2>3, <2>4 DEF TextSound
  <2> QED
    BY <2>2, <2>5
<1>3. ASSUME NEW s \in Senders PROVE ToldSound(s)'
  <2>1. snd[s].job \in Jobs /\ ToldSound(s)
    BY Typed DEF ToldInv
  <2>2. line'[snd[s].job].seen # 0 \/ line'[snd[s].job] = line[snd[s].job]
    BY <2>1
  <2> QED
    BY <1>1, <2>1, <2>2 DEF ToldSound
<1> QED
  BY <1>2, <1>3 DEF ToldInv

LEMMA ReceiveTold ==
  ASSUME ToldInv, SendInv', NEW q \in wire, LineReceives(q)
  PROVE  ToldInv'
<1>x. PICK j \in Jobs : j = q.job
  BY Typed DEF ToldInv
<1>1. /\ UNCHANGED <<account, job, crm>> /\ wire' \subseteq wire /\ TextSound(j)
      /\ \A k \in Jobs : TextSound(k)
      /\ line \in [Jobs -> Accepted]
  BY DEF LineReceives, ToldInv, SendInv, TypeOK
<1>2. CASE LineAccepts(q)
  <2>1. PICK result \in {"ACCEPTED", Ambiguous(q.method)} : Respond(q, result)
    BY <1>2 DEF LineAccepts
  <2>2. result \in Results
    BY <2>1 DEF Ambiguous, Results
  <2>3. /\ line'[j].seen = line[j].seen + 1 /\ line'[j].text = q.text
        /\ \A k \in Jobs \ {j} : line'[k] = line[k]
    BY <1>x, <1>1, <1>2 DEF LineAccepts
  <2>4. line'[j].seen # 0
    BY <1>1, <2>3 DEF Accepted
  <2>5. job[j].status \in Begun => line'[j].text = job[j].answer
    BY <1>x, <1>1, <2>3 DEF TextSound
  <2>6. \A k \in Jobs : /\ line'[k].seen # 0 \/ line'[k] = line[k]
                        /\ job[k].status \in Begun /\ line'[k].seen # 0 =>
                             line'[k].text = job[k].answer
    BY <1>1, <2>3, <2>4, <2>5 DEF TextSound
  <2> QED
    BY <1>x, <1>1, <2>1, <2>2, <2>4, <2>6, AnswerTold
<1>3. CASE LineDeclines(q)
  <2>1. PICK result \in {"HTTP_400", "PERMANENT", Ambiguous(q.method), "ACCEPTED"} :
           Respond(q, result) /\ (result = "ACCEPTED" => q.method = "PUSH" /\ KeyLive(q))
    <3>1. Ambiguous(q.method) # "ACCEPTED"
      BY DEF Ambiguous
    <3> QED
      BY <1>3, <3>1 DEF LineDeclines
  <2>2. result \in Results /\ line' = line
    BY <1>3, <2>1 DEF Ambiguous, Results, LineDeclines
  <2>3. result = "ACCEPTED" => line'[q.job].seen # 0
    <3>1. LineSound(j) /\ line[j] \in Accepted
      BY <1>1 DEF ToldInv, SendInv
    <3> QED
      BY <1>x, <2>1, <2>2, <3>1 DEF LineSound, KeyLive
  <2>4. \A k \in Jobs : /\ line'[k].seen # 0 \/ line'[k] = line[k]
                        /\ job[k].status \in Begun /\ line'[k].seen # 0 =>
                             line'[k].text = job[k].answer
    BY <1>1, <2>2 DEF TextSound
  <2> QED
    BY <1>1, <2>1, <2>2, <2>3, <2>4, AnswerTold
<1> QED
  BY <1>2, <1>3 DEF LineReceives

\* Time, lost requests and stuttering.
LEMMA AsideTold ==
  ASSUME ToldInv, SendInv', UNCHANGED <<account, job, snd, line, crm>>, wire' \subseteq wire
  PROVE  ToldInv'
<1>1. \A j \in Jobs : Onward(j) /\ FenceSound(j)'
  <2>1. \A j \in Jobs : Onward(j)
    BY DEF Onward
  <2> QED
    BY <2>1, FenceKeeps
<1>2. \A s \in Senders : Stays(s) /\ snd'[s] = snd[s]
  BY DEF Stays
<1> QED
  BY <1>1, <1>2, QuietKeeps

LEMMA ToldInitHolds == Init => ToldInv
<1> SUFFICES ASSUME Init PROVE ToldInv
  OBVIOUS
<1>1. SendInv
  BY SendInitHolds
<1>2. ASSUME NEW j \in Jobs PROVE TextSound(j) /\ FenceSound(j)
  <2>1. /\ job[j].status = "ABSENT" /\ job[j].owner = "SERVER" /\ job[j].error = "NONE"
        /\ crm[j] = NoAnswer /\ line[j].seen = 0 /\ line[j].text = NoAnswer
        /\ \A s \in Senders : snd[s].pc = "idle"
    BY ZenonT(40) DEF Init, JobsInit, NoRow, Idle
  <2> QED
    BY <2>1 DEF TextSound, FenceSound, Begun, Waiting
<1>3. ASSUME NEW s \in Senders PROVE ToldSound(s)
  BY DEF Init, Idle, ToldSound
<1> QED
  BY <1>1, <1>2, <1>3 DEF ToldInv

LEMMA ToldStepHolds ==
  ASSUME ToldInv, Next
  PROVE  ToldInv'
<1>s. SendInv'
  BY SendStepHolds DEF ToldInv
<1>1. CASE (Admitting \/ Claiming) /\ Beside
  BY <1>s, <1>1, TableTold
<1>2. CASE Execute \/ Intervene
  BY <1>s, <1>2, TableTold DEF Execute, Intervene
<1>3. CASE Network
  <2>1. PICK q \in wire : LineReceives(q) \/ Lose(q)
    BY <1>3 DEF Network
  <2>2. CASE Lose(q)
    BY <1>s, <2>2, AsideTold DEF Lose
  <2> QED
    BY <1>s, <2>1, <2>2, ReceiveTold
<1>4. ASSUME NEW j \in Jobs, Maintain(j) \/ Settle(j) \/ CancelAtSend(j)
      PROVE  ToldInv'
  <2>1. CASE Maintain(j)
    BY <1>s, <2>1, TableTold DEF Maintain, Maintaining
  <2>2. CASE Settle(j) \/ CancelAtSend(j)
    BY <1>s, <2>2, SettleTold DEF Settle
  <2> QED
    BY <1>4, <2>1, <2>2
<1>5. ASSUME NEW s \in Senders, Read(s) \/ Prepare(s) \/ Await(s) \/ Crash(s)
      PROVE  ToldInv'
  <2>1. CASE Read(s)
    BY <1>s, <2>1, ReadTold DEF Read
  <2>2. CASE CallLine(s)
    BY <1>s, <2>2, CallTold
  <2> QED
    BY <1>s, <1>5, <2>1, <2>2, SenderTold
<1>6. CASE Advance
  BY <1>s, <1>6, AsideTold DEF Advance, Tick, Beside
<1> QED
  BY <1>1, <1>2, <1>3, <1>4, <1>5, <1>6 DEF Next, Step

LEMMA ToldInvariance == Spec => []ToldInv
<1>1. ASSUME ToldInv, UNCHANGED vars PROVE ToldInv'
  <2>1. SendInv'
    BY <1>1, SendStutterHolds DEF ToldInv
  <2> QED
    BY <1>1, <2>1, AsideTold DEF vars
<1>2. ToldInv /\ [Next]_vars => ToldInv'
  BY <1>1, ToldStepHolds
<1> QED
  BY ToldInitHolds, <1>2, PTL DEF Spec
-----------------------------------------------------------------------------
\* A queued or executing job is of the account's live epoch; one sendable under an
\* earlier epoch, or to an account switched off, had already begun its send.
THEOREM FencedWorkStopsAlways == Spec => []FencedWorkStops
<1>1. ASSUME ToldInv, NEW j \in Jobs
      PROVE  /\ job[j].status \in {"QUEUED", "CLAIMED"} => ActiveFor(j)
             /\ job[j].status \in {"READY", "SENDING"} /\ ~ActiveFor(j) => job[j].first # NoTime
  BY <1>1, RowKnown DEF FenceSound, RowSound, Waiting, Unread
<1>2. ToldInv => FencedWorkStops
  BY ZenonT(40), <1>1 DEF FencedWorkStops
<1> QED
  BY ToldInvariance, <1>2, PTL

\* A runtime job that is not closed for good lives only on an account that the
\* runtime owns: SwitchOwner's check of the rows is enough.
THEOREM CohortAlwaysHolds == Spec => []CohortHolds
<1>1. ToldInv => CohortHolds
  BY DEF ToldInv, FenceSound, CohortHolds, Closed
<1> QED
  BY ToldInvariance, <1>1, PTL
-----------------------------------------------------------------------------
\* Every step writes one row, or is an account action, or books, or shows.
LEMMA StepKinds ==
  ASSUME ToldInv, Next
  PROVE  \/ UNCHANGED <<line, crm>> /\ (job' = job \/ \E j \in Jobs : OneRow(j))
         \/ UNCHANGED <<line, crm>> /\ Administering
         \/ \E j \in Jobs : ReconcileAccepted(j)
         \/ \E q \in wire : LineAccepts(q) /\ UNCHANGED <<job, crm>>
<1>1. CASE (Admitting \/ Claiming) /\ Beside
  BY <1>1, QueueOnward DEF Beside
<1>2. CASE Execute
  BY <1>2, ExecutorOnward DEF Execute, Beside
<1>3. CASE Intervene
  BY <1>3, InterventionOnward DEF Intervene, Beside
<1>4. CASE Network
  BY <1>4 DEF Network, LineReceives, LineDeclines, Lose
<1>5. ASSUME NEW j \in Jobs, Maintain(j) PROVE UNCHANGED <<line, crm>> /\ \E k \in Jobs : OneRow(k)
  BY SMTT(40), <1>5, QueueOnward DEF Maintain, Maintaining, Beside
<1>6. ASSUME NEW j \in Jobs, CancelAtSend(j) \/ CloseReply(j) \/ RetryPush(j)
      PROVE  UNCHANGED <<line, crm>> /\ \E k \in Jobs : OneRow(k)
  BY ZenonT(40), <1>6, SettleOnward DEF CancelAtSend, CloseReply, RetryPush
<1>7. ASSUME NEW s \in Senders, Read(s) \/ Prepare(s) \/ Await(s) \/ Crash(s)
      PROVE  UNCHANGED <<line, crm>> /\ (job' = job \/ \E j \in Jobs : OneRow(j))
  <2>1. UNCHANGED <<line, crm>>
    BY ZenonT(40), <1>7 DEF Read, ReadServer, ReadRuntime, Prepare, Await, StopUnsendable, StopUnresolved,
       StopMissed, Stop, LeaveFenced, Resolve, ClaimSend, RevokeAnswer, LoseRow, Contended,
       RefuseLate, CallLine, TimeOut, RecordResult, Crash
  <2>2. CASE StopUnsendable(s) \/ StopUnresolved(s) \/ StopMissed(s)
             \/ ClaimSend(s) \/ RevokeAnswer(s) \/ RecordResult(s)
    <3>1. Undelivered(s) \in {"FAILED", "UNKNOWN"}
      BY DEF Undelivered
    <3>2. job' = job \/ OneRow(snd[s].job)
      BY <2>2, <3>1, SenderOnward DEF StopUnsendable, StopUnresolved, StopMissed, Sendable
    <3>3. snd[s].job \in Jobs
      BY Typed DEF ToldInv
    <3> QED
      BY <2>1, <3>2, <3>3
  <2>3. CASE job' = job
    BY <2>1, <2>3
  <2> QED
    BY SMTT(40), <1>7, <2>2, <2>3 DEF Read, ReadServer, ReadRuntime, Prepare, Await, LeaveFenced, Resolve,
       LoseRow, Contended, RefuseLate, CallLine, TimeOut, Crash
<1>8. CASE Advance
  BY <1>8 DEF Advance, Tick, Beside
<1> QED
  BY <1>1, <1>2, <1>3, <1>4, <1>5, <1>6, <1>7, <1>8 DEF Next, Step, Settle

\* A closed row is never reopened, and an erased one never regains an answer or a
\* reply token, whatever stale claim, handler or answer of LINE comes after it.
THEOREM ClosedRowsStayClosed == Spec => ClosedStaysClosed
<1>1. ASSUME ToldInv, [Next]_vars, NEW j \in Jobs
      PROVE  /\ job[j].status \in Terminal => job'[j].status \in Terminal
             /\ job[j].error = "PDPA_ERASURE" =>
                  /\ job'[j].status \in {"UNKNOWN", "CANCELLED"}
                  /\ job'[j].answer = NoAnswer /\ ~job'[j].token
  <2>1. Onward(j)
    <3>1. CASE Next
      <4>1. \/ job' = job \/ Administering
            \/ \E k \in Jobs : OneRow(k) \/ ReconcileAccepted(k)
        BY <1>1, <3>1, StepKinds
      <4>2. CASE job' = job
        BY <4>2 DEF Onward
      <4>3. CASE Administering
        BY <1>1, <4>3, AccountOnward
      <4>4. CASE \E k \in Jobs : OneRow(k) \/ ReconcileAccepted(k)
        <5>1. PICK k \in Jobs : OneRow(k)
          BY <1>1, <4>4, SettleOnward
        <5> QED
          BY <5>1 DEF OneRow, Onward
      <4> QED
        BY <4>1, <4>2, <4>3, <4>4
    <3>2. CASE UNCHANGED vars
      BY <3>2 DEF vars, Onward
    <3> QED
      BY <1>1, <3>1, <3>2
  <2>2. job[j].error = "PDPA_ERASURE" => Tombstone(job[j])
    BY <1>1, RowKnown DEF FenceSound
  <2> QED
    BY <2>1, <2>2 DEF Onward, Tombstone
<1>2. ToldInv /\ [Next]_vars =>
        \A j \in Jobs :
          /\ job[j].status \in Terminal => job'[j].status \in Terminal
          /\ job[j].error = "PDPA_ERASURE" =>
               /\ job'[j].status \in {"UNKNOWN", "CANCELLED"}
               /\ job'[j].answer = NoAnswer /\ ~job'[j].token
  BY <1>1
<1> QED
  BY ToldInvariance, <1>2, PTL DEF Spec, ClosedStaysClosed
-----------------------------------------------------------------------------
\* A step of the contract, or one it does not see.
Promised == [Contract!ContractNext]_Contract!contractVars

LEMMA RowIsPromised ==
  ASSUME ToldInv, NEW j \in Jobs, OneRow(j), UNCHANGED <<line, crm>>
  PROVE  Promised
<1>1. \A k \in Jobs \ {j} : RecordOf(job'[k]) = RecordOf(job[k])
  BY DEF OneRow
<1>2. RecordMoves(RecordOf(job[j]), RecordOf(job'[j]))
  BY DEF OneRow, Onward, RecordMoves
<1>3. CASE RecordOf(job'[j]) = RecordOf(job[j])
  <2>1. \A k \in Jobs : RecordOf(job'[k]) = RecordOf(job[k])
    BY <1>1, <1>3
  <2> QED
    BY <2>1 DEF Promised, Contract!contractVars
<1>4. CASE RecordOf(job[j]) = "none" /\ RecordOf(job'[j]) = "pending"
  <2>1. Contract!Receive(j)
    BY ZenonT(40), <1>1, <1>4 DEF Contract!Receive, Contract!Move
  <2> QED
    BY <2>1 DEF Promised, Contract!ContractNext
<1>5. CASE RecordOf(job[j]) = "pending" /\ RecordOf(job'[j]) = "sending"
  <2>1. Contract!Begin(j)
    BY ZenonT(40), <1>1, <1>5 DEF Contract!Begin, Contract!Move
  <2> QED
    BY <2>1 DEF Promised, Contract!ContractNext
<1>6. CASE RecordOf(job[j]) = "sending" /\ RecordOf(job'[j]) = "delivered"
  <2>1. line[j].seen # 0
    <3>1. job'[j] # job[j] /\ job'[j].status \in {"ACCEPTED", "RECORDED"}
      BY <1>6 DEF RecordOf
    <3> QED
      BY <3>1 DEF OneRow, Onward
  <2>2. Contract!Deliver(j)
    BY ZenonT(40), <1>1, <1>6, <2>1 DEF Contract!Deliver, Contract!Move, Contract!Unshown
  <2> QED
    BY <2>2 DEF Promised, Contract!ContractNext
<1>7. CASE RecordOf(job[j]) = "sending" /\ RecordOf(job'[j]) = "doubt"
  <2>1. Contract!Doubt(j)
    BY ZenonT(40), <1>1, <1>7 DEF Contract!Doubt, Contract!Move
  <2> QED
    BY <2>1 DEF Promised, Contract!ContractNext
<1>8. CASE \/ RecordOf(job[j]) = "pending" /\ RecordOf(job'[j]) = "dropped"
           \/ RecordOf(job[j]) \in {"sending", "doubt", "delivered"} /\ RecordOf(job'[j]) = "ended"
  <2>1. Contract!Close({j})
    BY <1>1, <1>8 DEF Contract!Close
  <2> QED
    BY <2>1 DEF Promised, Contract!ContractNext
<1> QED
  BY <1>2, <1>3, <1>4, <1>5, <1>6, <1>7, <1>8 DEF RecordMoves

\* A fence closes all it cancels at once.
LEMMA FenceIsPromised ==
  ASSUME ToldInv, Administering, UNCHANGED <<line, crm>>
  PROVE  Promised
<1>1. ASSUME NEW j \in Jobs, job'[j] # job[j]
      PROVE  \/ RecordOf(job[j]) = "pending" /\ RecordOf(job'[j]) = "dropped"
             \/ RecordOf(job[j]) = "sending" /\ RecordOf(job'[j]) = "ended"
  <2>1. /\ RecordMoves(RecordOf(job[j]), RecordOf(job'[j]))
        /\ job[j].status \in Waiting /\ job'[j].status = "CANCELLED"
    BY <1>1, AccountOnward DEF Onward
  <2> QED
    BY <2>1 DEF RecordMoves, RecordOf, Waiting, Terminal
<1>x. PICK events \in SUBSET Jobs : events = {j \in Jobs : job'[j] # job[j]}
  OBVIOUS
<1>2. Contract!Close(events)
  BY <1>1, <1>x DEF Contract!Close
<1> QED
  BY <1>2 DEF Promised, Contract!ContractNext

\* The CRM is told what was shown.
LEMMA BookIsPromised ==
  ASSUME ToldInv, NEW j \in Jobs, ReconcileAccepted(j)
  PROVE  Promised
<1>1. /\ job[j].status = "ACCEPTED" /\ line' = line
      /\ crm' = [crm EXCEPT ![j] = job[j].answer] /\ crm \in [Jobs -> Nat \cup {NoAnswer}]
      /\ TextSound(j) /\ OneRow(j)
  BY ZenonT(40), RowKnown, SettleOnward DEF ReconcileAccepted, ToldInv, SendInv, TypeOK
<1>2. /\ job'[j].status = "RECORDED" /\ job'[j].first = job[j].first
      /\ \A k \in Jobs \ {j} : job'[k] = job[k]
  BY RowKnown DEF ReconcileAccepted, Write, JobRow
<1>3. RecordOf(job[j]) = "delivered" /\ RecordOf(job'[j]) = "delivered"
  BY <1>1, <1>2 DEF TextSound, RecordOf
<1>4. \A k \in Jobs : RecordOf(job'[k]) = RecordOf(job[k])
  BY <1>2, <1>3
<1>5. crm[j] = NoAnswer /\ line[j].text = job[j].answer
  BY <1>1 DEF TextSound, Begun
<1>6. Contract!Book(j)
  BY ZenonT(40), <1>1, <1>3, <1>4, <1>5 DEF Contract!Book
<1> QED
  BY <1>6 DEF Promised, Contract!ContractNext

\* What LINE shows, it shows once, and only of a send that was begun.
LEMMA ShowIsPromised ==
  ASSUME ToldInv, NEW q \in wire, LineAccepts(q), UNCHANGED <<job, crm>>
  PROVE  Promised
<1>x. PICK j \in Jobs : j = q.job
  BY Typed DEF ToldInv
<1>1. /\ line' = [line EXCEPT ![j] =
           [replied |-> @.replied \/ q.method = "REPLY",
            pushAt |-> IF q.method = "PUSH" THEN now ELSE @.pushAt,
            seen |-> @.seen + 1, text |-> q.text]]
      /\ line \in [Jobs -> Accepted] /\ WireSound(q) /\ TextSound(j)
      /\ RowSound(job[j], now)
  BY <1>x, RowKnown DEF LineAccepts, ToldInv, SendInv, TypeOK
<1>2. line[j].seen = 0
  BY <1>x, AcceptedOnce DEF ToldInv, LineAccepts
<1>3. line[j].text = NoAnswer
  BY <1>1, <1>2 DEF TextSound
<1>4. RecordOf(job[j]) \in {"sending", "doubt", "ended"}
  BY <1>x, <1>1, <1>2 DEF WireSound, TextSound, RowSound, RecordOf
<1>5. /\ line'[j].seen = 1
      /\ \A k \in Jobs \ {j} : line'[k] = line[k]
  BY <1>1, <1>2
<1>6. Contract!Show(j)
  BY ZenonT(40), <1>3, <1>2, <1>4, <1>5 DEF Contract!Show, Contract!Unshown
<1> QED
  BY <1>6 DEF Promised, Contract!ContractNext

\* The server keeps the channel's contract: the send protocol, with all its senders,
\* crashes, operators and lost answers, implements DeliveryContract.
THEOREM ContractIsKept == Spec => KeepsContract
<1>1. Init => Contract!ContractInit
  BY DEF Init, JobsInit, NoRow, Contract!ContractInit, Contract!Unshown, RecordOf
<1>2. ASSUME ToldInv, [Next]_vars PROVE Promised
  <2>1. CASE job' = job /\ UNCHANGED <<line, crm>>
    BY <2>1 DEF Promised, Contract!contractVars
  <2>2. CASE Next
    BY <1>2, <2>1, <2>2, StepKinds, RowIsPromised, FenceIsPromised, BookIsPromised, ShowIsPromised
  <2>3. CASE UNCHANGED vars
    BY <2>1, <2>3 DEF vars
  <2> QED
    BY <1>2, <2>2, <2>3
<1>3. ToldInv /\ [Next]_vars => [Contract!ContractNext]_Contract!contractVars
  BY <1>2 DEF Promised
<1> QED
  BY ToldInvariance, <1>1, <1>3, PTL DEF Spec, KeepsContract, Contract!ContractSpec
=============================================================================
