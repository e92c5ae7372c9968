---------------------- MODULE ConversationRuntimeProofs ----------------------
(***************************************************************************)
(* The safety of runtime turns, for any number of replicas, jobs, crashes  *)
(* and lost or late calls: machine-checked proofs about                    *)
(* ConversationRuntime, on top of the invariant of the job rows.           *)
(***************************************************************************)
EXTENDS ConversationRuntime, LineJobsProofs

\* The places of a turn before the model is entered, once its answer's text is settled,
\* and once Core was asked to commit it.
Early   == {"claimed", "model", "starting", "ready"}
Late    == {"thread", "appending", "answered", "completing", "delivering"}
Closing == {"completing", "delivering"}

\* A row that may still be committed.
Open == {"ABSENT", "QUEUED", "CLAIMED"}

ClaimAt(r) == [job |-> turn[r].job, exec |-> turn[r].exec, version |-> turn[r].version,
               claimant |-> r]

\* An execution belongs to one replica, and none is ahead of its row.
ClaimsApart ==
  /\ \A c, d \in claims : c.job = d.job /\ c.exec = d.exec => c.claimant = d.claimant
  /\ \A c \in claims : c.exec <= job[c.job].exec

\* A text that may be committed rests on its records.
TextSound(j, text) ==
  /\ text # NoAnswer
  /\ text > Fixed => model[j].state = "completed" /\ model[j].text = text
  /\ text = WorkReply => work[j] = "done"

TurnSound(r) ==
  LET t == turn[r] IN
  t.pc # "idle" =>
    /\ ClaimAt(r) \in claims
    /\ t.pc = "ready" => model[t.job].state # "none" /\ model[t.job].by = t.exec
    /\ t.pc = "finishing" => t.text = t.exec
    /\ calls[t.job] > 0 /\ model[t.job].by = t.exec => t.pc \notin Early
    /\ t.pc \in Late => TextSound(t.job, t.text)
    /\ job[t.job].status = "READY" /\ job[t.job].exec = t.exec =>
         t.pc \in Closing /\ t.text = said[t.job]
    /\ t.pc = "delivering" => job[t.job].status \notin Open /\ said[t.job] = t.text

\* A request to commit carries what its turn goes on with.
Told(q) ==
  LET t == turn[q.by] IN
  q.op = "complete" /\ t.pc # "idle" /\ t.job = q.job /\ t.exec = q.exec =>
    t.pc \in Closing /\ t.text = q.text

CallSound(q) ==
  /\ ClaimOf(q) \in claims
  /\ q.op = "finish" => q.text = q.exec
  /\ q.op \in {"append", "receipt", "complete"} => TextSound(q.job, q.text)
  /\ q.op = "receipt" => thread[q.job] # NoAnswer

Recorded(j) ==
  /\ job[j].status = "ABSENT" => job[j].exec = 0
  /\ calls[j] <= 1 /\ (calls[j] > 0 => model[j].state # "none")
  /\ model[j].state = "completed" => model[j].text \in Nat
  /\ model[j].by <= job[j].exec
  /\ receipt[j] # NoAnswer => thread[j] # NoAnswer
  /\ said[j] > Fixed => model[j].state = "completed" /\ model[j].text = said[j]
  /\ MemorySync /\ asks[j] = "QUESTION" /\ said[j] \notin {NoAnswer, Fixed} => receipt[j] = said[j]
  /\ said[j] = WorkReply => work[j] = "done"

IInv ==
  /\ JobsInv /\ TurnTypeOK /\ ClaimsApart
  /\ \A r \in Claimants : TurnSound(r)
  /\ \A q \in net : CallSound(q) /\ Told(q)
  /\ \A j \in Jobs : Recorded(j)
-----------------------------------------------------------------------------
\* The named texts, stages and operations have their types.
LEMMA Words ==
  /\ Nat \subseteq Texts /\ {NoAnswer, Fixed, NoEvidence, WorkReply, WorkRefusal} \subseteq Texts
  /\ Texts \subseteq Int
  /\ Early \subseteq Stages /\ Late \subseteq Stages /\ Closing \subseteq Late
  /\ Idle \in Turn /\ Idle.pc = "idle"
<1>1. (CHOOSE j \in Jobs : TRUE) \in Jobs
  BY RuntimeAssumption
<1>2. /\ Nat \subseteq Texts /\ Texts \subseteq Int
      /\ {NoAnswer, Fixed, NoEvidence, WorkReply, WorkRefusal} \subseteq Texts
  BY DEF Texts, NoAnswer, Fixed, NoEvidence, WorkReply, WorkRefusal
<1>3. Early \subseteq Stages /\ Late \subseteq Stages /\ Closing \subseteq Late
  BY DEF Early, Late, Closing, Stages
<1>4. "idle" \in Stages /\ NoAnswer \in Texts
  BY <1>2 DEF Stages
<1>5. Idle \in Turn /\ Idle.pc = "idle"
  BY <1>1, <1>4 DEF Idle, Turn
<1>6. QED BY <1>2, <1>3, <1>5

\* What the invariant says of one turn's types.
LEMMA TurnType ==
  ASSUME IInv, NEW r \in Claimants
  PROVE  /\ turn[r] \in Turn /\ turn[r].pc \in Stages /\ turn[r].job \in Jobs
         /\ turn[r].exec \in Nat /\ turn[r].version \in Nat /\ turn[r].lease \in Nat
         /\ turn[r].flying \in BOOLEAN /\ turn[r].broken \in BOOLEAN
         /\ turn[r].text \in Texts /\ turn[r].try \in {0, 1}
BY DEF IInv, TurnTypeOK, Turn

\* What the invariant says of one request's types.
LEMMA CallType ==
  ASSUME IInv, NEW q \in net
  PROVE  /\ q \in Request /\ q.by \in Claimants /\ q.op \in Ops /\ q.job \in Jobs
         /\ q.exec \in Nat /\ q.version \in Nat /\ q.text \in Texts /\ q.try \in {0, 1}
         /\ ClaimOf(q) \in claims /\ CallSound(q) /\ Told(q)
BY DEF IInv, TurnTypeOK, Request, CallSound

\* What the invariant says of one job.
LEMMA JobType ==
  ASSUME IInv, NEW j \in Jobs
  PROVE  /\ job[j] \in JobRow /\ job[j].exec \in Nat /\ job[j].version \in Nat
         /\ calls[j] \in Nat /\ model[j].by \in Nat /\ model[j].text \in Texts
         /\ model[j].state \in {"none", "started", "completed"}
         /\ thread[j] \in Texts /\ receipt[j] \in Texts /\ said[j] \in Texts
         /\ work[j] \in {"none", "done"} /\ Recorded(j)
<1>1. job[j] \in JobRow /\ job[j].exec \in Nat /\ job[j].version \in Nat
  BY RowType DEF IInv, JobRow
<1>2. /\ calls[j] \in Nat /\ model[j].by \in Nat /\ model[j].text \in Texts
      /\ model[j].state \in {"none", "started", "completed"}
      /\ thread[j] \in Texts /\ receipt[j] \in Texts /\ said[j] \in Texts
      /\ work[j] \in {"none", "done"} /\ Recorded(j)
  BY DEF IInv, TurnTypeOK
<1>3. QED BY <1>1, <1>2

\* A call carries the claim of its turn.
LEMMA CallMade ==
  ASSUME IInv, NEW r \in Claimants, NEW op \in Ops, NEW text \in Texts, NEW try \in {0, 1}
  PROVE  LET q == Call(r, op, text, try) IN
         /\ q \in Request /\ q.by = r /\ q.op = op /\ q.text = text /\ q.try = try
         /\ q.job = turn[r].job /\ q.exec = turn[r].exec /\ ClaimOf(q) = ClaimAt(r)
BY TurnType DEF Call, Request, ClaimOf, ClaimAt

\* A replica's turn is the only one, idle ones aside, that has its execution; and a
\* request belongs to the turn of its execution.
LEMMA OneTurn ==
  ASSUME IInv
  PROVE  /\ \A x, y \in Claimants :
              turn[x].pc # "idle" /\ turn[y].pc # "idle" /\ turn[x].job = turn[y].job
                /\ turn[x].exec = turn[y].exec => x = y
         /\ \A x \in Claimants, q \in net :
              turn[x].pc # "idle" /\ turn[x].job = q.job /\ turn[x].exec = q.exec => x = q.by
<1>1. \A x \in Claimants : turn[x].pc # "idle" =>
        /\ ClaimAt(x) \in claims /\ ClaimAt(x).job = turn[x].job
        /\ ClaimAt(x).exec = turn[x].exec /\ ClaimAt(x).claimant = x
  BY DEF IInv, TurnSound, ClaimAt
<1>2. \A q \in net : /\ ClaimOf(q) \in claims /\ ClaimOf(q).job = q.job
                     /\ ClaimOf(q).exec = q.exec /\ ClaimOf(q).claimant = q.by
  BY ZenonT(40), CallType DEF ClaimOf
<1>3. \A c, d \in claims : c.job = d.job /\ c.exec = d.exec => c.claimant = d.claimant
  BY DEF IInv, ClaimsApart
<1>4. ASSUME NEW x \in Claimants, NEW y \in Claimants, turn[x].pc # "idle", turn[y].pc # "idle",
             turn[x].job = turn[y].job, turn[x].exec = turn[y].exec
      PROVE  x = y
  <2>1. ClaimAt(x).claimant = ClaimAt(y).claimant
    BY <1>1, <1>3, <1>4
  <2>2. QED BY <1>1, <1>4, <2>1
<1>5. ASSUME NEW x \in Claimants, NEW q \in net, turn[x].pc # "idle",
             turn[x].job = q.job, turn[x].exec = q.exec
      PROVE  x = q.by
  <2>1. ClaimAt(x).claimant = ClaimOf(q).claimant
    BY <1>1, <1>2, <1>3, <1>5
  <2>2. QED BY <1>1, <1>2, <1>5, <2>1
<1>6. QED BY <1>4, <1>5
-----------------------------------------------------------------------------
\* A step keeps every claim, and what a trace, a thread and a work receipt say.
Grows ==
  /\ claims \subseteq claims'
  /\ \A j \in Jobs : model[j].state # "none" =>
       model'[j].state # "none" /\ model'[j].by = model[j].by
  /\ \A j \in Jobs : model[j].state = "completed" =>
       model'[j].state = "completed" /\ model'[j].text = model[j].text
  /\ \A j \in Jobs : work[j] = "done" => work'[j] = "done"
  /\ \A j \in Jobs : thread[j] # NoAnswer => thread'[j] # NoAnswer

\* A job whose calls, row and text the turn x need not notice.
Unnoticed(x, j) ==
  /\ \/ calls'[j] = calls[j]
     \/ model[j].by # turn[x].exec /\ model[j].state # "none"
  /\ job'[j].status = "READY" /\ job'[j].exec = turn[x].exec =>
       job[j].status = "READY" /\ job[j].exec = turn[x].exec /\ said'[j] = said[j]
  /\ job[j].status \notin Open => job'[j].status \notin Open /\ said'[j] = said[j]

LEMMA TextKept ==
  ASSUME Grows, NEW j \in Jobs, NEW text, TextSound(j, text)
  PROVE  TextSound(j, text)'
BY DEF Grows, TextSound

LEMMA TurnKept ==
  ASSUME IInv, Grows, NEW x \in Claimants, turn'[x] = turn[x], Unnoticed(x, turn[x].job)
  PROVE  TurnSound(x)'
<1> DEFINE t == turn[x]
<1>. SUFFICES ASSUME t.pc # "idle" PROVE TurnSound(x)'
  BY DEF TurnSound
<1>1. TurnSound(x) /\ t.job \in Jobs /\ Recorded(t.job) /\ calls[t.job] \in Nat
  BY TurnType, JobType DEF IInv
<1>2. ClaimAt(x)' \in claims'
  BY <1>1 DEF TurnSound, ClaimAt, Grows
<1>3. t.pc = "ready" => model'[t.job].state # "none" /\ model'[t.job].by = t.exec
  BY <1>1 DEF TurnSound, Grows
<1>4. calls'[t.job] > 0 /\ model'[t.job].by = t.exec => t.pc \notin Early
  BY <1>1 DEF TurnSound, Grows, Recorded, Unnoticed
<1>5. t.pc \in Late => TextSound(t.job, t.text)'
  <2>1. SUFFICES ASSUME t.pc \in Late PROVE TextSound(t.job, t.text)'
    OBVIOUS
  <2>2. TextSound(t.job, t.text)
    BY <1>1, <2>1 DEF TurnSound
  <2>3. QED BY <1>1, <2>2 DEF TextSound, Grows
<1>6. job'[t.job].status = "READY" /\ job'[t.job].exec = t.exec =>
        t.pc \in Closing /\ t.text = said'[t.job]
  BY <1>1 DEF TurnSound, Unnoticed
<1>7. t.pc = "delivering" => job'[t.job].status \notin Open /\ said'[t.job] = t.text
  BY <1>1 DEF TurnSound, Unnoticed
<1>8. t.pc = "finishing" => t.text = t.exec
  BY <1>1 DEF TurnSound
<1>9. QED
  BY <1>2, <1>3, <1>4, <1>5, <1>6, <1>7, <1>8 DEF TurnSound, TextSound

LEMMA CallKept ==
  ASSUME IInv, Grows, NEW q \in net
  PROVE  CallSound(q)'
<1>1. CallSound(q) /\ q.job \in Jobs
  BY CallType
<1>2. ClaimOf(q)' \in claims'
  BY <1>1 DEF CallSound, ClaimOf, Grows
<1>3. q.op \in {"append", "receipt", "complete"} => TextSound(q.job, q.text)'
  BY <1>1 DEF CallSound, TextSound, Grows
<1>4. q.op = "receipt" => thread'[q.job] # NoAnswer
  BY <1>1 DEF CallSound, Grows
<1>5. q.op = "finish" => q.text = q.exec
  BY <1>1 DEF CallSound
<1>6. QED BY <1>2, <1>3, <1>4, <1>5 DEF CallSound, TextSound, ClaimOf
-----------------------------------------------------------------------------
\* A turn that waits for nothing has nothing to show.
LEMMA IdleSound ==
  ASSUME NEW x, turn'[x].pc = "idle"
  PROVE  TurnSound(x)'
BY DEF TurnSound

\* A step of one turn by itself: the rows and the records stay, and the model may be
\* entered by a turn that is ready.
LEMMA OwnStep ==
  ASSUME IInv, NEW r \in Claimants, Keep,
         UNCHANGED <<asks, model, thread, receipt, work, said>>, crashes' \in Nat,
         NEW t \in Turn, turn' = [turn EXCEPT ![r] = t],
         calls' \in [Jobs -> Nat],
         \A k \in Jobs : \/ calls'[k] = calls[k]
                         \/ /\ k = turn[r].job /\ turn[r].pc = "ready"
                            /\ calls'[k] = calls[k] + 1,
         TurnSound(r)',
         \A q \in net' : \/ q \in net
                         \/ q \in Request /\ q.by = r /\ CallSound(q)',
         \A q \in net' : q.by = r => Told(q)'
  PROVE  IInv'
<1>1. JobsInv'
  BY JobsStutterHolds DEF IInv, Keep
<1>2. /\ turn' \in [Claimants -> Turn] /\ turn'[r] = t
      /\ \A x \in Claimants \ {r} : turn'[x] = turn[x]
  BY DEF IInv, TurnTypeOK
<1>3. TurnTypeOK'
  BY <1>2 DEF IInv, TurnTypeOK
<1>4. ClaimsApart' /\ Grows
  BY DEF IInv, ClaimsApart, Grows, Keep, jobsVars
<1>5. ASSUME NEW k \in Jobs, calls'[k] # calls[k]
      PROVE  /\ k = turn[r].job /\ turn[r].pc # "idle" /\ calls[k] = 0 /\ calls'[k] = 1
             /\ model[k].state # "none" /\ model[k].by = turn[r].exec
  <2>1. k = turn[r].job /\ turn[r].pc = "ready" /\ calls'[k] = calls[k] + 1 /\ TurnSound(r)
    BY <1>5 DEF IInv
  <2>2. /\ model[k].state # "none" /\ model[k].by = turn[r].exec
        /\ ~(calls[k] > 0 /\ model[k].by = turn[r].exec)
    BY <2>1 DEF TurnSound, Early
  <2>3. QED BY <2>1, <2>2, JobType
<1>6. \A j \in Jobs : Recorded(j)'
  <2>1. SUFFICES ASSUME NEW j \in Jobs PROVE Recorded(j)'
    OBVIOUS
  <2>2. /\ calls'[j] <= 1
        /\ calls'[j] > 0 => model[j].state # "none"
    BY <1>5, JobType DEF Recorded
  <2>3. QED BY <2>2, JobType DEF Recorded, Keep, jobsVars
<1>7. ASSUME NEW x \in Claimants \ {r} PROVE TurnSound(x)'
  <2>1. CASE turn[x].pc = "idle"
    BY <1>2, <2>1, IdleSound
  <2>2. CASE turn[x].pc # "idle"
    <3>1. turn[x].job \in Jobs /\ turn'[x] = turn[x]
      BY <1>2, TurnType
    <3>2. ASSUME calls'[turn[x].job] # calls[turn[x].job]
          PROVE  model[turn[x].job].by # turn[x].exec /\ model[turn[x].job].state # "none"
      <4>1. /\ turn[x].job = turn[r].job /\ turn[r].pc # "idle"
            /\ model[turn[x].job].by = turn[r].exec /\ model[turn[x].job].state # "none"
        BY <1>5, <3>1, <3>2
      <4>2. turn[x].exec # turn[r].exec
        BY <2>2, <4>1, OneTurn
      <4>3. QED BY <4>1, <4>2
    <3>3. Unnoticed(x, turn[x].job)
      <4>1. job' = job /\ said' = said
        BY DEF Keep, jobsVars
      <4>2. QED BY <3>2, <4>1 DEF Unnoticed
    <3>4. QED BY <1>4, <3>1, <3>3, TurnKept
  <2>3. QED BY <2>1, <2>2
<1>8. ASSUME NEW q \in net' PROVE CallSound(q)' /\ Told(q)'
  <2>1. CallSound(q)'
    BY <1>4, CallKept
  <2>2. Told(q)'
    <3>1. CASE q.by = r
      BY <3>1
    <3>2. CASE q.by # r
      <4>1. q \in net /\ Told(q) /\ q.by \in Claimants
        BY <3>2, CallType
      <4>2. turn'[q.by] = turn[q.by]
        BY <1>2, <3>2, <4>1
      <4>3. QED BY <4>1, <4>2 DEF Told
    <3>3. QED BY <3>1, <3>2
  <2>3. QED BY <2>1, <2>2
<1>9. QED
  BY <1>1, <1>3, <1>4, <1>6, <1>7, <1>8 DEF IInv
\* One entry of the provider more, for the job of this turn.
CallsMore(r) == calls' = [calls EXCEPT ![turn[r].job] = @ + 1]

LEMMA CallsMoved ==
  ASSUME IInv, NEW r \in Claimants, calls' = calls \/ (turn[r].pc = "ready" /\ CallsMore(r))
  PROVE  /\ calls' \in [Jobs -> Nat]
         /\ \A k \in Jobs : \/ calls'[k] = calls[k]
                            \/ /\ k = turn[r].job /\ turn[r].pc = "ready"
                               /\ calls'[k] = calls[k] + 1
<1>1. calls \in [Jobs -> Nat] /\ turn[r].job \in Jobs
  BY TurnType DEF IInv, TurnTypeOK
<1>2. CASE calls' = calls
  BY <1>1, <1>2
<1>3. CASE turn[r].pc = "ready" /\ CallsMore(r)
  <2>1. calls[turn[r].job] + 1 \in Nat
    BY <1>1
  <2>2. calls' = [calls EXCEPT ![turn[r].job] = calls[turn[r].job] + 1]
    BY <1>3 DEF CallsMore
  <2>3. QED BY <1>1, <1>3, <2>1, <2>2
<1>4. QED BY <1>2, <1>3

\* A turn that did not ask for its completion has no completion call under way.
LEMMA NothingAsked ==
  ASSUME IInv, NEW r \in Claimants, turn[r].pc \notin Closing, turn[r].pc # "idle"
  PROVE  /\ \A q \in net : q.by = r /\ q.job = turn[r].job /\ q.exec = turn[r].exec =>
              q.op # "complete"
         /\ ~(job[turn[r].job].status = "READY" /\ job[turn[r].job].exec = turn[r].exec)
<1>1. \A q \in net : Told(q)
  BY CallType
<1>2. TurnSound(r)
  BY DEF IInv
<1>3. QED BY <1>1, <1>2 DEF Told, TurnSound

\* A turn that has not asked Core to commit moves to another place, with a call or
\* without, for the text it goes on with.
LEMMA MoveStep ==
  ASSUME IInv, NEW r \in Claimants, turn[r].pc \notin Closing, turn[r].pc # "idle",
         Keep, UNCHANGED <<asks, model, thread, receipt, work, said, crashes>>,
         NEW pc \in Stages \ {"idle", "delivering"}, NEW text \in Texts, NEW try \in {0, 1},
         turn' = [turn EXCEPT ![r].pc = pc, ![r].text = text, ![r].try = try],
         calls' = calls \/ (turn[r].pc = "ready" /\ CallsMore(r)),
         pc = "ready" => model[turn[r].job].state # "none" /\ model[turn[r].job].by = turn[r].exec,
         pc = "finishing" => text = turn[r].exec,
         pc \in Early => turn[r].pc \in Early /\ calls' = calls,
         pc \in Late => TextSound(turn[r].job, text),
         NEW op \in Ops \ {"receipt"}, net' \in {net, net \cup {Call(r, op, text, try)}},
         op = "finish" => text = turn[r].exec,
         op \in {"append", "complete"} => TextSound(turn[r].job, text),
         op = "complete" => pc \in Closing
  PROVE  IInv'
<1>0. [turn[r] EXCEPT !.pc = pc, !.text = text, !.try = try] \in Turn
  BY ZenonT(40), TurnType DEF Turn
<1>t. PICK t \in Turn : t = [turn[r] EXCEPT !.pc = pc, !.text = text, !.try = try]
  BY <1>0
<1>1. /\ t.pc = pc /\ t.text = text /\ t.try = try /\ t.job = turn[r].job
      /\ t.exec = turn[r].exec /\ t.version = turn[r].version
  BY <1>t, TurnType DEF Turn
<1>2. turn' = [turn EXCEPT ![r] = t] /\ turn'[r] = t
  BY ZenonT(40), <1>t DEF IInv, TurnTypeOK
<1>q. PICK q : q = Call(r, op, text, try)
  OBVIOUS
<1>3. /\ q \in Request /\ q.by = r /\ q.op = op /\ q.text = text
      /\ q.job = turn[r].job /\ q.exec = turn[r].exec /\ ClaimOf(q) = ClaimAt(r)
  BY <1>q, CallMade
<1>4. /\ job' = job /\ claims' = claims /\ said' = said /\ model' = model /\ work' = work
      /\ thread' = thread
  BY DEF Keep, jobsVars
<1>5. TurnSound(r)'
  <2>1. TurnSound(r) /\ ClaimAt(r) \in claims
    BY DEF IInv, TurnSound
  <2>2. ClaimAt(r)' \in claims'
    BY ZenonT(40), <1>1, <1>2, <1>4, <2>1 DEF ClaimAt
  <2>3. ~(calls'[t.job] > 0 /\ model[t.job].by = t.exec /\ t.pc \in Early)
    BY <1>1, <2>1 DEF TurnSound
  <2>4. t.pc \in Late => TextSound(t.job, t.text)'
    BY <1>1, <1>4 DEF TextSound
  <2>5. ~(job[t.job].status = "READY" /\ job[t.job].exec = t.exec)
    BY <1>1, NothingAsked
  <2>6. t.pc = "ready" => model[t.job].state # "none" /\ model[t.job].by = t.exec
    BY <1>1
  <2>7. t.pc = "finishing" => t.text = t.exec
    BY <1>1
  <2>8. QED
    BY <1>1, <1>2, <1>4, <2>2, <2>3, <2>4, <2>5, <2>6, <2>7 DEF TurnSound, TextSound
<1>6. CallSound(q)'
  <2>1. ClaimOf(q) \in claims
    BY <1>3 DEF IInv, TurnSound
  <2>2. op \in {"append", "complete"} => TextSound(q.job, q.text)'
    BY <1>3, <1>4 DEF TextSound
  <2>3. QED BY <1>3, <1>4, <2>1, <2>2 DEF CallSound, TextSound, ClaimOf
<1>7. ASSUME NEW x \in net', x.by = r PROVE Told(x)'
  <2>1. CASE x \in net
    <3>1. x.op = "complete" => ~(x.job = turn[r].job /\ x.exec = turn[r].exec)
      BY <1>7, <2>1, NothingAsked
    <3>2. QED BY <1>1, <1>2, <1>7, <3>1 DEF Told
  <2>2. CASE x = q
    BY ZenonT(40), <1>1, <1>2, <1>3, <2>2 DEF Told
  <2>3. QED BY <2>1, <2>2, <1>7, <1>q
<1>8. \A x \in net' : x \in net \/ x = q
  BY <1>q
<1>9. \A x \in net' : \/ x \in net
                      \/ x \in Request /\ x.by = r /\ CallSound(x)'
  BY <1>3, <1>6, <1>8
<1>10. crashes' \in Nat
  BY DEF IInv, TurnTypeOK
<1>11. QED
  BY ZenonT(40), <1>1, <1>2, <1>5, <1>7, <1>9, <1>10, CallsMoved, OwnStep
\* A turn ends, with a failure reported or without.
LEMMA EndStep ==
  ASSUME IInv, NEW r \in Claimants, turn[r].pc # "idle", Keep,
         UNCHANGED <<asks, model, thread, receipt, work, said>>, crashes' \in Nat, End(r),
         calls' = calls \/ (turn[r].pc = "ready" /\ CallsMore(r)),
         NEW op \in {"FAILED", "UNKNOWN"},
         net' \in {net, net \cup {Call(r, op, turn[r].text, 0)}}
  PROVE  IInv'
<1>q. PICK q : q = Call(r, op, turn[r].text, 0)
  OBVIOUS
<1>1. /\ q \in Request /\ q.by = r /\ q.op = op /\ ClaimOf(q) = ClaimAt(r)
  <2>1. op \in Ops /\ 0 \in {0, 1}
    BY DEF Ops
  <2>2. QED BY <1>q, <2>1, CallMade, TurnType
<1>2. Idle \in Turn /\ turn' = [turn EXCEPT ![r] = Idle] /\ turn'[r] = Idle /\ Idle.pc = "idle"
  BY Words DEF End, IInv, TurnTypeOK
<1>3. claims' = claims
  BY DEF Keep, jobsVars
<1>4. CallSound(q)'
  <2>1. ClaimOf(q) \in claims
    BY <1>1 DEF IInv, TurnSound
  <2>2. QED BY <1>1, <1>3, <2>1 DEF CallSound, ClaimOf
<1>5. TurnSound(r)'
  BY <1>2, IdleSound
<1>6. \A x \in net' : x.by = r => Told(x)'
  BY <1>2 DEF Told
<1>7. \A x \in net' : \/ x \in net
                      \/ x \in Request /\ x.by = r /\ CallSound(x)'
  BY <1>q, <1>1, <1>4
<1>8. QED
  BY ZenonT(40), <1>2, <1>5, <1>6, <1>7, CallsMoved, OwnStep

LEMMA FailStep ==
  ASSUME IInv, NEW r \in Claimants, turn[r].pc # "idle", Keep,
         UNCHANGED <<asks, model, thread, receipt, work, said, crashes>>,
         calls' = calls \/ (turn[r].pc = "ready" /\ CallsMore(r)),
         NEW op \in {"FAILED", "UNKNOWN"}, Fail(r, op)
  PROVE  IInv'
<1>1. End(r) /\ net' \in {net, net \cup {Call(r, op, turn[r].text, 0)}}
  BY DEF Fail
<1>2. crashes' \in Nat
  BY DEF IInv, TurnTypeOK
<1>3. QED BY <1>1, <1>2, EndStep

\* A renewal starts or is given up: the turn stays where it is.
LEMMA FlagStep ==
  ASSUME IInv, NEW r \in Claimants, Keep,
         UNCHANGED <<asks, model, calls, thread, receipt, work, said, crashes>>,
         NEW flying \in BOOLEAN, NEW broken \in BOOLEAN,
         turn' = [turn EXCEPT ![r].flying = flying, ![r].broken = broken],
         \/ net' = net
         \/ turn[r].pc # "idle" /\ net' = net \cup {Call(r, "renew", NoAnswer, 0)}
  PROVE  IInv'
<1>0. [turn[r] EXCEPT !.flying = flying, !.broken = broken] \in Turn
  BY ZenonT(40), TurnType DEF Turn
<1>t. PICK t \in Turn : t = [turn[r] EXCEPT !.flying = flying, !.broken = broken]
  BY <1>0
<1>1. /\ t.pc = turn[r].pc /\ t.text = turn[r].text /\ t.job = turn[r].job
      /\ t.exec = turn[r].exec /\ t.version = turn[r].version
  BY <1>t, TurnType DEF Turn
<1>2. turn' = [turn EXCEPT ![r] = t] /\ turn'[r] = t
  BY ZenonT(40), <1>t DEF IInv, TurnTypeOK
<1>q. PICK q : q = Call(r, "renew", NoAnswer, 0)
  OBVIOUS
<1>3. q \in Request /\ q.by = r /\ q.op = "renew" /\ ClaimOf(q) = ClaimAt(r)
  <2>1. "renew" \in Ops /\ 0 \in {0, 1} /\ NoAnswer \in Texts
    BY Words DEF Ops
  <2>2. QED BY <1>q, <2>1, CallMade
<1>4. /\ job' = job /\ claims' = claims /\ said' = said /\ model' = model /\ work' = work
      /\ calls' = calls
  BY DEF Keep, jobsVars
<1>5. TurnSound(r) /\ (turn[r].pc # "idle" => ClaimAt(r) \in claims)
  BY DEF IInv, TurnSound
<1>6. TurnSound(r)'
  <2>1. turn[r].pc # "idle" => ClaimAt(r)' \in claims'
    BY <1>1, <1>2, <1>4, <1>5 DEF ClaimAt
  <2>2. QED BY <1>1, <1>2, <1>4, <1>5, <2>1 DEF TurnSound, TextSound
<1>7. turn[r].pc # "idle" => CallSound(q)'
  BY <1>3, <1>4, <1>5 DEF CallSound, ClaimOf
<1>8. ASSUME NEW x \in net', x.by = r PROVE Told(x)'
  <2>1. CASE x \in net
    <3>1. Told(x)
      BY <2>1, CallType
    <3>2. QED BY <1>1, <1>2, <1>8, <3>1 DEF Told
  <2>2. CASE x = q
    BY <1>3, <2>2 DEF Told
  <2>3. QED BY <2>1, <2>2, <1>8, <1>q
<1>9. \A x \in net' : \/ x \in net
                      \/ x \in Request /\ x.by = r /\ CallSound(x)'
  BY <1>q, <1>3, <1>7
<1>10. crashes' \in Nat
  BY DEF IInv, TurnTypeOK
<1>11. QED
  BY ZenonT(40), <1>2, <1>6, <1>8, <1>9, <1>10, CallsMoved, OwnStep
-----------------------------------------------------------------------------
\* The texts a turn may commit without having asked the model in this execution.
LEMMA SoundTexts ==
  ASSUME IInv, NEW j \in Jobs
  PROVE  /\ TextSound(j, Fixed) /\ TextSound(j, NoEvidence) /\ TextSound(j, WorkRefusal)
         /\ work[j] = "done" => TextSound(j, WorkReply)
         /\ model[j].state = "completed" => TextSound(j, model[j].text)
BY JobType DEF TextSound, Recorded, NoAnswer, Fixed, NoEvidence, WorkReply, WorkRefusal

LEMMA LateSound ==
  ASSUME IInv, NEW r \in Claimants, turn[r].pc \in Late
  PROVE  TextSound(turn[r].job, turn[r].text) /\ turn[r].pc # "idle"
BY DEF IInv, TurnSound, Late

\* A turn goes on without a call, or with one.
LEMMA GoStep ==
  ASSUME IInv, NEW r \in Claimants, turn[r].pc \notin Closing, turn[r].pc # "idle",
         Keep, UNCHANGED <<asks, model, calls, thread, receipt, work, said, crashes>>,
         NEW pc \in Stages \ {"idle", "delivering", "finishing"}, NEW text \in Texts,
         Go(r, pc, text),
         pc = "ready" => model[turn[r].job].state # "none" /\ model[turn[r].job].by = turn[r].exec,
         pc \in Early => turn[r].pc \in Early,
         pc \in Late => TextSound(turn[r].job, text)
  PROVE  IInv'
<1>1. /\ turn' = [turn EXCEPT ![r].pc = pc, ![r].text = text, ![r].try = 0]
      /\ net' = net /\ calls' = calls
  BY DEF Go
<1>2. "renew" \in Ops \ {"receipt"} /\ 0 \in {0, 1} /\ pc # "finishing"
      /\ "renew" \notin {"append", "complete", "finish"}
  BY DEF Ops
<1>3. QED BY ZenonT(40), <1>1, <1>2, MoveStep

LEMMA SendStep ==
  ASSUME IInv, NEW r \in Claimants, turn[r].pc \notin Closing, turn[r].pc # "idle",
         Keep, UNCHANGED <<asks, model, thread, receipt, work, said, crashes>>,
         NEW pc \in Stages \ {"idle", "delivering"}, NEW text \in Texts, NEW try \in {0, 1},
         NEW op \in Ops \ {"receipt"}, Send(r, op, text, try, pc),
         calls' = calls \/ (turn[r].pc = "ready" /\ CallsMore(r)),
         pc # "ready", pc = "finishing" => text = turn[r].exec,
         pc \in Early => turn[r].pc \in Early /\ calls' = calls,
         pc \in Late => TextSound(turn[r].job, text),
         op = "finish" => text = turn[r].exec,
         op \in {"append", "complete"} => pc \in Late,
         op = "complete" => pc \in Closing
  PROVE  IInv'
<1>1. /\ turn' = [turn EXCEPT ![r].pc = pc, ![r].text = text, ![r].try = try]
      /\ net' \in {net, net \cup {Call(r, op, text, try)}}
  BY DEF Send
<1>2. QED BY ZenonT(40), <1>1, MoveStep
-----------------------------------------------------------------------------
\* The stages of a turn, one lemma each; Places are the stages the model has.
Onward == IF MemorySync THEN "thread" ELSE "answered"

LEMMA Places ==
  /\ Onward \in Late \ Closing /\ Onward \notin {"idle", "ready", "finishing"}
  /\ \A pc \in {"claimed", "model", "starting", "ready"} : pc \in Early \ Late
  /\ \A pc \in {"thread", "appending", "answered"} : pc \in Late \ (Early \cup Closing)
  /\ \A pc \in {"idle", "work", "working", "refused", "finishing"} : pc \notin Early \cup Late
  /\ \A pc \in {"completing", "delivering"} : pc \in Closing /\ pc \in Late \ Early
  /\ "idle" \notin Early \cup Late /\ Closing \subseteq Late /\ Onward \notin Early
BY DEF Onward, Early, Late, Closing

LEMMA StageNames ==
  /\ {"claimed", "work", "working", "refused", "model", "starting", "ready", "finishing",
      "thread", "appending", "answered", "completing"} \subseteq Stages \ {"idle", "delivering"}
  /\ Onward \in Stages \ {"idle", "delivering"}
  /\ {"start", "finish", "append", "work", "complete"} \subseteq Ops \ {"receipt"}
BY DEF Stages, Ops, Onward

LEMMA PrepareStep ==
  ASSUME IInv, NEW r \in Claimants, Prepare(r)
  PROVE  IInv'
<1>1. /\ turn[r].pc = "claimed" /\ Keep
      /\ UNCHANGED <<asks, model, calls, thread, receipt, work, said, crashes>>
  BY DEF Prepare
<1>2. /\ turn[r].pc \in Early /\ turn[r].pc # "idle" /\ turn[r].pc \notin Closing
      /\ turn[r].job \in Jobs
  BY <1>1, Places, TurnType
<1>3. CASE Fail(r, "FAILED")
  BY <1>1, <1>2, <1>3, FailStep
<1>4. CASE Go(r, "answered", Fixed)
  BY ZenonT(40), <1>1, <1>2, <1>4, Places, StageNames, Words, SoundTexts, GoStep
<1>5. CASE Go(r, "work", NoAnswer)
  BY ZenonT(40), <1>1, <1>2, <1>5, Places, StageNames, Words, GoStep
<1>6. CASE Go(r, "model", NoAnswer)
  BY ZenonT(40), <1>1, <1>2, <1>6, Places, StageNames, Words, GoStep
<1>7. CASE Go(r, Onward, NoEvidence)
  BY ZenonT(40), <1>1, <1>2, <1>7, Places, StageNames, Words, SoundTexts, GoStep
<1>8. QED
  BY <1>3, <1>4, <1>5, <1>6, <1>7 DEF Prepare, Onward

LEMMA LeaseCheckStep ==
  ASSUME IInv, NEW r \in Claimants, LeaseCheckFails(r)
  PROVE  IInv'
<1>1. /\ turn[r].pc # "idle" /\ Keep /\ Fail(r, "FAILED")
      /\ UNCHANGED <<asks, model, calls, thread, receipt, work, said, crashes>>
  BY DEF LeaseCheckFails
<1>2. QED BY <1>1, FailStep

LEMMA ModelStageStep ==
  ASSUME IInv, NEW r \in Claimants, ModelStage(r)
  PROVE  IInv'
<1> DEFINE m == model[turn[r].job]
<1>1. /\ turn[r].pc = "model" /\ Keep
      /\ UNCHANGED <<asks, model, calls, thread, receipt, work, said, crashes>>
  BY DEF ModelStage, Checked
<1>2. /\ turn[r].pc \in Early /\ turn[r].pc # "idle" /\ turn[r].pc \notin Closing
      /\ turn[r].job \in Jobs
  BY <1>1, Places, TurnType
<1>3. \/ Fail(r, "FAILED") \/ Fail(r, "UNKNOWN")
      \/ m.state = "completed" /\ Go(r, Onward, m.text)
      \/ Send(r, "start", NoAnswer, 0, "starting")
      \/ m.state # "none" /\ m.by = turn[r].exec /\ Go(r, "ready", NoAnswer)
  BY JobType DEF ModelStage, Startable, Onward
<1>4. CASE Fail(r, "FAILED") \/ Fail(r, "UNKNOWN")
  BY <1>1, <1>2, <1>4, FailStep
<1>5. CASE m.state = "completed" /\ Go(r, Onward, m.text)
  BY <1>1, <1>2, <1>5, Places, StageNames, JobType, SoundTexts, GoStep
<1>6. CASE Send(r, "start", NoAnswer, 0, "starting")
  <2>1. calls' = calls /\ "start" \notin {"finish", "append", "complete"} /\ 0 \in {0, 1}
    BY <1>1
  <2>2. "starting" \in Early \ Late /\ "starting" # "ready" /\ "starting" # "finishing"
    BY Places
  <2>3. QED BY <1>1, <1>2, <1>6, <2>1, <2>2, StageNames, Words, SendStep
<1>7. CASE m.state # "none" /\ m.by = turn[r].exec /\ Go(r, "ready", NoAnswer)
  BY <1>1, <1>2, <1>7, Places, StageNames, Words, GoStep
<1>8. QED BY <1>3, <1>4, <1>5, <1>6, <1>7

LEMMA StartUncertainStep ==
  ASSUME IInv, NEW r \in Claimants, StartUncertain(r)
  PROVE  IInv'
<1> DEFINE m == model[turn[r].job]
<1>1. /\ turn[r].pc = "starting" /\ Keep
      /\ UNCHANGED <<asks, model, calls, thread, receipt, work, said, crashes>>
  BY DEF StartUncertain
<1>2. turn[r].pc \in Early /\ turn[r].pc # "idle" /\ turn[r].pc \notin Closing
  BY <1>1, Places
<1>3. CASE Fail(r, "FAILED") \/ Fail(r, "UNKNOWN")
  BY <1>1, <1>2, <1>3, FailStep
<1>4. CASE m.state = "started" /\ m.by = turn[r].exec /\ Go(r, "ready", NoAnswer)
  BY ZenonT(40), <1>1, <1>2, <1>4, Places, StageNames, Words, GoStep
<1>5. QED BY <1>3, <1>4 DEF StartUncertain

LEMMA GenerateStep ==
  ASSUME IInv, NEW r \in Claimants, Generate(r)
  PROVE  IInv'
<1>1. /\ turn[r].pc = "ready" /\ Keep
      /\ UNCHANGED <<asks, model, thread, receipt, work, said, crashes>>
  BY DEF Generate, Checked
<1>2. /\ turn[r].pc # "idle" /\ turn[r].pc \notin Closing /\ turn[r].exec \in Texts
  BY <1>1, Places, TurnType, Words
<1>3. CASE Fail(r, "FAILED") /\ calls' = calls
  BY <1>1, <1>2, <1>3, FailStep
<1>4. CASE Fail(r, "UNKNOWN") /\ CallsMore(r)
  BY <1>1, <1>2, <1>4, FailStep
<1>5. CASE Send(r, "finish", turn[r].exec, 0, "finishing") /\ CallsMore(r)
  <2>1. "finish" \notin {"append", "complete"} /\ 0 \in {0, 1}
    OBVIOUS
  <2>2. "finishing" \notin Early \cup Late /\ "finishing" # "ready"
    BY Places
  <2>3. QED BY <1>1, <1>2, <1>5, <2>1, <2>2, StageNames, SendStep
<1>6. QED
  BY <1>3, <1>4, <1>5 DEF Generate, CallsMore

LEMMA FinishUncertainStep ==
  ASSUME IInv, NEW r \in Claimants, FinishUncertain(r)
  PROVE  IInv'
<1> DEFINE m == model[turn[r].job]
<1>1. /\ turn[r].pc = "finishing" /\ Keep
      /\ UNCHANGED <<asks, model, calls, thread, receipt, work, said, crashes>>
  BY DEF FinishUncertain
<1>2. turn[r].pc # "idle" /\ turn[r].pc \notin Closing /\ turn[r].job \in Jobs
  BY <1>1, Places, TurnType
<1>3. CASE Fail(r, "FAILED") \/ Fail(r, "UNKNOWN")
  BY <1>1, <1>2, <1>3, FailStep
<1>4. CASE m.state = "completed" /\ Go(r, Onward, m.text)
  BY <1>1, <1>2, <1>4, Places, StageNames, JobType, SoundTexts, GoStep
<1>5. QED BY <1>3, <1>4 DEF FinishUncertain, Onward
LEMMA WorkStageStep ==
  ASSUME IInv, NEW r \in Claimants, WorkStage(r)
  PROVE  IInv'
<1>1. /\ turn[r].pc = "work" /\ Keep
      /\ UNCHANGED <<asks, model, calls, thread, receipt, work, said, crashes>>
  BY DEF WorkStage
<1>2. turn[r].pc # "idle" /\ turn[r].pc \notin Closing /\ turn[r].job \in Jobs
  BY <1>1, Places, TurnType
<1>3. CASE Fail(r, "UNKNOWN")
  BY <1>1, <1>2, <1>3, FailStep
<1>4. CASE work[turn[r].job] = "done" /\ Go(r, "answered", WorkReply)
  BY ZenonT(40), <1>1, <1>2, <1>4, Places, StageNames, Words, SoundTexts, GoStep
<1>5. CASE Send(r, "work", NoAnswer, 0, "working")
  <2>1. calls' = calls /\ "work" \notin {"finish", "append", "complete"} /\ 0 \in {0, 1}
    BY <1>1
  <2>2. "working" \notin Early \cup Late /\ "working" # "ready" /\ "working" # "finishing"
    BY Places
  <2>3. QED BY ZenonT(40), <1>1, <1>2, <1>5, <2>1, <2>2, StageNames, Words, SendStep
<1>6. QED BY <1>3, <1>4, <1>5 DEF WorkStage

LEMMA WorkUncertainStep ==
  ASSUME IInv, NEW r \in Claimants, WorkUncertain(r)
  PROVE  IInv'
<1>1. /\ turn[r].pc \in {"working", "refused"} /\ Keep
      /\ UNCHANGED <<asks, model, calls, thread, receipt, work, said, crashes>>
  BY DEF WorkUncertain
<1>2. turn[r].pc # "idle" /\ turn[r].pc \notin Closing /\ turn[r].job \in Jobs
  BY <1>1, Places, TurnType
<1>3. CASE Fail(r, "FAILED") \/ Fail(r, "UNKNOWN")
  BY <1>1, <1>2, <1>3, FailStep
<1>4. CASE work[turn[r].job] = "done" /\ Go(r, "answered", WorkReply)
  BY ZenonT(40), <1>1, <1>2, <1>4, Places, StageNames, Words, SoundTexts, GoStep
<1>5. CASE Send(r, "work", NoAnswer, 1, "working")
  <2>1. calls' = calls /\ "work" \notin {"finish", "append", "complete"} /\ 1 \in {0, 1}
    BY <1>1
  <2>2. "working" \notin Early \cup Late /\ "working" # "ready" /\ "working" # "finishing"
    BY Places
  <2>3. QED BY ZenonT(40), <1>1, <1>2, <1>5, <2>1, <2>2, StageNames, Words, SendStep
<1>6. QED BY <1>3, <1>4, <1>5 DEF WorkUncertain

LEMMA ThreadStageStep ==
  ASSUME IInv, NEW r \in Claimants, ThreadStage(r) \/ AppendUncertain(r)
  PROVE  IInv'
<1>1. /\ turn[r].pc \in {"thread", "appending"} /\ Keep
      /\ UNCHANGED <<asks, model, calls, thread, receipt, work, said, crashes>>
  BY DEF ThreadStage, AppendUncertain, Checked
<1>2. /\ turn[r].pc # "idle" /\ turn[r].pc \notin Closing /\ turn[r].text \in Texts
      /\ TextSound(turn[r].job, turn[r].text)
  BY <1>1, Places, TurnType, LateSound
<1>3. \/ Fail(r, "FAILED") \/ Go(r, "answered", turn[r].text)
      \/ \E try \in {0, 1} : Send(r, "append", turn[r].text, try, "appending")
  BY DEF ThreadStage, AppendUncertain
<1>4. CASE Fail(r, "FAILED")
  BY <1>1, <1>2, <1>4, FailStep
<1>5. CASE Go(r, "answered", turn[r].text)
  BY <1>1, <1>2, <1>5, Places, StageNames, GoStep
<1>6. CASE \E try \in {0, 1} : Send(r, "append", turn[r].text, try, "appending")
  <2>1. PICK try \in {0, 1} : Send(r, "append", turn[r].text, try, "appending")
    BY <1>6
  <2>2. calls' = calls /\ "append" \notin {"finish", "complete"}
    BY <1>1
  <2>3. /\ "appending" \in Late \ (Early \cup Closing)
        /\ "appending" # "ready" /\ "appending" # "finishing"
    BY Places
  <2>4. QED BY <1>1, <1>2, <2>1, <2>2, <2>3, StageNames, SendStep
<1>7. QED BY <1>3, <1>4, <1>5, <1>6

LEMMA CompleteStep ==
  ASSUME IInv, NEW r \in Claimants, Complete(r)
  PROVE  IInv'
<1>1. /\ turn[r].pc = "answered" /\ Keep
      /\ Send(r, "complete", turn[r].text, 0, "completing")
      /\ UNCHANGED <<asks, model, calls, thread, receipt, work, said, crashes>>
  BY DEF Complete, Checked
<1>2. /\ turn[r].pc # "idle" /\ turn[r].pc \notin Closing /\ turn[r].text \in Texts
      /\ TextSound(turn[r].job, turn[r].text)
  BY <1>1, Places, TurnType, LateSound
<1>3. calls' = calls /\ "complete" # "finish" /\ 0 \in {0, 1}
  BY <1>1
<1>4. /\ "completing" \in Closing /\ "completing" \in Late /\ "completing" \notin Early
      /\ "completing" # "ready" /\ "completing" # "finishing"
  BY Places
<1>5. QED BY <1>1, <1>2, <1>3, <1>4, StageNames, SendStep

\* A completion that may have been committed: the turn asks again or goes on to deliver,
\* and keeps its text.
LEMMA ClosingStep ==
  ASSUME IInv, NEW r \in Claimants, turn[r].pc = "completing", Keep,
         UNCHANGED <<asks, model, calls, thread, receipt, work, said, crashes>>,
         NEW pc \in Closing, NEW try \in {0, 1},
         turn' = [turn EXCEPT ![r].pc = pc, ![r].text = turn[r].text, ![r].try = try],
         pc = "delivering" => Committed(r),
         net' \in {net, net \cup {Call(r, "complete", turn[r].text, try)}}
  PROVE  IInv'
<1>0. [turn[r] EXCEPT !.pc = pc, !.text = turn[r].text, !.try = try] \in Turn
  BY ZenonT(40), TurnType, Words DEF Turn
<1>t. PICK t \in Turn : t = [turn[r] EXCEPT !.pc = pc, !.text = turn[r].text, !.try = try]
  BY <1>0
<1>1. /\ t.pc = pc /\ t.text = turn[r].text /\ t.job = turn[r].job
      /\ t.exec = turn[r].exec /\ t.version = turn[r].version
  BY <1>t, TurnType DEF Turn
<1>2. turn' = [turn EXCEPT ![r] = t] /\ turn'[r] = t
  BY ZenonT(40), <1>t DEF IInv, TurnTypeOK
<1>q. PICK q : q = Call(r, "complete", turn[r].text, try)
  OBVIOUS
<1>3. /\ q \in Request /\ q.by = r /\ q.op = "complete" /\ q.text = turn[r].text
      /\ q.job = turn[r].job /\ q.exec = turn[r].exec /\ ClaimOf(q) = ClaimAt(r)
  <2>1. "complete" \in Ops
    BY DEF Ops
  <2>2. QED BY <1>q, <2>1, CallMade, TurnType
<1>4. /\ job' = job /\ claims' = claims /\ said' = said /\ model' = model /\ work' = work
      /\ calls' = calls
  BY DEF Keep, jobsVars
<1>5. /\ TurnSound(r) /\ ClaimAt(r) \in claims /\ TextSound(turn[r].job, turn[r].text)
      /\ pc \in Late \ Early /\ pc # "idle" /\ pc # "ready" /\ pc # "finishing"
  BY Places DEF IInv, TurnSound, Closing
<1>6. TurnSound(r)'
  <2>1. ClaimAt(r)' \in claims'
    BY ZenonT(40), <1>1, <1>2, <1>4, <1>5 DEF ClaimAt
  <2>2. TextSound(t.job, t.text)
    BY <1>1, <1>5
  <2>3. job[t.job].status = "READY" /\ job[t.job].exec = t.exec => t.text = said[t.job]
    BY <1>1, <1>5 DEF TurnSound
  <2>4. t.pc = "delivering" => job[t.job].status \notin Open /\ said[t.job] = t.text
    BY <1>1, <2>3 DEF Committed, SameExecution, Open
  <2>5. QED
    BY <1>1, <1>2, <1>4, <1>5, <2>1, <2>2, <2>3, <2>4 DEF TurnSound, TextSound
<1>7. CallSound(q)'
  BY <1>3, <1>4, <1>5 DEF CallSound, ClaimOf, TextSound
<1>8. ASSUME NEW x \in net', x.by = r PROVE Told(x)'
  <2>1. CASE x \in net
    <3>1. Told(x)
      BY <2>1, CallType
    <3>2. QED BY <1>1, <1>2, <1>5, <1>8, <3>1 DEF Told
  <2>2. CASE x = q
    BY ZenonT(40), <1>1, <1>2, <1>3, <2>2 DEF Told
  <2>3. QED BY <2>1, <2>2, <1>8, <1>q
<1>9. \A x \in net' : \/ x \in net
                      \/ x \in Request /\ x.by = r /\ CallSound(x)'
  BY <1>q, <1>3, <1>7
<1>10. crashes' \in Nat
  BY DEF IInv, TurnTypeOK
<1>11. QED
  BY ZenonT(40), <1>2, <1>6, <1>8, <1>9, <1>10, CallsMoved, OwnStep

LEMMA CompleteUncertainStep ==
  ASSUME IInv, NEW r \in Claimants, CompleteUncertain(r)
  PROVE  IInv'
<1>1. /\ turn[r].pc = "completing" /\ Keep
      /\ UNCHANGED <<asks, model, calls, thread, receipt, work, said, crashes>>
  BY DEF CompleteUncertain
<1>2. "completing" \in Closing /\ "delivering" \in Closing /\ 0 \in {0, 1} /\ 1 \in {0, 1}
  BY DEF Closing
<1>3. CASE Committed(r) /\ Go(r, "delivering", turn[r].text)
  BY ZenonT(40), <1>1, <1>2, <1>3, ClosingStep DEF Go
<1>4. CASE Send(r, "complete", turn[r].text, 1, "completing")
  BY ZenonT(40), <1>1, <1>2, <1>4, ClosingStep DEF Send
<1>5. CASE End(r) /\ net' = net
  <2>1. turn[r].pc # "idle" /\ crashes' \in Nat /\ "FAILED" \in {"FAILED", "UNKNOWN"}
    BY <1>1 DEF IInv, TurnTypeOK
  <2>2. QED BY <1>1, <1>5, <2>1, EndStep
<1>6. QED BY <1>3, <1>4, <1>5 DEF CompleteUncertain

LEMMA LeaveStep ==
  ASSUME IInv, NEW r \in Claimants, Deliver(r) \/ Crash(r)
  PROVE  IInv'
<1>1. /\ turn[r].pc # "idle" /\ End(r) /\ net' = net /\ calls' = calls /\ Keep
      /\ UNCHANGED <<asks, model, thread, receipt, work, said>> /\ crashes' \in Nat
  BY DEF Deliver, Crash, IInv, TurnTypeOK
<1>2. QED BY <1>1, EndStep

LEMMA RenewalStep ==
  ASSUME IInv, NEW r \in Claimants, RenewTimer(r) \/ RenewTimeOut(r)
  PROVE  IInv'
<1>0. turn[r] \in Turn /\ turn[r].broken \in BOOLEAN /\ turn \in [Claimants -> Turn]
  BY TurnType DEF IInv, TurnTypeOK
<1>1. CASE RenewTimer(r)
  <2>1. turn' = [turn EXCEPT ![r].flying = TRUE, ![r].broken = turn[r].broken]
    BY ZenonT(40), <1>0, <1>1 DEF RenewTimer, Turn
  <2>2. QED BY ZenonT(40), <1>0, <1>1, <2>1, FlagStep DEF RenewTimer
<1>2. CASE RenewTimeOut(r)
  BY ZenonT(40), <1>2, FlagStep DEF RenewTimeOut
<1>3. QED BY <1>1, <1>2

\* Whatever a turn does by itself preserves the invariant.
LEMMA ProceedStep ==
  ASSUME IInv, NEW r \in Claimants, RenewTimer(r) \/ Proceed(r) \/ Crash(r)
  PROVE  IInv'
<1>1. CASE RenewTimer(r) \/ RenewTimeOut(r)
  BY <1>1, RenewalStep
<1>2. CASE Prepare(r) \/ LeaseCheckFails(r) \/ ModelStage(r)
  BY <1>2, PrepareStep, LeaseCheckStep, ModelStageStep
<1>3. CASE StartUncertain(r) \/ Generate(r) \/ FinishUncertain(r)
  BY <1>3, StartUncertainStep, GenerateStep, FinishUncertainStep
<1>4. CASE WorkStage(r) \/ WorkUncertain(r)
  BY <1>4, WorkStageStep, WorkUncertainStep
<1>5. CASE ThreadStage(r) \/ AppendUncertain(r)
  BY <1>5, ThreadStageStep
<1>6. CASE Complete(r) \/ CompleteUncertain(r)
  BY <1>6, CompleteStep, CompleteUncertainStep
<1>7. CASE Deliver(r) \/ Crash(r)
  BY <1>7, LeaveStep
<1>8. QED
  BY <1>1, <1>2, <1>3, <1>4, <1>5, <1>6, <1>7 DEF Proceed
-----------------------------------------------------------------------------
\* A step over the rows that commits no answer: no execution is taken back, no row
\* becomes READY, and none that was settled opens again.
RowsHold ==
  \A k \in Jobs :
    /\ job'[k].exec >= job[k].exec
    /\ job'[k].status = "ABSENT" => job[k].status = "ABSENT" /\ job'[k].exec = job[k].exec
    /\ job'[k].status = "READY" => job[k].status = "READY" /\ job'[k].exec = job[k].exec
    /\ job[k].status \notin Open => job'[k].status \notin Open

\* One row written: what its status and its execution may become.
LEMMA OneRow ==
  ASSUME IInv, NEW j \in Jobs, NEW row \in JobRow, Write(j, row),
         row.status \notin {"ABSENT", "READY"}, row.exec >= job[j].exec,
         job[j].status \in Open \/ row.status \notin Open
  PROVE  /\ RowsHold
         /\ job'[j].status = row.status /\ job'[j].exec = row.exec
         /\ job'[j].version = row.version + 1
         /\ \A k \in Jobs \ {j} : job'[k] = job[k]
<1>1. /\ job'[j] = [row EXCEPT !.version = row.version + 1]
      /\ \A k \in Jobs \ {j} : job'[k] = job[k]
  BY WriteRow DEF IInv, JobsInv, JobsTypeOK
<1>2. /\ job'[j].status = row.status /\ job'[j].exec = row.exec
      /\ job'[j].version = row.version + 1
  BY <1>1 DEF JobRow
<1>3. \A k \in Jobs : job[k].exec \in Nat
  BY JobType
<1>4. RowsHold
  <2>1. ASSUME NEW k \in Jobs, k # j
        PROVE  job'[k] = job[k] /\ job'[k].exec >= job[k].exec
    BY <1>1, <1>3, <2>1
  <2>2. QED BY <1>2, <2>1 DEF RowsHold
<1>5. QED BY <1>1, <1>2, <1>4

LEMMA RowsStep ==
  ASSUME IInv, JobsInv', ClaimsApart', claims \subseteq claims', RowsHold,
         UNCHANGED <<asks, model, calls, thread, receipt, work, said, crashes>>,
         turn' \in [Claimants -> Turn],
         \A x \in Claimants : turn'[x] = turn[x] \/ TurnSound(x)',
         net' \subseteq net, \A q \in net' : Told(q)'
  PROVE  IInv'
<1>1. TurnTypeOK'
  BY DEF IInv, TurnTypeOK
<1>2. Grows
  BY DEF Grows
<1>3. \A x \in Claimants : TurnSound(x)'
  <2>1. SUFFICES ASSUME NEW x \in Claimants, turn'[x] = turn[x] PROVE TurnSound(x)'
    OBVIOUS
  <2>2. Unnoticed(x, turn[x].job)
    BY TurnType DEF Unnoticed, RowsHold
  <2>3. QED BY <1>2, <2>1, <2>2, TurnKept
<1>4. \A q \in net' : CallSound(q)'
  BY <1>2, CallKept
<1>5. \A j \in Jobs : Recorded(j)'
  <2>1. SUFFICES ASSUME NEW j \in Jobs PROVE Recorded(j)'
    OBVIOUS
  <2>2. /\ job'[j].exec >= job[j].exec
        /\ job'[j].status = "ABSENT" => job[j].status = "ABSENT" /\ job'[j].exec = job[j].exec
    BY DEF RowsHold
  <2>3. job[j].exec \in Nat /\ job'[j].exec \in Nat /\ model[j].by \in Nat /\ Recorded(j)
    BY JobType DEF JobsInv, JobsTypeOK, JobRow
  <2>4. QED BY <2>2, <2>3 DEF Recorded
<1>6. QED
  BY <1>1, <1>3, <1>4, <1>5 DEF IInv

\* Core's own steps over the rows.
LEMMA CoreStep ==
  ASSUME IInv, Core, Beside
  PROVE  IInv'
<1>1. JobsInv /\ (\A k \in Jobs : job[k] \in JobRow /\ job[k].exec \in Nat /\ Recorded(k))
  BY JobType DEF IInv
<1>2. /\ UNCHANGED <<asks, model, calls, thread, receipt, work, said, crashes>>
      /\ turn' = turn /\ net' = net
  BY DEF Beside
<1>3. JobsInv' /\ claims' = claims /\ RowsHold
  <2>1. ASSUME NEW j \in Jobs, ExpireWaiting(j) PROVE JobsInv' /\ claims' = claims /\ RowsHold
    <3>0. [job[j] EXCEPT !.status = "FAILED", !.error = "CODE", !.token = FALSE] \in JobRow
      <4>1. "FAILED" \in Statuses /\ "CODE" \in Errors /\ job[j] \in JobRow
        BY <1>1 DEF Statuses, Errors
      <4>2. QED BY ZenonT(40), <4>1 DEF JobRow
    <3>1. PICK row \in JobRow :
            row = [job[j] EXCEPT !.status = "FAILED", !.error = "CODE", !.token = FALSE]
      BY <3>0
    <3>2. Write(j, row) /\ row.status = "FAILED" /\ row.exec = job[j].exec
      BY <1>1, <2>1, <3>1 DEF ExpireWaiting, JobRow
    <3>3. RowsHold
      BY <1>1, <3>2, OneRow DEF Open
    <3>4. QED BY ZenonT(40), <1>1, <2>1, <3>3, MaintenanceStep DEF ExpireWaiting
  <2>2. ASSUME NEW j \in Jobs, RequeueClaimed(j) PROVE JobsInv' /\ claims' = claims /\ RowsHold
    <3>0. Released([job[j] EXCEPT !.status = "QUEUED"]) \in JobRow
      <4>1. PICK old \in JobRow : old = job[j]
        BY <1>1
      <4>2. PICK mid \in JobRow : mid = [old EXCEPT !.status = "QUEUED"]
        <5>1. "QUEUED" \in Statuses
          BY DEF Statuses, Waiting
        <5>2. [old EXCEPT !.status = "QUEUED"] \in JobRow
          BY <5>1 DEF JobRow
        <5>3. QED BY <5>2
      <4>3. Released(mid) \in JobRow
        <5>1. NoTime \in OptTime
          BY DEF OptTime
        <5>2. [mid EXCEPT !.claimant = NoOne, !.lease = NoTime] \in JobRow
          BY ZenonT(40), <5>1 DEF JobRow
        <5>3. QED BY <5>2 DEF Released
      <4>4. QED BY <4>1, <4>2, <4>3
    <3>1. PICK row \in JobRow : row = Released([job[j] EXCEPT !.status = "QUEUED"])
      BY <3>0
    <3>2. Write(j, row) /\ row.status = "QUEUED" /\ row.exec = job[j].exec
      BY <1>1, <2>2, <3>1 DEF RequeueClaimed, Released, JobRow
    <3>3. RowsHold
      BY <1>1, <2>2, <3>2, OneRow DEF Open, RequeueClaimed
    <3>4. QED BY <1>1, <2>2, <3>3, MaintenanceStep DEF RequeueClaimed
  <2>3. ASSUME NEW j \in Jobs, NEW outOfHours \in BOOLEAN,
               Admit(j, "RUNTIME", TRUE, ReplyWindow, outOfHours)
        PROVE  JobsInv' /\ claims' = claims /\ RowsHold
    <3>1. "RUNTIME" \in Owners /\ TRUE \in BOOLEAN /\ ReplyWindow \in 0 .. ReplyWindow
      BY JobsAssumption DEF Owners
    <3>2. JobsInv'
      BY ZenonT(40), <1>1, <2>3, <3>1, AdmitStep
    <3>3. /\ job'[j].status = "QUEUED" /\ job'[j].exec = 0 /\ job[j].status = "ABSENT"
          /\ \A k \in Jobs \ {j} : job'[k] = job[k]
      BY <1>1, <2>3 DEF Admit, Write, JobsInv, JobsTypeOK, NoRow
    <3>4. job[j].exec = 0
      BY <1>1, <3>3 DEF Recorded
    <3>5. RowsHold
      BY <1>1, <3>3, <3>4 DEF RowsHold, Open
    <3>6. QED BY <2>3, <3>2, <3>5 DEF Admit
  <2>4. CASE Tick
    <3>1. JobsInv'
      BY <1>1, <2>4, JobsStepHolds DEF JobsNext
    <3>2. QED BY <1>1, <2>4, <3>1 DEF Tick, RowsHold
  <2>5. QED BY ZenonT(40), <2>1, <2>2, <2>3, <2>4 DEF Core
<1>4. ClaimsApart'
  <2>1. \A c \in claims : c.job \in Jobs /\ c.exec \in Nat
    BY <1>1 DEF JobsInv, JobsTypeOK, Claim
  <2>2. \A k \in Jobs : job'[k].exec \in Nat
    BY <1>3 DEF JobsInv, JobsTypeOK, JobRow
  <2>3. QED BY <1>1, <1>3, <2>1, <2>2 DEF IInv, ClaimsApart, RowsHold
<1>5. \A q \in net' : Told(q)'
  BY <1>2 DEF IInv, Told
<1>6. QED
  BY <1>2, <1>3, <1>4, <1>5, RowsStep DEF IInv, TurnTypeOK
\* A claim opens an execution no other turn, request or trace can be of.
LEMMA TakeStep ==
  ASSUME IInv, NEW r \in Claimants, NEW j \in Jobs, Take(r, j)
  PROVE  IInv'
<1>0. /\ JobsInv /\ job[j] \in JobRow /\ job[j].exec \in Nat /\ job[j].version \in Nat
      /\ ClaimExecution(j, r) /\ Recorded(j)
      /\ UNCHANGED <<asks, net, model, calls, thread, receipt, work, said, crashes>>
  BY JobType DEF IInv, Take
<1>1. JobsInv'
  BY <1>0, ClaimStep
<1>c. PICK c : c = [job |-> j, exec |-> job[j].exec + 1,
                    version |-> job[j].version + 1, claimant |-> r]
  OBVIOUS
<1>2. /\ c.job = j /\ c.exec = job[j].exec + 1 /\ c.claimant = r /\ claims' = claims \cup {c}
  BY <1>0, <1>c DEF ClaimExecution
<1>3. PICK row \in JobRow :
        row = [job[j] EXCEPT !.status = "CLAIMED", !.claimant = r,
                             !.exec = job[j].exec + 1, !.lease = now + Lease]
  <2>1. now + Lease \in OptTime /\ "CLAIMED" \in Statuses /\ job[j].exec + 1 \in Nat
    BY <1>0, RowType, JobsAssumption DEF OptTime, Statuses, Waiting
  <2>2. QED BY ZenonT(40), <1>0, <2>1 DEF JobRow
<1>4. Write(j, row) /\ row.status = "CLAIMED" /\ row.exec = job[j].exec + 1
  BY <1>0, <1>3 DEF ClaimExecution, JobRow
<1>5. job[j].status = "QUEUED"
  BY <1>0 DEF ClaimExecution, Claimable
<1>6. /\ RowsHold /\ job'[j].status = "CLAIMED" /\ job'[j].exec = job[j].exec + 1
      /\ \A k \in Jobs \ {j} : job'[k] = job[k]
  BY <1>0, <1>4, <1>5, OneRow DEF Open
<1>7. \A d \in claims : d.job \in Jobs /\ d.exec \in Nat /\ d.exec <= job[d.job].exec
  BY <1>0 DEF JobsInv, JobsTypeOK, Claim, IInv, ClaimsApart
<1>8. ClaimsApart'
  <2>1. ASSUME NEW d \in claims, NEW e \in claims, d.job = e.job, d.exec = e.exec
        PROVE  d.claimant = e.claimant
    BY <2>1 DEF IInv, ClaimsApart
  <2>2. \A d \in claims : ~(d.job = c.job /\ d.exec = c.exec)
    BY <1>0, <1>2, <1>7
  <2>3. \A d \in claims' : d.exec <= job'[d.job].exec
    BY <1>0, <1>2, <1>6, <1>7
  <2>4. QED BY <1>2, <2>1, <2>2, <2>3 DEF ClaimsApart
<1>n. [Idle EXCEPT !.pc = "claimed", !.job = j, !.exec = job[j].exec + 1,
                   !.version = job[j].version + 1, !.lease = now + Lease] \in Turn
  <2>1. /\ now + Lease \in Nat /\ "claimed" \in Stages
        /\ job[j].exec + 1 \in Nat /\ job[j].version + 1 \in Nat
    BY <1>0, RowType, JobsAssumption DEF Stages
  <2>2. Idle \in Turn
    BY Words
  <2>3. PICK e \in Nat : e = job[j].exec + 1
    BY <2>1
  <2>4. PICK v \in Nat : v = job[j].version + 1
    BY <2>1
  <2>5. PICK l \in Nat : l = now + Lease
    BY <2>1
  <2>6. [Idle EXCEPT !.pc = "claimed", !.job = j, !.exec = e, !.version = v, !.lease = l] \in Turn
    BY ONLY ZenonT(60), <2>1, <2>2, j \in Jobs, e \in Nat, v \in Nat, l \in Nat DEF Turn
  <2>7. QED BY <2>3, <2>4, <2>5, <2>6
<1>t. PICK t \in Turn :
        t = [Idle EXCEPT !.pc = "claimed", !.job = j, !.exec = job[j].exec + 1,
                         !.version = job[j].version + 1, !.lease = now + Lease]
  BY <1>n
<1>9. t.pc = "claimed" /\ t.job = j /\ t.exec = job[j].exec + 1 /\ t.version = job[j].version + 1
  BY <1>t, Words DEF Turn
<1>10. /\ turn \in [Claimants -> Turn]
       /\ turn' = turn \/ turn' = [turn EXCEPT ![r] = t]
  BY <1>t DEF IInv, TurnTypeOK, Take
<1>11. CASE turn' = turn
  <2>1. \A q \in net' : Told(q)'
    BY <1>0, <1>11 DEF IInv, Told
  <2>2. QED BY <1>0, <1>1, <1>2, <1>6, <1>8, <1>10, <1>11, <2>1, RowsStep
<1>12. CASE turn' = [turn EXCEPT ![r] = t]
  <2>1. /\ turn' \in [Claimants -> Turn] /\ turn'[r] = t
        /\ \A x \in Claimants \ {r} : turn'[x] = turn[x]
    BY <1>10, <1>12
  <2>2. TurnSound(r)'
    <3>1. ClaimAt(r)' = c
      BY <1>c, <1>9, <2>1 DEF ClaimAt
    <3>2. ClaimAt(r)' \in claims'
      BY <1>2, <3>1
    <3>3. ~(calls'[j] > 0 /\ model'[j].by = t.exec)
      BY <1>0, <1>9, JobType DEF Recorded
    <3>4. t.pc \notin Late /\ t.pc # "ready" /\ t.pc # "finishing" /\ t.pc # "delivering"
      BY <1>9 DEF Late
    <3>5. job'[t.job].status # "READY"
      BY <1>6, <1>9
    <3>6. QED BY <1>9, <2>1, <3>2, <3>3, <3>4, <3>5 DEF TurnSound
  <2>3. ASSUME NEW q \in net' PROVE Told(q)'
    <3>1. q \in net /\ Told(q) /\ q.by \in Claimants /\ ClaimOf(q) \in claims
      BY <1>0, CallType
    <3>2. CASE q.by = r
      <4>1. q.job = j => q.exec <= job[j].exec
        BY <1>7, <3>1 DEF ClaimOf
      <4>2. q.exec \in Nat
        BY <1>0, CallType
      <4>3. ~(t.job = q.job /\ t.exec = q.exec)
        BY <1>0, <1>9, <4>1, <4>2
      <4>4. QED BY <2>1, <3>2, <4>3 DEF Told
    <3>3. CASE q.by # r
      BY <2>1, <3>1, <3>3 DEF Told
    <3>4. QED BY <3>2, <3>3
  <2>4. \A x \in Claimants : turn'[x] = turn[x] \/ TurnSound(x)'
    BY <2>1, <2>2
  <2>5. QED BY <1>0, <1>1, <1>2, <1>6, <1>8, <2>1, <2>3, <2>4, RowsStep
<1>13. QED BY <1>10, <1>11, <1>12
-----------------------------------------------------------------------------
\* Core serves a call that writes a record and leaves the rows alone; the answer may
\* move the turn that waits for it, which has not asked for its completion yet.
LEMMA AnsweredStep ==
  ASSUME IInv, NEW q \in net, Keep, UNCHANGED <<asks, calls, said, crashes>>, Grows,
         model' \in [Jobs -> [state : {"none", "started", "completed"}, by : Nat, text : Texts]],
         {thread', receipt'} \subseteq [Jobs -> Texts], work' \in [Jobs -> {"none", "done"}],
         \A j \in Jobs : Recorded(j)',
         \A y \in net' : \/ y \in net
                         \/ y \in Request /\ CallSound(y)' /\ y.op # "complete",
         Awaited(q) => turn[q.by].pc \notin Closing /\ turn[q.by].pc # "idle",
         NEW t \in Turn, t.job = turn[q.by].job, t.exec = turn[q.by].exec,
         t.version = turn[q.by].version,
         turn' = turn \/ (Awaited(q) /\ turn' = [turn EXCEPT ![q.by] = t]),
         t.pc # "delivering",
         Awaited(q) /\ t.pc = "ready" => model'[t.job].state # "none" /\ model'[t.job].by = t.exec,
         t.pc = "finishing" => t.text = t.exec,
         Awaited(q) /\ t.pc \in Early => turn[q.by].pc \in Early,
         Awaited(q) /\ t.pc \in Late => TextSound(t.job, t.text)'
  PROVE  IInv'
<1> DEFINE r == q.by
<1>0. r \in Claimants /\ turn \in [Claimants -> Turn]
  BY CallType DEF IInv, TurnTypeOK
<1>1. /\ JobsInv' /\ job' = job /\ claims' = claims /\ said' = said /\ calls' = calls
  BY JobsStutterHolds DEF IInv, Keep, jobsVars
<1>2. turn' \in [Claimants -> Turn] /\ \A x \in Claimants \ {r} : turn'[x] = turn[x]
  BY <1>0
<1>3. TurnTypeOK'
  BY <1>2 DEF IInv, TurnTypeOK
<1>4. ClaimsApart'
  BY <1>1 DEF IInv, ClaimsApart
<1>5. ASSUME NEW x \in Claimants, turn'[x] = turn[x] PROVE TurnSound(x)'
  <2>1. Unnoticed(x, turn[x].job)
    BY <1>1, TurnType DEF Unnoticed
  <2>2. QED BY <1>5, <2>1, TurnKept
<1>6. CASE turn' = turn
  <2>1. \A y \in net' : Told(y)'
    BY <1>6 DEF IInv, Told
  <2>2. \A y \in net' : CallSound(y)'
    BY CallKept
  <2>3. QED BY <1>1, <1>3, <1>4, <1>5, <1>6, <2>1, <2>2 DEF IInv
<1>7. CASE Awaited(q) /\ turn' = [turn EXCEPT ![r] = t]
  <2>1. turn'[r] = t /\ TurnSound(r) /\ turn[r].pc # "idle" /\ turn[r].pc \notin Closing
    BY SMTT(40), <1>0, <1>7 DEF IInv
  <2>2. TurnSound(r)'
    <3>1. ClaimAt(r)' \in claims'
      BY <1>1, <2>1 DEF ClaimAt, TurnSound
    <3>2. calls[t.job] > 0 /\ model'[t.job].by = t.exec => t.pc \notin Early
      <4>1. t.job \in Jobs /\ Recorded(t.job)
        BY <1>0, TurnType, JobType
      <4>2. calls[t.job] > 0 => model'[t.job].by = model[t.job].by
        BY <4>1 DEF Recorded, Grows
      <4>3. QED BY <1>7, <2>1, <4>2 DEF TurnSound
    <3>3. ~(job[t.job].status = "READY" /\ job[t.job].exec = t.exec)
      BY <1>0, <2>1, NothingAsked
    <3>4. t.pc = "ready" => model'[t.job].state # "none" /\ model'[t.job].by = t.exec
      BY <1>7
    <3>5. t.pc \in Late => TextSound(t.job, t.text)'
      BY <1>7
    <3>6. QED BY <1>1, <2>1, <3>1, <3>2, <3>3, <3>4, <3>5 DEF TurnSound, TextSound
  <2>3. ASSUME NEW y \in net' PROVE Told(y)'
    <3>1. CASE y \in net /\ y.by = r
      <4>1. y.op = "complete" => ~(y.job = turn[r].job /\ y.exec = turn[r].exec)
        BY <1>0, <2>1, <3>1, NothingAsked
      <4>2. QED BY <2>1, <3>1, <4>1 DEF Told
    <3>2. CASE y \in net /\ y.by # r
      <4>1. Told(y) /\ y.by \in Claimants
        BY <3>2, CallType
      <4>2. turn'[y.by] = turn[y.by]
        BY <1>2, <3>2, <4>1
      <4>3. QED BY <4>1, <4>2 DEF Told
    <3>3. CASE y.op # "complete"
      BY <3>3 DEF Told
    <3>4. QED BY <3>1, <3>2, <3>3
  <2>4. \A y \in net' : CallSound(y)'
    BY CallKept
  <2>5. \A x \in Claimants : TurnSound(x)'
    BY <1>2, <1>5, <2>2
  <2>6. QED BY SMTT(40), <1>1, <1>3, <1>4, <2>3, <2>4, <2>5 DEF IInv
<1>8. QED BY <1>6, <1>7

\* A call that is lost, or that changes nothing.
LEMMA LostStep ==
  ASSUME IInv, NEW q \in net, Keep, net' \subseteq net,
         UNCHANGED <<asks, turn, model, calls, thread, receipt, work, said, crashes>>
  PROVE  IInv'
<1>1. JobsInv' /\ job' = job /\ claims' = claims
  BY JobsStutterHolds DEF IInv, Keep, jobsVars
<1>2. ClaimsApart' /\ TurnTypeOK'
  BY <1>1 DEF IInv, ClaimsApart, TurnTypeOK
<1>3. RowsHold
  BY <1>1, JobType DEF RowsHold
<1>4. \A y \in net' : Told(y)'
  BY DEF IInv, Told
<1>5. QED BY <1>1, <1>2, <1>3, <1>4, RowsStep DEF IInv, TurnTypeOK
\* The turn a call answers moves to another place, with its text or with another.
LEMMA ThenType ==
  ASSUME IInv, NEW q \in net, NEW pc \in Stages
  PROVE  /\ Then(q, pc) \in Turn /\ Then(q, pc).pc = pc /\ Then(q, pc).text = turn[q.by].text
         /\ Then(q, pc).job = turn[q.by].job /\ Then(q, pc).exec = turn[q.by].exec
         /\ Then(q, pc).version = turn[q.by].version
<1>1. PICK t \in Turn : t = turn[q.by]
  BY CallType, TurnType
<1>2. Then(q, pc) = [t EXCEPT !.pc = pc, !.try = 0]
  BY <1>1 DEF Then
<1>3. PICK u \in Turn : u = [t EXCEPT !.pc = pc, !.try = 0]
  <2>1. [t EXCEPT !.pc = pc, !.try = 0] \in Turn
    BY ZenonT(40) DEF Turn
  <2>2. QED BY <2>1
<1>4. /\ u.pc = pc /\ u.text = t.text /\ u.job = t.job /\ u.exec = t.exec
      /\ u.version = t.version
  BY <1>3 DEF Turn
<1>5. QED BY <1>1, <1>2, <1>3, <1>4

\* Where the turn of an awaited call waits.
LEMMA WaitingTurn ==
  ASSUME IInv, NEW q \in net, Awaited(q), q.op # "renew"
  PROVE  /\ q.by \in Claimants /\ turn[q.by].job = q.job /\ turn[q.by].exec = q.exec
         /\ q.op \in DOMAIN WaitsAt /\ turn[q.by].pc = WaitsAt[q.op]
         /\ TurnSound(q.by)
BY CallType DEF Awaited, IInv

LEMMA TraceableRow ==
  ASSUME IInv, NEW q \in net, Traceable(ClaimOf(q))
  PROVE  job[q.job].exec = q.exec /\ job[q.job].status = "CLAIMED"
BY DEF Traceable, ClaimOf

\* The trace of a model call is opened by the execution the row has.
LEMMA ServeStartStep ==
  ASSUME IInv, NEW q \in net, ServeStart(q), net' = net \ {q}, UNCHANGED <<asks, calls, crashes>>
  PROVE  IInv'
<1> DEFINE m == model[q.job]
<1>0. /\ q.by \in Claimants /\ q.job \in Jobs /\ q.exec \in Nat /\ q.op = "start"
      /\ Keep /\ UNCHANGED <<thread, receipt, work, said>>
  BY CallType DEF ServeStart
<1>1. CASE UNCHANGED <<turn, model>>
  BY <1>0, <1>1, LostStep
<1>2. CASE /\ Traceable(ClaimOf(q)) /\ m.state \in {"none", "started"}
           /\ m.state = "started" => m.by = q.exec
           /\ model' = [model EXCEPT ![q.job] =
                         [state |-> "started", by |-> q.exec, text |-> NoAnswer]]
           /\ Answer(q, Then(q, "ready"))
  <2>1. PICK new : new = [state |-> "started", by |-> q.exec, text |-> NoAnswer]
    OBVIOUS
  <2>2. /\ new \in [state : {"none", "started", "completed"}, by : Nat, text : Texts]
        /\ new.state = "started" /\ new.by = q.exec
    BY <1>0, <2>1, Words
  <2>3. /\ model' \in [Jobs -> [state : {"none", "started", "completed"}, by : Nat, text : Texts]]
        /\ model'[q.job] = new /\ \A k \in Jobs \ {q.job} : model'[k] = model[k]
    BY <1>0, <1>2, <2>1, <2>2 DEF IInv, TurnTypeOK
  <2>4. /\ job' = job /\ claims' = claims /\ calls' = calls /\ said' = said
        /\ thread' = thread /\ receipt' = receipt /\ work' = work /\ asks' = asks
    BY <1>0 DEF Keep, jobsVars
  <2>5. Grows
    BY <1>0, <1>2, <2>2, <2>3, <2>4 DEF Grows
  <2>6. ASSUME NEW j \in Jobs PROVE Recorded(j)'
    <3>1. Recorded(j) /\ job[j].exec \in Nat
      BY JobType
    <3>2. CASE j = q.job
      <4>1. job[j].exec = q.exec
        BY <1>2, <3>2, TraceableRow
      <4>2. model[j].state # "completed"
        BY <1>2, <3>2
      <4>3. QED BY <1>0, <2>2, <2>3, <2>4, <3>1, <3>2, <4>1, <4>2 DEF Recorded
    <3>3. CASE j # q.job
      BY <2>3, <2>4, <3>1, <3>3 DEF Recorded
    <3>4. QED BY <3>2, <3>3
  <2>7. "ready" \in Stages /\ "ready" \in Early /\ "ready" \notin Late /\ "starting" \in Early
        /\ "starting" \notin Closing
    BY Places DEF Stages, Early, Closing
  <2>8. PICK t \in Turn : t = Then(q, "ready")
    BY <2>7, ThenType
  <2>9. /\ t.pc = "ready" /\ t.job = turn[q.by].job /\ t.exec = turn[q.by].exec
        /\ t.version = turn[q.by].version
    BY <2>7, <2>8, ThenType
  <2>10. Awaited(q) => /\ turn[q.by].pc = "starting" /\ turn[q.by].job = q.job
                       /\ turn[q.by].exec = q.exec
    BY <1>0, WaitingTurn DEF WaitsAt
  <2>11. turn' = turn \/ (Awaited(q) /\ turn' = [turn EXCEPT ![q.by] = t])
    BY <1>2, <2>8 DEF Answer
  <2>12. Awaited(q) => model'[t.job].state # "none" /\ model'[t.job].by = t.exec
    BY <2>2, <2>3, <2>9, <2>10
  <2>13. {thread', receipt'} \subseteq [Jobs -> Texts] /\ work' \in [Jobs -> {"none", "done"}]
    BY <2>4 DEF IInv, TurnTypeOK
  <2>14. \A y \in net' : y \in net
    OBVIOUS
  <2>15. Awaited(q) => turn[q.by].pc \notin Closing /\ turn[q.by].pc # "idle"
    BY <2>7, <2>10
  <2>16. UNCHANGED <<asks, calls, said, crashes>>
    BY <1>0
  <2>17. t.pc # "delivering" /\ t.pc # "finishing" /\ t.pc \notin Late
         /\ (Awaited(q) => turn[q.by].pc \in Early)
    BY <2>7, <2>9, <2>10
  <2>. HIDE DEF m
  <2>18. QED
    BY ZenonT(40), <1>0, <2>3, <2>5, <2>6, <2>9, <2>11, <2>12, <2>13, <2>14, <2>15, <2>16, <2>17, AnsweredStep
<1>3. QED
  BY <1>1, <1>2, JobType, <1>0 DEF ServeStart
\* The answer is recorded as the one the trace completes with, and none replaces it.
LEMMA ServeFinishStep ==
  ASSUME IInv, NEW q \in net, ServeFinish(q), net' = net \ {q}, UNCHANGED <<asks, calls, crashes>>
  PROVE  IInv'
<1> DEFINE m == model[q.job]
<1>0. /\ q.by \in Claimants /\ q.job \in Jobs /\ q.op = "finish" /\ q.text = q.exec /\ q.exec \in Nat
      /\ Keep /\ UNCHANGED <<thread, receipt, work, said>>
  BY CallType DEF ServeFinish, CallSound
<1>1. CASE UNCHANGED <<turn, model>>
  BY <1>0, <1>1, LostStep
<1>2. CASE /\ Traceable(ClaimOf(q)) /\ (m.state # "completed" \/ m.text = q.text)
           /\ model' = [model EXCEPT ![q.job].state = "completed", ![q.job].text = q.text]
           /\ Answer(q, Then(q, Onward))
  <2>0. /\ m \in [state : {"none", "started", "completed"}, by : Nat, text : Texts]
        /\ q.text \in Texts
    BY <1>0, CallType DEF IInv, TurnTypeOK
  <2>1. PICK new : new = [m EXCEPT !.state = "completed", !.text = q.text]
    OBVIOUS
  <2>2. /\ new \in [state : {"none", "started", "completed"}, by : Nat, text : Texts]
        /\ new.state = "completed" /\ new.by = m.by /\ new.text = q.text
    BY ZenonT(40), <2>0, <2>1
  <2>3. /\ model' \in [Jobs -> [state : {"none", "started", "completed"}, by : Nat, text : Texts]]
        /\ model'[q.job] = new /\ \A k \in Jobs \ {q.job} : model'[k] = model[k]
    BY ZenonT(40), <1>0, <1>2, <2>1, <2>2 DEF IInv, TurnTypeOK
  <2>4. /\ job' = job /\ claims' = claims /\ calls' = calls /\ said' = said
        /\ thread' = thread /\ receipt' = receipt /\ work' = work /\ asks' = asks
    BY <1>0 DEF Keep, jobsVars
  <2>5. Grows
    BY <1>0, <1>2, <2>2, <2>3, <2>4 DEF Grows
  <2>6. ASSUME NEW j \in Jobs PROVE Recorded(j)'
    <3>1. Recorded(j)
      BY JobType
    <3>2. CASE j = q.job
      BY SMTT(40), <1>0, <1>2, <2>2, <2>3, <2>4, <3>1, <3>2 DEF Recorded
    <3>3. CASE j # q.job
      BY <2>3, <2>4, <3>1, <3>3 DEF Recorded
    <3>4. QED BY <3>2, <3>3
  <2>7. Onward \in Stages /\ Onward \in Late \ Early /\ Onward \notin {"ready", "finishing", "delivering"}
        /\ "finishing" \notin Closing
    BY Places, StageNames DEF Closing
  <2>8. PICK t \in Turn : t = Then(q, Onward)
    BY <2>7, ThenType
  <2>9. /\ t.pc = Onward /\ t.job = turn[q.by].job /\ t.exec = turn[q.by].exec
        /\ t.version = turn[q.by].version /\ t.text = turn[q.by].text
    BY <2>7, <2>8, ThenType
  <2>10. Awaited(q) => /\ turn[q.by].pc = "finishing" /\ turn[q.by].job = q.job
                       /\ turn[q.by].text = q.text
    <3>1. SUFFICES ASSUME Awaited(q)
                   PROVE  /\ turn[q.by].pc = "finishing" /\ turn[q.by].job = q.job
                          /\ turn[q.by].text = q.text
      OBVIOUS
    <3>2. /\ turn[q.by].pc = "finishing" /\ turn[q.by].job = q.job
          /\ turn[q.by].exec = q.exec /\ TurnSound(q.by)
      BY <1>0, <3>1, WaitingTurn DEF WaitsAt
    <3>3. QED BY <1>0, <3>2 DEF TurnSound
  <2>11. turn' = turn \/ (Awaited(q) /\ turn' = [turn EXCEPT ![q.by] = t])
    BY <1>2, <2>8 DEF Answer
  <2>12. Awaited(q) => TextSound(t.job, t.text)'
    BY <1>0, <2>2, <2>3, <2>9, <2>10 DEF TextSound, NoAnswer, WorkReply
  <2>13. {thread', receipt'} \subseteq [Jobs -> Texts] /\ work' \in [Jobs -> {"none", "done"}]
    BY <2>4 DEF IInv, TurnTypeOK
  <2>14. \A y \in net' : y \in net
    OBVIOUS
  <2>15. Awaited(q) => turn[q.by].pc \notin Closing /\ turn[q.by].pc # "idle"
    BY <2>7, <2>10
  <2>16. UNCHANGED <<asks, calls, said, crashes>>
    BY <1>0
  <2>17. t.pc # "delivering" /\ t.pc # "finishing" /\ t.pc # "ready" /\ t.pc \notin Early
    BY <2>7, <2>9
  <2>. HIDE DEF m
  <2>18. QED
    BY <1>0, <2>3, <2>5, <2>6, <2>9, <2>11, <2>12, <2>13, <2>14, <2>15, <2>16, <2>17, AnsweredStep
<1>3. QED
  BY <1>1, <1>2 DEF ServeFinish, Onward

\* A call whose answer changes no record: the turn goes on, or is refused.
LEMMA AnsweredOnly ==
  ASSUME IInv, NEW q \in net, Keep, net' = net \ {q},
         UNCHANGED <<asks, model, calls, thread, receipt, work, said, crashes>>,
         NEW pc \in {"answered", "refused"}, NEW text \in Texts,
         q.op \in {"append", "work", "effect"},
         Answer(q, [Then(q, pc) EXCEPT !.text = text]),
         Awaited(q) /\ pc = "answered" => TextSound(q.job, text)
  PROVE  IInv'
<1>1. /\ pc \in Stages /\ pc \notin Early /\ pc # "ready" /\ pc # "finishing" /\ pc # "delivering"
  BY Places DEF Stages
<1>2. PICK t \in Turn : t = [Then(q, pc) EXCEPT !.text = text]
  <2>1. [Then(q, pc) EXCEPT !.text = text] \in Turn
    BY <1>1, ThenType DEF Turn
  <2>2. QED BY <2>1
<1>3. /\ t.pc = pc /\ t.text = text /\ t.job = turn[q.by].job /\ t.exec = turn[q.by].exec
      /\ t.version = turn[q.by].version
  BY <1>1, <1>2, ThenType DEF Turn
<1>4. turn' = turn \/ (Awaited(q) /\ turn' = [turn EXCEPT ![q.by] = t])
  BY <1>2 DEF Answer
<1>5. Awaited(q) => /\ turn[q.by].pc \in {"appending", "working"} /\ turn[q.by].job = q.job
  BY WaitingTurn DEF WaitsAt
<1>6. Awaited(q) => turn[q.by].pc \notin Closing /\ turn[q.by].pc # "idle"
  BY <1>5, Places DEF Closing
<1>7. /\ job' = job /\ claims' = claims /\ calls' = calls /\ said' = said /\ model' = model
      /\ thread' = thread /\ receipt' = receipt /\ work' = work /\ asks' = asks
  BY DEF Keep, jobsVars
<1>8. Grows
  BY <1>7 DEF Grows
<1>9. \A j \in Jobs : Recorded(j)'
  BY <1>7, JobType DEF Recorded
<1>10. Awaited(q) /\ t.pc \in Late => TextSound(t.job, t.text)'
  <2>1. t.pc \in Late => pc = "answered"
    BY <1>3 DEF Late
  <2>2. QED BY <1>3, <1>5, <1>7, <2>1 DEF TextSound
<1>11. /\ model' \in [Jobs -> [state : {"none", "started", "completed"}, by : Nat, text : Texts]]
       /\ {thread', receipt'} \subseteq [Jobs -> Texts] /\ work' \in [Jobs -> {"none", "done"}]
  BY <1>7 DEF IInv, TurnTypeOK
<1>12. (\A y \in net' : y \in net) /\ UNCHANGED <<asks, calls, said, crashes>>
  OBVIOUS
<1>13. t.pc # "delivering" /\ t.pc # "finishing" /\ t.pc # "ready" /\ t.pc \notin Early
  BY <1>1, <1>3
<1>14. QED
  BY <1>3, <1>4, <1>6, <1>8, <1>9, <1>10, <1>11, <1>12, <1>13, AnsweredStep
\* Keeping the text is one way of answering it.
LEMMA SameText ==
  ASSUME IInv, NEW q \in net, NEW pc \in Stages
  PROVE  Then(q, pc) = [Then(q, pc) EXCEPT !.text = turn[q.by].text]
BY ThenType DEF Turn

\* The turn that waits for an append goes on with a text that rests on its records.
LEMMA AppendWaits ==
  ASSUME IInv, NEW q \in net, q.op \in {"append", "receipt"}, Awaited(q)
  PROVE  /\ turn[q.by].pc = "appending" /\ turn[q.by].job = q.job
         /\ TextSound(q.job, turn[q.by].text)
<1>1. /\ turn[q.by].pc = "appending" /\ turn[q.by].job = q.job /\ TurnSound(q.by)
  BY WaitingTurn DEF WaitsAt
<1>2. QED BY <1>1 DEF TurnSound, Late

LEMMA ServeAppendStep ==
  ASSUME IInv, NEW q \in net, ServeAppend(q) \/ RefuseWork(q), net' = net \ {q},
         UNCHANGED <<asks, calls, crashes>>
  PROVE  IInv'
<1>1. /\ turn[q.by].text \in Texts /\ "answered" \in Stages /\ "refused" \in Stages
      /\ Keep /\ UNCHANGED <<asks, model, calls, thread, receipt, work, said, crashes>>
  BY CallType, TurnType DEF Stages, ServeAppend, RefuseWork
<1>2. CASE ServeAppend(q)
  <2>1. Answer(q, Then(q, "answered")) /\ q.op = "append"
    BY <1>2 DEF ServeAppend
  <2>2. Answer(q, [Then(q, "answered") EXCEPT !.text = turn[q.by].text])
    BY <1>1, <2>1, SameText
  <2>3. Awaited(q) => TextSound(q.job, turn[q.by].text)
    BY <2>1, AppendWaits
  <2>4. QED BY <1>1, <2>1, <2>2, <2>3, AnsweredOnly
<1>3. CASE RefuseWork(q)
  <2>1. Answer(q, Then(q, "refused")) /\ q.op = "work"
    BY <1>3 DEF RefuseWork
  <2>2. Answer(q, [Then(q, "refused") EXCEPT !.text = turn[q.by].text])
    BY <1>1, <2>1, SameText
  <2>3. "refused" \in {"answered", "refused"} /\ "refused" # "answered"
    OBVIOUS
  <2>4. QED BY <1>1, <2>1, <2>2, <2>3, AnsweredOnly
<1>4. QED BY <1>2, <1>3

\* A call that goes on inside Core: the thread may gain its text meanwhile.
LEMMA GoesOnInCore ==
  ASSUME IInv, NEW q \in net, AdmitWork(q) \/ AppendToThread(q), UNCHANGED <<asks, calls, crashes>>
  PROVE  IInv'
<1>0. /\ Keep /\ UNCHANGED <<asks, turn, model, calls, receipt, work, said, crashes>>
      /\ q \in Request /\ q.job \in Jobs /\ q.text \in Texts /\ CallSound(q) /\ q.by \in Claimants
  BY CallType DEF AdmitWork, AppendToThread
<1>1. PICK y : y = [q EXCEPT !.op = IF q.op = "work" THEN "effect" ELSE "receipt"]
  OBVIOUS
<1>2. /\ y \in Request /\ y.op \in {"effect", "receipt"} /\ y.job = q.job /\ y.exec = q.exec
      /\ y.version = q.version /\ y.by = q.by /\ y.text = q.text
      /\ y.op = "receipt" => q.op # "work"
  BY <1>0, <1>1 DEF Request, Ops
<1>3. /\ q.op \in {"work", "append"} /\ net' = (net \ {q}) \cup {y}
      /\ q.op = "work" => thread' = thread
      /\ q.op = "append" => thread' = [thread EXCEPT ![q.job] = IF @ = NoAnswer THEN q.text ELSE @]
  BY <1>1 DEF AdmitWork, AppendToThread
<1>4. thread \in [Jobs -> Texts] /\ receipt \in [Jobs -> Texts]
  BY DEF IInv, TurnTypeOK
<1>5. /\ thread' \in [Jobs -> Texts]
      /\ \A j \in Jobs : thread[j] # NoAnswer => thread'[j] = thread[j]
      /\ q.op = "append" => thread'[q.job] # NoAnswer
  <2>1. q.op = "append" => q.text # NoAnswer
    BY <1>0 DEF CallSound, TextSound
  <2>2. QED BY <1>0, <1>3, <1>4, <2>1
<1>6. /\ job' = job /\ claims' = claims /\ calls' = calls /\ said' = said /\ model' = model
      /\ receipt' = receipt /\ work' = work /\ asks' = asks
  BY <1>0 DEF Keep, jobsVars
<1>7. Grows
  BY <1>5, <1>6 DEF Grows
<1>8. \A j \in Jobs : Recorded(j)'
  BY <1>5, <1>6, JobType DEF Recorded
<1>9. CallSound(y)'
  <2>1. ClaimOf(y) \in claims
    BY <1>0, <1>2 DEF CallSound, ClaimOf
  <2>2. y.op = "receipt" => q.op = "append" /\ TextSound(y.job, y.text)
    BY <1>0, <1>2, <1>3 DEF CallSound
  <2>3. QED
    BY <1>2, <1>5, <1>6, <2>1, <2>2 DEF CallSound, ClaimOf, TextSound
<1>10. \A x \in net' : \/ x \in net
                       \/ x \in Request /\ CallSound(x)' /\ x.op # "complete"
  BY <1>2, <1>3, <1>9
<1>11. Awaited(q) => turn[q.by].pc \notin Closing /\ turn[q.by].pc # "idle"
  BY <1>3, WaitingTurn, Places DEF WaitsAt, Closing
<1>12. Awaited(q) => turn[q.by].pc \notin Early /\ turn[q.by].pc \notin {"ready", "finishing"}
  BY <1>3, WaitingTurn, Places DEF WaitsAt, Early
<1>13. /\ model' \in [Jobs -> [state : {"none", "started", "completed"}, by : Nat, text : Texts]]
       /\ {thread', receipt'} \subseteq [Jobs -> Texts] /\ work' \in [Jobs -> {"none", "done"}]
  BY <1>4, <1>5, <1>6 DEF IInv, TurnTypeOK
<1>14. JobsInv' /\ ClaimsApart' /\ TurnTypeOK'
  <2>1. net' \subseteq Request
    BY <1>2, <1>3 DEF IInv, TurnTypeOK
  <2>2. QED
    BY <1>0, <1>6, <1>13, <2>1, JobsStutterHolds DEF IInv, Keep, ClaimsApart, TurnTypeOK
<1>15. \A x \in Claimants : TurnSound(x)'
  <2>1. ASSUME NEW x \in Claimants PROVE TurnSound(x)'
    <3>1. Unnoticed(x, turn[x].job)
      BY <1>6, TurnType DEF Unnoticed
    <3>2. turn'[x] = turn[x]
      BY <1>0
    <3>3. QED BY <1>7, <3>1, <3>2, TurnKept
  <2>2. QED BY <2>1
<1>16. \A x \in net' : CallSound(x)' /\ Told(x)'
  <2>1. ASSUME NEW x \in net' PROVE CallSound(x)' /\ Told(x)'
    <3>1. CallSound(x)'
      BY <1>7, <1>10, CallKept
    <3>2. Told(x)'
      BY <1>0, <1>2, <1>3, CallType DEF Told
    <3>3. QED BY <3>1, <3>2
  <2>2. QED BY <2>1
<1>17. QED
  BY <1>8, <1>14, <1>15, <1>16 DEF IInv
\* A receipt is saved for a text the thread has an answer for, and none replaces it.
LEMMA SaveReceiptStep ==
  ASSUME IInv, NEW q \in net, SaveReceipt(q), net' = net \ {q}, UNCHANGED <<asks, calls, crashes>>
  PROVE  IInv'
<1>0. /\ q.by \in Claimants /\ q.job \in Jobs /\ q.text \in Texts /\ q.op = "receipt"
      /\ Keep /\ UNCHANGED <<model, thread, work, said>>
      /\ receipt[q.job] \in {NoAnswer, q.text} /\ thread[q.job] # NoAnswer
  BY CallType DEF SaveReceipt, CallSound
<1>1. receipt \in [Jobs -> Texts] /\ receipt' = [receipt EXCEPT ![q.job] = q.text]
  BY DEF IInv, TurnTypeOK, SaveReceipt
<1>2. /\ receipt' \in [Jobs -> Texts] /\ receipt'[q.job] = q.text
      /\ \A k \in Jobs \ {q.job} : receipt'[k] = receipt[k]
  BY <1>0, <1>1
<1>3. /\ job' = job /\ claims' = claims /\ calls' = calls /\ said' = said
      /\ thread' = thread /\ model' = model /\ work' = work /\ asks' = asks
  BY <1>0 DEF Keep, jobsVars
<1>4. Grows
  BY <1>3 DEF Grows
<1>5. ASSUME NEW j \in Jobs PROVE Recorded(j)'
  <2>1. Recorded(j)
    BY JobType
  <2>2. receipt'[j] # NoAnswer => thread[j] # NoAnswer
    BY <1>0, <1>2, <2>1 DEF Recorded
  <2>3. /\ MemorySync /\ asks[j] = "QUESTION" /\ said[j] \notin {NoAnswer, Fixed}
        => receipt'[j] = said[j]
    <3>1. receipt'[j] = receipt[j] \/ (receipt[j] = NoAnswer /\ j = q.job)
      BY <1>0, <1>2
    <3>2. QED BY <2>1, <3>1 DEF Recorded
  <2>4. QED BY <1>3, <2>1, <2>2, <2>3 DEF Recorded
<1>6. /\ "answered" \in Stages /\ "answered" \notin Early /\ "appending" \notin Closing
  BY DEF Stages, Early, Closing
<1>7. PICK t \in Turn : t = Then(q, "answered")
  BY <1>6, ThenType
<1>8. /\ t.pc = "answered" /\ t.job = turn[q.by].job /\ t.exec = turn[q.by].exec
      /\ t.version = turn[q.by].version /\ t.text = turn[q.by].text
  BY <1>6, <1>7, ThenType
<1>9. turn' = turn \/ (Awaited(q) /\ turn' = [turn EXCEPT ![q.by] = t])
  BY <1>7 DEF Answer, SaveReceipt
<1>10. Awaited(q) => /\ turn[q.by].pc = "appending" /\ turn[q.by].job = q.job
                     /\ TextSound(q.job, turn[q.by].text)
  BY <1>0, AppendWaits
<1>11. Awaited(q) => TextSound(t.job, t.text)'
  BY <1>3, <1>8, <1>10 DEF TextSound
<1>12. /\ model' \in [Jobs -> [state : {"none", "started", "completed"}, by : Nat, text : Texts]]
       /\ {thread', receipt'} \subseteq [Jobs -> Texts] /\ work' \in [Jobs -> {"none", "done"}]
  BY <1>2, <1>3 DEF IInv, TurnTypeOK
<1>13. (\A y \in net' : y \in net) /\ UNCHANGED <<asks, calls, said, crashes>>
  BY <1>0
<1>14. Awaited(q) => turn[q.by].pc \notin Closing /\ turn[q.by].pc # "idle"
  BY <1>6, <1>10
<1>15. t.pc # "delivering" /\ t.pc # "finishing" /\ t.pc # "ready" /\ t.pc \notin Early
  BY <1>6, <1>8
<1>16. QED
  BY <1>0, <1>4, <1>5, <1>8, <1>9, <1>11, <1>12, <1>13, <1>14, <1>15, AnsweredStep

\* The work is done and answered, or refused, or its claim was fenced meanwhile.
LEMMA ServeEffectStep ==
  ASSUME IInv, NEW q \in net, ServeEffect(q), net' = net \ {q}, UNCHANGED <<asks, calls, crashes>>
  PROVE  IInv'
<1>0. /\ q.by \in Claimants /\ q.job \in Jobs /\ q.op = "effect"
      /\ Keep /\ UNCHANGED <<model, thread, receipt, said>>
      /\ WorkReply \in Texts /\ WorkRefusal \in Texts
  BY CallType, Words DEF ServeEffect
<1>1. CASE UNCHANGED <<turn, work>>
  BY <1>0, <1>1, LostStep
<1>2. CASE UNCHANGED work /\ Answer(q, [Then(q, "answered") EXCEPT !.text = WorkRefusal])
  <2>1. TextSound(q.job, WorkRefusal)
    BY DEF TextSound, NoAnswer, Fixed, WorkReply, WorkRefusal
  <2>2. "answered" \in {"answered", "refused"}
    OBVIOUS
  <2>3. QED BY <1>0, <1>2, <2>1, <2>2, AnsweredOnly
<1>3. CASE /\ work' = [work EXCEPT ![q.job] = "done"]
           /\ Answer(q, [Then(q, "answered") EXCEPT !.text = WorkReply])
  <2>1. /\ work' \in [Jobs -> {"none", "done"}] /\ work'[q.job] = "done"
        /\ \A k \in Jobs : work[k] = "done" => work'[k] = "done"
    BY <1>0, <1>3 DEF IInv, TurnTypeOK
  <2>2. /\ job' = job /\ claims' = claims /\ calls' = calls /\ said' = said
        /\ thread' = thread /\ model' = model /\ receipt' = receipt /\ asks' = asks
    BY <1>0 DEF Keep, jobsVars
  <2>3. Grows
    BY <2>1, <2>2 DEF Grows
  <2>4. \A j \in Jobs : Recorded(j)'
    BY <2>1, <2>2, JobType DEF Recorded
  <2>5. /\ "answered" \in Stages /\ "answered" \notin Early /\ "working" \notin Closing
    BY DEF Stages, Early, Closing
  <2>6. PICK t \in Turn : t = [Then(q, "answered") EXCEPT !.text = WorkReply]
    <3>1. [Then(q, "answered") EXCEPT !.text = WorkReply] \in Turn
      BY <1>0, <2>5, ThenType DEF Turn
    <3>2. QED BY <3>1
  <2>7. /\ t.pc = "answered" /\ t.job = turn[q.by].job /\ t.exec = turn[q.by].exec
        /\ t.version = turn[q.by].version /\ t.text = WorkReply
    BY <2>5, <2>6, ThenType DEF Turn
  <2>8. turn' = turn \/ (Awaited(q) /\ turn' = [turn EXCEPT ![q.by] = t])
    BY <1>3, <2>6 DEF Answer
  <2>9. Awaited(q) => turn[q.by].pc = "working" /\ turn[q.by].job = q.job
    BY <1>0, WaitingTurn DEF WaitsAt
  <2>10. Awaited(q) => TextSound(t.job, t.text)'
    BY <2>1, <2>7, <2>9 DEF TextSound, NoAnswer, Fixed, WorkReply
  <2>11. /\ model' \in [Jobs -> [state : {"none", "started", "completed"}, by : Nat, text : Texts]]
         /\ {thread', receipt'} \subseteq [Jobs -> Texts]
    BY <2>2 DEF IInv, TurnTypeOK
  <2>12. (\A y \in net' : y \in net) /\ UNCHANGED <<asks, calls, said, crashes>>
    BY <1>0
  <2>13. Awaited(q) => turn[q.by].pc \notin Closing /\ turn[q.by].pc # "idle"
    BY <2>5, <2>9
  <2>14. t.pc # "delivering" /\ t.pc # "finishing" /\ t.pc # "ready" /\ t.pc \notin Early
    BY <2>5, <2>7
  <2>15. QED
    BY ZenonT(40), <1>0, <2>1, <2>3, <2>4, <2>7, <2>8, <2>10, <2>11, <2>12, <2>13, <2>14, AnsweredStep
<1>4. QED BY <1>1, <1>2, <1>3 DEF ServeEffect
-----------------------------------------------------------------------------
\* What Core writes when it closes an execution, or a call that changes nothing.
LEMMA CloseStep ==
  ASSUME IInv, NEW q \in net, FailExecution(ClaimOf(q)) \/ LeaveUnknown(ClaimOf(q)),
         net' = net \ {q}, UNCHANGED <<asks, turn, model, calls, thread, receipt, work, said, crashes>>
  PROVE  IInv'
<1>1. PICK c \in claims : c = ClaimOf(q) /\ c.job = q.job
  BY SMTT(40), CallType DEF ClaimOf
<1>2. JobsInv /\ JobsInv' /\ claims' = claims /\ Holds(c)
  BY ZenonT(40), <1>1, CloseExecutionStep DEF IInv, FailExecution, LeaveUnknown
<1>3. c.job \in Jobs /\ job[c.job] \in JobRow /\ job[c.job].status = "CLAIMED" /\ now \in Nat
  BY <1>2, HoldsRow, RowType
<1>4. PICK status \in {"FAILED", "UNKNOWN"} :
        Write(c.job, Released([job[c.job] EXCEPT !.status = status, !.answer = NoAnswer,
                                 !.error = "CODE", !.token = FALSE, !.avail = now]))
  BY <1>1 DEF FailExecution, LeaveUnknown
<1>5. PICK row \in JobRow :
        row = Released([job[c.job] EXCEPT !.status = status, !.answer = NoAnswer,
                          !.error = "CODE", !.token = FALSE, !.avail = now])
  <2>1. /\ status \in Statuses /\ "CODE" \in Errors /\ now \in OptTime /\ NoTime \in OptTime
        /\ NoAnswer \in Nat \cup {NoAnswer}
    BY <1>3 DEF Statuses, Errors, OptTime
  <2>2. QED BY ZenonT(40), <1>3, <2>1 DEF JobRow, Released
<1>6. Write(c.job, row) /\ row.status = status /\ row.exec = job[c.job].exec
  BY <1>3, <1>4, <1>5 DEF Released, JobRow
<1>7. RowsHold
  <2>1. row.exec >= job[c.job].exec
    BY <1>3, <1>6, JobType
  <2>2. job[c.job].status \in Open
    BY <1>3 DEF Open
  <2>3. row.status \notin {"ABSENT", "READY"}
    BY <1>6
  <2>4. QED BY <1>3, <1>6, <2>1, <2>2, <2>3, OneRow
<1>8. ClaimsApart'
  <2>1. \A d \in claims : d.job \in Jobs /\ d.exec \in Nat
    BY <1>2 DEF JobsInv, JobsTypeOK, Claim
  <2>2. \A k \in Jobs : job'[k].exec \in Nat /\ job[k].exec \in Nat
    BY <1>2, JobType DEF JobsInv, JobsTypeOK, JobRow
  <2>3. QED BY <1>2, <1>7, <2>1, <2>2 DEF IInv, ClaimsApart, RowsHold
<1>9. \A y \in net' : Told(y)'
  BY DEF IInv, Told
<1>10. QED
  BY SMTT(40), <1>2, <1>7, <1>8, <1>9, RowsStep DEF IInv, TurnTypeOK

\* A turn that could not finish tells Core so, once.
LEMMA ServeFailStep ==
  ASSUME IInv, NEW q \in net, ServeFail(q), net' = net \ {q}, UNCHANGED <<asks, calls, crashes>>
  PROVE  IInv'
<1>1. UNCHANGED <<asks, turn, model, calls, thread, receipt, work, said, crashes>>
  BY DEF ServeFail
<1>2. CASE Keep
  BY <1>1, <1>2, LostStep
<1>3. CASE FailExecution(ClaimOf(q)) \/ LeaveUnknown(ClaimOf(q))
  BY <1>1, <1>3, CloseStep
<1>4. QED BY <1>2, <1>3 DEF ServeFail
-----------------------------------------------------------------------------
\* A renewal hands out the same execution again, under the row's next version.
LEMMA ServeRenewStep ==
  ASSUME IInv, NEW q \in net, ServeRenew(q), net' = net \ {q}, UNCHANGED <<asks, calls, crashes>>
  PROVE  IInv'
<1>0. /\ UNCHANGED <<asks, model, calls, thread, receipt, work, said, crashes>>
      /\ q.by \in Claimants /\ q.op = "renew" /\ q.version \in Nat /\ q.job \in Jobs
      /\ turn \in [Claimants -> Turn] /\ JobsInv /\ turn[q.by] \in Turn
  BY CallType, TurnType DEF ServeRenew, IInv, TurnTypeOK
<1>1. CASE Keep /\ UNCHANGED turn
  BY <1>0, <1>1, LostStep
<1>2. CASE /\ Renew(ClaimOf(q))
           /\ Answer(q, [turn[q.by] EXCEPT !.flying = FALSE, !.version = q.version + 1,
                           !.lease = Earlier(job[q.job].expires, now + Lease)])
  <2>1. PICK c \in claims : c = ClaimOf(q)
    BY CallType
  <2>2. /\ c.job = q.job /\ c.exec = q.exec /\ c.claimant = q.by /\ c.version = q.version
        /\ c \in Claim
    BY <1>0, <2>1 DEF ClaimOf, JobsInv, JobsTypeOK
  <2>3. JobsInv' /\ Holds(c)
    BY <1>0, <1>2, <2>1, RenewStep DEF Renew
  <2>4. PICK d : d = [c EXCEPT !.version = c.version + 1]
    OBVIOUS
  <2>5. /\ claims' = claims \cup {d} /\ d.job = q.job /\ d.exec = q.exec /\ d.claimant = q.by
        /\ d.version = q.version + 1
        /\ d = [job |-> q.job, exec |-> q.exec, version |-> q.version + 1, claimant |-> q.by]
    BY <1>2, <2>1, <2>2, <2>4 DEF Renew, Claim
  <2>6. /\ c.job \in Jobs /\ job[c.job] \in JobRow /\ job[c.job].status = "CLAIMED"
        /\ now \in Nat /\ job[c.job].expires > now /\ now + Lease \in Nat
    BY <1>0, <2>3, HoldsRow, RowType, JobsAssumption DEF Holds
  <2>7. PICK lease \in Nat : lease = Earlier(job[q.job].expires, now + Lease)
    BY <2>2, <2>6 DEF Earlier, JobRow, OptTime, NoTime
  <2>8. PICK row \in JobRow : row = [job[c.job] EXCEPT !.lease = lease]
    BY ZenonT(40), <2>6 DEF JobRow, OptTime
  <2>9. Write(c.job, row) /\ row.status = "CLAIMED" /\ row.exec = job[c.job].exec
    BY <1>2, <2>1, <2>2, <2>6, <2>7, <2>8 DEF Renew, JobRow
  <2>10. RowsHold
    <3>1. row.exec >= job[c.job].exec
      BY <2>6, <2>9, JobType
    <3>2. QED BY <2>6, <2>9, <3>1, OneRow DEF Open
  <2>11. ClaimsApart'
    <3>1. \A e \in claims' : \E f \in claims :
            e.job = f.job /\ e.exec = f.exec /\ e.claimant = f.claimant
      BY <2>2, <2>5
    <3>2. \A e \in claims : e.job \in Jobs /\ e.exec \in Nat
      BY <1>0 DEF JobsInv, JobsTypeOK, Claim
    <3>3. \A k \in Jobs : job'[k].exec \in Nat /\ job[k].exec \in Nat
      BY <2>3, JobType DEF JobsInv, JobsTypeOK, JobRow
    <3>4. \A e \in claims : e.exec <= job'[e.job].exec
      BY <2>10, <3>2, <3>3 DEF RowsHold, IInv, ClaimsApart
    <3>5. QED BY <3>1, <3>4 DEF IInv, ClaimsApart
  <2>12. PICK t \in Turn : t = [turn[q.by] EXCEPT !.flying = FALSE,
                                  !.version = q.version + 1, !.lease = lease]
    <3>1. q.version + 1 \in Nat
      BY <1>0
    <3>2. QED BY ZenonT(40), <1>0, <2>7, <3>1 DEF Turn
  <2>13. /\ t.pc = turn[q.by].pc /\ t.job = turn[q.by].job /\ t.exec = turn[q.by].exec
         /\ t.text = turn[q.by].text /\ t.version = q.version + 1
    BY <1>0, <2>12 DEF Turn
  <2>14. turn' = turn \/ (Awaited(q) /\ turn' = [turn EXCEPT ![q.by] = t])
    BY <1>2, <2>7, <2>12 DEF Answer
  <2>15. turn' \in [Claimants -> Turn]
    BY <1>0, <2>14
  <2>16. ASSUME NEW x \in Claimants PROVE turn'[x] = turn[x] \/ TurnSound(x)'
    <3>1. SUFFICES ASSUME x = q.by, Awaited(q), turn' = [turn EXCEPT ![q.by] = t], t.pc # "idle"
                   PROVE  TurnSound(x)'
      BY <1>0, <2>14, IdleSound
    <3>2. /\ turn'[x] = t /\ t.job = q.job /\ t.exec = q.exec /\ TurnSound(x)
      BY <1>0, <2>13, <3>1 DEF Awaited, IInv
    <3>3. ClaimAt(x)' \in claims'
      BY <2>5, <2>13, <3>1, <3>2 DEF ClaimAt
    <3>4. job'[t.job].status = "CLAIMED" /\ job[t.job].status = "CLAIMED"
      <4>1. job'[c.job].status = row.status
        BY <2>6, <2>9, JobType, OneRow DEF Open
      <4>2. QED BY <2>2, <2>6, <2>9, <3>2, <4>1
    <3>5. t.pc # "delivering"
      BY <2>13, <3>1, <3>2, <3>4 DEF TurnSound, Open
    <3>6. t.pc \in Late => TextSound(t.job, t.text)'
      BY <1>0, <2>13, <3>1, <3>2 DEF TurnSound, TextSound
    <3>7. QED
      BY <1>0, <2>13, <3>1, <3>2, <3>3, <3>4, <3>5, <3>6 DEF TurnSound
  <2>17. ASSUME NEW y \in net' PROVE Told(y)'
    <3>1. y \in net /\ Told(y) /\ y.by \in Claimants
      BY CallType
    <3>2. /\ turn'[y.by].pc = turn[y.by].pc /\ turn'[y.by].job = turn[y.by].job
          /\ turn'[y.by].exec = turn[y.by].exec /\ turn'[y.by].text = turn[y.by].text
      BY <1>0, <2>13, <2>14, <3>1
    <3>3. QED BY <3>1, <3>2 DEF Told
  <2>18. QED
    BY <1>0, <2>3, <2>5, <2>10, <2>11, <2>15, <2>16, <2>17, RowsStep
<1>3. QED BY <1>1, <1>2 DEF ServeRenew
-----------------------------------------------------------------------------
\* The row an answer is committed to becomes READY, for the execution it has.
LEMMA CommittedRow ==
  ASSUME IInv, NEW c \in claims, CommitAnswer(c)
  PROVE  /\ JobsInv' /\ claims' = claims /\ c.job \in Jobs
         /\ job[c.job].status = "CLAIMED" /\ job[c.job].exec = c.exec
         /\ job'[c.job].status = "READY" /\ job'[c.job].exec = c.exec
         /\ \A k \in Jobs \ {c.job} : job'[k] = job[k]
<1>1. JobsInv /\ JobsInv' /\ claims' = claims /\ Holds(c)
  BY ZenonT(40), CommitStep DEF IInv, CommitAnswer
<1>2. /\ c.job \in Jobs /\ job[c.job] \in JobRow /\ job[c.job].status = "CLAIMED"
      /\ job[c.job].exec = c.exec /\ job \in [Jobs -> JobRow]
  BY <1>1, HoldsRow DEF JobsInv, JobsTypeOK
<1>3. PICK answer, method : Write(c.job, Released([job[c.job] EXCEPT
         !.status = "READY", !.answer = answer, !.error = "NONE", !.method = method, !.avail = now]))
  BY ZenonT(40) DEF CommitAnswer
<1>4. PICK row : row = Released([job[c.job] EXCEPT
         !.status = "READY", !.answer = answer, !.error = "NONE", !.method = method, !.avail = now])
  OBVIOUS
<1>5. row.status = "READY" /\ row.exec = c.exec
  BY <1>2, <1>4 DEF Released, JobRow
<1>6. /\ job'[c.job] = [row EXCEPT !.version = row.version + 1]
      /\ \A k \in Jobs \ {c.job} : job'[k] = job[k]
  BY ZenonT(40), <1>2, <1>3, <1>4 DEF Write
<1>7. DOMAIN row = DOMAIN job[c.job]
  BY ZenonT(40), <1>4 DEF Released
<1>8. /\ [row EXCEPT !.version = row.version + 1].status = row.status
      /\ [row EXCEPT !.version = row.version + 1].exec = row.exec
  BY <1>2, <1>7 DEF JobRow
<1>9. QED BY <1>1, <1>2, <1>5, <1>6, <1>8

\* A commit finds the turn that asked for it past its last stage, and nothing else of
\* that execution: what is said is what that turn goes on with.
LEMMA CommitHolds ==
  ASSUME IInv, NEW q \in net, q.op = "complete", CommitAnswer(ClaimOf(q)),
         MemorySync /\ asks[q.job] = "QUESTION" /\ q.text # Fixed => InThread(q.job, q.text),
         said' = [said EXCEPT ![q.job] = q.text],
         Answer(q, Then(q, "delivering")), net' = net \ {q},
         UNCHANGED <<asks, model, calls, thread, receipt, work, crashes>>
  PROVE  IInv'
<1>1. /\ q.by \in Claimants /\ q.job \in Jobs /\ q.exec \in Nat /\ q.text \in Texts
      /\ CallSound(q) /\ Told(q) /\ TextSound(q.job, q.text)
      /\ turn \in [Claimants -> Turn] /\ said \in [Jobs -> Texts]
  BY CallType DEF IInv, TurnTypeOK, CallSound
<1>2. PICK c \in claims : c = ClaimOf(q) /\ c.job = q.job /\ c.exec = q.exec
  BY CallType DEF ClaimOf
<1>3. /\ JobsInv' /\ claims' = claims
      /\ job[q.job].status = "CLAIMED" /\ job[q.job].exec = q.exec
      /\ job'[q.job].status = "READY" /\ job'[q.job].exec = q.exec
      /\ \A k \in Jobs \ {q.job} : job'[k] = job[k]
  BY <1>2, CommittedRow
<1>4. /\ said' \in [Jobs -> Texts] /\ said'[q.job] = q.text
      /\ \A k \in Jobs \ {q.job} : said'[k] = said[k]
  BY <1>1
<1>5. "delivering" \in Stages /\ "delivering" \in Closing /\ "READY" \notin Open /\ "CLAIMED" \in Open
  BY DEF Stages, Closing, Open
<1>6. PICK t \in Turn : t = Then(q, "delivering")
  BY <1>5, ThenType
<1>7. /\ t.pc = "delivering" /\ t.job = turn[q.by].job /\ t.exec = turn[q.by].exec
      /\ t.version = turn[q.by].version /\ t.text = turn[q.by].text
  BY <1>5, <1>6, ThenType
<1>8. turn' = turn \/ (Awaited(q) /\ turn' = [turn EXCEPT ![q.by] = t])
  BY <1>6 DEF Answer
<1>9. /\ turn' \in [Claimants -> Turn] /\ \A x \in Claimants \ {q.by} : turn'[x] = turn[x]
      /\ turn'[q.by] = turn[q.by] \/ (Awaited(q) /\ turn'[q.by] = t)
  BY <1>1, <1>8
<1>10. Awaited(q) => /\ turn[q.by].pc = "completing" /\ turn[q.by].job = q.job
                     /\ turn[q.by].exec = q.exec
  BY WaitingTurn DEF WaitsAt
<1>11. TurnTypeOK' /\ ClaimsApart'
  <2>1. TurnTypeOK'
    BY <1>4, <1>9 DEF IInv, TurnTypeOK
  <2>2. \A k \in Jobs : job'[k].exec = job[k].exec
    BY <1>3
  <2>3. \A d \in claims : d.job \in Jobs
    BY DEF IInv, JobsInv, JobsTypeOK, Claim
  <2>4. QED BY <1>3, <2>1, <2>2, <2>3 DEF IInv, ClaimsApart
<1>12. Grows
  BY <1>3 DEF Grows
<1>13. ASSUME NEW j \in Jobs PROVE Recorded(j)'
  <2>1. Recorded(j)
    BY JobType
  <2>2. CASE j # q.job
    BY <1>3, <1>4, <2>1, <2>2 DEF Recorded
  <2>3. CASE j = q.job
    <3>1. /\ said'[j] > Fixed => model[j].state = "completed" /\ model[j].text = said'[j]
          /\ said'[j] = WorkReply => work[j] = "done"
      BY <1>1, <1>4, <2>3 DEF TextSound
    <3>2. /\ MemorySync /\ asks[j] = "QUESTION" /\ said'[j] \notin {NoAnswer, Fixed}
          => receipt[j] = said'[j]
      BY <1>4, <2>3 DEF InThread
    <3>3. QED BY <1>3, <2>1, <2>3, <3>1, <3>2 DEF Recorded
  <2>4. QED BY <2>2, <2>3
<1>14. ASSUME NEW x \in Claimants PROVE TurnSound(x)'
  <2>1. CASE turn[x].pc # "idle" /\ turn[x].job = q.job /\ turn[x].exec = q.exec
    <3>1. x = q.by
      BY <2>1, OneTurn
    <3>2. turn[x].pc \in Closing /\ turn[x].text = q.text /\ TurnSound(x)
      BY <1>1, <2>1, <3>1 DEF Told, IInv
    <3>3. /\ turn'[x].pc \in Closing /\ turn'[x].text = q.text /\ turn'[x].job = q.job
          /\ turn'[x].exec = q.exec /\ ClaimAt(x)' = ClaimAt(x)
      BY <1>5, <1>7, <1>9, <2>1, <3>1, <3>2 DEF ClaimAt
    <3>4. ClaimAt(x)' \in claims'
      BY <1>3, <2>1, <3>2, <3>3 DEF TurnSound
    <3>5. TextSound(q.job, q.text)'
      BY <1>1 DEF TextSound
    <3>6. turn'[x].pc \notin Early \cup {"ready", "finishing"}
      BY <3>3 DEF Closing, Early
    <3>7. QED BY <1>3, <1>4, <1>5, <3>3, <3>4, <3>5, <3>6 DEF TurnSound, TextSound
  <2>2. CASE turn[x].pc = "idle" \/ turn[x].job # q.job \/ turn[x].exec # q.exec
    <3>1. turn'[x] = turn[x]
      BY <1>9, <1>10, <2>2
    <3>2. CASE turn[x].pc = "idle"
      BY <3>1, <3>2, IdleSound
    <3>3. CASE turn[x].job # q.job \/ turn[x].exec # q.exec
      <4>1. turn[x].job \in Jobs
        BY TurnType
      <4>2. Unnoticed(x, turn[x].job)
        BY <1>3, <1>4, <1>5, <3>3, <4>1 DEF Unnoticed
      <4>3. QED BY <1>12, <3>1, <4>2, TurnKept
    <3>4. QED BY <2>2, <3>2, <3>3
  <2>3. QED BY <2>1, <2>2
<1>15. ASSUME NEW y \in net' PROVE CallSound(y)' /\ Told(y)'
  <2>1. y \in net /\ Told(y) /\ y.by \in Claimants
    BY CallType
  <2>2. CallSound(y)'
    BY <1>12, <2>1, CallKept
  <2>3. CASE turn'[y.by] = turn[y.by]
    BY <2>1, <2>2, <2>3 DEF Told
  <2>4. CASE y.by = q.by /\ Awaited(q) /\ turn'[y.by] = t
    BY <1>5, <1>7, <1>10, <2>1, <2>2, <2>4 DEF Told
  <2>5. QED BY <1>9, <2>1, <2>2, <2>3, <2>4
<1>16. QED
  BY <1>3, <1>11, <1>13, <1>14, <1>15 DEF IInv

\* Core commits the answer, closes the job over an answer that came too late, or refuses.
LEMMA ServeCompleteStep ==
  ASSUME IInv, NEW q \in net, ServeComplete(q), net' = net \ {q},
         UNCHANGED <<asks, calls, crashes>>
  PROVE  IInv'
<1>1. q.op = "complete" /\ UNCHANGED <<model, thread, receipt, work>>
  BY DEF ServeComplete
<1>2. CASE Keep /\ UNCHANGED <<turn, said>>
  BY <1>1, <1>2, LostStep
<1>3. CASE FailExecution(ClaimOf(q)) /\ UNCHANGED <<turn, said>>
  BY <1>1, <1>3, CloseStep
<1>4. CASE /\ CommitAnswer(ClaimOf(q))
           /\ MemorySync /\ asks[q.job] = "QUESTION" /\ q.text # Fixed => InThread(q.job, q.text)
           /\ said' = [said EXCEPT ![q.job] = q.text]
           /\ Answer(q, Then(q, "delivering"))
  BY ZenonT(40), <1>1, <1>4, CommitHolds
<1>5. QED BY <1>2, <1>3, <1>4 DEF ServeComplete
-----------------------------------------------------------------------------
\* Whatever Core does with a request preserves the invariant.
LEMMA ServeStep ==
  ASSUME IInv, NEW q \in net, Serve(q)
  PROVE  IInv'
<1>0. UNCHANGED <<asks, calls, crashes>>
  BY DEF Serve
<1>1. CASE AdmitWork(q) \/ AppendToThread(q)
  BY <1>0, <1>1, GoesOnInCore
<1>2. CASE RefuseWork(q)
  BY <1>0, <1>2, ServeAppendStep DEF RefuseWork
<1>3. CASE net' = net \ {q}
  <2>1. CASE ServeRenew(q)
    BY <1>0, <1>3, <2>1, ServeRenewStep
  <2>2. CASE ServeStart(q)
    BY <1>0, <1>3, <2>2, ServeStartStep
  <2>3. CASE ServeFinish(q)
    BY <1>0, <1>3, <2>3, ServeFinishStep
  <2>4. CASE ServeAppend(q)
    BY <1>0, <1>3, <2>4, ServeAppendStep
  <2>5. CASE SaveReceipt(q)
    BY <1>0, <1>3, <2>5, SaveReceiptStep
  <2>6. CASE ServeEffect(q)
    BY <1>0, <1>3, <2>6, ServeEffectStep
  <2>7. CASE ServeComplete(q)
    BY <1>0, <1>3, <2>7, ServeCompleteStep
  <2>8. CASE ServeFail(q)
    BY <1>0, <1>3, <2>8, ServeFailStep
  <2>9. CASE Keep /\ UNCHANGED <<turn, model, thread, receipt, work, said>>
    BY <1>0, <1>3, <2>9, LostStep
  <2>10. QED
    BY <1>1, <1>2, <2>1, <2>2, <2>3, <2>4, <2>5, <2>6, <2>7, <2>8, <2>9 DEF Serve
<1>4. QED BY <1>1, <1>2, <1>3 DEF Serve
-----------------------------------------------------------------------------
\* Nothing is asked, nothing is recorded, and every turn is idle.
LEMMA InitHolds == Init => IInv
<1>1. SUFFICES ASSUME Init PROVE IInv
  OBVIOUS
<1>2. JobsInv /\ claims = {} /\ \A j \in Jobs : job[j] = NoRow
  BY <1>1, JobsInitHolds DEF Init, JobsInit
<1>3. TurnTypeOK
  <2>1. NoModel \in [state : {"none", "started", "completed"}, by : Nat, text : Texts]
    BY Words DEF NoModel
  <2>2. NoAnswer \in Texts /\ Idle \in Turn
    BY Words
  <2>3. asks \in [Jobs -> Asks] /\ net \subseteq Request /\ crashes \in Nat
    BY <1>1 DEF Init
  <2>4. turn \in [Claimants -> Turn]
    BY <1>1, <2>2 DEF Init
  <2>5. QED BY <1>1, <2>1, <2>2, <2>3, <2>4 DEF Init, TurnTypeOK
<1>4. \A r \in Claimants : TurnSound(r)
  BY <1>1, Words DEF Init, TurnSound
<1>5. ASSUME NEW j \in Jobs PROVE Recorded(j)
  <2>1. /\ job[j] = NoRow /\ model[j] = NoModel /\ calls[j] = 0 /\ receipt[j] = NoAnswer
        /\ said[j] = NoAnswer
    BY <1>1, <1>2 DEF Init
  <2>2. job[j].exec = 0 /\ model[j].by = 0 /\ model[j].state = "none"
    BY <2>1 DEF NoRow, NoModel
  <2>3. QED BY <2>1, <2>2 DEF Recorded, NoAnswer, Fixed, WorkReply
<1>6. ClaimsApart /\ net = {}
  BY <1>1, <1>2 DEF Init, ClaimsApart
<1>7. QED BY <1>2, <1>3, <1>4, <1>5, <1>6 DEF IInv

\* A step that changes nothing preserves the invariant.
LEMMA StutterHolds ==
  ASSUME IInv, UNCHANGED vars
  PROVE  IInv'
<1>1. /\ Keep /\ job' = job /\ claims' = claims
      /\ UNCHANGED <<asks, turn, net, model, calls, thread, receipt, work, said, crashes>>
  BY DEF vars, Keep, jobsVars
<1>2. JobsInv' /\ TurnTypeOK' /\ ClaimsApart'
  BY <1>1, JobsStutterHolds DEF IInv, Keep, TurnTypeOK, ClaimsApart
<1>3. \A x \in Claimants : TurnSound(x)'
  BY <1>1 DEF IInv, TurnSound, TextSound, ClaimAt
<1>4. \A q \in net' : CallSound(q)' /\ Told(q)'
  BY ZenonT(40), <1>1 DEF IInv, CallSound, Told, TextSound, ClaimOf
<1>5. \A j \in Jobs : Recorded(j)'
  BY <1>1 DEF IInv, Recorded
<1>6. QED BY <1>2, <1>3, <1>4, <1>5 DEF IInv

LEMMA Invariance == Spec => []IInv
<1>1. IInv /\ [Next]_vars => IInv'
  BY CoreStep, TakeStep, ProceedStep, ServeStep, StutterHolds DEF Next
<1>2. QED BY InitHolds, <1>1, PTL DEF Spec
-----------------------------------------------------------------------------
\* Every variable of the turns keeps its type, for any jobs, replicas and bounds.
THEOREM TurnTypeCorrect == Spec => []TurnTypeOK
<1>1. IInv => TurnTypeOK
  BY DEF IInv
<1>2. QED BY Invariance, <1>1, PTL

\* The model provider is entered at most once for a message, however many
\* executions a job has and whatever happens to the calls that trace it.
THEOREM ModelRunsAtMostOnce == Spec => []ModelRunsOnce
<1>1. IInv => ModelRunsOnce
  BY ZenonT(40) DEF IInv, Recorded, ModelRunsOnce
<1>2. QED BY Invariance, <1>1, PTL

\* A committed answer rests on the trace, the thread and the receipts it names.
THEOREM AnswersRestOnReceipts == Spec => []AnswerHasReceipt
<1>1. IInv => AnswerHasReceipt
  BY ZenonT(40) DEF IInv, Recorded, AnswerHasReceipt
<1>2. QED BY Invariance, <1>1, PTL

\* A turn that goes on to delivery holds the very text its row was committed with.
THEOREM DeliversTheCommitted == Spec => []DeliversWhatWasCommitted
<1>1. IInv => DeliversWhatWasCommitted
  BY DEF IInv, TurnSound, DeliversWhatWasCommitted, Open
<1>2. QED BY Invariance, <1>1, PTL
=============================================================================
