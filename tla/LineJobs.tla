------------------------------ MODULE LineJobs ------------------------------
(***************************************************************************)
(* The durable LINE conversation job and the account row it is fenced by:  *)
(* admission, maintenance, the leased execution claim, its settlement, the *)
(* account actions, erasure and the operator's acknowledgement.            *)
(*                                                                         *)
(* Every action is one Core transaction (or one updateMany row) of         *)
(* line-conversation-jobs.js, line-oa-account-service.js or                *)
(* line-job-erasure.js.  Executors appear only as the claims Core has      *)
(* handed out: a claim may be used late, twice or never, so a slow, a      *)
(* duplicated and a crashed executor need no state of their own.           *)
(***************************************************************************)
EXTENDS Integers

CONSTANTS
  Jobs,           \* admitted LINE events (one job row each)
  Claimants,      \* claimant ids of the server ticks and runtime replicas
  Lease,          \* execution lease                        (300 s)
  TTL,            \* life of a job before its first send     (30 min)
  ReplyWindow,    \* life of a sealed reply token            (45 s)
  SendReserve,    \* part of the reply window kept for sending
  AnswerBudget,   \* budget of an answer that leaves by push (240 s)
  MaxTime,        \* bound: the clock stops here
  MaxAccount      \* bound on account row versions reached by account actions

ASSUME JobsAssumption ==
  /\ Lease \in Nat \ {0} /\ TTL \in Nat \ {0}
  /\ ReplyWindow \in Nat /\ SendReserve \in Nat
  /\ AnswerBudget \in 0 .. Lease
  /\ MaxTime \in Nat /\ MaxAccount \in Nat

VARIABLES
  now,      \* the clock Core reads
  account,  \* the LineOaAccount row
  job,      \* the LineConversationJob rows
  claims    \* claims handed to executors, current and stale

jobsVars == <<now, account, job, claims>>
-----------------------------------------------------------------------------
NoTime   == -1
NoAnswer == -1
Fixed    == 0          \* the out-of-hours reply; execution n answers text n
NoOne    == "nobody"

Owners   == {"SERVER", "RUNTIME"}
Waiting  == {"QUEUED", "CLAIMED", "READY"}
Statuses == Waiting \cup {"ABSENT", "SENDING", "ACCEPTED", "RECORDED",
                          "UNKNOWN", "FAILED", "CANCELLED"}
Terminal == {"RECORDED", "UNKNOWN", "FAILED", "CANCELLED"}
Methods  == {"NONE", "REPLY", "PUSH"}
Errors   == {"NONE", "CODE", "PDPA_ERASURE", "ACKNOWLEDGED"}
OptTime  == Nat \cup {NoTime}

AccountRow == [enabled : BOOLEAN, status : {"CONNECTED", "PAUSED", "ARCHIVED"}, epoch : Nat,
               version : Nat, owner : Owners, allowPush : BOOLEAN]
JobRow == [status : Statuses, version : Nat, owner : Owners, exec : Nat,
           claimant : Claimants \cup {NoOne}, lease : OptTime,
           expires : OptTime, token : BOOLEAN, replyExp : OptTime,
           push : BOOLEAN, method : Methods, first : OptTime,
           avail : OptTime, answer : Nat \cup {NoAnswer},
           error : Errors, epoch : Nat]
Claim == [job : Jobs, exec : Nat, version : Nat, claimant : Claimants]

NoRow == [status |-> "ABSENT", version |-> 0, owner |-> "SERVER", exec |-> 0,
          claimant |-> NoOne, lease |-> NoTime, expires |-> NoTime,
          token |-> FALSE, replyExp |-> NoTime, push |-> FALSE,
          method |-> "NONE", first |-> NoTime, avail |-> NoTime,
          answer |-> NoAnswer, error |-> "NONE", epoch |-> 0]
-----------------------------------------------------------------------------
Active == account.enabled /\ account.status = "CONNECTED"
ActiveFor(j) == Active /\ account.epoch = job[j].epoch

\* Core refuses a runtime operation unless the account still has that owner.
OwnerHolds(j) == job[j].owner = "RUNTIME" => account.owner = "RUNTIME"

\* Every row update increments the version the compare-and-sets test.
Write(j, row) == job' = [job EXCEPT ![j] = [row EXCEPT !.version = @ + 1]]

Released(row) == [row EXCEPT !.claimant = NoOne, !.lease = NoTime]
Earlier(a, b) == IF a <= b THEN a ELSE b
-----------------------------------------------------------------------------
\* Admission of a text message: one row per event, pinned to its executor
\* cohort, epoch and push policy.  What is left of the reply window counts from
\* the event, not from the admission.  An admitted event changes nothing.
Admit(j, cohort, hasToken, left, outOfHours) ==
  /\ job[j].status = "ABSENT"
  /\ Active
  /\ cohort = "RUNTIME" => account.owner = "RUNTIME"
  /\ Write(j, [NoRow EXCEPT
       !.status = IF outOfHours /\ cohort = "SERVER" THEN "READY" ELSE "QUEUED",
       !.owner = cohort,
       !.expires = now + TTL,
       !.token = hasToken,
       !.replyExp = IF hasToken THEN now + left ELSE NoTime,
       !.push = account.allowPush,
       !.avail = now,
       !.answer = IF outOfHours THEN Fixed ELSE NoAnswer,
       !.epoch = account.epoch])
  /\ UNCHANGED <<now, account, claims>>

\* A job that never started a send does not outlive its deadline.
ExpireWaiting(j) ==
  /\ job[j].status \in Waiting
  /\ job[j].first = NoTime
  /\ job[j].expires <= now
  /\ Write(j, [job[j] EXCEPT !.status = "FAILED", !.error = "CODE",
                             !.token = FALSE])
  /\ UNCHANGED <<now, account, claims>>

\* An execution whose lease ran out returns to the queue.
RequeueClaimed(j) ==
  /\ job[j].status = "CLAIMED"
  /\ job[j].lease <= now
  /\ job[j].expires > now
  /\ Write(j, Released([job[j] EXCEPT !.status = "QUEUED"]))
  /\ UNCHANGED <<now, account, claims>>

Claimable(j) ==
  /\ job[j].status = "QUEUED"
  /\ job[j].avail <= now
  /\ job[j].expires > now

\* A claim starts a new execution under a fresh lease.
ClaimExecution(j, who) ==
  /\ Claimable(j)
  /\ ActiveFor(j)
  /\ OwnerHolds(j)
  /\ Write(j, [job[j] EXCEPT !.status = "CLAIMED", !.claimant = who,
                             !.exec = @ + 1, !.lease = now + Lease])
  /\ claims' = claims \cup {[job |-> j, exec |-> job[j].exec + 1,
                             version |-> job[j].version + 1, claimant |-> who]}
  /\ UNCHANGED <<now, account>>
-----------------------------------------------------------------------------
\* Mutant: the version of the claim is not compared.
Holds_AnyVersion(c) ==
  LET row == job[c.job] IN
  /\ ActiveFor(c.job)
  /\ OwnerHolds(c.job)
  /\ row.error # "PDPA_ERASURE"
  /\ row.status = "CLAIMED"
  /\ row.claimant = c.claimant
  /\ row.owner = "RUNTIME" => row.exec = c.exec
  /\ row.lease > now
  /\ row.expires > now

\* The claim is the one the row still carries, under a live lease.
Holds(c) ==
  LET row == job[c.job] IN
  /\ ActiveFor(c.job)
  /\ OwnerHolds(c.job)
  /\ row.error # "PDPA_ERASURE"
  /\ row.status = "CLAIMED"
  /\ row.version = c.version
  /\ row.claimant = c.claimant
  /\ row.owner = "RUNTIME" => row.exec = c.exec
  /\ row.lease > now
  /\ row.expires > now

\* Renewal moves the lease, capped by the deadline, and the claim's version; an
\* executor that loses the response still holds the old claim.  A renewal that
\* would not move the lease is left out (it bounds versions).
Renew(c) ==
  LET row == job[c.job]
      lease == Earlier(row.expires, now + Lease) IN
  /\ Holds(c)
  /\ row.owner = "RUNTIME"
  /\ lease # row.lease
  /\ Write(c.job, [row EXCEPT !.lease = lease])
  /\ claims' = claims \cup {[c EXCEPT !.version = @ + 1]}
  /\ UNCHANGED <<now, account>>

\* Mutant: the decision is forgotten once an executor has the job.
OutOfHoursReply_QueuedOnly(row) ==
  /\ row.owner = "RUNTIME"
  /\ row.status = "QUEUED"
  /\ row.answer # NoAnswer

\* The admission-time out-of-hours decision of a runtime job.
OutOfHoursReply(row) ==
  /\ row.owner = "RUNTIME"
  /\ row.status \in {"QUEUED", "CLAIMED"}
  /\ row.answer # NoAnswer

\* lineExecutionBudget: the budget was issued when the lease was.
IssuedAt(row) == row.lease - Lease
LeavesByPush(row) ==
  row.push /\ (~row.token \/ row.replyExp <= IssuedAt(row))
AnswerDeadline(row) ==
  IF LeavesByPush(row) THEN IssuedAt(row) + AnswerBudget
  ELSE row.replyExp - SendReserve

TooLate(row) == ~OutOfHoursReply(row) /\ now >= AnswerDeadline(row)

\* The answer of this execution is committed; it is sent from the row.
CommitAnswer(c) ==
  LET row == job[c.job] IN
  /\ Holds(c)
  /\ ~TooLate(row)
  /\ Write(c.job, Released([row EXCEPT
       !.status = "READY",
       !.answer = IF OutOfHoursReply(row) THEN row.answer ELSE c.exec,
       !.error = "NONE",
       !.method = IF ~OutOfHoursReply(row) /\ LeavesByPush(row)
                  THEN "PUSH" ELSE row.method,
       !.avail = now]))
  /\ UNCHANGED <<now, account, claims>>

\* Mutant: the failed row keeps its sealed token.
FailExecution_KeepsToken(c) ==
  LET row == job[c.job] IN
  /\ Holds(c)
  /\ ~OutOfHoursReply(row)
  /\ Write(c.job, Released([row EXCEPT
       !.status = "FAILED", !.answer = NoAnswer, !.error = "CODE", !.avail = now]))
  /\ UNCHANGED <<now, account, claims>>

\* An answer past its deadline, or an execution error, closes the job.  An
\* out-of-hours reply is never lost to either: Core refuses to fail it.
FailExecution(c) ==
  LET row == job[c.job] IN
  /\ Holds(c)
  /\ ~OutOfHoursReply(row)
  /\ Write(c.job, Released([row EXCEPT
       !.status = "FAILED", !.answer = NoAnswer, !.error = "CODE",
       !.token = FALSE, !.avail = now]))
  /\ UNCHANGED <<now, account, claims>>

\* The executor cannot tell whether its model or memory call took effect.
LeaveUnknown(c) ==
  LET row == job[c.job] IN
  /\ Holds(c)
  /\ ~OutOfHoursReply(row)
  /\ Write(c.job, Released([row EXCEPT
       !.status = "UNKNOWN", !.answer = NoAnswer, !.error = "CODE",
       !.token = FALSE, !.avail = now]))
  /\ UNCHANGED <<now, account, claims>>
-----------------------------------------------------------------------------
\* What the account actions may not leave behind.
Unresolved(j) ==
  \/ job[j].status \in {"SENDING", "UNKNOWN"}
  \/ job[j].status = "READY" /\ job[j].first # NoTime

Cancelled(row) ==
  [Released(row) EXCEPT !.status = "CANCELLED", !.token = FALSE,
                        !.version = @ + 1]
\* Mutant: an answer that is already READY is still sent.
CancelWaiting_NotReady ==
  job' = [j \in Jobs |->
            IF job[j].status \in {"QUEUED", "CLAIMED"} THEN Cancelled(job[j]) ELSE job[j]]

CancelWaiting ==
  job' = [j \in Jobs |->
            IF job[j].status \in Waiting THEN Cancelled(job[j]) ELSE job[j]]

AccountStep == account.version < MaxAccount /\ UNCHANGED <<now, claims>>

\* PAUSE, DISABLE_SERVER, ENABLE_SERVER, ARCHIVE and a push-policy change move
\* the epoch and cancel waiting work, once no delivery is unresolved.
Fence(row) ==
  /\ AccountStep
  /\ \A j \in Jobs : ~Unresolved(j)
  /\ account' = [row EXCEPT !.epoch = @ + 1, !.version = @ + 1]
  /\ CancelWaiting

Kept    == account.status # "ARCHIVED"
Pause   == account.status = "CONNECTED" /\ Fence([account EXCEPT !.status = "PAUSED"])
Disable == account.enabled /\ Fence([account EXCEPT !.enabled = FALSE])
Enable  == /\ ~account.enabled /\ Kept
           /\ Fence([account EXCEPT !.enabled = TRUE, !.status = "CONNECTED"])
Archive == Kept /\ Fence([account EXCEPT !.enabled = FALSE, !.status = "ARCHIVED"])
SetPush == Kept /\ Fence([account EXCEPT !.allowPush = ~@])

\* RESUME and the settings that fence nothing move only the row version.
Resume ==
  /\ AccountStep /\ account.status = "PAUSED"
  /\ account' = [account EXCEPT !.status = "CONNECTED", !.version = @ + 1]
  /\ UNCHANGED job
Configure ==
  /\ AccountStep /\ Kept
  /\ account' = [account EXCEPT !.version = @ + 1]
  /\ UNCHANGED job

Quiet(settled) == \A j \in Jobs : job[j].status \in settled

\* CONFIGURE_EXECUTION may change the cohort and the push policy together.
Handover(push) ==
  account' = [account EXCEPT
    !.owner = IF @ = "SERVER" THEN "RUNTIME" ELSE "SERVER",
    !.allowPush = push,
    !.epoch = IF push # account.allowPush THEN @ + 1 ELSE @,
    !.version = @ + 1]

\* Mutant: an accepted send counts as settled before CRM has recorded it.
SwitchOwner_OverAccepted ==
  /\ AccountStep /\ Kept
  /\ Quiet({"ABSENT", "ACCEPTED", "RECORDED", "FAILED", "CANCELLED"})
  /\ \E push \in BOOLEAN : Handover(push)
  /\ UNCHANGED job

\* The executor cohort changes only over a quiescent queue.
SwitchOwner ==
  /\ AccountStep /\ Kept
  /\ Quiet({"ABSENT", "RECORDED", "FAILED", "CANCELLED"})
  /\ \E push \in BOOLEAN : Handover(push)
  /\ UNCHANGED job

\* Revoking the credential fences at once, whatever is being sent.
RevokeCredential ==
  /\ AccountStep
  /\ account' = [account EXCEPT !.enabled = FALSE, !.epoch = @ + 1,
                                !.version = @ + 1]
  /\ CancelWaiting
-----------------------------------------------------------------------------
\* PDPA erasure leaves a payload-free tombstone; a send that may have reached
\* LINE stays UNKNOWN.
Erase(j) ==
  /\ job[j].status # "ABSENT"
  /\ job[j].error # "PDPA_ERASURE"
  /\ Write(j, Released([job[j] EXCEPT
       !.status = IF @ \in {"SENDING", "UNKNOWN"} THEN "UNKNOWN" ELSE "CANCELLED",
       !.answer = NoAnswer, !.token = FALSE, !.replyExp = NoTime,
       !.error = "PDPA_ERASURE"]))
  /\ UNCHANGED <<now, account, claims>>

\* The operator accepts that a delivery stays uncertain; nothing is resent.
Acknowledge(j) ==
  /\ job[j].status = "UNKNOWN"
  /\ Write(j, [job[j] EXCEPT !.status = "CANCELLED", !.error = "ACKNOWLEDGED"])
  /\ UNCHANGED <<now, account, claims>>
-----------------------------------------------------------------------------
JobsInit ==
  /\ now = 0
  /\ account \in [enabled : {TRUE}, status : {"CONNECTED"}, epoch : {0},
                  version : {0}, owner : Owners, allowPush : BOOLEAN]
  /\ job = [j \in Jobs |-> NoRow]
  /\ claims = {}

Executing ==
  \E c \in claims : \/ Renew(c) \/ CommitAnswer(c)
                    \/ FailExecution(c) \/ LeaveUnknown(c)

Maintaining == \E j \in Jobs : ExpireWaiting(j) \/ RequeueClaimed(j)

Claiming == \E j \in Jobs, who \in Claimants : ClaimExecution(j, who)

Administering ==
  \/ Pause \/ Disable \/ Enable \/ Archive \/ SetPush \/ Resume \/ Configure
  \/ SwitchOwner \/ RevokeCredential

Intervening == \E j \in Jobs : Erase(j) \/ Acknowledge(j)

Admitting ==
  \E j \in Jobs, cohort \in Owners, left \in 0 .. ReplyWindow :
    \E hasToken, outOfHours \in BOOLEAN :
      Admit(j, cohort, hasToken, left, outOfHours)

Tick == now < MaxTime /\ now' = now + 1 /\ UNCHANGED <<account, job, claims>>

JobsNext == \/ Admitting \/ Maintaining \/ Claiming \/ Executing
            \/ Administering \/ Intervening \/ Tick

JobsSpec == JobsInit /\ [][JobsNext]_jobsVars
-----------------------------------------------------------------------------
\* Every variable has its type.
JobsTypeOK ==
  /\ now \in Nat /\ account \in AccountRow
  /\ job \in [Jobs -> JobRow] /\ claims \subseteq Claim

\* The answer a row carries was produced by its latest execution: an executor
\* whose lease was lost to another one cannot commit (settleExecution).
AnswerOfLatestExecution ==
  \A j \in Jobs : job[j].answer > Fixed => job[j].answer = job[j].exec

\* At most one of the claims handed out for a job can still be settled or
\* renewed, even when one executor holds several of them (claimExecution).
OneExecutor ==
  \A c, d \in claims : Holds(c) /\ Holds(d) /\ c.job = d.job => c = d

\* A row that can never be sent again keeps no sealed reply token, whichever of
\* its many exits closed it (ADR-061: tokens live only until the outcome).
ClosedHoldsNoToken ==
  \A j \in Jobs : job[j].status \in Terminal => ~job[j].token

\* The out-of-hours reply decided at admission outlives every execution of its
\* job: no model error, late answer or unknown outcome replaces or drops it.
OutOfHoursReplyKept ==
  [][\A j \in Jobs : job[j].answer = Fixed =>
       \/ job'[j].answer = Fixed
       \/ job'[j].status = "CANCELLED"
       \/ job'[j].error = "PDPA_ERASURE"]_jobsVars
=============================================================================
