--------------------------- MODULE LineJobsProofs ---------------------------
(***************************************************************************)
(* The safety of the execution lease, for any number of jobs, claimants    *)
(* and account actions: machine-checked proofs about LineJobs.             *)
(***************************************************************************)
EXTENDS LineJobs, TLAPS

\* A claim never runs ahead of its row, and one that names the row's version
\* while the row is CLAIMED is of the row's last execution.
ClaimsBehind ==
  \A c \in claims :
    LET row == job[c.job] IN
    /\ row.status # "ABSENT"
    /\ c.version <= row.version
    /\ row.status = "CLAIMED" /\ c.version = row.version => c.exec = row.exec

\* A row that may still be claimed or settled carries no model answer, and
\* only a runtime row carries the fixed reply there.
Unanswered ==
  \A j \in Jobs :
    /\ job[j].status = "ABSENT" => job[j].answer = NoAnswer
    /\ job[j].status \in {"QUEUED", "CLAIMED"} =>
         /\ job[j].answer \in {NoAnswer, Fixed}
         /\ job[j].answer = Fixed => job[j].owner = "RUNTIME"

\* The inductive invariant.
JobsInv ==
  /\ JobsTypeOK
  /\ ClaimsBehind
  /\ Unanswered
  /\ AnswerOfLatestExecution
  /\ ClosedHoldsNoToken
-----------------------------------------------------------------------------
\* Writing a row gives that row a new version and leaves the others alone.
LEMMA WriteRow ==
  ASSUME job \in [Jobs -> JobRow], NEW j \in Jobs, NEW row \in JobRow,
         Write(j, row)
  PROVE  /\ job' \in [Jobs -> JobRow]
         /\ job'[j] = [row EXCEPT !.version = row.version + 1]
         /\ \A k \in Jobs \ {j} : job'[k] = job[k]
BY DEF Write, JobRow

\* What a row step must show of the row it writes for the invariant to hold; a
\* claim it hands out names that row.
LEMMA RowStep ==
  ASSUME JobsInv, NEW j \in Jobs, NEW row \in JobRow, Write(j, row),
         now' \in Nat, account' \in AccountRow,
         \A c \in claims' : \/ c \in claims
                            \/ /\ c \in Claim /\ c.job = j
                               /\ c.version = row.version + 1 /\ c.exec = row.exec,
         row.version = job[j].version \/ \A c \in claims : c.job # j,
         row.status # "ABSENT",
         row.status \in {"QUEUED", "CLAIMED"} =>
           /\ row.answer \in {NoAnswer, Fixed}
           /\ row.answer = Fixed => row.owner = "RUNTIME",
         row.answer > Fixed => row.answer = row.exec,
         row.status \in Terminal => ~row.token
  PROVE  JobsInv'
<1>1. /\ job' \in [Jobs -> JobRow]
      /\ job'[j] = [row EXCEPT !.version = row.version + 1]
      /\ \A k \in Jobs \ {j} : job'[k] = job[k]
  BY WriteRow DEF JobsInv, JobsTypeOK
<1>2. /\ job'[j].status = row.status /\ job'[j].version = row.version + 1
      /\ job'[j].answer = row.answer /\ job'[j].exec = row.exec
      /\ job'[j].owner = row.owner /\ job'[j].token = row.token
  BY <1>1 DEF JobRow
<1>3. JobsTypeOK'
  BY <1>1 DEF JobsInv, JobsTypeOK
<1>4. ClaimsBehind'
  <2>1. SUFFICES ASSUME NEW c \in claims'
                 PROVE  /\ job'[c.job].status # "ABSENT"
                        /\ c.version <= job'[c.job].version
                        /\ job'[c.job].status = "CLAIMED" /\ c.version = job'[c.job].version
                             => c.exec = job'[c.job].exec
    BY DEF ClaimsBehind
  <2>2. CASE c \in claims
    <3>1. /\ c.job \in Jobs /\ c.version \in Nat /\ job[j].version \in Nat
          /\ job[c.job].status # "ABSENT" /\ c.version <= job[c.job].version
          /\ job[c.job].status = "CLAIMED" /\ c.version = job[c.job].version
               => c.exec = job[c.job].exec
      BY <2>2 DEF JobsInv, JobsTypeOK, ClaimsBehind, Claim, JobRow
    <3>2. CASE c.job = j
      BY <1>2, <2>2, <3>1, <3>2
    <3>3. CASE c.job # j
      BY <1>1, <3>1, <3>3
    <3>4. QED BY <3>2, <3>3
  <2>3. CASE c \notin claims
    <3>1. c.job = j /\ c.version = row.version + 1 /\ c.exec = row.exec
          /\ row.version \in Nat
      BY <2>3 DEF JobRow
    <3>2. QED BY <1>2, <3>1
  <2>4. QED BY <2>2, <2>3
<1>5. Unanswered'
  BY ZenonT(40), <1>1, <1>2 DEF JobsInv, Unanswered
<1>6. AnswerOfLatestExecution'
  BY ZenonT(40), <1>1, <1>2 DEF JobsInv, AnswerOfLatestExecution
<1>7. ClosedHoldsNoToken'
  BY ZenonT(40), <1>1, <1>2 DEF JobsInv, ClosedHoldsNoToken
<1>8. QED BY <1>3, <1>4, <1>5, <1>6, <1>7 DEF JobsInv
-----------------------------------------------------------------------------
LEMMA RowType ==
  ASSUME JobsInv, NEW j \in Jobs
  PROVE  /\ job[j] \in JobRow
         /\ Released(job[j]) \in JobRow
         /\ now \in Nat /\ account \in AccountRow
BY ZenonT(40) DEF JobsInv, JobsTypeOK, JobRow, Released, OptTime

LEMMA NoRowType == NoRow \in JobRow
BY DEF NoRow, JobRow, Statuses, Waiting, Owners, Methods, Errors, OptTime, NoTime, NoAnswer

\* Admission, maintenance, erasure and acknowledgement write one row.
LEMMA AdmitStep ==
  ASSUME JobsInv, NEW j \in Jobs, NEW cohort \in Owners, NEW left \in 0 .. ReplyWindow,
         NEW hasToken \in BOOLEAN, NEW outOfHours \in BOOLEAN,
         Admit(j, cohort, hasToken, left, outOfHours)
  PROVE  JobsInv'
<1> DEFINE row == [NoRow EXCEPT
       !.status = IF outOfHours /\ cohort = "SERVER" THEN "READY" ELSE "QUEUED",
       !.owner = cohort,
       !.expires = now + TTL,
       !.token = hasToken,
       !.replyExp = IF hasToken THEN now + left ELSE NoTime,
       !.push = account.allowPush,
       !.avail = now,
       !.answer = IF outOfHours THEN Fixed ELSE NoAnswer,
       !.epoch = account.epoch]
<1>1. Write(j, row) /\ UNCHANGED <<now, account, claims>> /\ job[j].status = "ABSENT"
  BY DEF Admit
<1>2. /\ (IF outOfHours /\ cohort = "SERVER" THEN "READY" ELSE "QUEUED") \in Statuses
      /\ now + TTL \in OptTime /\ now \in OptTime
      /\ (IF hasToken THEN now + left ELSE NoTime) \in OptTime
      /\ account.allowPush \in BOOLEAN /\ account.epoch \in Nat
      /\ (IF outOfHours THEN Fixed ELSE NoAnswer) \in Nat \cup {NoAnswer}
  BY RowType, JobsAssumption DEF AccountRow, Statuses, Waiting, OptTime, Fixed
<1>3. row \in JobRow
  BY ZenonT(40), <1>2, NoRowType DEF JobRow
<1>4. /\ row.status \in {"READY", "QUEUED"} /\ row.answer \in {NoAnswer, Fixed}
      /\ row.status = "QUEUED" /\ row.answer = Fixed => row.owner = "RUNTIME"
  BY NoRowType DEF JobRow, Owners, NoAnswer, Fixed
<1>5. \A c \in claims : c.job # j
  BY <1>1 DEF JobsInv, ClaimsBehind
<1>. HIDE DEF row
<1>6. QED
  BY <1>1, <1>3, <1>4, <1>5, RowStep, RowType DEF NoAnswer, Fixed, Terminal

LEMMA MaintenanceStep ==
  ASSUME JobsInv, NEW j \in Jobs, ExpireWaiting(j) \/ RequeueClaimed(j)
  PROVE  JobsInv'
<1>1. CASE ExpireWaiting(j)
  <2> DEFINE row == [job[j] EXCEPT !.status = "FAILED", !.error = "CODE", !.token = FALSE]
  <2>1. row \in JobRow /\ row.version = job[j].version /\ row.status = "FAILED"
        /\ ~row.token /\ row.answer = job[j].answer /\ row.exec = job[j].exec
    BY ZenonT(40), RowType DEF JobRow, Statuses, Waiting, Errors
  <2>2. Write(j, row) /\ UNCHANGED <<now, account, claims>>
    BY <1>1 DEF ExpireWaiting
  <2>. HIDE DEF row
  <2>3. QED
    BY <2>1, <2>2, RowStep, RowType DEF JobsInv, AnswerOfLatestExecution
<1>2. CASE RequeueClaimed(j)
  <2> DEFINE row == Released([job[j] EXCEPT !.status = "QUEUED"])
  <2>1. row \in JobRow /\ row.version = job[j].version /\ row.status = "QUEUED"
        /\ row.answer = job[j].answer /\ row.exec = job[j].exec /\ row.owner = job[j].owner
    BY ZenonT(40), RowType DEF JobRow, Statuses, Waiting, OptTime, Released
  <2>2. Write(j, row) /\ UNCHANGED <<now, account, claims>> /\ job[j].status = "CLAIMED"
    BY <1>2 DEF RequeueClaimed
  <2>. HIDE DEF row
  <2>3. QED
    BY <2>1, <2>2, RowStep, RowType DEF JobsInv, AnswerOfLatestExecution, Unanswered, Terminal
<1>3. QED BY <1>1, <1>2

LEMMA ClaimStep ==
  ASSUME JobsInv, NEW j \in Jobs, NEW who \in Claimants, ClaimExecution(j, who)
  PROVE  JobsInv'
<1> DEFINE row == [job[j] EXCEPT !.status = "CLAIMED", !.claimant = who,
                                 !.exec = @ + 1, !.lease = now + Lease]
           claim == [job |-> j, exec |-> job[j].exec + 1,
                     version |-> job[j].version + 1, claimant |-> who]
<1>. now + Lease \in OptTime /\ "CLAIMED" \in Statuses
  BY RowType, JobsAssumption DEF Statuses, Waiting, OptTime
<1>0. job[j].exec \in Nat /\ job[j].exec + 1 \in Nat /\ job[j] \in JobRow
  BY RowType DEF JobRow
<1>1. row \in JobRow /\ row.version = job[j].version /\ row.status = "CLAIMED"
      /\ row.answer = job[j].answer /\ row.exec = job[j].exec + 1
      /\ row.owner = job[j].owner
  BY ZenonT(40), <1>0 DEF JobRow
<1>2. claim \in Claim
  BY RowType DEF Claim, JobRow
<1>3. /\ Write(j, row) /\ UNCHANGED <<now, account>> /\ job[j].status = "QUEUED"
      /\ claims' = claims \cup {claim}
  BY DEF ClaimExecution, Claimable
<1>4. job[j].answer \in {NoAnswer, Fixed} /\ (job[j].answer = Fixed => job[j].owner = "RUNTIME")
  BY <1>3 DEF JobsInv, Unanswered
<1>5. \A c \in claims' : \/ c \in claims
                         \/ /\ c \in Claim /\ c.job = j
                            /\ c.version = row.version + 1 /\ c.exec = row.exec
  BY <1>1, <1>2, <1>3
<1>. HIDE DEF row, claim
<1>6. QED
  BY <1>1, <1>3, <1>4, <1>5, RowStep, RowType DEF NoAnswer, Fixed, Terminal

\* What holding a claim says of the row, in the words of the invariant.
LEMMA HoldsRow ==
  ASSUME JobsInv, NEW c \in claims, Holds(c)
  PROVE  /\ c \in Claim /\ c.job \in Jobs /\ job[c.job] \in JobRow
         /\ job[c.job].status = "CLAIMED" /\ c.version = job[c.job].version
         /\ c.exec = job[c.job].exec /\ c.claimant = job[c.job].claimant
         /\ job[c.job].answer \in {NoAnswer, Fixed}
         /\ job[c.job].answer = Fixed => OutOfHoursReply(job[c.job])
BY DEF Holds, JobsInv, JobsTypeOK, Claim, ClaimsBehind, Unanswered, OutOfHoursReply,
   NoAnswer, Fixed

LEMMA RenewStep ==
  ASSUME JobsInv, NEW c \in claims, Renew(c)
  PROVE  JobsInv'
<1> DEFINE j == c.job
           lease == Earlier(job[j].expires, now + Lease)
           row == [job[j] EXCEPT !.lease = lease]
           claim == [c EXCEPT !.version = @ + 1]
<1>1. /\ Holds(c) /\ Write(j, row) /\ UNCHANGED <<now, account>>
      /\ claims' = claims \cup {claim}
  BY DEF Renew
<1>2. lease \in OptTime
  BY <1>1, HoldsRow, RowType, JobsAssumption DEF Earlier, JobRow, OptTime
<1>3. /\ row \in JobRow /\ row.version = job[j].version /\ row.status = "CLAIMED"
      /\ row.answer = job[j].answer /\ row.exec = job[j].exec
      /\ row.owner = job[j].owner /\ j \in Jobs
  BY <1>1, <1>2, HoldsRow DEF JobRow
<1>4. /\ claim \in Claim /\ claim.job = j
      /\ claim.version = row.version + 1 /\ claim.exec = row.exec
  BY <1>1, <1>3, HoldsRow DEF Claim, JobRow
<1>5. /\ job[j].answer \in {NoAnswer, Fixed}
      /\ job[j].answer = Fixed => job[j].owner = "RUNTIME"
  BY <1>1, HoldsRow DEF OutOfHoursReply
<1>. HIDE DEF row, claim, lease, j
<1>6. QED
  BY <1>1, <1>3, <1>4, <1>5, RowStep, RowType DEF NoAnswer, Fixed, Terminal

LEMMA CommitStep ==
  ASSUME JobsInv, NEW c \in claims, CommitAnswer(c)
  PROVE  JobsInv'
<1> DEFINE j == c.job
           answer == IF OutOfHoursReply(job[j]) THEN job[j].answer ELSE c.exec
           method == IF ~OutOfHoursReply(job[j]) /\ LeavesByPush(job[j])
                     THEN "PUSH" ELSE job[j].method
           row == Released([job[j] EXCEPT !.status = "READY", !.answer = answer,
                              !.error = "NONE", !.method = method, !.avail = now])
<1>1. Holds(c) /\ Write(j, row) /\ UNCHANGED <<now, account, claims>>
  BY DEF CommitAnswer
<1>2. /\ answer \in Nat \cup {NoAnswer} /\ method \in Methods /\ now \in OptTime
      /\ answer > Fixed => answer = job[j].exec
  BY <1>1, HoldsRow, RowType DEF JobRow, Methods, OptTime, NoAnswer, Fixed
<1>. "READY" \in Statuses /\ "NONE" \in Errors /\ NoTime \in OptTime
  BY DEF Statuses, Waiting, Errors, OptTime
<1>. HIDE DEF answer, method
<1>3. /\ row \in JobRow /\ row.version = job[j].version /\ row.status = "READY"
      /\ row.answer = answer /\ row.exec = job[j].exec /\ j \in Jobs
  BY ZenonT(40), <1>1, <1>2, HoldsRow DEF JobRow, Released
<1>. HIDE DEF row, j
<1>4. QED
  BY <1>1, <1>2, <1>3, RowStep, RowType DEF Terminal

LEMMA CloseExecutionStep ==
  ASSUME JobsInv, NEW c \in claims, FailExecution(c) \/ LeaveUnknown(c)
  PROVE  JobsInv'
<1> DEFINE j == c.job
           row(status) == Released([job[j] EXCEPT !.status = status,
             !.answer = NoAnswer, !.error = "CODE", !.token = FALSE, !.avail = now])
<1>1. PICK status \in {"FAILED", "UNKNOWN"} : Write(j, row(status))
  BY DEF FailExecution, LeaveUnknown
<1>2. Holds(c) /\ UNCHANGED <<now, account, claims>>
  BY DEF FailExecution, LeaveUnknown
<1>. /\ "FAILED" \in Statuses /\ "UNKNOWN" \in Statuses /\ "CODE" \in Errors
     /\ NoTime \in OptTime
  BY DEF Statuses, Errors, OptTime
<1>. now \in OptTime
  BY <1>2, HoldsRow, RowType DEF OptTime
<1>3. /\ row(status) \in JobRow /\ row(status).version = job[j].version
      /\ row(status).status = status /\ row(status).answer = NoAnswer
      /\ ~row(status).token /\ j \in Jobs
  BY ZenonT(40), <1>2, HoldsRow DEF JobRow, Released
<1>. HIDE DEF row, j
<1>4. QED
  BY <1>1, <1>2, <1>3, RowStep, RowType DEF NoAnswer, Fixed

LEMMA InterventionStep ==
  ASSUME JobsInv, NEW j \in Jobs, Erase(j) \/ Acknowledge(j)
  PROVE  JobsInv'
<1>. /\ {"UNKNOWN", "CANCELLED"} \subseteq Statuses
     /\ {"PDPA_ERASURE", "ACKNOWLEDGED"} \subseteq Errors
     /\ NoTime \in OptTime /\ NoAnswer \in Nat \cup {NoAnswer}
  BY DEF Statuses, Errors, OptTime
<1>1. CASE Erase(j)
  <2> DEFINE status == IF job[j].status \in {"SENDING", "UNKNOWN"}
                       THEN "UNKNOWN" ELSE "CANCELLED"
             row == Released([job[j] EXCEPT !.status = status, !.answer = NoAnswer,
                !.token = FALSE, !.replyExp = NoTime, !.error = "PDPA_ERASURE"])
  <2>1. Write(j, row) /\ UNCHANGED <<now, account, claims>> /\ status \in {"UNKNOWN", "CANCELLED"}
    BY <1>1 DEF Erase
  <2>. HIDE DEF status
  <2>2. /\ row \in JobRow /\ row.version = job[j].version /\ row.status = status
        /\ row.answer = NoAnswer /\ ~row.token
    BY ZenonT(40), <2>1, RowType DEF JobRow, Released
  <2>. HIDE DEF row
  <2>3. QED
    BY <2>1, <2>2, RowStep, RowType DEF NoAnswer, Fixed
<1>2. CASE Acknowledge(j)
  <2> DEFINE row == [job[j] EXCEPT !.status = "CANCELLED", !.error = "ACKNOWLEDGED"]
  <2>1. Write(j, row) /\ UNCHANGED <<now, account, claims>> /\ job[j].status = "UNKNOWN"
    BY <1>2 DEF Acknowledge
  <2>2. /\ row \in JobRow /\ row.version = job[j].version /\ row.status = "CANCELLED"
        /\ row.answer = job[j].answer /\ row.exec = job[j].exec
        /\ row.token = job[j].token
    BY ZenonT(40), RowType DEF JobRow
  <2>3. ~job[j].token /\ (job[j].answer > Fixed => job[j].answer = job[j].exec)
    BY <2>1 DEF JobsInv, ClosedHoldsNoToken, AnswerOfLatestExecution, Terminal
  <2>. HIDE DEF row
  <2>4. QED
    BY <2>1, <2>2, <2>3, RowStep, RowType
<1>3. QED BY <1>1, <1>2
-----------------------------------------------------------------------------
\* Moving the counters of an account row, as every account action does.
LEMMA AccountMoves ==
  ASSUME NEW row \in AccountRow
  PROVE  /\ [row EXCEPT !.version = row.version + 1] \in AccountRow
         /\ [row EXCEPT !.epoch = row.epoch + 1, !.version = row.version + 1] \in AccountRow
<1>1. row.version + 1 \in Nat /\ row.epoch + 1 \in Nat
  BY DEF AccountRow
<1>2. QED BY ZenonT(40), <1>1 DEF AccountRow

LEMMA CancelledRow ==
  ASSUME NEW row \in JobRow
  PROVE  /\ Cancelled(row) \in JobRow /\ Cancelled(row).status = "CANCELLED"
         /\ ~Cancelled(row).token /\ Cancelled(row).version = row.version + 1
         /\ Cancelled(row).answer = row.answer /\ Cancelled(row).exec = row.exec
<1>1. /\ row.version + 1 \in Nat /\ "CANCELLED" \in Statuses /\ NoTime \in OptTime
  BY DEF JobRow, Statuses, OptTime
<1>2. QED BY ZenonT(40), <1>1 DEF Cancelled, Released, JobRow

\* An account action leaves the rows alone or cancels what waits.
LEMMA AccountStepKeeps ==
  ASSUME JobsInv, Administering
  PROVE  JobsInv'
<1>1. /\ now' = now /\ claims' = claims /\ account' \in AccountRow
      /\ CancelWaiting \/ job' = job
  <2>. account \in AccountRow
    BY DEF JobsInv, JobsTypeOK
  <2>0. account.version + 1 \in Nat /\ account.epoch \in Nat /\ account.epoch + 1 \in Nat
    BY DEF AccountRow
  <2>1. ASSUME NEW row \in AccountRow, Fence(row)
        PROVE  /\ now' = now /\ claims' = claims /\ account' \in AccountRow
               /\ CancelWaiting
    BY ZenonT(40), <2>1, AccountMoves DEF Fence, AccountStep
  <2>2. /\ [account EXCEPT !.status = "PAUSED"] \in AccountRow
        /\ [account EXCEPT !.enabled = FALSE] \in AccountRow
        /\ [account EXCEPT !.enabled = TRUE, !.status = "CONNECTED"] \in AccountRow
        /\ [account EXCEPT !.enabled = FALSE, !.status = "ARCHIVED"] \in AccountRow
        /\ [account EXCEPT !.allowPush = ~account.allowPush] \in AccountRow
    BY ZenonT(40) DEF AccountRow
  <2>3. CASE Pause \/ Disable \/ Enable \/ Archive \/ SetPush
    BY <2>1, <2>2, <2>3 DEF Pause, Disable, Enable, Archive, SetPush
  <2>4. CASE Resume \/ Configure
    <3>1. CASE Configure
      BY ZenonT(40), <3>1, AccountMoves DEF Configure, AccountStep
    <3>2. CASE Resume
      <4>1. [account EXCEPT !.status = "CONNECTED", !.version = account.version + 1] \in AccountRow
        BY ZenonT(40), <2>0 DEF AccountRow
      <4>2. QED BY <3>2, <4>1 DEF Resume, AccountStep
    <3>3. QED BY <2>4, <3>1, <3>2
  <2>5. CASE SwitchOwner
    <3>1. PICK push \in BOOLEAN : Handover(push)
      BY <2>5 DEF SwitchOwner
    <3>2. /\ (IF account.owner = "SERVER" THEN "RUNTIME" ELSE "SERVER") \in Owners
          /\ (IF push # account.allowPush THEN account.epoch + 1 ELSE account.epoch) \in Nat
      BY <2>0 DEF Owners
    <3>3. account' \in AccountRow
      BY ZenonT(40), <2>0, <3>1, <3>2 DEF Handover, AccountRow
    <3>4. QED BY <2>5, <3>3 DEF SwitchOwner, AccountStep
  <2>6. CASE RevokeCredential
    <3>1. [account EXCEPT !.enabled = FALSE, !.epoch = account.epoch + 1,
                          !.version = account.version + 1] \in AccountRow
      BY ZenonT(40), <2>0 DEF AccountRow
    <3>2. QED BY <2>6, <3>1 DEF RevokeCredential, AccountStep
  <2>7. QED
    BY <2>3, <2>4, <2>5, <2>6 DEF Administering
<1>2. CASE job' = job
  BY <1>1, <1>2 DEF JobsInv, JobsTypeOK, ClaimsBehind, Unanswered,
     AnswerOfLatestExecution, ClosedHoldsNoToken
<1>3. CASE CancelWaiting
  <2>1. \A j \in Jobs :
          \/ job'[j] = job[j]
          \/ /\ job'[j] \in JobRow /\ job'[j].status = "CANCELLED" /\ ~job'[j].token
             /\ job'[j].version = job[j].version + 1
             /\ job'[j].answer = job[j].answer /\ job'[j].exec = job[j].exec
    BY <1>3, CancelledRow, RowType DEF CancelWaiting
  <2>2. job' \in [Jobs -> JobRow]
    BY <1>3, <2>1, RowType DEF CancelWaiting
  <2>3. ClaimsBehind'
    <3>1. SUFFICES ASSUME NEW c \in claims
                   PROVE  /\ job'[c.job].status # "ABSENT"
                          /\ c.version <= job'[c.job].version
                          /\ job'[c.job].status = "CLAIMED" /\ c.version = job'[c.job].version
                               => c.exec = job'[c.job].exec
      BY <1>1 DEF ClaimsBehind
    <3>2. c.job \in Jobs /\ c.version \in Nat /\ job[c.job].version \in Nat
      BY RowType DEF JobsInv, JobsTypeOK, Claim, JobRow
    <3>3. QED
      BY <2>1, <3>2 DEF JobsInv, ClaimsBehind
  <2>4. Unanswered' /\ AnswerOfLatestExecution' /\ ClosedHoldsNoToken'
    BY <2>1 DEF JobsInv, Unanswered, AnswerOfLatestExecution, ClosedHoldsNoToken
  <2>5. QED
    BY <1>1, <2>2, <2>3, <2>4 DEF JobsInv, JobsTypeOK
<1>4. QED BY <1>1, <1>2, <1>3

LEMMA JobsInitHolds == JobsInit => JobsInv
<1>1. ASSUME JobsInit PROVE JobsInv
  <2>1. JobsTypeOK
    <3>1. account \in AccountRow /\ now \in Nat
      <4>1. PICK owner \in Owners, push \in BOOLEAN :
              account = [enabled |-> TRUE, status |-> "CONNECTED", epoch |-> 0,
                         version |-> 0, owner |-> owner, allowPush |-> push]
        BY ZenonT(40), <1>1 DEF JobsInit
      <4>2. QED BY <1>1, <4>1 DEF JobsInit, AccountRow
    <3>2. job \in [Jobs -> JobRow] /\ claims \subseteq Claim
      BY <1>1, NoRowType DEF JobsInit
    <3>3. QED BY <3>1, <3>2 DEF JobsTypeOK
  <2>2. \A j \in Jobs : job[j].status = "ABSENT" /\ job[j].answer = NoAnswer
    BY ZenonT(40), <1>1 DEF JobsInit, NoRow
  <2>3. QED
    BY <1>1, <2>1, <2>2 DEF JobsInit, JobsInv, ClaimsBehind, Unanswered,
       AnswerOfLatestExecution, ClosedHoldsNoToken, Terminal, NoAnswer, Fixed
<1>2. QED BY <1>1

\* Every step of the job table preserves the invariant.
LEMMA JobsStepHolds ==
  ASSUME JobsInv, JobsNext
  PROVE  JobsInv'
<1>1. CASE Admitting
  BY <1>1, AdmitStep DEF Admitting
<1>2. CASE Maintaining
  BY <1>2, MaintenanceStep DEF Maintaining
<1>3. CASE Claiming
  BY <1>3, ClaimStep DEF Claiming
<1>4. CASE Executing
  BY <1>4, RenewStep, CommitStep, CloseExecutionStep DEF Executing
<1>5. CASE Administering
  BY <1>5, AccountStepKeeps
<1>6. CASE Intervening
  BY <1>6, InterventionStep DEF Intervening
<1>7. CASE Tick
  BY <1>7 DEF Tick, JobsInv, JobsTypeOK, ClaimsBehind, Unanswered,
     AnswerOfLatestExecution, ClosedHoldsNoToken
<1>8. QED
  BY <1>1, <1>2, <1>3, <1>4, <1>5, <1>6, <1>7 DEF JobsNext

LEMMA JobsStutterHolds ==
  ASSUME JobsInv, UNCHANGED jobsVars
  PROVE  JobsInv'
BY DEF jobsVars, JobsInv, JobsTypeOK, ClaimsBehind, Unanswered,
   AnswerOfLatestExecution, ClosedHoldsNoToken

LEMMA JobsInvariance == JobsSpec => []JobsInv
<1>1. JobsInv /\ [JobsNext]_jobsVars => JobsInv'
  BY JobsStepHolds, JobsStutterHolds
<1>2. QED
  BY JobsInitHolds, <1>1, PTL DEF JobsSpec
-----------------------------------------------------------------------------
\* Every variable keeps its type, for any number of jobs and claimants.
THEOREM JobsTypeCorrect == JobsSpec => []JobsTypeOK
<1>1. JobsInv => JobsTypeOK
  BY DEF JobsInv
<1>2. QED BY JobsInvariance, <1>1, PTL

\* A stale executor never commits: the answer a row carries is always of its
\* latest execution (settleExecution's compare-and-set is enough).
THEOREM AnswerIsOfLatestExecution == JobsSpec => []AnswerOfLatestExecution
<1>1. JobsInv => AnswerOfLatestExecution
  BY DEF JobsInv
<1>2. QED BY JobsInvariance, <1>1, PTL

\* At most one of all the claims ever handed out for a job can be used.
THEOREM OnlyOneExecutor == JobsSpec => []OneExecutor
<1>1. JobsInv => OneExecutor
  <2>1. ASSUME JobsInv, NEW c \in claims, NEW d \in claims,
               Holds(c), Holds(d), c.job = d.job
        PROVE  c = d
    <3>1. /\ c \in Claim /\ d \in Claim /\ c.version = d.version
          /\ c.exec = d.exec /\ c.claimant = d.claimant
      BY <2>1, HoldsRow
    <3>2. QED BY <2>1, <3>1 DEF Claim
  <2>2. QED BY <2>1 DEF OneExecutor
<1>2. QED BY JobsInvariance, <1>1, PTL

\* Whatever closes a row takes its sealed reply token away.
THEOREM ClosedRowsHoldNoToken == JobsSpec => []ClosedHoldsNoToken
<1>1. JobsInv => ClosedHoldsNoToken
  BY DEF JobsInv
<1>2. QED BY JobsInvariance, <1>1, PTL
-----------------------------------------------------------------------------
\* A step keeps the out-of-hours reply of one job, or gives up the job with it.
KeepsReply(j) ==
  job[j].answer = Fixed =>
    \/ job'[j].answer = Fixed
    \/ job'[j].status = "CANCELLED"
    \/ job'[j].error = "PDPA_ERASURE"

\* Admission writes a row that had no answer; maintenance and a claim keep it.
LEMMA ReplyKeptByQueue ==
  ASSUME JobsInv, Admitting \/ Maintaining \/ Claiming
  PROVE  \A k \in Jobs : KeepsReply(k)
<1>1. CASE Admitting
  <2>1. PICK j \in Jobs, cohort \in Owners, left \in 0 .. ReplyWindow,
             hasToken \in BOOLEAN, outOfHours \in BOOLEAN :
               Admit(j, cohort, hasToken, left, outOfHours)
    BY <1>1 DEF Admitting
  <2>2. /\ job[j].answer # Fixed
        /\ \A k \in Jobs \ {j} : job'[k] = job[k]
    BY <2>1 DEF Admit, Write, JobsInv, JobsTypeOK, Unanswered, NoAnswer, Fixed
  <2>3. QED BY <2>2 DEF KeepsReply
<1>2. CASE Maintaining
  <2>1. PICK j \in Jobs : ExpireWaiting(j) \/ RequeueClaimed(j)
    BY <1>2 DEF Maintaining
  <2>2. CASE ExpireWaiting(j)
    BY <2>2, RowType DEF ExpireWaiting, Write, JobsInv, JobsTypeOK, JobRow, KeepsReply
  <2>3. CASE RequeueClaimed(j)
    BY ZenonT(40), <2>3, RowType DEF RequeueClaimed, Released, Write, JobsInv, JobsTypeOK, JobRow, KeepsReply
  <2>4. QED BY ZenonT(40), <2>1, <2>2, <2>3
<1>3. CASE Claiming
  <2>1. PICK j \in Jobs, who \in Claimants : ClaimExecution(j, who)
    BY <1>3 DEF Claiming
  <2>2. /\ job'[j].answer = job[j].answer
        /\ \A k \in Jobs \ {j} : job'[k] = job[k]
    BY <2>1, RowType DEF ClaimExecution, Write, JobsInv, JobsTypeOK, JobRow
  <2>3. QED BY <2>2 DEF KeepsReply
<1>4. QED BY ZenonT(40), <1>1, <1>2, <1>3

\* An executor commits the fixed reply or renews: Core lets it do nothing else.
LEMMA ReplyKeptByExecutor ==
  ASSUME JobsInv, Executing
  PROVE  \A k \in Jobs : KeepsReply(k)
<1>1. PICK c \in claims : Renew(c) \/ CommitAnswer(c) \/ FailExecution(c) \/ LeaveUnknown(c)
  BY DEF Executing
<1>2. Holds(c)
  BY <1>1 DEF Renew, CommitAnswer, FailExecution, LeaveUnknown
<1>3. /\ c.job \in Jobs /\ job[c.job] \in JobRow
      /\ job[c.job].answer = Fixed => OutOfHoursReply(job[c.job])
  BY <1>2, HoldsRow
<1>4. \A k \in Jobs \ {c.job} : job'[k] = job[k]
  BY <1>1, <1>3 DEF Renew, CommitAnswer, FailExecution, LeaveUnknown, Write, JobsInv, JobsTypeOK
<1>5. KeepsReply(c.job)
  <2>1. SUFFICES ASSUME job[c.job].answer = Fixed
                 PROVE  job'[c.job].answer = Fixed
    BY DEF KeepsReply
  <2>2. OutOfHoursReply(job[c.job])
    BY <1>3, <2>1
  <2>3. Renew(c) \/ CommitAnswer(c)
    BY <1>1, <2>2 DEF FailExecution, LeaveUnknown
  <2>4. CASE Renew(c)
    BY <1>3, <2>1, <2>4 DEF Renew, Write, JobsInv, JobsTypeOK, JobRow
  <2>5. CASE CommitAnswer(c)
    BY <1>3, <2>1, <2>2, <2>5 DEF CommitAnswer, Released, Write, JobsInv, JobsTypeOK, JobRow
  <2>6. QED BY <2>3, <2>4, <2>5
<1>6. QED BY <1>4, <1>5 DEF KeepsReply

\* Account actions and erasure give the reply up only with the job itself.
LEMMA ReplyKeptByOperators ==
  ASSUME JobsInv, Administering \/ Intervening
  PROVE  \A k \in Jobs : KeepsReply(k)
<1>1. CASE Administering
  <2>1. CancelWaiting \/ job' = job
    BY <1>1 DEF Administering, Pause, Disable, Enable, Archive, SetPush, Resume, Configure,
       SwitchOwner, RevokeCredential, Fence
  <2>2. CASE CancelWaiting
    <3>1. ASSUME NEW k \in Jobs
          PROVE  job'[k] = Cancelled(job[k]) \/ job'[k] = job[k]
      BY <2>2 DEF CancelWaiting
    <3>2. QED BY <3>1, CancelledRow, RowType DEF KeepsReply
  <2>3. CASE job' = job
    BY <2>3 DEF KeepsReply
  <2>4. QED BY <2>1, <2>2, <2>3
<1>2. CASE Intervening
  <2>1. PICK j \in Jobs : Erase(j) \/ Acknowledge(j)
    BY <1>2 DEF Intervening
  <2>2. CASE Erase(j)
    BY ZenonT(40), <2>2, RowType DEF Erase, Released, Write, JobsInv, JobsTypeOK, JobRow, KeepsReply
  <2>3. CASE Acknowledge(j)
    BY <2>3, RowType DEF Acknowledge, Write, JobsInv, JobsTypeOK, JobRow, KeepsReply
  <2>4. QED BY ZenonT(40), <2>1, <2>2, <2>3
<1>3. QED BY ZenonT(40), <1>1, <1>2

\* The out-of-hours reply of every job outlives all its executions: an executor
\* can neither fail nor replace it, and only cancelling or erasing gives it up.
THEOREM OutOfHoursReplyIsKept == JobsSpec => OutOfHoursReplyKept
<1>1. ASSUME JobsInv, [JobsNext]_jobsVars
      PROVE  [\A j \in Jobs : KeepsReply(j)]_jobsVars
  <2>1. CASE Tick
    BY <2>1 DEF Tick, KeepsReply
  <2>2. QED
    BY <1>1, <2>1, ReplyKeptByQueue, ReplyKeptByExecutor, ReplyKeptByOperators DEF JobsNext
<1>2. JobsInv /\ [JobsNext]_jobsVars =>
        [\A j \in Jobs : job[j].answer = Fixed =>
           \/ job'[j].answer = Fixed
           \/ job'[j].status = "CANCELLED"
           \/ job'[j].error = "PDPA_ERASURE"]_jobsVars
  BY <1>1 DEF KeepsReply
<1>3. QED
  BY JobsInvariance, <1>2, PTL DEF JobsSpec, OutOfHoursReplyKept
=============================================================================
