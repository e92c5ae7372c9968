---------------------------- MODULE LineDelivery ----------------------------
(***************************************************************************)
(* Sending a committed answer: the LINE job table of LineJobs, the send    *)
(* handlers of the server tick and of Core's runtime send operation, and   *)
(* LINE itself as the two transports of server-line-transport.js use it.   *)
(*                                                                         *)
(* A handler reads the row, resolves the account, claims the send in one   *)
(* transaction, calls LINE, and writes the outcome in another.  Handlers   *)
(* overlap freely, may stop between any two of these steps, and a request  *)
(* may outlive the handler that issued it.                                 *)
(***************************************************************************)
EXTENDS LineJobs

CONSTANTS
  Senders,      \* concurrent send handlers
  SendLease,    \* lease of a SENDING row                       (30 s)
  Backoff,      \* longest delay before a push retry            (60 s)
  RetryWindow,  \* no push retry this long after the first send (23 h)
  KeyLife,      \* LINE honours a retry key this long           (24 h)
  OwnerCarried, \* the account port returns the cohort: the tests' port does, the
                \* production port (server-line-transport.js) does not
  MaxPause,     \* bound on a handler's delay between two of its steps
  WireLife,     \* bound on a request's life on the network
  MaxCrashes,   \* bound on handler crashes
  MaxEarly      \* bound on sends asked for without an offer

ASSUME DeliveryAssumption ==
  /\ Jobs # {}
  /\ SendLease \in Nat \ {0} /\ Backoff \in Nat \ {0} /\ RetryWindow \in Nat \ {0}
  /\ KeyLife \in Nat /\ MaxPause \in Nat /\ WireLife \in Nat
  /\ MaxCrashes \in Nat /\ MaxEarly \in Nat /\ OwnerCarried \in BOOLEAN
  /\ RetryWindow + MaxPause + WireLife <= KeyLife

VARIABLES
  snd,      \* the send handlers
  wire,     \* requests LINE has not answered yet
  line,     \* what LINE has accepted for each job
  crm,      \* the outbound text CRM has recorded for each job
  crashes,  \* handler crashes so far
  early     \* sends asked for without an offer so far

vars == <<now, account, job, claims, snd, wire, line, crm, crashes, early>>
-----------------------------------------------------------------------------
Results == {"NONE", "ACCEPTED", "UNKNOWN", "RETRYABLE", "HTTP_400", "PERMANENT"}
Stages  == {"idle", "read", "resolved", "calling", "waiting", "answered"}

Handler == [pc : Stages, job : Jobs, row : JobRow, since : Nat, at : Nat,
            acct : Nat, method : Methods, result : Results]
Request == [job : Jobs, version : Nat, method : {"REPLY", "PUSH"},
            text : Nat \cup {NoAnswer}, at : Nat]
Accepted == [replied : BOOLEAN, pushAt : OptTime, seen : Nat,
             text : Nat \cup {NoAnswer}]

Idle == [pc |-> "idle", job |-> CHOOSE j \in Jobs : TRUE, row |-> NoRow,
         since |-> 0, at |-> 0, acct |-> 0, method |-> "NONE", result |-> "NONE"]

\* The request a handler that is calling LINE issues or has issued.
RequestOf(s, at) ==
  [job |-> snd[s].job, version |-> snd[s].row.version + 1,
   method |-> snd[s].method, text |-> snd[s].row.answer, at |-> at]
-----------------------------------------------------------------------------
\* Reply while its token lives, else push where the account allows it.
ChooseMethod(row) ==
  IF row.method # "NONE" THEN row.method
  ELSE IF row.token /\ row.replyExp > now THEN "REPLY"
  ELSE IF row.push THEN "PUSH" ELSE "NONE"

Begin(s, j) ==
  snd' = [snd EXCEPT ![s] = [Idle EXCEPT
            !.pc = "read", !.job = j, !.row = job[j], !.since = now,
            !.at = now, !.method = ChooseMethod(job[j])]]

\* The server tick picks any READY row that is due.
ReadServer(s, j) ==
  /\ snd[s].pc = "idle"
  /\ job[j].status = "READY" /\ job[j].owner = "SERVER"
  /\ job[j].avail <= now
  /\ ActiveFor(j)
  /\ Begin(s, j)
  /\ UNCHANGED <<now, account, job, claims, wire, line, crm, crashes, early>>

\* Any turn that holds a claim of the row's last execution may ask Core to send
\* it: right after its completion, or again after a lost answer.
Asking(j) ==
  /\ job[j].status = "READY" /\ job[j].owner = "RUNTIME"
  /\ OwnerHolds(j)
  /\ \E c \in claims : c.job = j /\ c.exec = job[j].exec

\* READY recovery offers a due row, inside its deadline, to a runtime replica.
Offered(j) ==
  Asking(j) /\ ActiveFor(j) /\ job[j].avail <= now /\ job[j].expires > now

\* Core's send operation asks for neither the backoff nor the job's deadline.
ReadRuntime(s, j) ==
  /\ snd[s].pc = "idle"
  /\ Asking(j) /\ ActiveFor(j)
  /\ Begin(s, j)
  /\ IF Offered(j) THEN UNCHANGED early
     ELSE early < MaxEarly /\ early' = early + 1
  /\ UNCHANGED <<now, account, job, claims, wire, line, crm, crashes>>

\* A READY row whose account is fenced, or whose sender lost authority, is
\* cancelled where it is read.
CancelAtSend(j) ==
  /\ job[j].status = "READY"
  /\ \/ Asking(j)
     \/ job[j].owner = "SERVER" /\ job[j].avail <= now /\ ~ActiveFor(j)
  /\ Write(j, [job[j] EXCEPT !.status = "CANCELLED", !.token = FALSE,
       !.answer = IF job[j].owner = "RUNTIME" THEN NoAnswer ELSE @,
       !.error = IF job[j].owner = "RUNTIME" THEN "CODE" ELSE @])
  /\ UNCHANGED <<now, account, claims, snd, wire, line, crm, crashes, early>>
-----------------------------------------------------------------------------
\* The row is still the one this handler read.
Fresh(s) ==
  LET j == snd[s].job IN
  job[j].status = "READY" /\ job[j].version = snd[s].row.version

Done(s) == snd' = [snd EXCEPT ![s] = Idle]

\* A send that stops before LINE is called closes the row it read.
Stop(s, status) ==
  LET j == snd[s].job IN
  /\ Done(s)
  /\ IF Fresh(s)
     THEN Write(j, [job[j] EXCEPT !.status = status, !.error = "CODE",
                                  !.token = FALSE])
     ELSE UNCHANGED job
  /\ UNCHANGED <<now, account, claims, wire, line, crm, crashes, early>>

\* UNKNOWN when an earlier attempt may have been accepted.
Undelivered(s) == IF snd[s].row.first # NoTime THEN "UNKNOWN" ELSE "FAILED"

\* Mutant: a push is retried for ever.
WindowClosed_Never(s) == FALSE

WindowClosed(s) ==
  /\ snd[s].row.first # NoTime
  /\ snd[s].since - snd[s].row.first >= RetryWindow

\* No method is left, or the retry window has closed.
StopUnsendable(s) ==
  /\ snd[s].pc = "read"
  /\ snd[s].method = "NONE" \/ WindowClosed(s)
  /\ Stop(s, Undelivered(s))

Sendable(s) ==
  snd[s].pc = "read" /\ snd[s].method # "NONE" /\ ~WindowClosed(s)

\* The account, its credential or the sealed token cannot be resolved.
StopUnresolved(s) == Sendable(s) /\ Stop(s, Undelivered(s))

\* The resolved account is of the row's epoch and, for a runtime row, names the
\* runtime as its owner; otherwise the row is left alone as fenced.
Resolved(s) ==
  /\ account.epoch = snd[s].row.epoch
  /\ snd[s].row.owner = "RUNTIME" => OwnerCarried /\ account.owner = "RUNTIME"
LeaveFenced(s) ==
  /\ Sendable(s)
  /\ Active /\ ~Resolved(s)
  /\ Done(s)
  /\ UNCHANGED <<now, account, job, claims, wire, line, crm, crashes, early>>

\* The reply deadline passed meanwhile and push is not allowed.
ReplyMissed(s) == snd[s].method = "REPLY" /\ snd[s].row.replyExp <= now
StopMissed(s) ==
  /\ Sendable(s)
  /\ Active /\ Resolved(s)
  /\ ReplyMissed(s) /\ ~snd[s].row.push
  /\ Stop(s, "FAILED")

Resolve(s) ==
  /\ Sendable(s)
  /\ Active /\ Resolved(s)
  /\ ReplyMissed(s) => snd[s].row.push
  /\ snd' = [snd EXCEPT ![s].pc = "resolved", ![s].at = now,
               ![s].acct = account.version,
               ![s].method = IF ReplyMissed(s) THEN "PUSH" ELSE @]
  /\ UNCHANGED <<now, account, job, claims, wire, line, crm, crashes, early>>
-----------------------------------------------------------------------------
\* The row, the account version and the epoch are still those resolved.
Sendworthy(s) ==
  /\ Fresh(s)
  /\ ActiveFor(snd[s].job) /\ OwnerHolds(snd[s].job)
  /\ account.version = snd[s].acct

\* Mutant: every attempt opens the window again.
FirstSend_Latest(s) == snd[s].at

\* The retry window opens once, with the first send.
FirstSend(s) ==
  IF snd[s].row.first # NoTime THEN snd[s].row.first ELSE snd[s].at

\* READY -> SENDING, with the account row fenced against account actions.
ClaimSend(s) ==
  LET j == snd[s].job IN
  /\ snd[s].pc = "resolved"
  /\ Sendworthy(s)
  /\ account' = [account EXCEPT !.version = @ + 1]
  /\ Write(j, [job[j] EXCEPT
       !.status = "SENDING", !.method = snd[s].method,
       !.first = FirstSend(s),
       !.lease = snd[s].at + SendLease])
  /\ snd' = [snd EXCEPT ![s].pc = "calling", ![s].at = 0, ![s].acct = 0]
  /\ UNCHANGED <<now, claims, wire, line, crm, crashes, early>>

\* In the same transaction: what the answer rests on has been revoked.
RevokeAnswer(s) ==
  LET j == snd[s].job IN
  /\ snd[s].pc = "resolved"
  /\ Sendworthy(s)
  /\ account' = [account EXCEPT !.version = @ + 1]
  /\ Write(j, [job[j] EXCEPT !.status = "CANCELLED", !.answer = NoAnswer,
                             !.error = "CODE", !.token = FALSE])
  /\ Done(s)
  /\ UNCHANGED <<now, claims, wire, line, crm, crashes, early>>

\* The row was lost inside the claim's transaction, behind the account fence,
\* which commits all the same.
LoseRow(s) ==
  /\ snd[s].pc = "resolved"
  /\ ~Fresh(s)
  /\ ActiveFor(snd[s].job) /\ OwnerHolds(snd[s].job)
  /\ account.version = snd[s].acct
  /\ account' = [account EXCEPT !.version = @ + 1]
  /\ Done(s)
  /\ UNCHANGED <<now, job, claims, wire, line, crm, crashes, early>>

\* Another handler, an account action or an erasure came first.
Contended(s) ==
  /\ snd[s].pc = "resolved"
  /\ ~Sendworthy(s)
  /\ Done(s)
  /\ UNCHANGED <<now, account, job, claims, wire, line, crm, crashes, early>>
-----------------------------------------------------------------------------
\* A reply token that expired behind the claim is not spent.
RefuseLate(s) ==
  /\ snd[s].pc = "calling"
  /\ snd[s].method = "REPLY" /\ snd[s].row.replyExp <= now
  /\ snd' = [snd EXCEPT ![s].pc = "answered", ![s].result = "PERMANENT"]
  /\ UNCHANGED <<now, account, job, claims, wire, line, crm, crashes, early>>

CallLine(s) ==
  /\ snd[s].pc = "calling"
  /\ snd[s].method = "REPLY" => snd[s].row.replyExp > now
  /\ wire' = wire \cup {RequestOf(s, now)}
  /\ snd' = [snd EXCEPT ![s].pc = "waiting", ![s].since = now]
  /\ UNCHANGED <<now, account, job, claims, line, crm, crashes, early>>

\* Mutant: the provider's result name is kept instead of the job's.
Ambiguous_Unmapped(method) == IF method = "REPLY" THEN "UNKNOWN" ELSE "RETRYABLE_FAILURE"

\* Timeout, lost response or lost request: only a push may be retried.
Ambiguous(method) == IF method = "REPLY" THEN "UNKNOWN" ELSE "RETRYABLE"
TimeOut(s) ==
  /\ snd[s].pc = "waiting"
  /\ snd' = [snd EXCEPT ![s].pc = "answered",
                        ![s].result = Ambiguous(snd[s].method)]
  /\ UNCHANGED <<now, account, job, claims, wire, line, crm, crashes, early>>

\* LINE's answer reaches the handler that still waits for it.
Respond(q, result) ==
  snd' = [s \in Senders |->
            IF snd[s].pc = "waiting" /\ RequestOf(s, snd[s].since) = q
            THEN [snd[s] EXCEPT !.pc = "answered", !.result = result]
            ELSE snd[s]]

KeyLive(q) ==
  /\ line[q.job].pushAt # NoTime
  /\ now < line[q.job].pushAt + KeyLife
Spent(q) == IF q.method = "REPLY" THEN line[q.job].replied ELSE KeyLive(q)

\* LINE shows the message: a reply token works once, a live retry key once.
LineAccepts(q) ==
  /\ ~Spent(q)
  /\ line' = [line EXCEPT ![q.job] =
       [replied |-> @.replied \/ q.method = "REPLY",
        pushAt |-> IF q.method = "PUSH" THEN now ELSE @.pushAt,
        seen |-> @.seen + 1, text |-> q.text]]
  /\ \E result \in {"ACCEPTED", Ambiguous(q.method)} : Respond(q, result)

\* Mutant: any 409 is acceptance, with or without an accepted request id.
LineDeclines_Any409(q) ==
  /\ UNCHANGED line
  /\ \/ Respond(q, "HTTP_400") \/ Respond(q, "PERMANENT")
     \/ Respond(q, Ambiguous(q.method))
     \/ q.method = "PUSH" /\ Respond(q, "ACCEPTED")

\* LINE shows nothing: an accepted key answers 409 with its acceptance, and
\* any request may meet a 4xx or, ambiguously, a 5xx.
LineDeclines(q) ==
  /\ UNCHANGED line
  /\ \/ Respond(q, "HTTP_400") \/ Respond(q, "PERMANENT")
     \/ Respond(q, Ambiguous(q.method))
     \/ q.method = "PUSH" /\ KeyLive(q) /\ Respond(q, "ACCEPTED")

LineReceives(q) ==
  /\ wire' = wire \ {q}
  /\ LineAccepts(q) \/ LineDeclines(q)
  /\ UNCHANGED <<now, account, job, claims, crm, crashes, early>>

Lose(q) ==
  /\ wire' = wire \ {q}
  /\ UNCHANGED <<now, account, job, claims, snd, line, crm, crashes, early>>
-----------------------------------------------------------------------------
\* A dead reply token is the one rejection that falls back to push.
FallsBack(s) ==
  /\ snd[s].method = "REPLY" /\ snd[s].result = "HTTP_400"
  /\ snd[s].row.push

\* Mutant: an ambiguous reply is called failed.
Outcome_UnknownFails(s) ==
  CASE snd[s].result = "ACCEPTED"                            -> "ACCEPTED"
    [] FallsBack(s)                                          -> "READY"
    [] snd[s].result = "RETRYABLE" /\ snd[s].method = "PUSH" -> "READY"
    [] OTHER                                                 -> "FAILED"

Outcome(s) ==
  CASE snd[s].result = "ACCEPTED"                            -> "ACCEPTED"
    [] snd[s].result = "UNKNOWN"                             -> "UNKNOWN"
    [] FallsBack(s)                                          -> "READY"
    [] snd[s].result = "RETRYABLE" /\ snd[s].method = "PUSH" -> "READY"
    [] OTHER                                                 -> "FAILED"

\* Mutant: the result is written by job id alone.
OwnsSend_Unfenced(s) == TRUE

\* The row still carries this handler's send lease.
OwnsSend(s) ==
  LET j == snd[s].job IN
  job[j].status = "SENDING" /\ job[j].version = snd[s].row.version + 1

RecordResult(s) ==
  LET j == snd[s].job IN
  /\ snd[s].pc = "answered"
  /\ IF OwnsSend(s)
     THEN \E delay \in 1 .. Backoff :
            Write(j, Released([job[j] EXCEPT
              !.status = Outcome(s),
              !.error = IF snd[s].result = "ACCEPTED" THEN "NONE" ELSE "CODE",
              !.token = FALSE,
              !.method = IF FallsBack(s) THEN "PUSH" ELSE @,
              !.avail = now + delay]))
     ELSE UNCHANGED job
  /\ Done(s)
  /\ UNCHANGED <<now, account, claims, wire, line, crm, crashes, early>>

\* Accepted output becomes the CRM outbound and the recorded job at once.
ReconcileAccepted(j) ==
  /\ job[j].status = "ACCEPTED"
  /\ job[j].error # "PDPA_ERASURE"
  /\ crm' = [crm EXCEPT ![j] = job[j].answer]
  /\ Write(j, [job[j] EXCEPT !.status = "RECORDED", !.token = FALSE])
  /\ UNCHANGED <<now, account, claims, snd, wire, line, crashes, early>>

\* Mutant: a reply whose lease expired is sent again.
CloseReply_Retried(j) ==
  /\ job[j].status = "SENDING" /\ job[j].lease <= now
  /\ job[j].method = "REPLY"
  /\ Write(j, Released([job[j] EXCEPT !.status = "READY", !.method = "NONE"]))
  /\ UNCHANGED <<now, account, claims, snd, wire, line, crm, crashes, early>>

\* Mutant: only expired pushes are looked for.
CloseReply_PushOnly(j) ==
  /\ job[j].status = "SENDING" /\ job[j].lease <= now
  /\ job[j].method = "PUSH"
  /\ Write(j, [job[j] EXCEPT !.status = "UNKNOWN", !.error = "CODE",
                             !.token = FALSE])
  /\ UNCHANGED <<now, account, claims, snd, wire, line, crm, crashes, early>>

\* Maintenance of expired send leases: a reply may have been accepted, a push
\* is retried under the same key.
CloseReply(j) ==
  /\ job[j].status = "SENDING" /\ job[j].lease <= now
  /\ job[j].method = "REPLY"
  /\ Write(j, [job[j] EXCEPT !.status = "UNKNOWN", !.error = "CODE",
                             !.token = FALSE])
  /\ UNCHANGED <<now, account, claims, snd, wire, line, crm, crashes, early>>

RetryPush(j) ==
  /\ job[j].status = "SENDING" /\ job[j].lease <= now
  /\ job[j].method = "PUSH"
  /\ Write(j, Released([job[j] EXCEPT !.status = "READY", !.avail = now]))
  /\ UNCHANGED <<now, account, claims, snd, wire, line, crm, crashes, early>>

Crash(s) ==
  /\ snd[s].pc # "idle" /\ crashes < MaxCrashes
  /\ crashes' = crashes + 1
  /\ Done(s)
  /\ UNCHANGED <<now, account, job, claims, wire, line, crm, early>>
-----------------------------------------------------------------------------
Beside == UNCHANGED <<snd, wire, line, crm, crashes, early>>
Maintain(j) == (ExpireWaiting(j) \/ RequeueClaimed(j)) /\ Beside
Execute == Executing /\ Beside
Intervene == (Administering \/ Intervening) /\ Beside

\* Time does not outrun a handler between two steps, nor a request in flight.
Punctual ==
  /\ \A s \in Senders :
       /\ snd[s].pc \in {"read", "resolved", "calling"} => now < snd[s].since + MaxPause
       /\ snd[s].pc = "waiting" => now < snd[s].since + WireLife
  /\ \A q \in wire : now < q.at + WireLife

Advance == Punctual /\ Tick /\ Beside

\* The steps of a handler, up to its call of LINE and from LINE's answer on.
Read(s) == \E j \in Jobs : ReadServer(s, j) \/ ReadRuntime(s, j)
Prepare(s) ==
  \/ StopUnsendable(s) \/ StopUnresolved(s) \/ LeaveFenced(s) \/ StopMissed(s)
  \/ Resolve(s) \/ ClaimSend(s) \/ RevokeAnswer(s) \/ LoseRow(s) \/ Contended(s)
  \/ RefuseLate(s) \/ CallLine(s)
Await(s) == TimeOut(s) \/ RecordResult(s)

Network == \E q \in wire : LineReceives(q) \/ Lose(q)

Settle(j) == ReconcileAccepted(j) \/ CloseReply(j) \/ RetryPush(j)

Init ==
  /\ JobsInit
  /\ snd = [s \in Senders |-> Idle]
  /\ wire = {}
  /\ line = [j \in Jobs |-> [replied |-> FALSE, pushAt |-> NoTime, seen |-> 0,
                             text |-> NoAnswer]]
  /\ crm = [j \in Jobs |-> NoAnswer]
  /\ crashes = 0 /\ early = 0

Step ==
  \/ (Admitting \/ Claiming) /\ Beside
  \/ Execute \/ Intervene \/ Network
  \/ \E j \in Jobs : Maintain(j) \/ Settle(j) \/ CancelAtSend(j)
  \/ \E s \in Senders : Read(s) \/ Prepare(s) \/ Await(s) \/ Crash(s)

Next == Step \/ Advance

Spec == Init /\ [][Next]_vars
\* The supervisor keeps ticking: Core's maintenance, send and recovery steps run
\* whenever they can, and a request is delivered or lost in the end; nothing is
\* assumed of executors, operators or LINE's answers.
Fairness ==
  /\ \A j \in Jobs : WF_vars(Maintain(j)) /\ WF_vars(Settle(j))
  /\ \A j \in Jobs : WF_vars(\E s \in Senders : ReadServer(s, j))
  /\ \A j \in Jobs : WF_vars(\E s \in Senders : Offered(j) /\ ReadRuntime(s, j))
  /\ \A j \in Jobs : WF_vars(job[j].owner = "SERVER" /\ CancelAtSend(j))
  /\ \A s \in Senders : WF_vars(Prepare(s)) /\ WF_vars(Await(s))
  /\ WF_vars(Network)

-----------------------------------------------------------------------------
\* The contract's view of the rows, of LINE and of the CRM.
RecordOf(row) ==
  IF row.status = "ABSENT" THEN "none"
  ELSE IF row.first = NoTime
  THEN IF row.status \in Terminal THEN "dropped" ELSE "pending"
  ELSE CASE row.status \in {"ACCEPTED", "RECORDED"} -> "delivered"
         [] row.status = "UNKNOWN"                 -> "doubt"
         [] row.status \in {"FAILED", "CANCELLED"} -> "ended"
         [] OTHER                                  -> "sending"

Contract == INSTANCE DeliveryContract WITH
  Events <- Jobs, NoText <- NoAnswer,
  record <- [j \in Jobs |-> RecordOf(job[j])],
  shown  <- [j \in Jobs |-> [times |-> line[j].seen, text |-> line[j].text]],
  book   <- crm

\* The server keeps the channel's contract: every step of handlers, executors,
\* operators and LINE is a promised step or changes nothing a customer, a row or
\* the CRM shows.  So work closed before its send is never shown, doubt is never
\* turned into delivery, and the CRM records once, what was shown.
KeepsContract == Contract!ContractSpec

\* Every variable has its type.
TypeOK ==
  /\ JobsTypeOK
  /\ snd \in [Senders -> Handler] /\ wire \subseteq Request
  /\ line \in [Jobs -> Accepted] /\ crm \in [Jobs -> Nat \cup {NoAnswer}]
  /\ crashes \in Nat /\ early \in Nat

\* LINE shows the customer at most one message per inbound event: no mix of
\* lost answers, retries, expired send leases, reply-to-push fallback, crashes
\* and concurrent senders delivers an answer twice (sendReadyJob, maintenance).
AtMostOneDelivery == \A j \in Jobs : line[j].seen <= 1

\* A row that failed as a reply never was and never will be delivered: an
\* ambiguous reply is UNKNOWN, whatever handler or maintenance closes it.
FailedReplyIsSafe ==
  \A j \in Jobs :
    job[j].status = "FAILED" /\ job[j].method # "PUSH" =>
      /\ line[j].seen = 0
      /\ \A q \in wire : q.job # j

\* A failed row was never delivered, push or reply.  ADR-061 line 78: a
\* credential failure isolates one job, "UNKNOWN if a prior attempt exists".
FailedNotDelivered ==
  \A j \in Jobs : job[j].status = "FAILED" => line[j].seen = 0

\* A send handler gives up a row that is still READY and still the one it read
\* only where the account is fenced.  Line 643 calls READY recovery safe because
\* the sender "will admit exactly one send": one is admitted, not none.
OnlyTheFencedAreLeft ==
  [][\A s \in Senders :
       /\ snd[s].pc = "read" /\ snd'[s].pc = "idle" /\ crashes' = crashes
       /\ Fresh(s) /\ job' = job
       => ~ActiveFor(snd[s].job) \/ ~OwnerHolds(snd[s].job)]_vars

\* Work of a fenced account stops: a queued or executing job is always of the
\* account's live epoch, and one sendable under an earlier epoch, or to an
\* account switched off, had already begun its send.
FencedWorkStops ==
  \A j \in Jobs :
    /\ job[j].status \in {"QUEUED", "CLAIMED"} => ActiveFor(j)
    /\ job[j].status \in {"READY", "SENDING"} /\ ~ActiveFor(j) =>
         job[j].first # NoTime

\* A closed row is never reopened, and an erased one never regains an answer or
\* a reply token, whatever stale claim or handler writes after it.
ClosedStaysClosed ==
  [][\A j \in Jobs :
       /\ job[j].status \in Terminal => job'[j].status \in Terminal
       /\ job[j].error = "PDPA_ERASURE" =>
            /\ job'[j].status \in {"UNKNOWN", "CANCELLED"}
            /\ job'[j].answer = NoAnswer /\ ~job'[j].token]_vars

\* A runtime job that is not closed for good lives only on an account the
\* runtime still owns: the owner never changes under work, a send or a doubt.
CohortHolds ==
  \A j \in Jobs :
    job[j].owner = "RUNTIME" /\ job[j].status \notin {"RECORDED", "FAILED", "CANCELLED"} =>
      account.owner = "RUNTIME"

\* Every event admitted to the server cohort is settled: whatever executors,
\* LINE, crashes and operators do, its row reaches a terminal status (ADR-061).
ServerJobsSettle ==
  \A j \in Jobs : job[j].status # "ABSENT" /\ job[j].owner = "SERVER"
                    ~> job[j].status \in Terminal

\* The same of the runtime cohort: "like the legacy tick, the next delivery claim
\* picks up a job that is still READY" (line-conversation-jobs.js:1484-1485).
RuntimeJobsSettle ==
  \A j \in Jobs : job[j].status # "ABSENT" /\ job[j].owner = "RUNTIME"
                    ~> job[j].status \in Terminal
=============================================================================
