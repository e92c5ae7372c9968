------------------------ MODULE ConversationRuntime ------------------------
(***************************************************************************)
(* One turn of the conversation runtime (turn-runtime.js) against Core's   *)
(* operations (conversation-runtime-core.js) over HTTP: claim, renewal     *)
(* timer, model, work tool, thread memory, completion, failure.            *)
(*                                                                         *)
(* The job row and what Core does to it is LineJobs, with the runtime      *)
(* cohort only.  A call that writes is a request in net: Core may serve it *)
(* late, its answer may be lost, and the turn may have given up on it.     *)
(* Reads, which only return or fail, are part of the step that uses them.  *)
(***************************************************************************)
EXTENDS LineJobs

CONSTANTS
  Asks,        \* what admitted messages may ask: a subset of {"QUESTION", "WORK"}
  MemorySync,  \* the account's turns are kept in thread memory
  MaxTurns,    \* bound on executions of a job
  MaxCrashes   \* bound on runtime crashes

ASSUME RuntimeAssumption ==
  /\ Jobs # {} /\ Asks \subseteq {"QUESTION", "WORK"} /\ MemorySync \in BOOLEAN
  /\ MaxTurns \in Nat /\ MaxCrashes \in Nat

VARIABLES
  asks,    \* what each message asks
  turn,    \* the turn each runtime replica runs
  net,     \* requests Core has not finished
  model,   \* MODEL_STARTED and MODEL_COMPLETED of each job's trace
  calls,   \* entries of the model provider for each job
  thread,  \* the answer in the job's memory thread, at the memory service
  receipt, \* the text of Core's receipt for that append
  work,    \* "none" or "done": what the work tool's receipt says
  said,    \* the text committed for each job
  crashes  \* runtime crashes so far

vars == <<now, account, job, claims, asks, turn, net, model, calls, thread, receipt, work, said, crashes>>
-----------------------------------------------------------------------------
NoEvidence == -2     \* the fixed reply when nothing was found
WorkReply  == -3     \* the reply a work receipt carries
WorkRefusal == -4    \* the reply of a refused work command, which leaves no receipt
Texts == Nat \cup {NoAnswer, NoEvidence, WorkReply, WorkRefusal}

Stages == {"idle", "claimed", "work", "working", "refused", "model", "starting", "ready",
           "finishing", "thread", "appending", "answered", "completing", "delivering"}
Turn == [pc : Stages, job : Jobs, exec : Nat, version : Nat, lease : Nat,
         flying : BOOLEAN, broken : BOOLEAN, text : Texts, try : {0, 1}]
Ops == {"renew", "start", "finish", "append", "receipt", "work", "effect", "complete", "FAILED", "UNKNOWN"}
Request == [by : Claimants, op : Ops, job : Jobs, exec : Nat, version : Nat, text : Texts,
            try : {0, 1}]
Idle == [pc |-> "idle", job |-> CHOOSE j \in Jobs : TRUE, exec |-> 0, version |-> 0,
         lease |-> 0, flying |-> FALSE, broken |-> FALSE, text |-> NoAnswer,
         try |-> 0]
\* Mutant: a job without a trace has no state at all.
NoModel_Absent == [by |-> 0, text |-> NoAnswer]

NoModel == [state |-> "none", by |-> 0, text |-> NoAnswer]

ClaimOf(q) == [job |-> q.job, exec |-> q.exec, version |-> q.version, claimant |-> q.by]

\* A call carries the claim as the turn holds it when it is made.
Call(r, op, text, try) ==
  [by |-> r, op |-> op, job |-> turn[r].job, exec |-> turn[r].exec,
   version |-> turn[r].version, text |-> text, try |-> try]
Send(r, op, text, try, pc) ==
  /\ net' = net \cup {Call(r, op, text, try)}
  /\ turn' = [turn EXCEPT ![r].pc = pc, ![r].text = text, ![r].try = try]
Go(r, pc, text) ==
  /\ turn' = [turn EXCEPT ![r].pc = pc, ![r].text = text, ![r].try = 0]
  /\ UNCHANGED net
End(r) == turn' = [turn EXCEPT ![r] = Idle]

\* Core's claim check of an operation of this turn, at this moment.
Owned(r) == Holds([job |-> turn[r].job, exec |-> turn[r].exec,
                   version |-> turn[r].version, claimant |-> r])
\* Status reads are fenced by the execution alone.
SameExecution(r) == job[turn[r].job].exec = turn[r].exec

LeaseLost(r) == turn[r].broken \/ turn[r].lease <= now

\* A turn that fails before completion tells Core once and ends whatever the
\* answer; an out-of-hours turn is left for lease reclaim.
Fail(r, outcome) ==
  /\ End(r)
  /\ net' = IF turn[r].text = Fixed THEN net
            ELSE net \cup {Call(r, outcome, turn[r].text, 0)}
Keep == UNCHANGED jobsVars
-----------------------------------------------------------------------------
\* The claim's answer may be lost: the row is then claimed by nobody.
Take(r, j) ==
  /\ turn[r].pc = "idle" /\ job[j].exec < MaxTurns
  /\ ClaimExecution(j, r)
  /\ \/ UNCHANGED turn
     \/ turn' = [turn EXCEPT ![r] = [Idle EXCEPT
                   !.pc = "claimed", !.job = j, !.exec = job[j].exec + 1,
                   !.version = job[j].version + 1, !.lease = now + Lease]]
  /\ UNCHANGED <<asks, net, model, calls, thread, receipt, work, said, crashes>>

\* Core prepares the turn it admitted; the evidence it finds may differ each time.
Prepare(r) ==
  LET j == turn[r].job IN
  /\ turn[r].pc = "claimed"
  /\ \/ Fail(r, "FAILED")
     \/ /\ Owned(r)
        /\ IF OutOfHoursReply(job[j]) THEN Go(r, "answered", Fixed)
           ELSE IF asks[j] = "WORK" THEN Go(r, "work", NoAnswer)
           ELSE \/ Go(r, "model", NoAnswer)
                \/ Go(r, IF MemorySync THEN "thread" ELSE "answered", NoEvidence)
  /\ Keep /\ UNCHANGED <<asks, model, calls, thread, receipt, work, said, crashes>>

\* A third of the lease after the last tick, never inside a memory operation.
MayRenew(r) == ~turn[r].flying /\ ~turn[r].broken /\ turn[r].pc # "appending"
RenewTimer(r) ==
  /\ turn[r].pc # "idle" /\ MayRenew(r)
  /\ now + Lease > turn[r].lease /\ turn[r].lease < job[turn[r].job].expires
  /\ net' = net \cup {Call(r, "renew", NoAnswer, 0)}
  /\ turn' = [turn EXCEPT ![r].flying = TRUE]
  /\ Keep /\ UNCHANGED <<asks, model, calls, thread, receipt, work, said, crashes>>

\* A refused or unanswered renewal breaks the turn at its next lease check.
RenewTimeOut(r) ==
  /\ turn[r].flying
  /\ turn' = [turn EXCEPT ![r].flying = FALSE, ![r].broken = TRUE]
  /\ Keep /\ UNCHANGED <<asks, net, model, calls, thread, receipt, work, said, crashes>>

\* Every stage that is about to act waits for the renewal and checks the lease.
LeaseCheckFails(r) ==
  /\ turn[r].pc \in {"ready", "thread", "answered", "model"}
  /\ ~turn[r].flying /\ LeaseLost(r)
  /\ Fail(r, "FAILED")
  /\ Keep /\ UNCHANGED <<asks, model, calls, thread, receipt, work, said, crashes>>
Checked(r, pc) == turn[r].pc = pc /\ ~turn[r].flying /\ ~LeaseLost(r)
-----------------------------------------------------------------------------
\* Mutant: an execution takes over the model call another one started.
Startable_ByAny(r) == model[turn[r].job].state \in {"none", "started"}

\* A model call that another execution started is not repeated.
Startable(r) ==
  LET m == model[turn[r].job] IN
  m.state = "none" \/ (m.state = "started" /\ m.by = turn[r].exec)

ModelStage(r) ==
  LET m == model[turn[r].job] IN
  /\ Checked(r, "model")
  /\ IF ~SameExecution(r) THEN Fail(r, "FAILED")
     ELSE IF m.state = "completed"
          THEN Go(r, IF MemorySync THEN "thread" ELSE "answered", m.text)
     ELSE IF ~Startable(r) THEN Fail(r, "UNKNOWN")
     ELSE IF m.state = "none" THEN Send(r, "start", NoAnswer, 0, "starting")
     ELSE Go(r, "ready", NoAnswer)
  /\ Keep /\ UNCHANGED <<asks, model, calls, thread, receipt, work, said, crashes>>

\* The start was refused or its answer lost: it counts only if it is recorded.
StartUncertain(r) ==
  LET m == model[turn[r].job] IN
  /\ turn[r].pc = "starting"
  /\ \/ Fail(r, "FAILED")
     \/ SameExecution(r) /\ IF m.state = "started" /\ m.by = turn[r].exec
                            THEN Go(r, "ready", NoAnswer) ELSE Fail(r, "UNKNOWN")
  /\ Keep /\ UNCHANGED <<asks, model, calls, thread, receipt, work, said, crashes>>

\* The provider is entered under a claim Core has just confirmed.  A provider
\* failure answers from the evidence; an abort or a bad configuration does not.
Generate(r) ==
  LET j == turn[r].job IN
  /\ Checked(r, "ready")
  /\ IF ~Owned(r) THEN Fail(r, "FAILED") /\ UNCHANGED calls
     ELSE \/ Fail(r, "FAILED") /\ UNCHANGED calls
          \/ /\ calls' = [calls EXCEPT ![j] = @ + 1]
             /\ \/ Send(r, "finish", turn[r].exec, 0, "finishing")
                \/ Fail(r, "UNKNOWN")
  /\ Keep /\ UNCHANGED <<asks, model, thread, receipt, work, said, crashes>>

\* Mutant: the answer is used although it could not be recorded.
FinishUncertain_Ignored(r) ==
  /\ turn[r].pc = "finishing"
  /\ Go(r, IF MemorySync THEN "thread" ELSE "answered", turn[r].text)
  /\ Keep /\ UNCHANGED <<asks, model, calls, thread, receipt, work, said, crashes>>

FinishUncertain(r) ==
  LET m == model[turn[r].job] IN
  /\ turn[r].pc = "finishing"
  /\ \/ Fail(r, "FAILED")
     \/ SameExecution(r) /\ IF m.state = "completed"
                            THEN Go(r, IF MemorySync THEN "thread" ELSE "answered", m.text)
                            ELSE Fail(r, "UNKNOWN")
  /\ Keep /\ UNCHANGED <<asks, model, calls, thread, receipt, work, said, crashes>>
-----------------------------------------------------------------------------
\* A work command is looked up, executed, and looked up again before one retry.
WorkStage(r) ==
  /\ turn[r].pc = "work"
  /\ \/ Fail(r, "UNKNOWN")
     \/ Owned(r) /\ IF work[turn[r].job] = "done" THEN Go(r, "answered", WorkReply)
                    ELSE Send(r, "work", NoAnswer, 0, "working")
  /\ Keep /\ UNCHANGED <<asks, model, calls, thread, receipt, work, said, crashes>>

\* No receipt after a final refusal is a known failure; after anything else the
\* call is repeated once and then left unknown.
WorkUncertain(r) ==
  LET j == turn[r].job IN
  /\ turn[r].pc \in {"working", "refused"}
  /\ \/ Fail(r, "UNKNOWN")
     \/ Owned(r) /\ work[j] = "done" /\ Go(r, "answered", WorkReply)
     \/ /\ Owned(r) /\ work[j] # "done"
        /\ \/ turn[r].pc = "refused" /\ Fail(r, "FAILED")
           \/ turn[r].pc = "working" /\ turn[r].try = 0 /\ Send(r, "work", NoAnswer, 1, "working")
           \/ turn[r].pc = "working" /\ turn[r].try = 1 /\ Fail(r, "UNKNOWN")
  /\ Keep /\ UNCHANGED <<asks, model, calls, thread, receipt, work, said, crashes>>
-----------------------------------------------------------------------------
\* Mutant: the receipt of any appended answer counts.
InThread_Any(j, text) == receipt[j] # NoAnswer

\* The thread is taken to hold this text: the append's receipt names it.
InThread(j, text) == receipt[j] = text

\* The append must have a receipt of the very text before it is committed.
ThreadStage(r) ==
  LET j == turn[r].job IN
  /\ Checked(r, "thread")
  /\ IF ~Owned(r) THEN Fail(r, "FAILED")
     ELSE IF InThread(j, turn[r].text) THEN Go(r, "answered", turn[r].text)
     ELSE IF receipt[j] # NoAnswer THEN Fail(r, "FAILED")
     ELSE Send(r, "append", turn[r].text, 0, "appending")
  /\ Keep /\ UNCHANGED <<asks, model, calls, thread, receipt, work, said, crashes>>

AppendUncertain(r) ==
  LET j == turn[r].job IN
  /\ turn[r].pc = "appending" /\ ~turn[r].flying
  /\ \/ Fail(r, "FAILED")
     \/ /\ Owned(r)
        /\ IF InThread(j, turn[r].text) THEN Go(r, "answered", turn[r].text)
           ELSE IF receipt[j] = NoAnswer /\ turn[r].try = 0
                THEN Send(r, "append", turn[r].text, 1, "appending")
           ELSE Fail(r, "FAILED")
  /\ Keep /\ UNCHANGED <<asks, model, calls, thread, receipt, work, said, crashes>>
-----------------------------------------------------------------------------
Complete(r) ==
  /\ Checked(r, "answered")
  /\ Send(r, "complete", turn[r].text, 0, "completing")
  /\ Keep /\ UNCHANGED <<asks, model, calls, thread, receipt, work, said, crashes>>

\* Mutant: a row that is still claimed is taken for committed.
Committed_Claimed(r) ==
  SameExecution(r) /\ job[turn[r].job].status \in {"CLAIMED", "READY"}

Committed(r) == SameExecution(r) /\ job[turn[r].job].status = "READY"

\* Refused or unanswered: the row decides.  A possible READY is never failed.
CompleteUncertain(r) ==
  /\ turn[r].pc = "completing"
  /\ \/ Committed(r) /\ Go(r, "delivering", turn[r].text)
     \/ /\ SameExecution(r) /\ job[turn[r].job].status = "CLAIMED" /\ turn[r].try = 0
        /\ Send(r, "complete", turn[r].text, 1, "completing")
     \/ End(r) /\ UNCHANGED net
  /\ Keep /\ UNCHANGED <<asks, model, calls, thread, receipt, work, said, crashes>>

\* Asking Core to send, and what becomes of it, is LineDelivery's.
Deliver(r) ==
  /\ turn[r].pc = "delivering"
  /\ End(r)
  /\ Keep /\ UNCHANGED <<asks, net, model, calls, thread, receipt, work, said, crashes>>

Crash(r) ==
  /\ turn[r].pc # "idle" /\ crashes < MaxCrashes
  /\ End(r) /\ crashes' = crashes + 1
  /\ Keep /\ UNCHANGED <<asks, net, model, calls, thread, receipt, work, said>>
-----------------------------------------------------------------------------
\* The turn still waits for this very call.
WaitsAt == [start |-> "starting", finish |-> "finishing", append |-> "appending", receipt |-> "appending",
             work |-> "working", effect |-> "working", complete |-> "completing"]
Awaited(q) ==
  LET t == turn[q.by] IN
  /\ t.job = q.job /\ t.exec = q.exec
  /\ IF q.op = "renew" THEN t.flying
     ELSE q.op \in DOMAIN WaitsAt /\ t.pc = WaitsAt[q.op] /\ t.try = q.try

\* Core's answer reaches the turn that waits for it, or nobody.
Answer(q, new) ==
  turn' \in {turn} \cup (IF Awaited(q) THEN {[turn EXCEPT ![q.by] = new]} ELSE {})
Then(q, pc) == [turn[q.by] EXCEPT !.pc = pc, !.try = 0]

ServeRenew(q) ==
  /\ q.op = "renew"
  /\ \/ /\ Renew(ClaimOf(q))
        /\ Answer(q, [turn[q.by] EXCEPT !.flying = FALSE, !.version = q.version + 1,
                        !.lease = Earlier(job[q.job].expires, now + Lease)])
     \/ Keep /\ UNCHANGED turn
  /\ UNCHANGED <<model, thread, receipt, work, said>>

\* Trace events of the runtime are fenced by the claim but not by its lease.
Traceable(c) ==
  LET row == job[c.job] IN
  /\ ActiveFor(c.job) /\ OwnerHolds(c.job)
  /\ row.status = "CLAIMED" /\ row.version = c.version /\ row.exec = c.exec
  /\ row.claimant = c.claimant /\ row.expires > now

ServeStart(q) ==
  LET m == model[q.job] IN
  /\ q.op = "start"
  /\ IF Traceable(ClaimOf(q)) /\ (m.state = "none" \/ (m.state = "started" /\ m.by = q.exec))
     THEN /\ model' = [model EXCEPT ![q.job] =
                         [state |-> "started", by |-> q.exec, text |-> NoAnswer]]
          /\ Answer(q, Then(q, "ready"))
     ELSE UNCHANGED <<turn, model>>
  /\ Keep /\ UNCHANGED <<thread, receipt, work, said>>

ServeFinish(q) ==
  LET m == model[q.job] IN
  /\ q.op = "finish"
  /\ IF Traceable(ClaimOf(q)) /\ (m.state # "completed" \/ m.text = q.text)
     THEN /\ model' = [model EXCEPT ![q.job].state = "completed", ![q.job].text = q.text]
          /\ Answer(q, Then(q, IF MemorySync THEN "thread" ELSE "answered"))
     ELSE UNCHANGED <<turn, model>>
  /\ Keep /\ UNCHANGED <<thread, receipt, work, said>>

\* A job has one receipt.  Without it the text goes to the memory service, which
\* keeps the first message of a source event and returns it for any later one ...
AppendToThread(q) ==
  /\ q.op = "append" /\ Holds(ClaimOf(q)) /\ receipt[q.job] = NoAnswer
  /\ thread' = [thread EXCEPT ![q.job] = IF @ = NoAnswer THEN q.text ELSE @]
  /\ net' = (net \ {q}) \cup {[q EXCEPT !.op = "receipt"]}
  /\ Keep /\ UNCHANGED <<turn, model, receipt, work, said>>

\* ... and a receipt of the text that was sent is saved next, if there is none.
SaveReceipt(q) ==
  /\ q.op = "receipt" /\ receipt[q.job] \in {NoAnswer, q.text}
  /\ receipt' = [receipt EXCEPT ![q.job] = q.text]
  /\ Answer(q, Then(q, "answered"))
  /\ Keep /\ UNCHANGED <<model, thread, work, said>>

\* The receipt of an append that was answered before is found again.
ServeAppend(q) ==
  /\ q.op = "append" /\ Holds(ClaimOf(q)) /\ InThread(q.job, q.text)
  /\ Answer(q, Then(q, "answered"))
  /\ Keep /\ UNCHANGED <<model, thread, receipt, work, said>>

\* A work call is refused for good once the turn's budget is spent ...
RefuseWork(q) ==
  /\ q.op = "work" /\ net' = net \ {q}
  /\ ~Holds(ClaimOf(q)) \/ TooLate(job[q.job])
  /\ Answer(q, Then(q, "refused"))
  /\ Keep /\ UNCHANGED <<model, thread, receipt, work, said>>

\* ... checked before, and not in, the transaction that does the work.
AdmitWork(q) ==
  /\ q.op = "work" /\ Holds(ClaimOf(q)) /\ ~TooLate(job[q.job])
  /\ net' = (net \ {q}) \cup {[q EXCEPT !.op = "effect"]}
  /\ Keep /\ UNCHANGED <<turn, model, thread, receipt, work, said>>

\* Mutant: a command whose claim was fenced is answered as done.
ServeEffect_AnswersFenced(q) ==
  /\ q.op = "effect"
  /\ work' = IF Holds(ClaimOf(q)) THEN [work EXCEPT ![q.job] = "done"] ELSE work
  /\ Answer(q, [Then(q, "answered") EXCEPT !.text = WorkReply])
  /\ Keep /\ UNCHANGED <<model, thread, receipt, said>>

ServeEffect(q) ==
  /\ q.op = "effect"
  /\ \/ /\ Holds(ClaimOf(q))
        /\ work' = [work EXCEPT ![q.job] = "done"]
        /\ Answer(q, [Then(q, "answered") EXCEPT !.text = WorkReply])
     \/ /\ Holds(ClaimOf(q)) /\ UNCHANGED work
        /\ Answer(q, [Then(q, "answered") EXCEPT !.text = WorkRefusal])
     \/ ~Holds(ClaimOf(q)) /\ UNCHANGED <<turn, work>>
  /\ Keep /\ UNCHANGED <<model, thread, receipt, said>>

\* An answer past the deadline closes the job; an answer not in the thread, or
\* other than the out-of-hours reply, is refused.
ServeComplete(q) ==
  LET c == ClaimOf(q) IN
  /\ q.op = "complete"
  /\ \/ /\ CommitAnswer(c)
        /\ OutOfHoursReply(job[q.job]) => q.text = Fixed
        /\ MemorySync /\ asks[q.job] = "QUESTION" /\ q.text # Fixed => InThread(q.job, q.text)
        /\ said' = [said EXCEPT ![q.job] = q.text]
        /\ Answer(q, Then(q, "delivering"))
     \/ TooLate(job[q.job]) /\ FailExecution(c) /\ UNCHANGED <<turn, said>>
     \/ Keep /\ UNCHANGED <<turn, said>>
  /\ UNCHANGED <<model, thread, receipt, work>>

ServeFail(q) ==
  /\ \/ q.op = "FAILED" /\ FailExecution(ClaimOf(q))
     \/ q.op = "UNKNOWN" /\ LeaveUnknown(ClaimOf(q))
     \/ q.op \in {"FAILED", "UNKNOWN"} /\ Keep
  /\ UNCHANGED <<turn, model, thread, receipt, work, said>>

\* Core serves a request whenever it arrives; one that is lost changes nothing.
Serve(q) ==
  /\ \/ AdmitWork(q) \/ RefuseWork(q) \/ AppendToThread(q)
     \/ /\ net' = net \ {q}
        /\ \/ ServeRenew(q) \/ ServeStart(q) \/ ServeFinish(q) \/ ServeAppend(q)
           \/ SaveReceipt(q) \/ ServeEffect(q) \/ ServeComplete(q) \/ ServeFail(q)
           \/ Keep /\ UNCHANGED <<turn, model, thread, receipt, work, said>>
  /\ UNCHANGED <<asks, calls, crashes>>
-----------------------------------------------------------------------------
Beside == UNCHANGED <<asks, turn, net, model, calls, thread, receipt, work, said, crashes>>

Core == \/ \E j \in Jobs : ExpireWaiting(j) \/ RequeueClaimed(j)
        \/ \E j \in Jobs, outOfHours \in BOOLEAN :
             now = 0 /\ Admit(j, "RUNTIME", TRUE, ReplyWindow, outOfHours)
        \/ Tick

\* What a turn does by itself: its next call, or giving up on the last one.
Proceed(r) ==
  \/ Prepare(r) \/ RenewTimeOut(r) \/ LeaseCheckFails(r)
  \/ ModelStage(r) \/ StartUncertain(r) \/ Generate(r) \/ FinishUncertain(r)
  \/ WorkStage(r) \/ WorkUncertain(r) \/ ThreadStage(r) \/ AppendUncertain(r)
  \/ Complete(r) \/ CompleteUncertain(r) \/ Deliver(r)

Init ==
  /\ JobsInit /\ account.owner = "RUNTIME"
  /\ asks \in [Jobs -> Asks]
  /\ turn = [r \in Claimants |-> Idle] /\ net = {}
  /\ model = [j \in Jobs |-> NoModel] /\ calls = [j \in Jobs |-> 0]
  /\ thread = [j \in Jobs |-> NoAnswer] /\ receipt = [j \in Jobs |-> NoAnswer]
  /\ work = [j \in Jobs |-> "none"]
  /\ said = [j \in Jobs |-> NoAnswer] /\ crashes = 0

Next ==
  \/ Core /\ Beside
  \/ \E r \in Claimants : \/ \E j \in Jobs : Take(r, j)
                          \/ RenewTimer(r) \/ Proceed(r) \/ Crash(r)
  \/ \E q \in net : Serve(q)

Spec == Init /\ [][Next]_vars
-----------------------------------------------------------------------------
\* Every variable of the turns and of what they leave behind has its type.
TurnTypeOK ==
  /\ asks \in [Jobs -> Asks] /\ turn \in [Claimants -> Turn] /\ net \subseteq Request
  /\ model \in [Jobs -> [state : {"none", "started", "completed"}, by : Nat, text : Texts]]
  /\ calls \in [Jobs -> Nat] /\ {thread, receipt} \subseteq [Jobs -> Texts]
  /\ work \in [Jobs -> {"none", "done"}]
  /\ said \in [Jobs -> Texts] /\ crashes \in Nat

\* The model provider is entered at most once for a message, across executions
\* that lost their lease, crashed replicas and trace calls whose answer was lost
\* (the model stage of runOne).
ModelRunsOnce == \A j \in Jobs : calls[j] <= 1

\* A committed answer rests on its records, whichever execution made them: an answer
\* of the model is the one the trace holds as completed, under memory sync the thread
\* holds an answer and the receipt that very text (assertMemoryAnswerAppended), and
\* the answer to a work command was given because the work was done.
AnswerHasReceipt ==
  \A j \in Jobs :
    /\ said[j] > Fixed => model[j].state = "completed" /\ model[j].text = said[j]
    /\ MemorySync /\ asks[j] = "QUESTION" /\ said[j] \notin {NoAnswer, Fixed} =>
         receipt[j] = said[j] /\ thread[j] # NoAnswer
    /\ said[j] = WorkReply => work[j] = "done"

\* A turn goes on to delivery only over a committed row that says what the turn
\* meant to say, however its completion call was answered.
DeliversWhatWasCommitted ==
  \A r \in Claimants : turn[r].pc = "delivering" =>
    /\ job[turn[r].job].status \notin {"ABSENT", "QUEUED", "CLAIMED"}
    /\ said[turn[r].job] = turn[r].text
=============================================================================
