--------------------------- MODULE LineAdmission ---------------------------
(***************************************************************************)
(* From a signed LINE webhook to the conversation job: the route that      *)
(* records each event as evidence, marks it ADMITTING and answers 2xx, the *)
(* admission that goes on after the answer, and the sweep that admits what *)
(* a stopped process left behind.                                          *)
(*                                                                         *)
(* LINE sends one body of events.  It sends the body again, marked as a    *)
(* redelivery, until it has heard a 2xx.  The evidence key hashes the      *)
(* event as LINE sent it, so the redelivered form is evidence of its own.  *)
(***************************************************************************)
EXTENDS Naturals, Sequences, FiniteSets, SequencesExt

CONSTANTS
  Sweepers,     \* worker ticks that may overlap
  StaleAfter,   \* age at which the sweep takes a row, in minutes
  Gap,          \* LINE waits this long before it redelivers
  MaxTime,      \* bound on the clock
  Plans         \* the bounds of a behaviour: each starts with one of these

\* What admission makes of an event of the body:
\*   ask      a text that calls for a reply, hence for a job
\*   tell     any other message, follow, unfollow or postback: stored, no job
\*   attach   a thread event or unsend: stored only in a conversation that exists
\*   void     an event of an unknown type, without its ids or its text: left aside unread
\*   refused  a text too long, or a thread of another Business: refused each time
Kinds == {"ask", "tell", "attach", "void", "refused"}

\* the events of the body, which but for the refused are of one thread; whether that
\* thread has a conversation already; deliveries of the body; rows a sweep looks at;
\* admission attempts after the first; sweeps; process stops; changes of the
\* account's transport epoch
PlanType == [body : Seq(Kinds) \ {<<>>}, known : BOOLEAN, requests : Nat \ {0},
             take : Nat \ {0}, retries : Nat, sweepers : SUBSET Sweepers, crashes : Nat,
             epochs : Nat]

ASSUME AdmissionAssumption ==
  /\ StaleAfter \in Nat \ {0} /\ Gap \in Nat \ {0}
  /\ MaxTime \in Nat /\ Plans \subseteq PlanType

VARIABLES
  plan,     \* the bounds chosen at the start
  now,      \* minutes
  account,  \* [active, epoch] of the LINE account
  request,  \* the webhook requests
  cont,     \* the admission each request leaves running
  rows,     \* evidence rows
  jobs,     \* jobs created for each event
  stored,   \* the events that are in their conversation
  sweep,    \* what each sweep is doing
  acked,    \* LINE has heard a 2xx
  crashes

vars == <<plan, now, account, request, cont, rows, jobs, stored, sweep, acked, crashes>>
-----------------------------------------------------------------------------
Events   == 1..Len(plan.body)
Kind(e)  == plan.body[e]
Wanted   == {e \in Events : Kind(e) = "ask"}
Requests == 1..plan.requests
Copies   == {"sent", "again"}
Row      == Events \X Copies
Final    == {"ADMITTED", "SKIPPED", "FAILED"}
Status   == {"NONE", "RECEIVED", "ADMITTING"} \cup Final
Verdicts == Final \cup {"OPEN"}

\* Every redelivery carries the same mark, so all of them hash to one row.
Copy(r) == IF r = 1 THEN "sent" ELSE "again"

Request == [pc : {"unsent", "record", "mark", "answer", "over"}, i : Nat, got : Seq(Row),
            bad : BOOLEAN, epoch : Nat, at : Nat]
Cont    == [pc : {"off", "take", "admit", "label"}, i : Nat, try : Nat, verdict : Verdicts]
Sweep   == [pc : {"idle", "read", "admit", "label"}, list : Seq(Row), epoch : Nat,
            verdict : Verdicts]

Unsent == [pc |-> "unsent", i |-> 1, got |-> <<>>, bad |-> FALSE, epoch |-> 0, at |-> 0]
Off    == [pc |-> "off", i |-> 1, try |-> 0, verdict |-> "OPEN"]
Idle   == [pc |-> "idle", list |-> <<>>, epoch |-> 0, verdict |-> "OPEN"]
\* Mutant: a row that is not there has a status of its own.
NoRow_Half == [status |-> "UNSEEN", at |-> 0]

NoRow  == [status |-> "NONE", at |-> 0]

Init ==
  /\ plan \in Plans
  /\ now = 0
  /\ account = [active |-> TRUE, epoch |-> 0]
  /\ request = [r \in Requests |-> Unsent]
  /\ cont = [r \in Requests |-> Off]
  /\ rows = [w \in Row |-> NoRow]
  /\ jobs = [e \in Events |-> 0]
  /\ stored = {}
  /\ sweep = [s \in Sweepers |-> Idle]
  /\ acked = FALSE
  /\ crashes = 0
-----------------------------------------------------------------------------
(* The webhook route. *)

Step(r, f) == request' = [request EXCEPT ![r] = f]

\* The body is verified and the account resolved; an inactive account is refused.
Deliver(r) ==
  /\ request[r].pc = "unsent" /\ ~acked
  /\ now + StaleAfter <= MaxTime
  /\ r > 1 => request[r-1].pc # "unsent" /\ now >= request[r-1].at + Gap
  /\ Step(r, [request[r] EXCEPT !.pc = IF account.active THEN "record" ELSE "over",
                                !.epoch = account.epoch, !.at = now])
  /\ UNCHANGED <<plan, now, account, cont, rows, jobs, stored, sweep, acked, crashes>>

\* One event is recorded, found to be recorded already, or cannot be stored.
Record(r) ==
  LET w == <<request[r].i, Copy(r)>>
      more == IF request[r].i < Len(plan.body) THEN "record" ELSE "mark"
      next == [request[r] EXCEPT !.i = IF more = "mark" THEN 1 ELSE @ + 1, !.pc = more] IN
  /\ request[r].pc = "record"
  /\ \/ /\ rows[w].status = "NONE" => now + StaleAfter <= MaxTime
        /\ Step(r, [next EXCEPT !.got = Append(@, w)])
        /\ rows' = IF rows[w].status = "NONE"
                   THEN [rows EXCEPT ![w] = [status |-> "RECEIVED", at |-> now]] ELSE rows
     \/ /\ Step(r, [next EXCEPT !.bad = TRUE])
        /\ UNCHANGED rows
  /\ UNCHANGED <<plan, now, account, cont, jobs, stored, sweep, acked, crashes>>

\* Mutant: the marker is left to the continuation.
Mark_Skipped(r) ==
  /\ request[r].pc = "mark"
  /\ Step(r, [request[r] EXCEPT !.pc = "answer"])
  /\ UNCHANGED <<plan, now, account, cont, rows, jobs, stored, sweep, acked, crashes>>

\* The marker of one captured event.  A write that fails ends the request with 503,
\* and no admission is left running.
Mark(r) ==
  LET q == request[r] IN
  /\ q.pc = "mark"
  /\ \/ /\ q.i > Len(q.got)
        /\ Step(r, [q EXCEPT !.pc = "answer"])
        /\ UNCHANGED rows
     \/ /\ q.i <= Len(q.got)
        /\ Step(r, [q EXCEPT !.i = @ + 1])
        /\ rows' = [rows EXCEPT ![q.got[q.i]].status = "ADMITTING"]
     \/ /\ q.i <= Len(q.got)
        /\ Step(r, [q EXCEPT !.pc = "over"])
        /\ UNCHANGED rows
  /\ UNCHANGED <<plan, now, account, cont, jobs, stored, sweep, acked, crashes>>

\* Mutant: an event that could not be stored does not spoil the answer.
Accepted_Lenient(q) == TRUE

Accepted(q) == ~q.bad

\* The admission of what was captured starts, nobody waits for it, and LINE is
\* answered.  The answer may come too late for LINE to hear it.
Respond(r) ==
  LET q == request[r] IN
  /\ q.pc = "answer"
  /\ Step(r, [q EXCEPT !.pc = "over"])
  /\ cont' = IF q.got = <<>> THEN cont ELSE [cont EXCEPT ![r] = [Off EXCEPT !.pc = "take"]]
  /\ acked' \in {acked, acked \/ Accepted(q)}
  /\ UNCHANGED <<plan, now, account, rows, jobs, stored, sweep, crashes>>
-----------------------------------------------------------------------------
(* admitLineConversation: one transaction, unless the event is void. *)

Owned(ep) == account.active /\ account.epoch = ep

\* The thread has a conversation: from before, or from an event of the body.
Threaded == plan.known \/ stored # {}

\* Mutant: the job is not looked up before it is created.
Created_Always(e) == jobs[e] + 1

\* Only the first admission of an event creates its job.
Created(e) == IF jobs[e] = 0 THEN 1 ELSE jobs[e]

Keeps(e) == Kind(e) \in {"ask", "tell"} \/ (Kind(e) = "attach" /\ Threaded)

Commit(e) ==
  /\ jobs' = IF e \in Wanted THEN [jobs EXCEPT ![e] = Created(e)] ELSE jobs
  /\ stored' = IF Keeps(e) THEN stored \cup {e} ELSE stored

Nothing == UNCHANGED <<jobs, stored>>

\* The event whose transaction commits under the account that took it, unless it fails.
Lands(e) == Kind(e) \notin {"void", "refused"}

Landed(e) == IF e \in Wanted THEN "ADMITTED" ELSE "SKIPPED"

\* A label whose write fails is lost without notice.
Label(w, status) == rows' \in {rows, [rows EXCEPT ![w].status = status]}
-----------------------------------------------------------------------------
(* admitCapturedLineEvents, after the answer. *)

Current(r) == request[r].got[cont[r].i]

TakeUp(r) ==
  /\ cont[r].pc = "take"
  /\ cont' = [cont EXCEPT ![r].pc = "admit"]
  /\ Label(Current(r), "ADMITTING")
  /\ UNCHANGED <<plan, now, account, request, jobs, stored, sweep, acked, crashes>>

Decide(r, v) == cont' = [cont EXCEPT ![r].pc = "label", ![r].verdict = v]

\* Mutant: the last transient failure is reported like a refusal.
Failed_Hidden(r) == IF cont[r].try < plan.retries THEN cont' = [cont EXCEPT ![r].try = @ + 1]
                    ELSE Decide(r, "SKIPPED")

\* A failure that may pass is tried again, the last one is labelled.
Failed(r) == IF cont[r].try < plan.retries THEN cont' = [cont EXCEPT ![r].try = @ + 1]
             ELSE Decide(r, "FAILED")

\* It lands, is left aside or refused for good, or fails: before its commit or, when the
\* commit's answer is lost, after it.  A void event reads nothing and cannot fail.
Admit(r) ==
  LET e == Current(r)[1]
      owned == Owned(request[r].epoch) IN
  /\ cont[r].pc = "admit"
  /\ \/ Lands(e) /\ owned /\ Commit(e) /\ Decide(r, Landed(e))
     \/ (~Lands(e) \/ ~owned) /\ Nothing /\ Decide(r, "SKIPPED")
     \/ Lands(e) /\ owned /\ Commit(e) /\ Failed(r)
     \/ Kind(e) # "void" /\ Nothing /\ Failed(r)
  /\ UNCHANGED <<plan, now, account, request, rows, sweep, acked, crashes>>

Finish(r) ==
  /\ cont[r].pc = "label"
  /\ Label(Current(r), cont[r].verdict)
  /\ cont' = [cont EXCEPT ![r] = IF @.i < Len(request[r].got)
                                 THEN [Off EXCEPT !.pc = "take", !.i = cont[r].i + 1] ELSE Off]
  /\ UNCHANGED <<plan, now, account, request, jobs, stored, sweep, acked, crashes>>
-----------------------------------------------------------------------------
(* reconcileAbandonedLineAdmissions, on every worker tick. *)

Stale == {w \in Row : rows[w].status = "ADMITTING" /\ rows[w].at + StaleAfter <= now}

\* The oldest stale rows, at most plan.take of them.
Candidates ==
  LET n == IF Cardinality(Stale) < plan.take THEN Cardinality(Stale) ELSE plan.take IN
  {q \in [1..n -> Stale] : /\ IsInjective(q)
                           /\ \A i \in 1..n : \A w \in Stale :
                                rows[w].at < rows[q[i]].at => \E k \in 1..(i-1) : q[k] = w}

Look(s) ==
  /\ s \in plan.sweepers /\ sweep[s].pc = "idle" /\ Stale # {}
  /\ \E q \in Candidates : sweep' = [sweep EXCEPT ![s] = [Idle EXCEPT !.pc = "read", !.list = q]]
  /\ UNCHANGED <<plan, now, account, request, cont, rows, jobs, stored, acked, crashes>>

SweepDecides(s, v) == sweep' = [sweep EXCEPT ![s].pc = "label", ![s].verdict = v]

\* The row's account as it is now; a failing read is labelled like any other.
ReadAccount(s) ==
  /\ sweep[s].pc = "read"
  /\ \/ sweep' = [sweep EXCEPT ![s].pc = "admit", ![s].epoch = account.epoch]
     \/ SweepDecides(s, "FAILED")
  /\ UNCHANGED <<plan, now, account, request, cont, rows, jobs, stored, acked, crashes>>

\* Whatever the admission throws, a refusal for good included, the row is FAILED: the
\* sweep tries once.
SweepAdmit(s) ==
  LET e == Head(sweep[s].list)[1]
      owned == Owned(sweep[s].epoch) IN
  /\ sweep[s].pc = "admit"
  /\ \/ Kind(e) = "void" /\ Nothing /\ SweepDecides(s, "SKIPPED")
     \/ Lands(e) /\ owned /\ Commit(e) /\ SweepDecides(s, Landed(e))
     \/ Lands(e) /\ owned /\ Commit(e) /\ SweepDecides(s, "FAILED")
     \/ Kind(e) # "void" /\ Nothing /\ SweepDecides(s, "FAILED")
  /\ UNCHANGED <<plan, now, account, request, cont, rows, acked, crashes>>

SweepLabel(s) ==
  /\ sweep[s].pc = "label"
  /\ Label(Head(sweep[s].list), sweep[s].verdict)
  /\ sweep' = [sweep EXCEPT ![s] = IF Len(@.list) > 1
                                   THEN [Idle EXCEPT !.pc = "read", !.list = Tail(sweep[s].list)]
                                   ELSE Idle]
  /\ UNCHANGED <<plan, now, account, request, cont, jobs, stored, acked, crashes>>
-----------------------------------------------------------------------------
(* The account, the clock and process stops. *)

Pause ==
  /\ account.active /\ account.epoch < plan.epochs
  /\ account' = [active |-> FALSE, epoch |-> account.epoch + 1]
  /\ UNCHANGED <<plan, now, request, cont, rows, jobs, stored, sweep, acked, crashes>>

Resume ==
  /\ ~account.active
  /\ account' = [account EXCEPT !.active = TRUE]
  /\ UNCHANGED <<plan, now, request, cont, rows, jobs, stored, sweep, acked, crashes>>

Tick ==
  /\ now < MaxTime
  /\ now' = now + 1
  /\ UNCHANGED <<plan, account, request, cont, rows, jobs, stored, sweep, acked, crashes>>

\* Requests being served, admissions and sweeps end where they are.
Crash ==
  /\ crashes < plan.crashes
  /\ crashes' = crashes + 1
  /\ request' = [r \in Requests |->
       IF request[r].pc = "unsent" THEN request[r] ELSE [request[r] EXCEPT !.pc = "over"]]
  /\ cont' = [r \in Requests |-> Off]
  /\ sweep' = [s \in Sweepers |-> Idle]
  /\ UNCHANGED <<plan, now, account, rows, jobs, stored, acked>>

Route(r)   == Record(r) \/ Mark(r) \/ Respond(r)
Admission(r) == TakeUp(r) \/ Admit(r) \/ Finish(r)
Sweeping(s)  == Look(s) \/ ReadAccount(s) \/ SweepAdmit(s) \/ SweepLabel(s)

Next ==
  \/ \E r \in Requests : Deliver(r) \/ Route(r) \/ Admission(r)
  \/ \E s \in Sweepers : Sweeping(s)
  \/ Pause \/ Resume \/ Tick \/ Crash

\* The ticker fires about once a second for ever, so one sweep after another runs;
\* nothing promises that LINE redelivers or that a continuation survives.  A label
\* the sweep keeps writing is written in the end.
Fairness == WF_now(Tick) /\ \A s \in Sweepers : WF_sweep(Sweeping(s)) /\ SF_rows(SweepLabel(s))

Spec == Init /\ [][Next]_vars
LiveSpec == Spec /\ Fairness
-----------------------------------------------------------------------------
(* Properties. *)

\* Types.
TypeOK ==
  /\ plan \in Plans
  /\ now \in 0..MaxTime
  /\ account \in [active : BOOLEAN, epoch : 0..plan.epochs]
  /\ request \in [Requests -> Request]
  /\ cont \in [Requests -> Cont]
  /\ rows \in [Row -> [status : Status, at : Nat]]
  /\ jobs \in [Events -> Nat] /\ stored \subseteq Events
  /\ sweep \in [Sweepers -> Sweep]
  /\ acked \in BOOLEAN /\ crashes \in 0..plan.crashes

\* A 2xx that LINE heard means every event of the body is where the sweep finds
\* it or already labelled, whatever stopped since and whichever sibling could
\* not be stored: the promise of the webhook's outbox marker.
AckedIsRecoverable ==
  acked => \A e \in Events : \E c \in Copies : rows[<<e, c>>].status \in {"ADMITTING"} \cup Final

\* Retries, a redelivery, the sweep and a lost commit answer, in any overlap,
\* create one job for an event and none for an event that wants no reply.
OneJob == \A e \in Events : jobs[e] <= (IF e \in Wanted THEN 1 ELSE 0)

\* A label never hides a loss.  ADMITTED has its job and its message.  SKIPPED is an
\* event that wants no reply and is in its conversation, one that had no conversation
\* to attach to, one left aside unread or refused on its own account, or one the
\* changed account refused: a text that asks is never skipped for any other reason.
LabelsTell ==
  \A w \in Row :
    /\ rows[w].status = "ADMITTED" => jobs[w[1]] > 0 /\ w[1] \in stored
    /\ rows[w].status = "SKIPPED" =>
         \/ w[1] \in stored /\ w[1] \notin Wanted
         \/ Kind(w[1]) = "attach" /\ ~plan.known
         \/ Kind(w[1]) \in {"void", "refused"}
         \/ account.epoch > 0

\* What LINE handed over does not stay in between: in the end each event is in
\* its conversation with the job it wants, or a row says why not, even when
\* every process that took it up stopped.
AckedSettles ==
  acked ~> \A e \in Events : \/ e \in stored /\ (e \in Wanted => jobs[e] > 0)
                             \/ \E c \in Copies : rows[<<e, c>>].status \in {"SKIPPED", "FAILED"}
=============================================================================
