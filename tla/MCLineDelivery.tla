--------------------------- MODULE MCLineDelivery ---------------------------
(***************************************************************************)
(* Small instances of LineDelivery.  The full next-state relation is too   *)
(* wide for one run, so each run keeps every action of the part it is      *)
(* about and narrows the others.                                           *)
(***************************************************************************)
EXTENDS LineDelivery, TLC

Alike == Permutations(Senders)
Pair == Permutations(Claimants)

Admitted(j) == job[j].status = "ABSENT" /\ job'[j].status # "ABSENT"

\* Nobody erases or acknowledges.
Untouched ==
  \A j \in Jobs : job'[j].error \notin {"PDPA_ERASURE", "ACKNOWLEDGED"}

-----------------------------------------------------------------------------
\* Sending: events are admitted at time 0 to the account's own cohort.  The
\* server cohort sends an out-of-hours reply, READY from the start; the runtime
\* cohort sends the answer of an execution that takes no time and succeeds.
AtOnce ==
  \A j \in Jobs :
    /\ Admitted(j) =>
         /\ now = 0 /\ job'[j].owner = account.owner
         /\ IF account.owner = "SERVER" THEN job'[j].status = "READY"
            ELSE job'[j].answer = NoAnswer /\ job'[j].replyExp \in {NoTime, ReplyWindow}
    /\ job[j].status \in {"QUEUED", "CLAIMED"} =>
         now' = now /\ job'[j].error = "NONE"

SendingSpec == Init /\ [][Next /\ AtOnce /\ Untouched]_vars

-----------------------------------------------------------------------------
\* Fencing: account actions, erasure and acknowledgement against one sender.
\* Admission is at time 0 and every reply token has its whole window.
Early ==
  \A j \in Jobs : Admitted(j) =>
    now = 0 /\ job'[j].replyExp \in {NoTime, ReplyWindow}

FencingSpec == Init /\ [][Next /\ Early]_vars

-----------------------------------------------------------------------------
\* Settling: after Horizon the clock waits for the steps that are due, so that
\* the bound on the clock never stops a job half way.
CONSTANT Horizon

Due ==
  \/ \E s \in Senders : snd[s].pc # "idle"
  \/ \E j \in Jobs :
       \/ job[j].status = "ACCEPTED"
       \/ job[j].status \in {"CLAIMED", "SENDING"} /\ job[j].lease <= now
       \/ job[j].status \in Waiting /\ job[j].first = NoTime /\ job[j].expires <= now
       \/ job[j].status = "READY" /\ job[j].owner = "SERVER" /\ job[j].avail <= now
       \/ Offered(j)

TimelyAdvance == (now < Horizon \/ ~Due) /\ Advance

SettlingNext == (Step /\ Early /\ Untouched) \/ TimelyAdvance
SettlingSpec ==
  Init /\ [][SettlingNext]_vars /\ Fairness /\ WF_vars(TimelyAdvance)
=============================================================================
