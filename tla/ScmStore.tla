------------------------------ MODULE ScmStore ------------------------------
(***************************************************************************)
(* The supply-chain service's transactional store and command bus.         *)
(*                                                                         *)
(* Every mutation is one unit of work: a PostgreSQL transaction at READ    *)
(* COMMITTED that looks up the receipt of its idempotency key, runs the    *)
(* statements of the command and writes the receipt before it commits.     *)
(* One process runs one unit at a time; several processes run side by      *)
(* side.  A statement sees what is committed when it runs plus the unit's  *)
(* own writes; an updated row and a human code being inserted stay locked  *)
(* until the unit ends; a collision on a unique code or on the receipt     *)
(* re-runs the unit from its start, MaxAttempts times.                     *)
(*                                                                         *)
(* Tables are sequences.  A row of a table with human codes (order,        *)
(* payment, hold, receipt) stands at the index its code numbers.           *)
(***************************************************************************)
EXTENDS Naturals, Integers, Sequences, FiniteSets

CONSTANTS
  Processes,     \* processes of the service, each with one connection
  Scenarios,     \* what the callers ask, of which database: [db, calls, until]
  MaxAttempts,   \* runs of one unit before it answers SCM_CONCURRENT_CONFLICT
  MaxCalls,      \* times a caller sends one request under its key
  Nothing

ASSUME StoreAssumption ==
  /\ MaxAttempts \in Nat \ {0} /\ MaxCalls \in Nat \ {0}
  /\ \A s \in Scenarios : s.until \in Nat

VARIABLES
  db,        \* the committed tables
  receipt,   \* the committed operation receipts: key -> the request it names
  unit,      \* per process, the unit of work it runs
  told,      \* per request, the last definite answer its caller has
  sent,      \* per request, how often its caller has sent it
  now,
  scene      \* the scenario of this behaviour

store == <<db, receipt, unit, told, sent, now, scene>>

Tables == {"ledger", "fence", "orders", "pays", "holds", "counts", "pos", "grns", "works"}
Coded  == {"orders", "pays", "holds", "grns"}

NoRows == [t \in Tables |-> <<>>]
NoUnit == [pc |-> 0, calls |-> Nothing, run |-> 0, at |-> 0, want |-> 0, seen |-> Nothing,
           due |-> {}, new |-> NoRows, set |-> <<>>]

StoreInit ==
  /\ scene \in Scenarios
  /\ db = scene.db
  /\ receipt = <<>>
  /\ unit = [p \in Processes |-> NoUnit]
  /\ told = [q \in scene.calls |-> "NONE"]
  /\ sent = [q \in scene.calls |-> 0]
  /\ now = 0

-----------------------------------------------------------------------------
\* What a statement of p reads, and what it may write.

Overlay(p, t) ==
  [i \in 1..Len(db[t]) |->
     IF <<t, i>> \in DOMAIN unit[p].set THEN unit[p].set[<<t, i>>] ELSE db[t][i]]

Rows(p, t) == Overlay(p, t) \o unit[p].new[t]

Exists(p, t, i) == i \in 1..Len(Rows(p, t))

LockedByPeer(p, t, i) ==
  \E o \in Processes \ {p} : <<t, i>> \in DOMAIN unit[o].set

\* Another unit has inserted the next code of t and has not ended.
CodeHeldByPeer(p, t) ==
  \E o \in Processes \ {p} : unit[o].new[t] # <<>>

Updated(u, t, i, row) ==
  [u EXCEPT !.set = [k \in DOMAIN u.set \cup {<<t, i>>} |-> IF k = <<t, i>> THEN row ELSE u.set[k]]]
Appended(u, t, row)   == [u EXCEPT !.new[t] = Append(@, row)]

\* The next statement of the program.
Then(u) == [u EXCEPT !.pc = @ + 1, !.want = 0]

Becomes(p, u) ==
  /\ unit' = [unit EXCEPT ![p] = u]
  /\ UNCHANGED <<db, receipt, told, sent, now, scene>>

\* ROLLBACK with a refusal the caller must not resend as it is.
Refuse(p) ==
  /\ unit' = [unit EXCEPT ![p] = NoUnit]
  /\ told' = [told EXCEPT ![unit[p].calls] = "REFUSED"]
  /\ UNCHANGED <<db, receipt, sent, now, scene>>

\* ROLLBACK with a retryable answer, or with none.
GiveUp(p) == Becomes(p, NoUnit)

\* The same with one run too many.
Rerun_Extra(p) ==
  IF unit[p].run <= MaxAttempts
  THEN Becomes(p, [NoUnit EXCEPT !.calls = unit[p].calls, !.run = unit[p].run + 1])
  ELSE GiveUp(p)

\* ROLLBACK after a unique violation: the whole unit runs again.
Rerun(p) ==
  IF unit[p].run < MaxAttempts
  THEN Becomes(p, [NoUnit EXCEPT !.calls = unit[p].calls, !.run = unit[p].run + 1])
  ELSE GiveUp(p)

\* Insert a row under the next free code.  A peer's uncommitted row holds that
\* code: the insert waits, and collides if the peer commits.
InsertCoded(p, t, row, u) ==
  \/ /\ ~CodeHeldByPeer(p, t)
     /\ unit[p].want <= Len(db[t]) => unit[p].want = 0
     /\ Becomes(p, Then(Appended(u, t, row)))
  \/ /\ unit[p].want = 0
     /\ CodeHeldByPeer(p, t)
     /\ Becomes(p, [unit[p] EXCEPT !.want = Len(db[t]) + 1])
  \/ /\ unit[p].want \in 1..Len(db[t])
     /\ Rerun(p)

\* UPDATE ... WHERE id AND version: waits for the row, then judges the row as
\* its last writer left it.  No row changed is a refusal, or a retryable answer.
Cas(p, t, i, holds, row, retryable) ==
  /\ ~LockedByPeer(p, t, i)
  /\ IF holds THEN Becomes(p, Then(Updated(unit[p], t, i, row)))
     ELSE IF retryable THEN GiveUp(p) ELSE Refuse(p)

-----------------------------------------------------------------------------
\* The command bus.

\* A caller sends a request, or sends it again because no definite answer came:
\* the first copy may still be running.
Send(p, q) ==
  /\ unit[p].run = 0
  /\ told[q] = "NONE" /\ sent[q] < MaxCalls
  /\ sent' = [sent EXCEPT ![q] = @ + 1]
  /\ unit' = [unit EXCEPT ![p].calls = q, ![p].run = 1]
  /\ UNCHANGED <<db, receipt, told, now, scene>>

Stored(q) == q.key \in DOMAIN receipt

\* A receipt that is taken for the request's own whatever it names.
Look_AnyRequest(p) ==
  LET q == unit[p].calls IN
  /\ unit[p].run > 0 /\ unit[p].pc = 0
  /\ IF ~Stored(q) THEN Becomes(p, Then([unit[p] EXCEPT !.at = now]))
     ELSE /\ unit' = [unit EXCEPT ![p] = NoUnit]
          /\ \E reply \in BOOLEAN : told' = [told EXCEPT ![q] = IF reply THEN "DONE" ELSE @]
          /\ UNCHANGED <<db, receipt, sent, now, scene>>

\* BEGIN, and the receipt of the key: the stored outcome, a conflict when the key
\* was used for another request, or the command itself, whose time is read here.
Look(p) ==
  LET q == unit[p].calls IN
  /\ unit[p].run > 0 /\ unit[p].pc = 0
  /\ IF ~Stored(q) THEN Becomes(p, Then([unit[p] EXCEPT !.at = now]))
     ELSE /\ unit' = [unit EXCEPT ![p] = NoUnit]
          /\ \E reply \in BOOLEAN :
               told' = [told EXCEPT ![q] =
                 IF ~reply THEN @ ELSE IF receipt[q.key] = q THEN "DONE" ELSE "REFUSED"]
          /\ UNCHANGED <<db, receipt, sent, now, scene>>

\* Receipts without their unique key.
Commit_Unkeyed(p) ==
  LET q == unit[p].calls IN
  /\ db' = [t \in Tables |-> Rows(p, t)]
  /\ receipt' = [k \in DOMAIN receipt \cup {q.key} |-> IF k = q.key THEN q ELSE receipt[k]]
  /\ unit' = [unit EXCEPT ![p] = NoUnit]
  /\ told' = [told EXCEPT ![q] = "DONE"]
  /\ UNCHANGED <<sent, now, scene>>

\* The receipt, in the same unit, then COMMIT; the reply may be lost.
Commit(p) ==
  LET q == unit[p].calls IN
  IF Stored(q) THEN Rerun(p)
  ELSE /\ db' = [t \in Tables |-> Rows(p, t)]
       /\ receipt' = [k \in DOMAIN receipt \cup {q.key} |->
                       IF k = q.key THEN q ELSE receipt[k]]
       /\ unit' = [unit EXCEPT ![p] = NoUnit]
       /\ \E reply \in BOOLEAN :
            told' = [told EXCEPT ![q] = IF reply THEN "DONE" ELSE @]
       /\ UNCHANGED <<sent, now, scene>>

\* A lock wait that times out, a deadlock's victim past its attempts, a lost
\* connection or a killed process: nothing of the unit stays.
Fail(p) ==
  /\ unit[p].run > 0
  /\ GiveUp(p)

Tick ==
  /\ now < scene.until
  /\ now' = now + 1
  /\ UNCHANGED <<db, receipt, unit, told, sent, scene>>
=============================================================================
