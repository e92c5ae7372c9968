-------------------------- MODULE SupplyChainProofs -------------------------
(***************************************************************************)
(* The safety of the supply-chain service, for any number of processes,    *)
(* scenes, requests, copies and attempts.                                  *)
(*                                                                         *)
(* Statements keep units in order and apart (SupplyChainUnits).  COMMIT    *)
(* makes the database what its unit reads, which is Sound (CommitSound),   *)
(* and leaves its peers in order, for what they noted is of rows they hold *)
(* a lock of, or of a version that a compare will miss (PeerLocal).  So    *)
(* the database is Sound and every unit in order whatever is sent, run,    *)
(* cut off or re-run (Invariance), and a receipt, whose key is the         *)
(* request's, is there with the whole effect of its unit, or not at all    *)
(* (CommitOnce).                                                           *)
(*                                                                         *)
(* Holds: what binds a reader was bound when it asked under the fence and  *)
(* is so until its own COMMIT (HoldsKept), so a placed hold fits.          *)
(*                                                                         *)
(* Documents: Told says what a unit's movements, receipts and sales are    *)
(* made for, and that a purchase order is counted as it is at the version  *)
(* that was seen.  COMMIT adds them to weights the properties compare, and *)
(* moves the one document they are made for (OrdersKept, PurchasesKept,    *)
(* WorksKept, HoldsMatched), so the documents stay Matched.                *)
(***************************************************************************)
EXTENDS SupplyChainUnits

-----------------------------------------------------------------------------
\* Units that have written nothing.

\* A unit before its first statement.
Blank(u, n) ==
  /\ u.pc \in 0..1 /\ u.at \in 0..n /\ (u.run = 0 => u.pc = 0)
  /\ u.new = NoRows /\ DOMAIN u.set = {}

\* A unit that has written nothing is in order on every sound database,
LEMMA BlankLocal ==
  ASSUME NEW u, NEW d, NEW n, Sound(d), Blank(u, n)
  PROVE  Local(u, d, n)
<1>1. DOMAIN u.new = Tables /\ \A t \in Tables : u.new[t] = <<>>
  BY DEF Blank, NoRows
<1>2. Fit(u, d, n)
  <2>1. \A t \in Tables : u.new[t] \in Seq(Row[t])
    <3>1. \A S : <<>> \in Seq(S)
      BY EmptySeq
    <3> QED BY ZenonT(40), <1>1, <3>1
  <2> QED BY <1>1, <2>1 DEF Fit, Blank
<1>3. Clean(u)
  BY DEF Clean, Blank
<1>4. Written(u)
  <2>1. \A t \in Keyed : t \in Tables
    BY DEF Keyed, Tables
  <2>2. \A t \in Keyed : ~(u.pc > Slot(u.calls.op, t))
    BY DEF Blank, Slot
  <2>3. \A t \in Keyed : u.new[t] = <<>> /\ Len(u.new[t]) = 0
    BY <1>1, <2>1
  <2>4. u.new.fence = <<>> /\ u.new.pos = <<>> /\ u.new.works = <<>> /\ u.new.counts = <<>>
    BY <1>1 DEF Tables
  <2> QED BY <2>2, <2>3, <2>4 DEF Written
<1>5. \A ops : ~Past(u, ops, 1) /\ ~Past(u, ops, 2)
  BY DEF Past, Blank
<1>6. Noted(u, d)
  BY <1>5 DEF Noted
<1>7. Changed(u, d)
  BY DEF Changed, Blank
<1>8. Guarded(u)
  BY <1>1 DEF Guarded, Tables, Blank
<1>9. Stocked(View(u, d))
  <2>1. \A t \in Tables : View(u, d)[t] = d[t]
    BY ViewClean DEF Sound, Blank
  <2>2. View(u, d).ledger = d.ledger /\ View(u, d).counts = d.counts /\ View(u, d).fence = d.fence
    BY <2>1 DEF Tables
  <2>3. Stocked(d)
    BY DEF Stocked, Sound, Named, Refers
  <2>4. PICK e : e = View(u, d)
    OBVIOUS
  <2>5. e.ledger = d.ledger /\ e.counts = d.counts /\ e.fence[1].ver = d.fence[1].ver
    BY <2>2, <2>4
  <2>6. Stocked(e)
    BY ONLY <2>3, <2>5, StockedSame
  <2> QED BY <2>4, <2>6
<1>10. Backed(u, d)
  <2>1. u.new["pays"] = <<>>
    BY <1>1 DEF Tables
  <2> QED BY <1>5, <2>1, BackedNone
<1> QED BY <1>2, <1>3, <1>4, <1>6, <1>7, <1>8, <1>9, <1>10 DEF Local

\* and apart from every other.
LEMMA BlankApart ==
  ASSUME NEW u, NEW w, NEW n, Blank(u, n)
  PROVE  Apart(u, w) /\ Apart(w, u)
BY DEF Blank, Apart, NoRows, Coded, Tables

\* No unit is blank, and so is one that runs again.
LEMMA FreshBlank ==
  ASSUME NEW n \in Nat, NEW q, NEW k, k > 0
  PROVE  Blank(NoUnit, n) /\ Blank([NoUnit EXCEPT !.calls = q, !.run = k], n)
BY DEF Blank, NoUnit

\* Being apart is mutual.
LEMMA ApartMutual == ASSUME NEW u, NEW w, Apart(u, w) PROVE Apart(w, u)
BY DEF Apart

\* A unit that waits while time passes stands.
LEMMA LaterLocal ==
  ASSUME NEW u, NEW d, NEW n \in Nat, Local(u, d, n)
  PROVE  Local(u, d, n + 1)
BY DEF Local, Fit

-----------------------------------------------------------------------------
\* The units of work in order.

InOrder ==
  /\ Sound(db)
  /\ \A p \in Processes : Local(unit[p], db, now)
  /\ \A p, o \in Processes : p # o => Apart(unit[p], unit[o])

\* One unit goes on, the database as it is.
LEMMA OneGoesOn ==
  ASSUME InOrder, NEW p \in Processes, NEW v, DOMAIN unit = Processes,
         unit' = [unit EXCEPT ![p] = v], db' = db, now' = now,
         Local(v, db, now), \A o \in Processes \ {p} : Apart(v, unit[o])
  PROVE  InOrder'
<1>1. unit'[p] = v /\ \A o \in Processes \ {p} : unit'[o] = unit[o]
  OBVIOUS
<1>2. Sound(db')
  BY DEF InOrder
<1>3. ASSUME NEW o \in Processes PROVE Local(unit'[o], db', now')
  BY <1>1 DEF InOrder
<1>4. ASSUME NEW a \in Processes, NEW b \in Processes, a # b PROVE Apart(unit'[a], unit'[b])
  <2>1. CASE a = p
    BY <1>1, <1>4, <2>1
  <2>2. CASE b = p
    <3>1. Apart(v, unit[a])
      BY <1>4, <2>2
    <3>2. Apart(unit[a], v)
      BY <3>1, ApartMutual
    <3> QED BY <1>1, <1>4, <2>2, <3>2
  <2>3. CASE a # p /\ b # p
    BY <1>1, <1>4, <2>3 DEF InOrder
  <2> QED BY <2>1, <2>2, <2>3
<1> QED BY <1>2, <1>3, <1>4 DEF InOrder

\* One unit ends or begins.
LEMMA OneBegins ==
  ASSUME InOrder, now \in Nat, NEW p \in Processes, NEW v, DOMAIN unit = Processes,
         unit' = [unit EXCEPT ![p] = v], db' = db, now' = now, Blank(v, now)
  PROVE  InOrder'
<1>1. Local(v, db, now)
  BY BlankLocal DEF InOrder
<1>2. \A o \in Processes \ {p} : Apart(v, unit[o])
  BY BlankApart
<1> QED BY ZenonT(40), <1>1, <1>2, OneGoesOn

-----------------------------------------------------------------------------
\* The steps before COMMIT keep the units in order.

\* What a caller asks is a request, and time is a number.
LEMMA SceneFacts ==
  ASSUME BusInv
  PROVE  /\ scene.calls \subseteq Request /\ now \in Nat /\ UnitsShaped
         /\ DOMAIN unit = Processes
         /\ \A p \in Processes : unit[p].run > 0 => unit[p].calls \in Request
<1>1. scene \in Scenarios /\ scene.until \in Nat /\ now \in 0..scene.until
  BY StoreAssumption DEF BusInv, Heard
<1>2. scene.calls \subseteq Request
  BY <1>1, ScenarioAssumption
<1>3. now \in Nat
  BY <1>1
<1> QED BY <1>2, <1>3 DEF BusInv, Running, UnitsShaped

\* A unit at a statement is in the context the statements need.
LEMMA ContextHolds ==
  ASSUME BusInv, InOrder, NEW p \in Processes,
         unit[p].run > 0, unit[p].pc \in 1..Len(Steps(p))
  PROVE  Context(p)
<1>1. /\ UnitsShaped /\ now \in Nat /\ Shaped(unit[p]) /\ unit[p].calls \in Request
  BY SceneFacts DEF UnitsShaped
<1>2. Sound(db) /\ Local(unit[p], db, now)
  BY DEF InOrder
<1>3. Ready(unit[p], db, now)
  BY <1>1, <1>2 DEF Ready, Steps, Call
<1>4. \A o \in Processes \ {p} : Apart(unit[p], unit[o]) /\ Guarded(unit[o])
  BY DEF InOrder, Local
<1> QED BY <1>1, <1>3, <1>4 DEF Context

\* A unit that has ended leaves the others in order, and so does one that runs again.
LEMMA LeavesInOrder ==
  ASSUME BusInv, InOrder, NEW p \in Processes, Refuse(p) \/ GiveUp(p) \/ Rerun(p)
  PROVE  InOrder' /\ UNCHANGED <<db, receipt>>
<1>1. now \in Nat /\ DOMAIN unit = Processes
  BY SceneFacts
<1>2. unit[p].run \in Nat
  BY StoreAssumption DEF BusInv, Heard
<1>3. unit[p].run + 1 > 0
  BY <1>2
<1>4. Blank(NoUnit, now)
      /\ Blank([NoUnit EXCEPT !.calls = unit[p].calls, !.run = unit[p].run + 1], now)
  BY ZenonT(40), <1>1, <1>3, FreshBlank
<1>5. CASE Refuse(p)
  <2>1. unit' = [unit EXCEPT ![p] = NoUnit] /\ UNCHANGED <<db, receipt, now>>
    BY <1>5 DEF Refuse
  <2> QED BY ZenonT(40), <1>1, <1>4, <2>1, OneBegins
<1>6. CASE GiveUp(p)
  <2>1. unit' = [unit EXCEPT ![p] = NoUnit] /\ UNCHANGED <<db, receipt, now>>
    BY <1>6 DEF GiveUp, Becomes
  <2> QED BY <1>1, <1>4, <2>1, OneBegins
<1>7. CASE Rerun(p)
  <2>1. CASE unit[p].run < MaxAttempts
    <3>1. unit' = [unit EXCEPT ![p] = [NoUnit EXCEPT !.calls = unit[p].calls, !.run = unit[p].run + 1]]
          /\ UNCHANGED <<db, receipt, now>>
      BY <1>7, <2>1 DEF Rerun, Becomes
    <3> QED BY ZenonT(40), <1>1, <1>4, <3>1, OneBegins
  <2>2. CASE ~(unit[p].run < MaxAttempts)
    <3>1. GiveUp(p)
      BY <1>7, <2>2 DEF Rerun
    <3> QED BY <1>6, <3>1
  <2> QED BY <2>1, <2>2
<1> QED BY <1>5, <1>6, <1>7

\* A statement keeps the units in order.
LEMMA StatementInOrder ==
  ASSUME BusInv, InOrder, NEW p \in Processes,
         InventoryStatement(p) \/ CommerceStatement(p) \/ DocumentStatement(p)
  PROVE  InOrder' /\ UNCHANGED <<db, receipt>>
<1>1. unit[p].run > 0 /\ unit[p].pc \in 1..Len(Steps(p))
  BY DEF InventoryStatement, CommerceStatement, DocumentStatement, At
<1>2. Context(p)
  BY <1>1, ContextHolds
<1>3. Progress(p)
  BY <1>2, StatementProgress
<1>4. CASE \E v : Follows(p, v)
  <2>1. PICK v : Follows(p, v)
    BY <1>4
  <2>2. /\ unit' = [unit EXCEPT ![p] = v] /\ UNCHANGED <<db, receipt, now>>
        /\ Local(v, db, now) /\ \A o \in Processes \ {p} : Apart(v, unit[o])
    BY <2>1 DEF Follows, Becomes
  <2>3. DOMAIN unit = Processes
    BY SceneFacts
  <2> QED BY ZenonT(40), <2>2, <2>3, OneGoesOn
<1> QED BY <1>3, <1>4, LeavesInOrder DEF Progress

\* A request that is sent has written nothing yet.
LEMMA SendInOrder ==
  ASSUME BusInv, InOrder, NEW p \in Processes, NEW q, Send(p, q)
  PROVE  InOrder' /\ UNCHANGED <<db, receipt>>
<1>1. PICK u : u = [unit[p] EXCEPT !.calls = q, !.run = 1]
  OBVIOUS
<1>2. now \in Nat /\ DOMAIN unit = Processes /\ Shaped(unit[p])
  BY SceneFacts DEF UnitsShaped
<1>3. u.pc = unit[p].pc /\ u.at = unit[p].at /\ u.run = 1 /\ u.new = unit[p].new /\ u.set = unit[p].set
  BY <1>1, <1>2, Fields DEF Shaped
<1>4. unit[p].run = 0 /\ Clean(unit[p]) /\ Fit(unit[p], db, now)
  BY DEF Send, InOrder, Local
<1>5. Blank(u, now)
  <2>1. unit[p].pc = 0 /\ unit[p].new = NoRows /\ DOMAIN unit[p].set = {}
    BY <1>4 DEF Clean
  <2>2. unit[p].at \in 0..now
    BY <1>4 DEF Fit
  <2> QED BY <1>3, <2>1, <2>2 DEF Blank
<1>6. unit' = [unit EXCEPT ![p] = u] /\ UNCHANGED <<db, receipt, now>>
  BY ZenonT(40), <1>1, <1>2 DEF Send
<1> QED BY ZenonT(40), <1>2, <1>5, <1>6, OneBegins

\* A look-up begins the command, or ends the unit.
LEMMA LookInOrder ==
  ASSUME BusInv, InOrder, NEW p \in Processes, Look(p)
  PROVE  InOrder' /\ UNCHANGED <<db, receipt>>
<1>1. now \in Nat /\ DOMAIN unit = Processes /\ Shaped(unit[p])
  BY SceneFacts DEF UnitsShaped
<1>2. unit[p].run > 0 /\ unit[p].pc = 0 /\ Clean(unit[p]) /\ unit[p].run \in Nat
  BY StoreAssumption DEF Look, InOrder, Local, BusInv, Heard
<1>3. CASE ~Stored(unit[p].calls)
  <2>1. PICK u, v : u = [unit[p] EXCEPT !.at = now] /\ v = Then(u)
    OBVIOUS
  <2>2. /\ Shaped(u) /\ u.pc = unit[p].pc /\ u.at = now /\ u.run = unit[p].run
        /\ u.new = unit[p].new /\ u.set = unit[p].set
    BY <1>1, <2>1, Fields DEF Shaped
  <2>3. v = Then(u) /\ Shaped(u)
    BY <2>1, <2>2
  <2>4. v.pc = u.pc + 1 /\ v.run = u.run /\ v.at = u.at /\ v.new = u.new /\ v.set = u.set
    BY ONLY <2>3, ThenFields
  <2>5. Blank(v, now)
    <3>1. unit[p].new = NoRows /\ DOMAIN unit[p].set = {}
      BY <1>2 DEF Clean
    <3>2. v.pc = 1 /\ v.run > 0 /\ v.at = now
      BY <1>2, <2>2, <2>4
    <3>3. v.new = NoRows /\ DOMAIN v.set = {}
      BY <3>1, <2>2, <2>4
    <3> QED BY <1>1, <3>2, <3>3 DEF Blank
  <2>6. unit' = [unit EXCEPT ![p] = v] /\ UNCHANGED <<db, receipt, now>>
    BY <1>3, <2>1 DEF Look, Becomes
  <2> QED BY ZenonT(40), <1>1, <2>5, <2>6, OneBegins
<1>4. CASE Stored(unit[p].calls)
  <2>1. unit' = [unit EXCEPT ![p] = NoUnit] /\ UNCHANGED <<db, receipt, now>>
    BY <1>4 DEF Look
  <2>2. Blank(NoUnit, now)
    BY <1>1 DEF Blank, NoUnit
  <2> QED BY ZenonT(40), <1>1, <2>1, <2>2, OneBegins
<1> QED BY <1>3, <1>4

\* Time passes by the units.
LEMMA TickInOrder ==
  ASSUME BusInv, InOrder, Tick
  PROVE  InOrder' /\ UNCHANGED <<db, receipt>>
<1>1. now \in Nat /\ now' = now + 1 /\ UNCHANGED <<db, receipt, unit>>
  BY SceneFacts DEF Tick
<1>2. \A p \in Processes : Local(unit[p], db, now + 1)
  BY <1>1, LaterLocal DEF InOrder
<1>3. \A p \in Processes : Local(unit'[p], db', now')
  BY <1>1, <1>2
<1> QED BY <1>1, <1>3 DEF InOrder

\* No step that changes neither does anything to the units' order.
LEMMA StillInOrder ==
  ASSUME InOrder, UNCHANGED store
  PROVE  InOrder' /\ UNCHANGED <<db, receipt>>
BY DEF InOrder, store

\* Every step but a COMMIT keeps the units in order, and the committed state as it is.
LEMMA QuietInOrder ==
  ASSUME BusInv, InOrder, [Next]_store,
         \A p \in Processes : Ends(p) => Stored(unit[p].calls)
  PROVE  InOrder' /\ UNCHANGED <<db, receipt>>
<1>1. CASE \E p \in Processes : Ends(p)
  <2>1. PICK p \in Processes : Ends(p)
    BY <1>1
  <2>2. Rerun(p)
    BY ZenonT(40), <2>1 DEF Ends, Commit
  <2> QED BY <2>2, LeavesInOrder
<1>2. CASE \E p \in Processes : Fail(p)
  BY <1>2, LeavesInOrder DEF Fail
<1>3. CASE \E p \in Processes : InventoryStatement(p) \/ CommerceStatement(p) \/ DocumentStatement(p)
  BY <1>3, StatementInOrder
<1>4. CASE \E p \in Processes : \E q \in scene.calls : Send(p, q)
  BY <1>4, SendInOrder
<1>5. CASE \E p \in Processes : Look(p)
  BY <1>5, LookInOrder
<1>6. CASE Tick
  BY <1>6, TickInOrder
<1>7. CASE UNCHANGED store
  BY <1>7, StillInOrder
<1> QED BY <1>1, <1>2, <1>3, <1>4, <1>5, <1>6, <1>7 DEF Next

-----------------------------------------------------------------------------
\* What a COMMIT does to the money.

\* The unit settles a payment.
Settles(u) == u.calls.op = "verify" /\ \E k \in DOMAIN u.set : k[1] = "pays"

\* A unit that updates a payment updates the pending one it has read, and no other.
LEMMA OnePayment ==
  ASSUME NEW u, NEW d, NEW n, Fit(u, d, n), Noted(u, d), Changed(u, d),
         NEW k \in DOMAIN u.set, k[1] = "pays"
  PROVE  /\ k = <<"pays", u.calls.on>> /\ u.calls.on \in 1..Len(d.pays)
         /\ d.pays[u.calls.on] = u.seen /\ u.seen \in Row.pays /\ u.seen.status = "PENDING"
         /\ u.set[k] = [u.seen EXCEPT !.ver = @ + 1,
                          !.status = IF u.calls.op = "verify" THEN "VERIFIED" ELSE "REJECTED"]
         /\ u.calls.op = "verify" => Past(u, {"verify"}, 2)
         /\ u.seen.order \in 1..Len(d.orders)
<1>1. k \in Kept \X Nat /\ k[2] \in 1..Len(d.pays) /\ u.pc \in Nat
  BY DEF Fit
<1>2. k = <<k[1], k[2]>>
  BY <1>1
<1>3. /\ Past(u, {"verify"}, 3) \/ Past(u, {"reject"}, 2)
      /\ k[2] = u.calls.on /\ d.pays[k[2]] = u.seen
      /\ u.set[k] = [u.seen EXCEPT !.ver = @ + 1,
                       !.status = IF u.calls.op = "verify" THEN "VERIFIED" ELSE "REJECTED"]
  BY DEF Changed
<1>4. Past(u, {"verify", "reject"}, 1) /\ (u.calls.op = "verify" => Past(u, {"verify"}, 2))
  BY <1>1, <1>3 DEF Past
<1>5. u.seen \in Row.pays /\ u.seen.status = "PENDING" /\ u.seen.order \in 1..Len(d.orders)
  BY <1>4 DEF Noted
<1> QED BY <1>1, <1>2, <1>3, <1>4, <1>5

\* What the settled payment adds to the verified amount of a kind.
Adds(u, order, kind) ==
  IF Settles(u) /\ u.seen.order = order /\ u.seen.kind = kind THEN u.seen.qty ELSE 0

\* The update of a payment adds what it verifies.
LEMMA OverVerified ==
  ASSUME NEW u, NEW d, NEW n, Typed(d), Fit(u, d, n), Noted(u, d), Changed(u, d),
         NEW order, NEW kind
  PROVE  /\ Verified(Over(u, d, "pays"), order, kind)
              = Verified(d.pays, order, kind) + Adds(u, order, kind)
         /\ Verified(d.pays, order, kind) \in Int /\ Adds(u, order, kind) \in Int
<1>0. "pays" \in Tables
  BY DEF Tables
<1>1. PICK R, w, c, o : R = Row.pays /\ w = Settled(order, kind) /\ c = d["pays"] /\ o = Over(u, d, "pays")
  OBVIOUS
<1>2. c \in Seq(R) /\ o \in Seq(R) /\ Len(o) = Len(c) /\ Len(c) \in Nat
  <2>1. Over(u, d, "pays") \in Seq(Row["pays"]) /\ Len(Over(u, d, "pays")) = Len(d["pays"])
    BY <1>0, OverRows
  <2>2. d["pays"] \in Seq(Row["pays"])
    BY <1>0 DEF Typed
  <2> QED BY <1>1, <2>1, <2>2
<1>3. w \in [R -> Int] /\ Verified(c, order, kind) = Weigh(c, w) /\ Verified(o, order, kind) = Weigh(o, w)
  BY <1>1, <1>2, VerifiedWeighs
<1>4. Weigh(c, w) \in Int
  BY ONLY <1>2, <1>3, WeighType
<1>5. \A i \in 1..Len(c) : o[i] = IF <<"pays", i>> \in DOMAIN u.set THEN u.set[<<"pays", i>>] ELSE c[i]
  BY ZenonT(40), <1>1, <1>2 DEF Over
<1>6. CASE \A k \in DOMAIN u.set : k[1] # "pays"
  <2>1. Adds(u, order, kind) = 0
    BY <1>6 DEF Adds, Settles
  <2>2. \A i \in 1..Len(c) : <<"pays", i>> \notin DOMAIN u.set
    <3>1. \A i \in 1..Len(c) : <<"pays", i>>[1] = "pays"
      OBVIOUS
    <3> QED BY <1>6, <3>1
  <2>3. \A i \in 1..Len(c) : w[o[i]] = w[c[i]]
    BY ZenonT(40), <1>5, <2>2
  <2>4. Weigh(o, w) = Weigh(c, w)
    BY ONLY <1>2, <2>3, WeighSame
  <2> QED BY <1>1, <1>3, <1>4, <2>1, <2>4
<1>7. CASE \E k \in DOMAIN u.set : k[1] = "pays"
  <2>1. PICK k \in DOMAIN u.set : k[1] = "pays"
    BY <1>7
  <2>2. PICK i : i = u.calls.on
    OBVIOUS
  <2>3. /\ k = <<"pays", i>> /\ i \in 1..Len(c) /\ c[i] = u.seen /\ u.seen \in R
        /\ u.seen.status = "PENDING"
        /\ u.set[k] = [u.seen EXCEPT !.ver = @ + 1,
                          !.status = IF u.calls.op = "verify" THEN "VERIFIED" ELSE "REJECTED"]
    BY ZenonT(40), <1>1, <2>1, <2>2, OnePayment
  <2>4. \A j \in 1..Len(c) : j # i => w[o[j]] = w[c[j]]
    <3> SUFFICES ASSUME NEW j \in 1..Len(c), j # i PROVE w[o[j]] = w[c[j]]
      OBVIOUS
    <3>1. <<"pays", j>> \notin DOMAIN u.set
      <4>1. SUFFICES ASSUME <<"pays", j>> \in DOMAIN u.set PROVE FALSE
        OBVIOUS
      <4>2. <<"pays", j>>[1] = "pays"
        OBVIOUS
      <4>3. <<"pays", j>> = <<"pays", u.calls.on>>
        BY ZenonT(40), <4>1, <4>2, OnePayment
      <4> QED BY <2>2, <4>3
    <3> QED BY <1>5, <3>1
  <2>5. Weigh(o, w) = Weigh(c, w) - w[c[i]] + w[o[i]]
    <3>1. i \in 1..Len(c)
      BY <2>3
    <3>2. w \in [R -> Int]
      BY <1>3
    <3>3. ButFor(c, o, w, i)
      BY ONLY <1>2, <2>4, <3>1 DEF ButFor
    <3>4. Replaced(c, o, w, i)
      BY ONLY ZenonT(40), <1>2, <3>1, <3>2, <3>3, OneReplaced
    <3> QED BY ONLY <3>4 DEF Replaced
  <2>6. w[c[i]] = 0
    BY <1>1, <2>3 DEF Settled
  <2>7. o[i] = u.set[k]
    BY <1>5, <2>1, <2>3
  <2>8. o[i] \in R
    BY <1>2, <2>3
  <2>9. /\ o[i].order = u.seen.order /\ o[i].kind = u.seen.kind /\ o[i].qty = u.seen.qty
        /\ o[i].status = IF u.calls.op = "verify" THEN "VERIFIED" ELSE "REJECTED"
    <3>1. DOMAIN u.seen = {"by", "order", "kind", "qty", "status", "ver"}
      BY <1>1, <2>3 DEF Row
    <3> QED BY <2>3, <2>7, <3>1
  <2>10. Settles(u) <=> u.calls.op = "verify"
    BY <2>1 DEF Settles
  <2>11. w[o[i]] = Adds(u, order, kind)
    <3>1. w[o[i]] = IF o[i].order = order /\ o[i].kind = kind /\ o[i].status = "VERIFIED" THEN o[i].qty ELSE 0
      BY <1>1, <2>8 DEF Settled
    <3>2. CASE u.calls.op = "verify"
      BY <2>9, <2>10, <3>1, <3>2 DEF Adds
    <3>3. CASE u.calls.op # "verify"
      <4>1. o[i].status = "REJECTED"
        BY <2>9, <3>3
      <4> QED BY <2>10, <3>1, <3>3, <4>1 DEF Adds
    <3> QED BY <3>2, <3>3
  <2>12. w[o[i]] \in Int
    BY <1>3, <2>8
  <2>13. Weigh(o, w) = Weigh(c, w) + w[o[i]]
    BY ONLY <1>4, <2>5, <2>6, <2>12
  <2> QED BY <1>1, <1>3, <1>4, <2>11, <2>12, <2>13
<1> QED BY <1>6, <1>7

\* Payments a unit inserts are pending.
LEMMA NewUnverified ==
  ASSUME NEW rows \in Seq(Row.pays), \A i \in 1..Len(rows) : rows[i].status = "PENDING",
         NEW order, NEW kind
  PROVE  Verified(rows, order, kind) = 0
<1>1. PICK R, w : R = Row.pays /\ w = Settled(order, kind)
  OBVIOUS
<1>2. w \in [R -> Int] /\ Verified(rows, order, kind) = Weigh(rows, w) /\ rows \in Seq(R)
  BY <1>1, VerifiedWeighs
<1>3. \A i \in 1..Len(rows) : w[rows[i]] = 0
  <2> SUFFICES ASSUME NEW i \in 1..Len(rows) PROVE w[rows[i]] = 0
    OBVIOUS
  <2>1. rows[i] \in Row.pays
    OBVIOUS
  <2> QED BY <1>1, <2>1 DEF Settled
<1>4. Weigh(rows, w) = 0
  BY ONLY ZenonT(40), <1>2, <1>3, WeighZero
<1> QED BY <1>2, <1>4

\* What a COMMIT adds to the verified payments is the payment the unit has settled.
LEMMA VerifiedCommit ==
  ASSUME NEW u, NEW d, NEW n, Sound(d), Local(u, d, n), NEW order, NEW kind
  PROVE  /\ Verified(View(u, d).pays, order, kind)
              = Verified(d.pays, order, kind) + Adds(u, order, kind)
         /\ Verified(d.pays, order, kind) \in Int /\ Adds(u, order, kind) \in Int
<1>0. "pays" \in Tables /\ Typed(d) /\ Fit(u, d, n) /\ Noted(u, d) /\ Changed(u, d) /\ Backed(u, d)
  BY DEF Tables, Sound, Local
<1>1. PICK R, w, o, x, r : /\ R = Row.pays /\ w = Settled(order, kind)
                           /\ o = Over(u, d, "pays") /\ x = u.new["pays"] /\ r = View(u, d)["pays"]
  OBVIOUS
<1>2. o \in Seq(R) /\ x \in Seq(R) /\ r = o \o x
  <2>1. Over(u, d, "pays") \in Seq(Row["pays"])
    BY <1>0, OverRows
  <2>2. u.new["pays"] \in Seq(Row["pays"])
    BY <1>0 DEF Fit
  <2>3. View(u, d)["pays"] = Over(u, d, "pays") \o u.new["pays"]
    BY <1>0, ViewIs
  <2> QED BY <1>1, <2>1, <2>2, <2>3
<1>3. r \in Seq(R)
  BY <1>2
<1>4. /\ w \in [R -> Int] /\ Verified(o, order, kind) = Weigh(o, w)
      /\ Verified(x, order, kind) = Weigh(x, w) /\ Verified(r, order, kind) = Weigh(r, w)
  BY <1>1, <1>2, <1>3, VerifiedWeighs
<1>5. Weigh(r, w) = Weigh(o, w) + Weigh(x, w)
  BY ONLY <1>2, <1>4, WeighJoin
<1>6. Verified(x, order, kind) = 0
  <2>1. \A i \in 1..Len(x) : x[i].status = "PENDING"
    BY <1>0, <1>1 DEF Backed
  <2> QED BY ZenonT(40), <1>1, <1>2, <2>1, NewUnverified
<1>7. /\ Verified(o, order, kind) = Verified(d.pays, order, kind) + Adds(u, order, kind)
      /\ Verified(d.pays, order, kind) \in Int /\ Adds(u, order, kind) \in Int
  BY <1>0, <1>1, OverVerified
<1>8. Verified(r, order, kind) = Verified(d.pays, order, kind) + Adds(u, order, kind)
  BY <1>4, <1>5, <1>6, <1>7
<1> QED BY <1>1, <1>7, <1>8

\* A COMMIT takes from an order's net only a refund the unit has found covered.
LEMMA NetCommit ==
  ASSUME NEW u, NEW d, NEW n, Sound(d), Local(u, d, n), NEW order
  PROVE  /\ Net(View(u, d).pays, order) \in Int /\ Net(d.pays, order) \in Int
         /\ \/ Net(View(u, d).pays, order) >= Net(d.pays, order)
            \/ /\ u.seen.order = order /\ <<"orders", order>> \in DOMAIN u.set
               /\ Net(View(u, d).pays, order) >= 0
<1>1. PICK a, b, x, y : /\ a = Verified(d.pays, order, "PAYMENT") /\ b = Verified(d.pays, order, "REFUND")
                        /\ x = Adds(u, order, "PAYMENT") /\ y = Adds(u, order, "REFUND")
  OBVIOUS
<1>2. /\ a \in Int /\ b \in Int /\ x \in Int /\ y \in Int
      /\ Verified(View(u, d).pays, order, "PAYMENT") = a + x
      /\ Verified(View(u, d).pays, order, "REFUND") = b + y
  BY <1>1, VerifiedCommit
<1>3. Net(View(u, d).pays, order) = (a + x) - (b + y) /\ Net(d.pays, order) = a - b
  BY <1>1, <1>2 DEF Net
<1>4. /\ Fit(u, d, n) /\ Noted(u, d) /\ Changed(u, d) /\ Backed(u, d)
  BY DEF Local
<1>5. CASE ~(Settles(u) /\ u.seen.order = order)
  <2>1. x = 0 /\ y = 0
    BY <1>1, <1>5 DEF Adds
  <2> QED BY <1>2, <1>3, <2>1
<1>6. CASE Settles(u) /\ u.seen.order = order
  <2>1. PICK k \in DOMAIN u.set : k[1] = "pays"
    BY <1>6 DEF Settles
  <2>2. u.seen \in Row.pays /\ Past(u, {"verify"}, 2)
    BY ZenonT(40), <1>4, <1>6, <2>1, OnePayment DEF Settles
  <2>3. u.seen.qty \in Nat
    BY <2>2 DEF Row
  <2>4. CASE u.seen.kind = "REFUND"
    <3>1. <<"orders", order>> \in DOMAIN u.set /\ Net(d.pays, order) >= u.seen.qty
      BY <1>4, <1>6, <2>2, <2>4 DEF Backed
    <3>2. x = 0 /\ y = u.seen.qty
      BY <1>1, <1>6, <2>4 DEF Adds
    <3>3. (a + x) - (b + y) >= 0
      <4>1. a - b >= y
        BY <1>3, <3>1, <3>2
      <4> QED BY ONLY <1>2, <3>2, <4>1
    <3> QED BY <1>2, <1>3, <1>6, <3>1, <3>3
  <2>5. CASE u.seen.kind # "REFUND"
    <3>1. y = 0
      BY <1>1, <2>5 DEF Adds
    <3>2. x >= 0
      BY <1>1, <2>3 DEF Adds
    <3>3. (a + x) - (b + y) >= a - b
      BY ONLY <1>2, <3>1, <3>2
    <3> QED BY <1>2, <1>3, <3>3
  <2> QED BY <2>4, <2>5
<1> QED BY <1>5, <1>6

\* No payment names an order that is not there.
LEMMA NoOrderNoNet ==
  ASSUME NEW d, Sound(d), NEW order, order \notin 1..Len(d.orders)
  PROVE  Net(d.pays, order) = 0
<1>1. "pays" \in Tables /\ d["pays"] \in Seq(Row["pays"])
  <2>1. "pays" \in Tables
    BY DEF Tables
  <2> QED BY <2>1 DEF Sound, Typed
<1>2. ASSUME NEW kind PROVE Verified(d.pays, order, kind) = 0
  <2>1. PICK R, w, c : R = Row.pays /\ w = Settled(order, kind) /\ c = d["pays"]
    OBVIOUS
  <2>2. w \in [R -> Int] /\ c \in Seq(R) /\ Verified(c, order, kind) = Weigh(c, w)
    BY <1>1, <2>1, VerifiedWeighs
  <2>3. \A i \in 1..Len(c) : w[c[i]] = 0
    <3> SUFFICES ASSUME NEW i \in 1..Len(c) PROVE w[c[i]] = 0
      OBVIOUS
    <3>1. c[i] \in R
      BY <2>2
    <3>2. c[i].order \in 1..Len(d.orders)
      BY <2>1 DEF Sound, Refers
    <3>3. c[i].order # order
      BY <3>2
    <3> QED BY <2>1, <3>1, <3>3 DEF Settled
  <2>4. Weigh(c, w) = 0
    BY ONLY ZenonT(40), <2>2, <2>3, WeighZero
  <2> QED BY <2>1, <2>2, <2>4
<1> QED BY <1>2 DEF Net

\* A COMMIT leaves every order's refunds within its payments.
LEMMA PaidCommit ==
  ASSUME NEW u, NEW d, NEW n, Sound(d), Local(u, d, n)
  PROVE  Paid(View(u, d))
<1> SUFFICES ASSUME NEW i \in 1..Len(View(u, d).orders) PROVE Net(View(u, d).pays, i) >= 0
  BY DEF Paid
<1>1. Net(d.pays, i) >= 0
  <2>1. CASE i \in 1..Len(d.orders)
    BY <2>1 DEF Sound, Paid
  <2>2. CASE i \notin 1..Len(d.orders)
    BY <2>2, NoOrderNoNet
  <2> QED BY <2>1, <2>2
<1>2. PICK a, b : a = Net(View(u, d).pays, i) /\ b = Net(d.pays, i)
  OBVIOUS
<1>3. a \in Int /\ b \in Int /\ (a >= b \/ a >= 0)
  BY ZenonT(40), <1>2, NetCommit
<1> QED BY <1>1, <1>2, <1>3

-----------------------------------------------------------------------------
\* What a COMMIT leaves is sound.

\* Tables only grow, and hold what their rows may.
LEMMA CommitTyped ==
  ASSUME NEW u, NEW d, NEW n, Sound(d), Local(u, d, n)
  PROVE  /\ Typed(View(u, d))
         /\ \A t \in Tables : /\ Len(d[t]) \in Nat /\ Len(View(u, d)[t]) \in Nat
                              /\ Len(d[t]) <= Len(View(u, d)[t])
<1>1. Typed(d) /\ Fit(u, d, n) /\ Written(u)
  BY DEF Sound, Local
<1>2. DOMAIN View(u, d) = Tables
  BY DEF View
<1>3. ASSUME NEW t \in Tables
      PROVE  /\ View(u, d)[t] \in Seq(Row[t]) /\ Len(d[t]) \in Nat /\ Len(View(u, d)[t]) \in Nat
             /\ Len(d[t]) <= Len(View(u, d)[t])
  <2>1. Reads(View(u, d)[t], u, d, t)
    BY <1>1, ViewRows
  <2>2. PICK a, b, c : a = Len(d[t]) /\ b = Len(u.new[t]) /\ c = Len(View(u, d)[t])
    OBVIOUS
  <2>3. a \in Nat /\ b \in Nat /\ c = a + b /\ View(u, d)[t] \in Seq(Row[t])
    BY <2>1, <2>2 DEF Reads
  <2>4. c \in Nat /\ a <= c
    BY ONLY <2>3
  <2> QED BY ZenonT(40), <2>2, <2>3, <2>4
<1>4. Len(View(u, d).fence) = 1
  BY <1>1, FenceRow
<1> QED BY <1>2, <1>3, <1>4 DEF Typed

\* Payments name orders that are there.
LEMMA CommitPays ==
  ASSUME NEW u, NEW d, NEW n, Sound(d), Local(u, d, n), NEW i \in 1..Len(View(u, d).pays)
  PROVE  View(u, d).pays[i].order \in 1..Len(View(u, d).orders)
<1>1. /\ Typed(d) /\ Fit(u, d, n) /\ Noted(u, d) /\ Changed(u, d) /\ Backed(u, d) /\ Refers(d)
      /\ "pays" \in Tables /\ "orders" \in Tables
  BY DEF Sound, Local, Tables
<1>2. PICK r, c, m, l : r = View(u, d)["pays"] /\ c = d["pays"] /\ m = Len(c) /\ l = Len(u.new["pays"])
  OBVIOUS
<1>3. Reads(r, u, d, "pays")
  BY <1>1, <1>2, ViewRows
<1>4. /\ m \in Nat /\ l \in Nat /\ Len(r) = m + l
      /\ \A j \in 1..m : r[j] = IF <<"pays", j>> \in DOMAIN u.set THEN u.set[<<"pays", j>>] ELSE c[j]
      /\ \A j \in 1..l : r[m + j] = u.new["pays"][j]
  BY ZenonT(40), <1>2, <1>3 DEF Reads
<1>5. PICK a, b : a = Len(d["orders"]) /\ b = Len(View(u, d)["orders"])
  OBVIOUS
<1>6. a \in Nat /\ b \in Nat /\ a <= b
  BY <1>1, <1>5, CommitTyped
<1>7. CASE i \in 1..m
  <2>1. c[i].order \in 1..a
    BY <1>1, <1>2, <1>5, <1>7 DEF Refers
  <2>2. r[i].order = c[i].order
    <3>1. CASE <<"pays", i>> \in DOMAIN u.set
      <4>1. <<"pays", i>>[1] = "pays"
        OBVIOUS
      <4>2. /\ <<"pays", i>> = <<"pays", u.calls.on>> /\ c[u.calls.on] = u.seen /\ u.seen \in Row.pays
            /\ u.set[<<"pays", i>>] = [u.seen EXCEPT !.ver = @ + 1,
                          !.status = IF u.calls.op = "verify" THEN "VERIFIED" ELSE "REJECTED"]
        BY ZenonT(40), <1>1, <1>2, <3>1, <4>1, OnePayment
      <4>3. DOMAIN u.seen = {"by", "order", "kind", "qty", "status", "ver"}
        BY <4>2 DEF Row
      <4>4. u.set[<<"pays", i>>].order = u.seen.order
        BY <4>2, <4>3
      <4>5. i = u.calls.on
        BY <4>2
      <4> QED BY ZenonT(40), <1>4, <1>7, <3>1, <4>2, <4>4, <4>5
    <3>2. CASE <<"pays", i>> \notin DOMAIN u.set
      BY <1>4, <1>7, <3>2
    <3> QED BY <3>1, <3>2
  <2>3. c[i].order \in 1..b
    BY ONLY <1>6, <2>1
  <2> QED BY ZenonT(40), <1>2, <1>5, <2>2, <2>3
<1>8. CASE i \notin 1..m
  <2>1. PICK j \in 1..l : i = m + j
    <3>1. i \in 1..(m + l)
      BY ZenonT(40), <1>2, <1>4
    <3>2. i - m \in 1..l /\ i = m + (i - m)
      BY ONLY <1>4, <1>8, <3>1
    <3> QED BY <3>2
  <2>2. u.new["pays"][j].order \in 1..b
    BY <1>1, <1>2, <1>5 DEF Backed
  <2> QED BY ZenonT(40), <1>2, <1>4, <1>5, <2>1, <2>2
<1> QED BY <1>7, <1>8

\* A COMMIT leaves a sound database.
LEMMA CommitSound ==
  ASSUME NEW u, NEW d, NEW n, Sound(d), Local(u, d, n)
  PROVE  Sound(View(u, d))
<1>1. Typed(View(u, d))
  BY CommitTyped
<1>2. Stocked(View(u, d))
  BY DEF Local
<1>3. Refers(View(u, d))
  BY <1>2, CommitPays DEF Refers, Stocked, Named
<1>4. Paid(View(u, d))
  BY PaidCommit
<1> QED BY <1>1, <1>2, <1>3, <1>4 DEF Sound, Stocked

-----------------------------------------------------------------------------
\* What a COMMIT leaves of the other units.

\* A row that the unit has not updated is as it was.
LEMMA CommitRow ==
  ASSUME NEW u, NEW d, NEW n, Typed(d), Fit(u, d, n), NEW t \in Tables, NEW i \in 1..Len(d[t])
  PROVE  /\ i \in 1..Len(View(u, d)[t])
         /\ <<t, i>> \notin DOMAIN u.set => View(u, d)[t][i] = d[t][i]
         /\ <<t, i>> \in DOMAIN u.set => View(u, d)[t][i] = u.set[<<t, i>>]
<1>1. PICK r : r = View(u, d)[t]
  OBVIOUS
<1>2. Reads(r, u, d, t)
  BY <1>1, ViewRows
<1> QED BY ZenonT(40), <1>1, <1>2 DEF Reads

\* A peer's locked row is as it was.
LEMMA PeerRow ==
  ASSUME NEW u, NEW w, NEW d, NEW n, Typed(d), Fit(u, d, n), Fit(w, d, n), Apart(u, w),
         NEW k \in DOMAIN w.set
  PROVE  /\ k[1] \in Tables /\ k[2] \in 1..Len(View(u, d)[k[1]])
         /\ View(u, d)[k[1]][k[2]] = d[k[1]][k[2]]
<1>1. k \in Kept \X Nat /\ k[2] \in 1..Len(d[k[1]])
  BY DEF Fit
<1>2. k = <<k[1], k[2]>> /\ k[1] \in Kept
  BY <1>1
<1>3. k[1] \in Tables
  BY <1>2 DEF Kept, Tables
<1>4. PICK t, i : t = k[1] /\ i = k[2]
  OBVIOUS
<1>5. t \in Tables /\ i \in 1..Len(d[t]) /\ k = <<t, i>>
  BY <1>1, <1>2, <1>3, <1>4
<1>6. <<t, i>> \notin DOMAIN u.set
  BY <1>5 DEF Apart
<1>7. i \in 1..Len(View(u, d)[t]) /\ View(u, d)[t][i] = d[t][i]
  BY <1>5, <1>6, CommitRow
<1> QED BY <1>4, <1>5, <1>7

\* What a peer has updated is still there to be updated.
LEMMA PeerFit ==
  ASSUME NEW u, NEW w, NEW d, NEW n, Sound(d), Fit(u, d, n), Fit(w, d, n), Apart(u, w),
         Changed(w, d)
  PROVE  Fit(w, View(u, d), n) /\ Changed(w, View(u, d))
<1>1. ASSUME NEW k \in DOMAIN w.set
      PROVE  k[2] \in 1..Len(View(u, d)[k[1]]) /\ View(u, d)[k[1]][k[2]] = d[k[1]][k[2]]
  BY PeerRow DEF Sound
<1>2. Fit(w, View(u, d), n)
  BY <1>1 DEF Fit
<1>3. ASSUME NEW k \in DOMAIN w.set
      PROVE  LET e == View(u, d) IN
             /\ k[1] \in Keyed => w.set[k].by = e[k[1]][k[2]].by
             /\ k[1] \in {"orders", "pos", "works"} => Marks(w, e[k[1]][k[2]], w.set[k], k[1], k[2])
             /\ k[1] = "works" => w.pc > 3 /\ w.set[k].ver > e.works[k[2]].ver
             /\ k[1] = "pays" =>
                  /\ Past(w, {"verify"}, 3) \/ Past(w, {"reject"}, 2)
                  /\ k[2] = w.calls.on /\ e.pays[k[2]] = w.seen
                  /\ w.set[k] = [w.seen EXCEPT !.ver = @ + 1,
                          !.status = IF w.calls.op = "verify" THEN "VERIFIED" ELSE "REJECTED"]
             /\ k[1] = "holds" => EndsHold(w, e.holds[k[2]], w.set[k], k[2])
  <2>1. PICK e : e = View(u, d)
    OBVIOUS
  <2>2. e[k[1]][k[2]] = d[k[1]][k[2]]
    BY <1>1, <2>1
  <2>3. k[1] = "works" => e.works[k[2]] = d.works[k[2]]
    BY <2>2
  <2>4. k[1] = "pays" => e.pays[k[2]] = d.pays[k[2]]
    BY <2>2
  <2>5. k[1] = "holds" => e.holds[k[2]] = d.holds[k[2]]
    BY <2>2
  <2> QED BY <2>1, <2>2, <2>3, <2>4, <2>5 DEF Changed
<1>4. Changed(w, View(u, d))
  BY <1>3 DEF Changed
<1> QED BY <1>2, <1>4

\* A row read without a lock is the row that was seen, or has moved on.
LEMMA SawStill ==
  ASSUME NEW w, NEW c, NEW e, Saw(w, c), NEW i, i = w.calls.on, i \in 1..Len(e),
         e[i] = c[i] \/ (e[i].ver \in Nat /\ c[i].ver \in Nat /\ w.seen.ver \in Nat /\ e[i].ver > c[i].ver)
  PROVE  Saw(w, e)
<1>1. CASE e[i] = c[i]
  BY <1>1 DEF Saw
<1>2. CASE e[i].ver \in Nat /\ c[i].ver \in Nat /\ w.seen.ver \in Nat /\ e[i].ver > c[i].ver
  <2>1. w.seen.ver <= c[i].ver
    BY DEF Saw
  <2>2. w.seen.ver <= e[i].ver /\ w.seen.ver # e[i].ver
    BY <1>2, <2>1
  <2> QED BY <2>2 DEF Saw
<1> QED BY <1>1, <1>2

\* The purchase order that was seen open is open still, or has moved on.
LEMMA SawOpenStill ==
  ASSUME NEW w, NEW c, NEW e, SawOpen(w, c), NEW i, i = w.calls.on, i \in 1..Len(e),
         e[i] = c[i] \/ (e[i].ver \in Nat /\ c[i].ver \in Nat /\ e[i].ver > c[i].ver)
  PROVE  SawOpen(w, e)
<1>1. CASE e[i] = c[i]
  BY <1>1 DEF SawOpen
<1>2. CASE e[i].ver \in Nat /\ c[i].ver \in Nat /\ e[i].ver > c[i].ver
  <2>1. w.seen.ver \in Nat /\ w.seen.ver <= c[i].ver
    BY DEF SawOpen
  <2>2. w.seen.ver <= e[i].ver /\ w.seen.ver # e[i].ver
    BY <1>2, <2>1
  <2> QED BY <2>1, <2>2 DEF SawOpen
<1> QED BY <1>1, <1>2

\* An updated document, payment or hold has a later version, or is only locked.
LEMMA CommitLater ==
  ASSUME NEW u, NEW d, NEW n, Sound(d), Local(u, d, n), NEW t \in {"orders", "pays", "holds", "pos", "works"},
         NEW i \in 1..Len(d[t])
  PROVE  /\ i \in 1..Len(View(u, d)[t])
         /\ \/ View(u, d)[t][i] = d[t][i]
            \/ /\ View(u, d)[t][i].ver \in Nat /\ d[t][i].ver \in Nat
               /\ View(u, d)[t][i].ver > d[t][i].ver
<1>1. t \in Tables /\ Typed(d) /\ Fit(u, d, n) /\ Noted(u, d) /\ Changed(u, d)
  BY DEF Tables, Sound, Local
<1>2. i \in 1..Len(View(u, d)[t])
  BY ZenonT(40), <1>1, CommitRow
<1>3. CASE <<t, i>> \notin DOMAIN u.set
  BY <1>1, <1>2, <1>3, CommitRow
<1>4. CASE <<t, i>> \in DOMAIN u.set
  <2>1. PICK k : k = <<t, i>>
    OBVIOUS
  <2>2. k \in DOMAIN u.set /\ k[1] = t /\ k[2] = i
    BY <1>4, <2>1
  <2>3. View(u, d)[t][i] = u.set[k]
    BY <1>1, <1>4, <2>1, CommitRow
  <2>4. d[t][i] \in Row[t] /\ u.set[k] \in Row[t]
    <3>1. PICK c, R : c = d[t] /\ R = Row[t] /\ c \in Seq(R)
      BY <1>1 DEF Typed
    <3>2. c[i] \in R
      BY <3>1
    <3> QED BY <1>1, <2>2, <3>1, <3>2 DEF Fit
  <2>5. \A r \in Row[t] : r.ver \in Nat
    <3>1. CASE t = "works"
      BY <3>1 DEF Row
    <3>2. CASE t = "pays"
      BY <3>2 DEF Row
    <3>3. CASE t = "holds"
      BY <3>3 DEF Row
    <3>4. CASE t = "orders"
      BY <3>4 DEF Row
    <3>5. CASE t = "pos"
      BY <3>5 DEF Row
    <3> QED BY <3>1, <3>2, <3>3, <3>4, <3>5
  <2>6. u.set[k].ver \in Nat /\ d[t][i].ver \in Nat
    BY <2>4, <2>5
  <2>7. CASE t = "works"
    <3>1. u.set[k].ver > d.works[i].ver
      BY <1>1, <2>2, <2>7 DEF Changed
    <3> QED BY <1>2, <2>3, <2>6, <2>7, <3>1
  <2>8. CASE t = "pays"
    <3>1. /\ d.pays[i] = u.seen /\ u.seen \in Row.pays
          /\ u.set[k] = [u.seen EXCEPT !.ver = @ + 1,
                          !.status = IF u.calls.op = "verify" THEN "VERIFIED" ELSE "REJECTED"]
      <4>1. k = <<"pays", u.calls.on>> /\ d.pays[u.calls.on] = u.seen /\ u.seen \in Row.pays
            /\ u.set[k] = [u.seen EXCEPT !.ver = @ + 1,
                          !.status = IF u.calls.op = "verify" THEN "VERIFIED" ELSE "REJECTED"]
        <5>1. k \in DOMAIN u.set /\ k[1] = "pays"
          BY <2>2, <2>8
        <5>2. Fit(u, d, n) /\ Noted(u, d) /\ Changed(u, d)
          BY <1>1
        <5> QED BY ONLY ZenonT(40), <5>1, <5>2, OnePayment
      <4>2. i = u.calls.on
        BY <2>1, <4>1
      <4> QED BY <4>1, <4>2
    <3>2. DOMAIN u.seen = {"by", "order", "kind", "qty", "status", "ver"} /\ u.seen.ver \in Nat
      BY <3>1 DEF Row
    <3>3. u.set[k].ver = u.seen.ver + 1
      BY <3>1, <3>2
    <3>4. u.set[k].ver > u.seen.ver
      BY <3>2, <3>3
    <3> QED BY <1>2, <2>3, <2>6, <2>8, <3>1, <3>4
  <2>9. CASE t = "holds"
    <3>1. EndsHold(u, d.holds[i], u.set[k], i)
      BY <1>1, <2>2, <2>9 DEF Changed
    <3>2. u.set[k].ver = d.holds[i].ver + 1
      <4>1. PICK h, g : h = d.holds[i] /\ g = u.set[k]
        OBVIOUS
      <4>2. h \in Row.holds /\ EndsHold(u, h, g, i)
        BY <2>4, <2>9, <3>1, <4>1
      <4>3. g.ver = h.ver + 1
        BY ONLY <4>2, EndFields
      <4> QED BY <4>1, <4>3
    <3>3. u.set[k].ver > d.holds[i].ver
      BY <2>6, <2>9, <3>2
    <3> QED BY <1>2, <2>3, <2>6, <2>9, <3>3
  <2>10. CASE t \in {"orders", "pos"}
    <3>1. PICK a, b : a = d[t][i] /\ b = u.set[k]
      OBVIOUS
    <3>2. Marks(u, a, b, t, i)
      <4>1. k[1] \in {"orders", "pos", "works"}
        BY <2>2, <2>10
      <4>2. Marks(u, d[k[1]][k[2]], u.set[k], k[1], k[2])
        BY ZenonT(40), <1>1, <2>2, <4>1 DEF Changed
      <4> QED BY <2>2, <3>1, <4>2
    <3>3. b = a \/ b.ver = a.ver + 1
      BY <3>2 DEF Marks
    <3>4. b.ver = a.ver + 1 => b.ver > a.ver
      BY <2>6, <3>1
    <3> QED BY ONLY <1>2, <2>3, <2>6, <3>1, <3>3, <3>4
  <2> QED BY <2>7, <2>8, <2>9, <2>10
<1> QED BY <1>3, <1>4

\* What a peer has noted of the rows still holds.
LEMMA PeerNoted ==
  ASSUME NEW u, NEW w, NEW d, NEW n, Sound(d), Local(u, d, n), Noted(w, d)
  PROVE  Noted(w, View(u, d))
<1>1. PICK e : e = View(u, d)
  OBVIOUS
<1>2. \A t \in Tables : \A i \in 1..Len(d[t]) : i \in 1..Len(e[t])
  BY ZenonT(40), <1>1, CommitRow DEF Sound, Local
<1>3. /\ \A i \in 1..Len(d.orders) : i \in 1..Len(e.orders)
      /\ \A i \in 1..Len(d.holds) : i \in 1..Len(e.holds)
      /\ \A i \in 1..Len(d.pos) : i \in 1..Len(e.pos)
  BY <1>2 DEF Tables
<1>4. Past(w, {"verify", "reject"}, 1) => Saw(w, e.pays)
  <2> SUFFICES ASSUME Past(w, {"verify", "reject"}, 1) PROVE Saw(w, e["pays"])
    OBVIOUS
  <2>1. Saw(w, d["pays"]) /\ w.seen \in Row.pays
    BY DEF Noted
  <2>2. PICK i : i = w.calls.on
    OBVIOUS
  <2>3. i \in 1..Len(d["pays"]) /\ w.seen.ver \in Nat
    BY <2>1, <2>2 DEF Saw, Row
  <2>4. /\ i \in 1..Len(e["pays"])
        /\ e["pays"][i] = d["pays"][i] \/ (e["pays"][i].ver \in Nat /\ d["pays"][i].ver \in Nat
             /\ e["pays"][i].ver > d["pays"][i].ver)
    <3>1. "pays" \in {"orders", "pays", "holds", "pos", "works"}
      OBVIOUS
    <3> QED BY <1>1, <2>3, <3>1, CommitLater
  <2> QED BY ONLY ZenonT(40), <2>1, <2>2, <2>3, <2>4, SawStill
<1>5. Past(w, {"stageWork", "finishWork", "cancelWork"}, 1) => Saw(w, e.works)
  <2> SUFFICES ASSUME Past(w, {"stageWork", "finishWork", "cancelWork"}, 1) PROVE Saw(w, e["works"])
    OBVIOUS
  <2>1. Saw(w, d["works"]) /\ w.seen \in Row.works
    BY DEF Noted
  <2>2. PICK i : i = w.calls.on
    OBVIOUS
  <2>3. i \in 1..Len(d["works"]) /\ w.seen.ver \in Nat
    BY <2>1, <2>2 DEF Saw, Row
  <2>4. /\ i \in 1..Len(e["works"])
        /\ e["works"][i] = d["works"][i] \/ (e["works"][i].ver \in Nat /\ d["works"][i].ver \in Nat
             /\ e["works"][i].ver > d["works"][i].ver)
    <3>1. "works" \in {"orders", "pays", "holds", "pos", "works"}
      OBVIOUS
    <3> QED BY <1>1, <2>3, <3>1, CommitLater
  <2> QED BY ONLY ZenonT(40), <2>1, <2>2, <2>3, <2>4, SawStill
<1>7. Past(w, {"release", "convert"}, 1) => Saw(w, e.holds)
  <2> SUFFICES ASSUME Past(w, {"release", "convert"}, 1) PROVE Saw(w, e["holds"])
    OBVIOUS
  <2>1. Saw(w, d["holds"]) /\ w.seen \in Row.holds
    BY DEF Noted
  <2>2. PICK i : i = w.calls.on
    OBVIOUS
  <2>3. i \in 1..Len(d["holds"]) /\ w.seen.ver \in Nat
    BY <2>1, <2>2 DEF Saw, Row
  <2>4. /\ i \in 1..Len(e["holds"])
        /\ e["holds"][i] = d["holds"][i] \/ (e["holds"][i].ver \in Nat /\ d["holds"][i].ver \in Nat
             /\ e["holds"][i].ver > d["holds"][i].ver)
    <3>1. "holds" \in {"orders", "pays", "holds", "pos", "works"}
      OBVIOUS
    <3> QED BY <1>1, <2>3, <3>1, CommitLater
  <2> QED BY ONLY ZenonT(40), <2>1, <2>2, <2>3, <2>4, SawStill
<1>8. Past(w, {"confirm", "complete", "completeOnly", "cancel"}, 1) => Saw(w, e.orders)
  <2> SUFFICES ASSUME Past(w, {"confirm", "complete", "completeOnly", "cancel"}, 1) PROVE Saw(w, e["orders"])
    OBVIOUS
  <2>1. Saw(w, d["orders"]) /\ w.seen \in Row.orders
    BY DEF Noted
  <2>2. PICK i : i = w.calls.on
    OBVIOUS
  <2>3. i \in 1..Len(d["orders"]) /\ w.seen.ver \in Nat
    BY <2>1, <2>2 DEF Saw, Row
  <2>4. /\ i \in 1..Len(e["orders"])
        /\ e["orders"][i] = d["orders"][i] \/ (e["orders"][i].ver \in Nat /\ d["orders"][i].ver \in Nat
             /\ e["orders"][i].ver > d["orders"][i].ver)
    <3>1. "orders" \in {"orders", "pays", "holds", "pos", "works"}
      OBVIOUS
    <3> QED BY <1>1, <2>3, <3>1, CommitLater
  <2> QED BY ONLY ZenonT(40), <2>1, <2>2, <2>3, <2>4, SawStill
<1>9. Past(w, {"receive", "withdraw", "short"}, 1) => SawOpen(w, e.pos)
  <2> SUFFICES ASSUME Past(w, {"receive", "withdraw", "short"}, 1) PROVE SawOpen(w, e["pos"])
    OBVIOUS
  <2>1. SawOpen(w, d["pos"])
    BY DEF Noted
  <2>2. PICK i : i = w.calls.on
    OBVIOUS
  <2>3. i \in 1..Len(d["pos"])
    BY <2>1, <2>2 DEF SawOpen
  <2>4. /\ i \in 1..Len(e["pos"])
        /\ e["pos"][i] = d["pos"][i] \/ (e["pos"][i].ver \in Nat /\ d["pos"][i].ver \in Nat
             /\ e["pos"][i].ver > d["pos"][i].ver)
    <3>1. "pos" \in {"orders", "pays", "holds", "pos", "works"}
      OBVIOUS
    <3> QED BY <1>1, <2>3, <3>1, CommitLater
  <2> QED BY ONLY ZenonT(40), <2>1, <2>2, <2>3, <2>4, SawOpenStill
<1>6. Noted(w, e)
  <2>1. Past(w, {"confirm", "complete", "completeOnly", "cancel"}, 1) =>
          w.seen \in Row.orders /\ w.seen.status \in {"DRAFT", "CONFIRMED"}
    BY DEF Noted
  <2>2. Past(w, {"pay", "refund"}, 1) => w.calls.on \in 1..Len(e.orders)
    BY <1>3 DEF Noted
  <2>3. Past(w, {"verify", "reject"}, 1) =>
          w.seen \in Row.pays /\ w.seen.status = "PENDING" /\ w.seen.order \in 1..Len(e.orders)
    BY <1>3 DEF Noted
  <2>4. Past(w, {"release", "convert"}, 1) => w.seen \in Row.holds
    BY DEF Noted
  <2>5. Past(w, {"expire"}, 1) => w.due \subseteq 1..Len(e.holds)
    BY <1>3 DEF Noted
  <2>7. Past(w, {"stageWork", "finishWork", "cancelWork"}, 1) =>
          /\ w.seen \in Row.works
          /\ w.calls.op = "finishWork" => w.seen.status \in Opened
          /\ w.calls.op = "stageWork" => w.seen.status = "DRAFT"
          /\ w.calls.op = "cancelWork" => w.seen.status \in Opened \cup {"DRAFT"}
    BY DEF Noted
  <2> QED BY ONLY <1>4, <1>5, <1>7, <1>8, <1>9, <2>1, <2>2, <2>3, <2>4, <2>5, <2>7 DEF Noted
<1> QED BY <1>1, <1>6

\* The only row of the fence that can be locked is its first.
LEMMA FenceKey ==
  ASSUME NEW w, NEW d, NEW n, Typed(d), Fit(w, d, n), NEW k \in DOMAIN w.set, k[1] = "fence"
  PROVE  k = <<"fence", 1>>
<1>1. k \in Kept \X Nat /\ k[2] \in 1..Len(d[k[1]])
  BY DEF Fit
<1>2. Len(d["fence"]) = 1
  BY DEF Typed
<1>3. k[2] = 1
  BY <1>1, <1>2
<1> QED BY <1>1, <1>3

\* A unit reads the same of two databases that have the same committed rows.
LEMMA ViewOf ==
  ASSUME NEW w, NEW d, NEW e, NEW t \in Tables, e[t] = d[t]
  PROVE  View(w, e)[t] = View(w, d)[t]
BY ZenonT(40) DEF View

\* The stock a peer reads is sound after the COMMIT: the peer, or the unit, has left the
\* stock alone.
LEMMA PeerStocked ==
  ASSUME NEW u, NEW w, NEW d, NEW n, Sound(d), Local(u, d, n), Local(w, d, n), Apart(u, w),
         Fit(w, View(u, d), n)
  PROVE  Stocked(View(w, View(u, d)))
<1>0. /\ Typed(d) /\ Fit(u, d, n) /\ Fit(w, d, n) /\ Guarded(u) /\ Guarded(w)
      /\ Written(u) /\ Written(w)
      /\ "ledger" \in Tables /\ "counts" \in Tables /\ "fence" \in Tables
  BY DEF Sound, Local, Tables
<1>1. PICK e : e = View(u, d)
  OBVIOUS
<1>2. Typed(e) /\ Stocked(e) /\ Fit(w, e, n)
  BY <1>1, CommitTyped DEF Local
<1>3. ASSUME NEW v, NEW c, Fit(v, c, n), NEW k \in DOMAIN v.set PROVE k[1] # "ledger"
  BY ZenonT(40), <1>3 DEF Fit, Kept
<1>4. CASE <<"fence", 1>> \in DOMAIN w.set
  <2>1. <<"fence", 1>> \notin DOMAIN u.set
    BY <1>4 DEF Apart
  <2>2. \A k \in DOMAIN u.set : k[1] # "fence"
    BY <1>0, <2>1, FenceKey
  <2>3. u.new.ledger = <<>> /\ u.new.counts = <<>> /\ \A k \in DOMAIN u.set : k[1] # "counts"
    BY <1>0, <2>1 DEF Guarded
  <2>4. u.new.fence = <<>> /\ \A k \in DOMAIN u.set : k[1] # "ledger"
    BY <1>0, <1>3 DEF Written
  <2>5. e["ledger"] = d["ledger"] /\ e["counts"] = d["counts"] /\ e["fence"] = d["fence"]
    <3>1. View(u, d)["ledger"] = d["ledger"]
      <4>1. u.new["ledger"] = <<>> /\ \A k \in DOMAIN u.set : k[1] # "ledger"
        BY <2>3, <2>4
      <4> QED BY ONLY <1>0, <4>1, ViewUntouched
    <3>2. View(u, d)["counts"] = d["counts"]
      <4>1. u.new["counts"] = <<>> /\ \A k \in DOMAIN u.set : k[1] # "counts"
        BY <2>3
      <4> QED BY ONLY <1>0, <4>1, ViewUntouched
    <3>3. View(u, d)["fence"] = d["fence"]
      <4>1. u.new["fence"] = <<>> /\ \A k \in DOMAIN u.set : k[1] # "fence"
        BY <2>2, <2>4
      <4> QED BY ONLY <1>0, <4>1, ViewUntouched
    <3> QED BY <1>1, <3>1, <3>2, <3>3
  <2>6. /\ View(w, e)["ledger"] = View(w, d)["ledger"] /\ View(w, e)["counts"] = View(w, d)["counts"]
        /\ View(w, e)["fence"] = View(w, d)["fence"]
    BY ONLY <1>0, <2>5, ViewOf
  <2>7. PICK x, y : x = View(w, d) /\ y = View(w, e)
    OBVIOUS
  <2>8. Stocked(x) /\ y.ledger = x.ledger /\ y.counts = x.counts /\ y.fence[1].ver = x.fence[1].ver
    BY <2>6, <2>7 DEF Local
  <2>9. Stocked(y)
    BY ONLY <2>8, StockedSame
  <2> QED BY <1>1, <2>7, <2>9
<1>5. CASE <<"fence", 1>> \notin DOMAIN w.set
  <2>1. \A k \in DOMAIN w.set : k[1] # "fence"
    BY <1>0, <1>5, FenceKey
  <2>2. w.new.ledger = <<>> /\ w.new.counts = <<>> /\ \A k \in DOMAIN w.set : k[1] # "counts"
    BY <1>0, <1>5 DEF Guarded
  <2>3. w.new.fence = <<>> /\ \A k \in DOMAIN w.set : k[1] # "ledger"
    BY <1>0, <1>3 DEF Written
  <2>5. /\ View(w, e)["ledger"] = e["ledger"] /\ View(w, e)["counts"] = e["counts"]
        /\ View(w, e)["fence"] = e["fence"]
    <3>1. View(w, e)["ledger"] = e["ledger"]
      <4>1. w.new["ledger"] = <<>> /\ \A k \in DOMAIN w.set : k[1] # "ledger"
        BY <2>2, <2>3
      <4> QED BY ONLY <1>0, <1>2, <4>1, ViewUntouched
    <3>2. View(w, e)["counts"] = e["counts"]
      <4>1. w.new["counts"] = <<>> /\ \A k \in DOMAIN w.set : k[1] # "counts"
        BY <2>2
      <4> QED BY ONLY <1>0, <1>2, <4>1, ViewUntouched
    <3>3. View(w, e)["fence"] = e["fence"]
      <4>1. w.new["fence"] = <<>> /\ \A k \in DOMAIN w.set : k[1] # "fence"
        BY <2>1, <2>3
      <4> QED BY ONLY <1>0, <1>2, <4>1, ViewUntouched
    <3> QED BY <3>1, <3>2, <3>3
  <2>6. PICK y : y = View(w, e)
    OBVIOUS
  <2>7. y.ledger = e.ledger /\ y.counts = e.counts /\ y.fence[1].ver = e.fence[1].ver
    BY <2>5, <2>6
  <2>8. Stocked(y)
    BY ONLY <1>2, <2>7, StockedSame
  <2> QED BY <1>1, <2>6, <2>8
<1> QED BY <1>4, <1>5

\* The refund a peer has found covered stays covered: its order is locked.
LEMMA PeerBacked ==
  ASSUME NEW u, NEW w, NEW d, NEW n, Sound(d), Local(u, d, n), Local(w, d, n), Apart(u, w),
         Fit(w, View(u, d), n)
  PROVE  Backed(w, View(u, d))
<1>0. /\ Typed(d) /\ Fit(w, d, n) /\ Backed(w, d) /\ Noted(w, d) /\ w.pc \in Nat
      /\ "orders" \in Tables
  BY DEF Sound, Local, Tables, Fit
<1>1. PICK e : e = View(u, d)
  OBVIOUS
<1>2. Typed(e) /\ Fit(w, e, n)
  BY <1>1, CommitTyped
<1>3. PICK a, b, x, y, l : /\ a = Len(d["orders"]) /\ b = Len(e["orders"]) /\ l = Len(w.new["orders"])
                           /\ x = Len(View(w, d)["orders"]) /\ y = Len(View(w, e)["orders"])
  OBVIOUS
<1>4. a \in Nat /\ b \in Nat /\ a <= b
  BY <1>0, <1>1, <1>3, CommitTyped
<1>5. x = a + l /\ l \in Nat
  <2>1. Reads(View(w, d)["orders"], w, d, "orders")
    BY ONLY <1>0, ViewRows
  <2> QED BY <1>3, <2>1 DEF Reads
<1>6. y = b + l
  <2>1. Reads(View(w, e)["orders"], w, e, "orders")
    BY ONLY <1>0, <1>2, ViewRows
  <2> QED BY <1>3, <2>1 DEF Reads
<1>7. \A i \in 1..x : i \in 1..y
  BY ONLY <1>4, <1>5, <1>6
<1>8. \A i \in 1..Len(w.new.pays) :
        w.new.pays[i].status = "PENDING" /\ w.new.pays[i].order \in 1..Len(View(w, e).orders)
  BY ZenonT(40), <1>0, <1>3, <1>7 DEF Backed
<1>9. ASSUME Past(w, {"verify"}, 2), w.seen.kind = "REFUND"
      PROVE  <<"orders", w.seen.order>> \in DOMAIN w.set /\ Net(e.pays, w.seen.order) >= w.seen.qty
  <2>1. PICK o, q, c, f : /\ o = w.seen.order /\ q = w.seen.qty
                          /\ c = Net(d.pays, o) /\ f = Net(e.pays, o)
    OBVIOUS
  <2>2. <<"orders", o>> \in DOMAIN w.set /\ c >= q
    BY <1>0, <1>9, <2>1 DEF Backed
  <2>3. <<"orders", o>> \notin DOMAIN u.set
    BY <2>2 DEF Apart
  <2>4. c \in Int /\ f \in Int /\ f >= c
    BY <1>1, <2>1, <2>3, NetCommit
  <2>5. q \in Nat
    <3>1. w.seen \in Row.pays
      BY <1>0, <1>9 DEF Noted, Past
    <3> QED BY <2>1, <3>1 DEF Row
  <2>6. f >= q
    BY ONLY <2>2, <2>4, <2>5
  <2> QED BY <2>1, <2>2, <2>6
<1> QED BY <1>1, <1>8, <1>9 DEF Backed

\* A peer stands as it did.
LEMMA PeerLocal ==
  ASSUME NEW u, NEW w, NEW d, NEW n, Sound(d), Local(u, d, n), Local(w, d, n), Apart(u, w)
  PROVE  Local(w, View(u, d), n)
<1>1. /\ Fit(u, d, n) /\ Fit(w, d, n) /\ Clean(w) /\ Written(w) /\ Noted(w, d) /\ Changed(w, d)
      /\ Guarded(w)
  BY DEF Local
<1>2. Fit(w, View(u, d), n) /\ Changed(w, View(u, d))
  BY <1>1, PeerFit
<1>3. Noted(w, View(u, d))
  BY <1>1, PeerNoted
<1>4. Stocked(View(w, View(u, d)))
  BY <1>2, PeerStocked
<1>5. Backed(w, View(u, d))
  BY <1>2, PeerBacked
<1> QED BY <1>1, <1>2, <1>3, <1>4, <1>5 DEF Local

\* A COMMIT leaves the other units in order on the database it leaves.
LEMMA CommitInOrder ==
  ASSUME BusInv, InOrder, NEW p \in Processes, Commit(p), ~Stored(unit[p].calls)
  PROVE  InOrder' /\ db' = View(unit[p], db)
<1>1. now \in Nat /\ DOMAIN unit = Processes
  BY SceneFacts
<1>2. db' = View(unit[p], db) /\ unit' = [unit EXCEPT ![p] = NoUnit] /\ now' = now
  <2>1. db' = [t \in Tables |-> Rows(p, t)] /\ unit' = [unit EXCEPT ![p] = NoUnit] /\ now' = now
    BY DEF Commit
  <2>2. \A t \in Tables : Rows(p, t) = View(unit[p], db)[t]
    BY SMTT(40), RowsView
  <2>3. View(unit[p], db) = [t \in Tables |-> View(unit[p], db)[t]]
    BY ZenonT(40) DEF View
  <2> QED BY <2>1, <2>2, <2>3
<1>3. unit'[p] = NoUnit /\ \A o \in Processes \ {p} : unit'[o] = unit[o]
  BY <1>1, <1>2
<1>4. Sound(db) /\ Local(unit[p], db, now)
  BY DEF InOrder
<1>5. Sound(db')
  BY <1>2, <1>4, CommitSound
<1>6. Blank(NoUnit, now)
  BY <1>1 DEF Blank, NoUnit
<1>7. ASSUME NEW o \in Processes PROVE Local(unit'[o], db', now')
  <2>1. CASE o = p
    BY <1>2, <1>3, <1>5, <1>6, <2>1, BlankLocal
  <2>2. CASE o # p
    <3>1. Local(unit[o], db, now) /\ Apart(unit[p], unit[o])
      BY <2>2 DEF InOrder
    <3>2. Local(unit[o], View(unit[p], db), now)
      BY <1>4, <3>1, PeerLocal
    <3> QED BY <1>2, <1>3, <2>2, <3>2
  <2> QED BY <2>1, <2>2
<1>8. ASSUME NEW a \in Processes, NEW b \in Processes, a # b PROVE Apart(unit'[a], unit'[b])
  <2>1. CASE a = p \/ b = p
    BY <1>3, <1>6, <2>1, BlankApart
  <2>2. CASE a # p /\ b # p
    BY <1>3, <1>8, <2>2 DEF InOrder
  <2> QED BY <2>1, <2>2
<1> QED BY <1>2, <1>5, <1>7, <1>8 DEF InOrder

-----------------------------------------------------------------------------
\* What a COMMIT adds under a key.

ByKey(rows, key) == HowMany(rows, LAMBDA row : row.by = key)

\* The rows of a table that name a key, after a COMMIT: those before, and what the unit
\* has inserted when the key is its own.
LEMMA NamesCommit ==
  ASSUME NEW u, NEW d, NEW n, Sound(d), Local(u, d, n), NEW t \in Keyed, NEW key
  PROVE  /\ ByKey(d[t], key) \in Int /\ Len(u.new[t]) \in Nat
         /\ ByKey(View(u, d)[t], key)
              = ByKey(d[t], key)
                  + (IF u.calls.key = key THEN Len(u.new[t]) ELSE 0)
<1>0. t \in Tables /\ Typed(d) /\ Fit(u, d, n) /\ Written(u) /\ Changed(u, d)
  BY DEF Keyed, Tables, Sound, Local
<1>1. PICK R, w, c, o, x, v : /\ R = Row[t] /\ w = Names(t, key) /\ c = d[t]
                              /\ o = Over(u, d, t) /\ x = u.new[t] /\ v = View(u, d)[t]
  OBVIOUS
<1>2. c \in Seq(R) /\ o \in Seq(R) /\ x \in Seq(R) /\ v = o \o x /\ Len(o) = Len(c) /\ Len(c) \in Nat
  <2>1. Over(u, d, t) \in Seq(Row[t]) /\ Len(Over(u, d, t)) = Len(d[t])
    BY <1>0, OverRows
  <2>2. d[t] \in Seq(Row[t]) /\ u.new[t] \in Seq(Row[t])
    BY <1>0 DEF Typed, Fit
  <2>3. View(u, d)[t] = Over(u, d, t) \o u.new[t]
    BY <1>0, ViewIs
  <2> QED BY <1>1, <2>1, <2>2, <2>3
<1>3. v \in Seq(R) /\ Len(x) \in Nat
  BY <1>2
<1>4. w \in [R -> Int]
  BY ZenonT(40), <1>1, <1>2, ByWeighs
<1>5. /\ ByKey(c, key) = Weigh(c, w)
      /\ ByKey(v, key) = Weigh(v, w)
  <2>1. ByKey(c, key) = Weigh(c, w)
    BY ZenonT(40), <1>1, <1>2, ByWeighs DEF ByKey
  <2>2. ByKey(v, key) = Weigh(v, w)
    BY ZenonT(40), <1>1, <1>3, ByWeighs DEF ByKey
  <2> QED BY <2>1, <2>2
<1>6. Weigh(v, w) = Weigh(o, w) + Weigh(x, w)
  BY ONLY <1>2, <1>4, WeighJoin
<1>7. Weigh(c, w) \in Int
  BY ONLY ZenonT(40), <1>2, <1>4, WeighType
<1>8. Weigh(o, w) = Weigh(c, w)
  <2>1. ASSUME NEW i \in 1..Len(c) PROVE w[o[i]] = w[c[i]]
    <3>1. o[i] = IF <<t, i>> \in DOMAIN u.set THEN u.set[<<t, i>>] ELSE c[i]
      BY <1>1, <1>2 DEF Over
    <3>2. CASE <<t, i>> \in DOMAIN u.set
      <4>1. PICK k : k = <<t, i>>
        OBVIOUS
      <4>2. k \in DOMAIN u.set /\ k[1] = t /\ k[2] = i
        BY <3>2, <4>1
      <4>3. u.set[k].by = d[k[1]][k[2]].by
        BY <1>0, <4>2 DEF Changed
      <4>4. o[i].by = c[i].by
        BY <1>1, <3>1, <3>2, <4>1, <4>2, <4>3
      <4>5. o[i] \in R /\ c[i] \in R
        BY <1>2
      <4> QED BY <1>1, <4>4, <4>5 DEF Names
    <3>3. CASE <<t, i>> \notin DOMAIN u.set
      BY <3>1, <3>3
    <3> QED BY <3>2, <3>3
  <2> QED BY ONLY ZenonT(40), <1>2, <2>1, WeighSame
<1>9. ASSUME NEW i \in 1..Len(x) PROVE x[i].by = u.calls.key /\ x[i] \in R
  BY <1>0, <1>1, <1>2 DEF Written
<1>10. Weigh(x, w) = IF u.calls.key = key THEN Len(x) ELSE 0
  <2>1. CASE u.calls.key = key
    <3>1. \A i \in 1..Len(x) : w[x[i]] = 1
      BY <1>1, <1>9, <2>1 DEF Names
    <3>2. Weigh(x, w) = Len(x)
      BY ONLY ZenonT(40), <1>2, <1>4, <3>1, WeighOnes
    <3> QED BY <2>1, <3>2
  <2>2. CASE u.calls.key # key
    <3>1. \A i \in 1..Len(x) : w[x[i]] = 0
      BY <1>1, <1>9, <2>2 DEF Names
    <3>2. Weigh(x, w) = 0
      BY ONLY ZenonT(40), <1>2, <1>4, <3>1, WeighZero
    <3> QED BY <2>2, <3>2
  <2> QED BY <2>1, <2>2
<1>11. ByKey(v, key)
         = ByKey(c, key) + (IF u.calls.key = key THEN Len(x) ELSE 0)
  BY <1>5, <1>6, <1>8, <1>10
<1> QED BY <1>1, <1>3, <1>5, <1>7, <1>11

\* A COMMIT gives its key the whole effect, and no other key any.
LEMMA CommitOnce ==
  ASSUME BusInv, InOrder, OnceOrNotAtAll, NEW p \in Processes, Ends(p), ~Stored(unit[p].calls)
  PROVE  OnceOrNotAtAll'
<1>1. PICK c : c = unit[p].calls
  OBVIOUS
<1>2. Commit(p) /\ unit[p].run > 0 /\ unit[p].pc > Len(Steps(p))
  BY DEF Ends
<1>3. c \in scene.calls /\ c \in Request
  BY <1>1, <1>2, SceneFacts DEF BusInv, Running
<1>4. /\ receipt' = [k \in DOMAIN receipt \cup {c.key} |-> IF k = c.key THEN c ELSE receipt[k]]
      /\ scene' = scene
  BY <1>1, <1>2 DEF Commit
<1>5. db' = View(unit[p], db)
  BY <1>2, CommitInOrder
<1>6. Sound(db) /\ Local(unit[p], db, now)
  BY DEF InOrder
<1>7. ASSUME NEW t \in Keyed PROVE Len(unit[p].new[t]) \in Rights(c)[t]
  <2>1. Written(unit[p]) /\ unit[p].pc \in Nat /\ c.op \in DOMAIN Program
    BY <1>3, <1>6 DEF Local, Fit, Request
  <2>2. unit[p].pc > Len(Program[unit[p].calls.op])
    BY <1>2 DEF Steps, Call
  <2> QED BY <1>1, <2>1, <2>2, EndWritten
<1> SUFFICES ASSUME NEW q \in scene.calls, NEW t \in Keyed
             PROVE  Of(t, q.key)' \in (IF Stored(q)' THEN Rights(receipt'[q.key])[t] ELSE {0})
  BY ZenonT(40), <1>4 DEF OnceOrNotAtAll
<1>8. /\ Of(t, q.key) \in (IF Stored(q) THEN Rights(receipt[q.key])[t] ELSE {0})
      /\ Stored(q)' <=> (Stored(q) \/ q.key = c.key)
  BY <1>4 DEF OnceOrNotAtAll, Stored
<1>9. /\ Of(t, q.key) \in Int /\ Len(unit[p].new[t]) \in Nat
      /\ Of(t, q.key)' = Of(t, q.key) + (IF c.key = q.key THEN Len(unit[p].new[t]) ELSE 0)
  <2>1. Of(t, q.key)' = ByKey(View(unit[p], db)[t], q.key)
    BY <1>5 DEF Of, ByKey, HowMany, Amount
  <2>2. Of(t, q.key) = ByKey(db[t], q.key)
    BY DEF Of, ByKey, HowMany, Amount
  <2>3. PICK u, key : u = unit[p] /\ key = q.key
    OBVIOUS
  <2>4. Sound(db) /\ Local(u, db, now)
    BY <1>6, <2>3
  <2>5. /\ ByKey(db[t], key) \in Int /\ Len(u.new[t]) \in Nat
        /\ ByKey(View(u, db)[t], key)
             = ByKey(db[t], key) + (IF u.calls.key = key THEN Len(u.new[t]) ELSE 0)
    BY ONLY <2>4, t \in Keyed, NamesCommit
  <2> QED BY <1>1, <2>1, <2>2, <2>3, <2>5
<1>10. CASE q.key = c.key
  <2>1. ~Stored(q)
    BY <1>1, <1>10 DEF Stored
  <2>2. Of(t, q.key)' = Len(unit[p].new[t])
    BY <1>8, <1>9, <1>10, <2>1
  <2>3. receipt'[q.key] = c
    BY <1>4, <1>10
  <2> QED BY <1>7, <1>8, <1>10, <2>2, <2>3
<1>11. CASE q.key # c.key
  <2>1. Of(t, q.key)' = Of(t, q.key)
    BY <1>9, <1>11
  <2>2. Stored(q) => receipt'[q.key] = receipt[q.key]
    BY <1>4, <1>11 DEF Stored
  <2> QED BY <1>8, <1>11, <2>1, <2>2
<1> QED BY <1>10, <1>11

-----------------------------------------------------------------------------
\* The inductive invariant.

IInv == BusInv /\ InOrder /\ OnceOrNotAtAll

\* A scene opens on a sound database, without a unit and without a receipt.
LEMMA InvInit == ASSUME StoreInit PROVE IInv
<1>1. BusInv
  BY InitHolds
<1>2. /\ Sound(db) /\ scene.calls \subseteq Request
      /\ \A q \in scene.calls : \A t \in Keyed : \A i \in 1..Len(db[t]) : db[t][i].by # q.key
  BY ScenarioAssumption DEF StoreInit
<1>3. now = 0 /\ DOMAIN receipt = {} /\ \A p \in Processes : unit[p] = NoUnit
  BY DEF StoreInit
<1>4. Blank(NoUnit, now)
  BY <1>3 DEF Blank, NoUnit
<1>5. InOrder
  <2>1. \A p \in Processes : Local(unit[p], db, now)
    BY <1>2, <1>3, <1>4, BlankLocal
  <2>2. \A p, o \in Processes : Apart(unit[p], unit[o])
    BY <1>3, <1>4, BlankApart
  <2> QED BY <1>2, <2>1, <2>2 DEF InOrder
<1>6. OnceOrNotAtAll
  <2> SUFFICES ASSUME NEW q \in scene.calls, NEW t \in Keyed PROVE Of(t, q.key) = 0
    BY <1>3 DEF OnceOrNotAtAll, Stored
  <2>1. PICK R, w, c, key : R = Row[t] /\ key = q.key /\ w = Names(t, key) /\ c = db[t]
    OBVIOUS
  <2>2. c \in Seq(R)
    <3>1. t \in Tables
      BY DEF Keyed, Tables
    <3> QED BY <1>2, <2>1, <3>1 DEF Sound, Typed
  <2>3. w \in [R -> Int] /\ ByKey(c, key) = Weigh(c, w)
    <3>1. c \in Seq(Row[t])
      BY <2>1, <2>2
    <3>2. Names(t, key) \in [Row[t] -> Int] /\ ByKey(c, key) = Weigh(c, Names(t, key))
      BY ONLY ZenonT(40), <3>1, t \in Keyed, ByWeighs DEF ByKey
    <3> QED BY <2>1, <3>2
  <2>4. \A i \in 1..Len(c) : w[c[i]] = 0
    <3> SUFFICES ASSUME NEW i \in 1..Len(c) PROVE w[c[i]] = 0
      OBVIOUS
    <3>1. c[i] \in R /\ c[i].by # key
      BY <1>2, <2>1, <2>2
    <3> QED BY <2>1, <3>1 DEF Names
  <2>5. Weigh(c, w) = 0
    BY ONLY <2>2, <2>3, <2>4, WeighZero
  <2>6. Of(t, q.key) = ByKey(c, key)
    BY <2>1 DEF Of, ByKey, HowMany, Amount
  <2> QED BY <2>3, <2>5, <2>6
<1> QED BY <1>1, <1>5, <1>6 DEF IInv

\* The requests of a scene stay.
LEMMA SceneStays == ASSUME BusInv, [Next]_store PROVE scene' = scene
<1>1. CASE \E p \in Processes : InventoryStatement(p) \/ CommerceStatement(p) \/ DocumentStatement(p)
  <2>1. PICK p \in Processes : Outcome(p)
    BY <1>1, InventoryOutcome, CommerceOutcome, DocumentOutcome DEF BusInv
  <2> QED BY <2>1 DEF Outcome, GoesOn, Becomes, Refuse, GiveUp, Rerun
<1>2. CASE \E p \in Processes : Ends(p)
  BY <1>2 DEF Ends, Commit, Rerun, GiveUp, Becomes
<1>3. CASE \E p \in Processes : Look(p)
  BY <1>3 DEF Look, Becomes
<1>4. CASE \/ \E p \in Processes : (\E q \in scene.calls : Send(p, q)) \/ Fail(p)
           \/ Tick \/ UNCHANGED store
  BY ZenonT(40), <1>4 DEF Send, Fail, GiveUp, Becomes, Tick, store
<1> QED BY <1>1, <1>2, <1>3, <1>4 DEF Next

\* Every step keeps the invariant.
LEMMA InvStep == ASSUME IInv, [Next]_store PROVE IInv'
<1>1. BusInv /\ InOrder /\ OnceOrNotAtAll
  BY DEF IInv
<1>2. BusInv'
  BY <1>1, StepKeeps
<1>3. CASE \E p \in Processes : Ends(p) /\ ~Stored(unit[p].calls)
  <2>1. PICK p \in Processes : Ends(p) /\ ~Stored(unit[p].calls)
    BY <1>3
  <2>2. InOrder'
    BY <1>1, <2>1, CommitInOrder DEF Ends
  <2>3. OnceOrNotAtAll'
    BY <1>1, <2>1, CommitOnce
  <2> QED BY <1>2, <2>2, <2>3 DEF IInv
<1>4. CASE \A p \in Processes : Ends(p) => Stored(unit[p].calls)
  <2>1. InOrder' /\ UNCHANGED <<db, receipt>>
    BY <1>1, <1>4, QuietInOrder
  <2>2. scene' = scene
    BY <1>1, SceneStays
  <2>3. OnceOrNotAtAll'
    <3>1. \A t, key : Of(t, key)' = Of(t, key)
      BY <2>1 DEF Of, HowMany, Amount
    <3>2. \A q : Stored(q)' <=> Stored(q)
      BY <2>1 DEF Stored
    <3> SUFFICES ASSUME NEW q \in scene.calls, NEW t \in Keyed
                 PROVE  Of(t, q.key)' \in (IF Stored(q)' THEN Rights(receipt'[q.key])[t] ELSE {0})
      BY <2>2 DEF OnceOrNotAtAll
    <3>3. Of(t, q.key) \in (IF Stored(q) THEN Rights(receipt[q.key])[t] ELSE {0})
      BY <1>1 DEF OnceOrNotAtAll
    <3> QED BY <2>1, <3>1, <3>2, <3>3
  <2> QED BY <1>2, <2>1, <2>3 DEF IInv
<1> QED BY <1>3, <1>4

\* The invariant holds for every number of processes, attempts, calls and scenarios.
THEOREM Invariance == Spec => []IInv
<1> QED
  BY InvInit, InvStep, PTL DEF Spec

-----------------------------------------------------------------------------
\* What follows from it.

\* Whatever units run, the committed tables, the callers' answers and what a unit has
\* written hold what their types say.
THEOREM StoreTypeCorrect == Spec => []TypeOK
<1>1. IInv => TypeOK
  <2> SUFFICES ASSUME IInv PROVE TypeOK
    OBVIOUS
  <2>1. Typed(db) /\ Heard
    BY DEF IInv, InOrder, Sound, BusInv
  <2>2. ASSUME NEW p \in Processes
        PROVE  /\ unit[p].pc \in Nat /\ unit[p].at \in 0..now
               /\ \A t \in Tables : unit[p].new[t] \in Seq(Row[t])
               /\ \A k \in DOMAIN unit[p].set : k \in Tables \X Nat /\ unit[p].set[k] \in Row[k[1]]
    <3>1. Fit(unit[p], db, now)
      BY DEF IInv, InOrder, Local
    <3>2. \A k \in Kept \X Nat : k \in Tables \X Nat
      BY DEF Kept, Tables
    <3> QED BY <3>1, <3>2 DEF Fit
  <2> QED BY <2>1, <2>2 DEF TypeOK, Heard
<1> QED
  BY <1>1, Invariance, PTL

\* Stock that is not there never leaves, whatever sales, fulfilments, work orders and
\* counts run side by side.
THEOREM StockStaysCovered == Spec => []StockNeverNegative
<1>1. IInv => StockNeverNegative
  BY DEF IInv, InOrder, Sound, StockNeverNegative
<1> QED
  BY <1>1, Invariance, PTL

\* A committed count corrects the stock its preview counted.
THEOREM CountsCorrectWhatTheyCounted == Spec => []CountedStockStood
<1>1. IInv => CountedStockStood
  BY DEF IInv, InOrder, Sound, CountedStockStood
<1> QED
  BY <1>1, Invariance, PTL

\* Per order, the refunds verified never exceed the payments verified, whichever
\* managers verify side by side.
THEOREM RefundsStayWithinPaid == Spec => []RefundsWithinPaid
<1>1. IInv => RefundsWithinPaid
  BY DEF IInv, InOrder, Sound, RefundsWithinPaid
<1> QED
  BY <1>1, Invariance, PTL

\* A key has its whole effect once or none, however often its request is sent, re-run,
\* cut off or answered.
THEOREM EffectOnceOrNotAtAll == Spec => []OnceOrNotAtAll
<1>1. IInv => OnceOrNotAtAll
  BY DEF IInv
<1> QED
  BY <1>1, Invariance, PTL

-----------------------------------------------------------------------------
\* Amounts that stay below others.

\* Of two lists of as many numbers, the one that is nowhere more totals no more.
LEMMA TotalLess ==
  ASSUME NEW l \in Seq(Int), NEW k \in Seq(Int), Len(k) = Len(l),
         \A i \in 1..Len(l) : k[i] <= l[i]
  PROVE  Total(k) <= Total(l)
<1>1. PICK n \in Nat : n = Len(l) /\ n = Len(k)
  OBVIOUS
<1>2. PICK r, s : r = Sums(l) /\ s = Sums(k)
  OBVIOUS
<1>3. Runs(r, l, n) /\ Runs(s, k, n)
  BY <1>1, <1>2, SumsRun
<1>4. \A i \in 1..n : k[i] <= l[i] /\ k[i] \in Int /\ l[i] \in Int
  BY <1>1
<1> DEFINE T == {i \in 0..n : ~(s[i] <= r[i])}
<1>5. T = {}
  <2>1. SUFFICES ASSUME T # {} PROVE FALSE
    OBVIOUS
  <2>2. PICK m \in T : \A j \in T : m <= j
    <3>1. T \subseteq Nat
      OBVIOUS
    <3> HIDE DEF T
    <3> QED BY ZenonT(40), <2>1, <3>1, Least
  <2>3. m \in 0..n /\ ~(s[m] <= r[m])
    BY <2>2
  <2>4. m # 0
    BY <1>3, <2>3 DEF Runs
  <2>5. m - 1 \in 0..n /\ ~(m <= m - 1) /\ m \in 1..n
    BY <2>3, <2>4
  <2>6. s[m - 1] <= r[m - 1]
    BY <2>2, <2>5
  <2>7. /\ r[m] = r[m - 1] + l[m] /\ s[m] = s[m - 1] + k[m]
        /\ r[m - 1] \in Int /\ s[m - 1] \in Int
    BY <1>3, <2>5 DEF Runs
  <2>8. k[m] <= l[m] /\ k[m] \in Int /\ l[m] \in Int
    BY <1>4, <2>5
  <2>9. s[m] <= r[m]
    BY ONLY <2>6, <2>7, <2>8
  <2> QED BY <2>3, <2>9
<1>6. s[n] <= r[n]
  <2>1. n \in 0..n
    OBVIOUS
  <2> QED BY <1>5, <2>1
<1> QED BY <1>1, <1>2, <1>6 DEF Total

\* Each row of other weighs by w no more than the row of rows in its place does by v.
NoMore(rows, other, v, w) ==
  Len(other) = Len(rows) /\ \A i \in 1..Len(rows) : w[other[i]] <= v[rows[i]]

\* Rows none of which weighs more weigh no more together.
LEMMA WeighLess ==
  ASSUME NEW R, NEW v \in [R -> Int], NEW w \in [R -> Int], NEW rows \in Seq(R),
         NEW other \in Seq(R), NoMore(rows, other, v, w)
  PROVE  Weigh(other, w) <= Weigh(rows, v)
<1>1. PICK l, k : /\ l = [j \in 1..Len(rows) |-> v[rows[j]]]
                  /\ k = [j \in 1..Len(other) |-> w[other[j]]]
  OBVIOUS
<1>2. l \in Seq(Int) /\ k \in Seq(Int) /\ Len(l) = Len(rows) /\ Len(k) = Len(other)
  BY <1>1, WeighList
<1>3. Len(k) = Len(l) /\ \A i \in 1..Len(l) : k[i] <= l[i]
  <2>1. Len(other) = Len(rows) /\ \A i \in 1..Len(rows) : w[other[i]] <= v[rows[i]]
    BY DEF NoMore
  <2>2. \A i \in 1..Len(rows) : l[i] = v[rows[i]] /\ k[i] = w[other[i]]
    BY <1>1, <2>1
  <2> QED BY ONLY <1>2, <2>1, <2>2
<1>4. Total(k) <= Total(l)
  BY ONLY ZenonT(40), <1>2, <1>3, TotalLess
<1> QED BY <1>1, <1>4 DEF Weigh

-----------------------------------------------------------------------------
\* What holds bind.

\* What a hold binds at time n, and what it does for one who saw these holds at time t.
Pledges(n) == [h \in Row.holds |-> IF Live(h, n) THEN h.qty ELSE 0]
Binds(seen, t, n) ==
  [h \in Row.holds |-> IF Live(h, n) /\ ~Overtaken(h, seen, t) THEN h.qty ELSE 0]

\* What holds promise is what their pledges weigh,
LEMMA PromisedWeighs ==
  ASSUME NEW holds \in Seq(Row.holds), NEW n
  PROVE  /\ Pledges(n) \in [Row.holds -> Int]
         /\ Promised(holds, n) = Weigh(holds, Pledges(n))
<1>1. \A h \in Row.holds : h.qty \in Int
  BY DEF Row
<1>2. Pledges(n) \in [Row.holds -> Int]
  BY <1>1 DEF Pledges
<1>3. \A i \in 1..Len(holds) : holds[i] \in Row.holds
  OBVIOUS
<1>4. [i \in 1..Len(holds) |-> IF Live(holds[i], n) THEN holds[i].qty ELSE 0]
        = [i \in 1..Len(holds) |-> Pledges(n)[holds[i]]]
  BY <1>3 DEF Pledges
<1> QED BY ZenonT(40), <1>2, <1>4 DEF Promised, Amount, Weigh

\* and what they bind what those that bind weigh.
LEMMA BindingWeighs ==
  ASSUME NEW holds \in Seq(Row.holds), NEW seen, NEW t, NEW n
  PROVE  /\ Binds(seen, t, n) \in [Row.holds -> Int]
         /\ Binding(holds, seen, t, n) = Weigh(holds, Binds(seen, t, n))
<1>1. \A h \in Row.holds : h.qty \in Int
  BY DEF Row
<1>2. Binds(seen, t, n) \in [Row.holds -> Int]
  BY <1>1 DEF Binds
<1>3. \A i \in 1..Len(holds) : holds[i] \in Row.holds
  OBVIOUS
<1>4. [i \in 1..Len(holds) |-> IF Live(holds[i], n) /\ ~Overtaken(holds[i], seen, t) THEN holds[i].qty ELSE 0]
        = [i \in 1..Len(holds) |-> Binds(seen, t, n)[holds[i]]]
  BY <1>3 DEF Binds
<1> QED BY ZenonT(40), <1>2, <1>4 DEF Binding, Amount, Weigh

\* What a hold binds is no more than it pledges, and no more later than earlier.
LEMMA BindsFewer ==
  ASSUME NEW h \in Row.holds, NEW seen, NEW t, NEW n \in Nat, NEW m \in Nat, m <= n
  PROVE  /\ Binds(seen, t, n)[h] \in Nat /\ Binds(seen, t, n)[h] <= h.qty /\ h.qty \in Nat
         /\ Binds(seen, t, n)[h] <= Pledges(n)[h]
         /\ Binds(seen, t, n)[h] <= Binds(seen, t, m)[h]
<1>1. h.qty \in Nat /\ h.exp \in Nat
  BY DEF Row
<1>2. Live(h, n) => Live(h, m)
  BY <1>1 DEF Live
<1>3. Binds(seen, t, n)[h] = IF Live(h, n) /\ ~Overtaken(h, seen, t) THEN h.qty ELSE 0
  BY DEF Binds
<1>4. Binds(seen, t, m)[h] = IF Live(h, m) /\ ~Overtaken(h, seen, t) THEN h.qty ELSE 0
  BY DEF Binds
<1>5. Pledges(n)[h] = IF Live(h, n) THEN h.qty ELSE 0
  BY DEF Pledges
<1> QED BY <1>1, <1>2, <1>3, <1>4, <1>5

\* What all holds bind is no more than what they promise,
LEMMA BindingPromised ==
  ASSUME NEW holds \in Seq(Row.holds), NEW seen, NEW t, NEW n \in Nat
  PROVE  Binding(holds, seen, t, n) <= Promised(holds, n)
<1>1. PICK R, v, w : R = Row.holds /\ v = Pledges(n) /\ w = Binds(seen, t, n)
  OBVIOUS
<1>2. /\ holds \in Seq(R) /\ v \in [R -> Int] /\ w \in [R -> Int]
      /\ Promised(holds, n) = Weigh(holds, v) /\ Binding(holds, seen, t, n) = Weigh(holds, w)
  BY ZenonT(40), <1>1, PromisedWeighs, BindingWeighs
<1>3. \A i \in 1..Len(holds) : w[holds[i]] <= v[holds[i]]
  <2> SUFFICES ASSUME NEW i \in 1..Len(holds) PROVE w[holds[i]] <= v[holds[i]]
    OBVIOUS
  <2>1. PICK h : h = holds[i] /\ h \in Row.holds
    OBVIOUS
  <2>2. Binds(seen, t, n)[h] <= Pledges(n)[h]
    BY <2>1, BindsFewer
  <2> QED BY <1>1, <2>1, <2>2
<1>4. NoMore(holds, holds, v, w)
  BY <1>3 DEF NoMore
<1>5. Weigh(holds, w) <= Weigh(holds, v)
  BY ONLY <1>2, <1>4, WeighLess
<1> QED BY <1>2, <1>5

\* and no more later than it was.
LEMMA BindingLater ==
  ASSUME NEW holds \in Seq(Row.holds), NEW seen, NEW t, NEW n \in Nat, NEW m \in Nat, m <= n
  PROVE  Binding(holds, seen, t, n) <= Binding(holds, seen, t, m)
<1>1. PICK R, v, w : R = Row.holds /\ v = Binds(seen, t, m) /\ w = Binds(seen, t, n)
  OBVIOUS
<1>2. /\ holds \in Seq(R) /\ v \in [R -> Int] /\ w \in [R -> Int]
      /\ Binding(holds, seen, t, m) = Weigh(holds, v) /\ Binding(holds, seen, t, n) = Weigh(holds, w)
  BY ZenonT(40), <1>1, BindingWeighs
<1>3. \A i \in 1..Len(holds) : w[holds[i]] <= v[holds[i]]
  <2> SUFFICES ASSUME NEW i \in 1..Len(holds) PROVE w[holds[i]] <= v[holds[i]]
    OBVIOUS
  <2>1. PICK h : h = holds[i] /\ h \in Row.holds
    OBVIOUS
  <2>2. Binds(seen, t, n)[h] <= Binds(seen, t, m)[h]
    BY <2>1, BindsFewer
  <2> QED BY <1>1, <2>1, <2>2
<1>4. NoMore(holds, holds, v, w)
  BY <1>3 DEF NoMore
<1>5. Weigh(holds, w) <= Weigh(holds, v)
  BY ONLY <1>2, <1>4, WeighLess
<1> QED BY <1>2, <1>5

\* A row weighs what it weighs.
LEMMA WeighOne ==
  ASSUME NEW R, NEW w \in [R -> Int], NEW rows \in Seq(R), Len(rows) = 1
  PROVE  Weigh(rows, w) = w[rows[1]]
<1>1. PICK none : none = <<>> /\ none \in Seq(R)
  BY ZenonT(40), EmptySeq
<1>2. Longer(rows, none)
  BY <1>1 DEF Longer
<1>3. Weigh(none, w) = 0
  <2>1. \A i \in 1..Len(none) : w[none[i]] = 0
    BY <1>1
  <2> QED BY ONLY <1>1, <2>1, w \in [R -> Int], WeighZero
<1>4. Weigh(rows, w) = Weigh(none, w) + w[rows[Len(rows)]]
  BY ONLY <1>1, <1>2, w \in [R -> Int], rows \in Seq(R), WeighMore
<1>5. w[rows[1]] \in Int
  BY SMTT(40)
<1> QED BY <1>3, <1>4, <1>5

-----------------------------------------------------------------------------
\* What units know of the holds.

\* One who saw these holds knows of each that is live now, or it was committed since.
Knows(seen, holds) ==
  /\ seen \in Seq(Row.holds) /\ Len(seen) <= Len(holds)
  /\ \A i \in 1..Len(holds) :
       IF i <= Len(seen)
       THEN holds[i].status = "ACTIVE" => seen[i].status = "ACTIVE" /\ seen[i].exp = holds[i].exp
       ELSE holds[i].purpose = "ORDER"

\* A unit that has asked what it may promise keeps the fence, and what it asked for is
\* still there beside what binds.
Asked(u, d) ==
  /\ <<"fence", 1>> \in DOMAIN u.set
  /\ Knows(u.seen, d.holds)
  /\ Binding(d.holds, u.seen, u.at, u.at) + u.calls.qty <= OnHand(d.ledger, "A")

\* What a unit that places a hold, or converts one, has found and written.
Holding(u, d) ==
  /\ u.calls.op = "hold" => \A i \in 1..Len(u.new.holds) :
       /\ u.new.holds[i].purpose = "QUOTE" /\ u.new.holds[i].from = 0
       /\ u.new.holds[i].qty = u.calls.qty /\ u.new.holds[i].status = "ACTIVE"
  /\ u.calls.op = "convert" => \A i \in 1..Len(u.new.holds) :
       /\ u.new.holds[i].purpose = "ORDER" /\ u.new.holds[i].from = u.calls.on
       /\ u.new.holds[i].qty = u.seen.qty /\ u.new.holds[i].status = "ACTIVE"
  /\ Past(u, {"convert"}, 1) => u.seen.purpose = "QUOTE"
  /\ Past(u, {"convert"}, 3) => <<"holds", u.calls.on>> \in DOMAIN u.set
  /\ Past(u, {"hold"}, 1) => Asked(u, d)

\* The unit is at its COMMIT.
Complete(u) == u.calls.op \in DOMAIN Program /\ u.pc \in Nat /\ u.pc > Len(Program[u.calls.op])

\* A command that places no hold has none to commit.
LEMMA NoNewHolds ==
  ASSUME NEW u, NEW d, NEW n, Fit(u, d, n), Written(u), Complete(u),
         u.calls.op \notin {"hold", "convert"}
  PROVE  u.new["holds"] = <<>>
<1>1. "holds" \in Keyed /\ "holds" \in Tables
  BY DEF Keyed, Tables
<1>2. Len(u.new["holds"]) \in Rights(u.calls)["holds"]
  BY <1>1, EndWritten DEF Complete
<1>3. Rights(u.calls)["holds"] = {0}
  BY <1>1 DEF Rights, Keyed
<1>4. u.new["holds"] \in Seq(Row["holds"])
  BY <1>1 DEF Fit
<1> QED BY <1>2, <1>3, <1>4

\* A hold as a COMMIT leaves it: as it was, or ended.
KeptOrEnded(w, h, o, i) ==
  /\ h \in Row.holds /\ o \in Row.holds
  /\ IF <<"holds", i>> \in DOMAIN w.set
     THEN /\ EndsHold(w, h, o, i)
          /\ o.status = Ended(w.calls.op) /\ o.status # "ACTIVE" /\ h.status = "ACTIVE"
          /\ o.purpose = h.purpose /\ o.exp = h.exp /\ o.from = h.from
     ELSE o = h

\* A hold after a COMMIT, beside what it was before.
LEMMA HoldAfter ==
  ASSUME NEW w, NEW d, NEW n, Typed(d), Fit(w, d, n), Changed(w, d), NEW i \in 1..Len(d["holds"])
  PROVE  KeptOrEnded(w, d["holds"][i], Over(w, d, "holds")[i], i)
<1>0. "holds" \in Tables
  BY DEF Tables
<1>1. PICK o, h : o = Over(w, d, "holds")[i] /\ h = d["holds"][i]
  OBVIOUS
<1>2. h \in Row.holds
  BY <1>0, <1>1 DEF Typed
<1>3. o \in Row.holds
  <2>1. PICK c, R : c = Over(w, d, "holds") /\ R = Row["holds"] /\ c \in Seq(R) /\ Len(c) = Len(d["holds"])
    BY <1>0, OverRows
  <2>2. c[i] \in R
    BY <2>1
  <2> QED BY <1>1, <2>1, <2>2
<1>4. o = IF <<"holds", i>> \in DOMAIN w.set THEN w.set[<<"holds", i>>] ELSE h
  BY <1>1 DEF Over
<1>5. CASE <<"holds", i>> \in DOMAIN w.set
  <2>1. PICK k : k = <<"holds", i>>
    OBVIOUS
  <2>2. k \in DOMAIN w.set /\ k[1] = "holds" /\ k[2] = i
    BY <1>5, <2>1
  <2>3. EndsHold(w, h, o, i)
    BY <1>1, <1>4, <2>1, <2>2 DEF Changed
  <2>4. /\ o.status = Ended(w.calls.op) /\ o.status # "ACTIVE"
        /\ o.purpose = h.purpose /\ o.exp = h.exp /\ o.from = h.from
    BY ONLY <1>2, <2>3, EndFields
  <2>5. h.status = "ACTIVE"
    BY <2>3 DEF EndsHold
  <2> QED BY <1>1, <1>2, <1>3, <1>5, <2>3, <2>4, <2>5 DEF KeptOrEnded
<1>6. CASE <<"holds", i>> \notin DOMAIN w.set
  BY <1>1, <1>2, <1>3, <1>4, <1>6 DEF KeptOrEnded
<1> QED BY <1>5, <1>6

\* What a hold that has ended, or not begun to, binds.
LEMMA EndedBinds ==
  ASSUME NEW h \in Row.holds, h.status # "ACTIVE", NEW seen, NEW t, NEW n
  PROVE  Binds(seen, t, n)[h] = 0
BY DEF Binds, Live

\* A unit in order at its COMMIT, and what it knows of the holds.
Done(w, d, n) ==
  /\ Sound(d) /\ Local(w, d, n) /\ Complete(w) /\ Holding(w, d)
  /\ w.calls.op # "hold"

\* What a COMMIT that places no quote adds to the holds: nothing, or the committed hold
\* that stands for the quote it ends.
LEMMA HoldsAdded ==
  ASSUME NEW w, NEW d, NEW n, Done(w, d, n)
  PROVE  \/ w.new["holds"] = <<>>
         \/ /\ w.calls.op = "convert" /\ Len(w.new["holds"]) = 1 /\ w.new["holds"] \in Seq(Row.holds)
            /\ w.new["holds"][1].purpose = "ORDER" /\ w.new["holds"][1].from = w.calls.on
            /\ w.new["holds"][1].qty = w.seen.qty
            /\ w.calls.on \in 1..Len(d["holds"]) /\ <<"holds", w.calls.on>> \in DOMAIN w.set
            /\ d["holds"][w.calls.on] = w.seen /\ w.seen.purpose = "QUOTE"
<1>0. Typed(d) /\ Fit(w, d, n) /\ Written(w) /\ Changed(w, d) /\ Complete(w) /\ Holding(w, d)
  BY DEF Done, Sound, Local
<1>1. CASE w.calls.op # "convert"
  BY <1>0, <1>1, NoNewHolds DEF Done
<1>2. CASE w.calls.op = "convert"
  <2>0. "holds" \in Keyed /\ "holds" \in Tables
    BY DEF Keyed, Tables
  <2>1. w.pc > 3 /\ w.pc > 1
    BY <1>0, <1>2 DEF Complete, Program
  <2>2. Len(w.new["holds"]) \in Rights(w.calls)["holds"]
    BY <1>0, <2>0, EndWritten DEF Complete
  <2>3. Rights(w.calls)["holds"] = {1}
    BY <1>2, <2>0 DEF Rights, Keyed
  <2>4. Len(w.new["holds"]) = 1
    BY <2>2, <2>3
  <2>5. w.new["holds"] \in Seq(Row.holds)
    BY <1>0, <2>0 DEF Fit
  <2>6. /\ w.new["holds"][1].purpose = "ORDER" /\ w.new["holds"][1].from = w.calls.on
        /\ w.new["holds"][1].qty = w.seen.qty
    BY <1>0, <1>2, <2>4 DEF Holding
  <2>7. <<"holds", w.calls.on>> \in DOMAIN w.set /\ w.seen.purpose = "QUOTE"
    BY <1>0, <1>2, <2>1 DEF Holding, Past
  <2>8. PICK k : k = <<"holds", w.calls.on>>
    OBVIOUS
  <2>9. k \in DOMAIN w.set /\ k[1] = "holds" /\ k[2] = w.calls.on
    BY <2>7, <2>8
  <2>10. EndsHold(w, d.holds[k[2]], w.set[k], k[2]) /\ k[2] \in 1..Len(d[k[1]])
    BY <1>0, <2>9 DEF Changed, Fit
  <2>11. d["holds"][w.calls.on] = w.seen
    BY <1>2, <2>9, <2>10 DEF EndsHold
  <2> QED BY <1>2, <2>4, <2>5, <2>6, <2>7, <2>9, <2>10, <2>11
<1> QED BY <1>1, <1>2

\* The holds after a COMMIT, one by one: those before, each as it was or ended, then those
\* that are added.
LEMMA HoldsAfter ==
  ASSUME NEW w, NEW d, NEW n, Sound(d), Local(w, d, n)
  PROVE  /\ View(w, d)["holds"] = Over(w, d, "holds") \o w.new["holds"]
         /\ Over(w, d, "holds") \in Seq(Row.holds) /\ w.new["holds"] \in Seq(Row.holds)
         /\ d["holds"] \in Seq(Row.holds) /\ Len(Over(w, d, "holds")) = Len(d["holds"])
         /\ Len(d["holds"]) \in Nat /\ Len(w.new["holds"]) \in Nat
<1>0. "holds" \in Tables /\ Typed(d) /\ Fit(w, d, n)
  BY DEF Tables, Sound, Local
<1>1. View(w, d)["holds"] = Over(w, d, "holds") \o w.new["holds"]
  BY <1>0, ViewIs
<1>2. Over(w, d, "holds") \in Seq(Row.holds) /\ Len(Over(w, d, "holds")) = Len(d["holds"])
  BY <1>0, OverRows
<1>3. d["holds"] \in Seq(Row.holds) /\ w.new["holds"] \in Seq(Row.holds)
  BY <1>0 DEF Typed, Fit
<1>4. Len(d["holds"]) \in Nat /\ Len(w.new["holds"]) \in Nat
  BY <1>3
<1> QED BY <1>1, <1>2, <1>3, <1>4

\* Who knew the holds still does.
LEMMA StillKnows ==
  ASSUME NEW w, NEW d, NEW n, Done(w, d, n), NEW seen, Knows(seen, d["holds"])
  PROVE  Knows(seen, View(w, d)["holds"])
<1>0. Sound(d) /\ Local(w, d, n) /\ Typed(d) /\ Fit(w, d, n) /\ Changed(w, d)
  BY DEF Done, Sound, Local
<1>1. PICK o, x, c, e : /\ o = Over(w, d, "holds") /\ x = w.new["holds"] /\ c = d["holds"]
                        /\ e = View(w, d)["holds"]
  OBVIOUS
<1>2. PICK R : R = Row.holds
  OBVIOUS
<1>3. /\ e = o \o x /\ o \in Seq(R) /\ x \in Seq(R) /\ c \in Seq(R) /\ Len(o) = Len(c)
      /\ Len(c) \in Nat /\ Len(x) \in Nat
  BY <1>0, <1>1, <1>2, HoldsAfter
<1>4. /\ Len(e) = Len(c) + Len(x)
      /\ \A i \in 1..Len(c) : e[i] = o[i]
      /\ \A i \in 1..Len(x) : e[Len(c) + i] = x[i]
  <2>1. /\ Len(e) = Len(o) + Len(x)
        /\ \A i \in 1..Len(o) : e[i] = o[i]
        /\ \A i \in 1..Len(x) : e[Len(o) + i] = x[i]
    <3>1. o \in Seq(R) /\ x \in Seq(R)
      BY <1>3
    <3>2. e = o \o x
      BY <1>3
    <3> QED BY ONLY <3>1, <3>2, Joined
  <2> QED BY ONLY <1>3, <2>1
<1>5. /\ seen \in Seq(Row.holds) /\ Len(seen) <= Len(c) /\ Len(seen) \in Nat
      /\ \A i \in 1..Len(c) :
           IF i <= Len(seen)
           THEN c[i].status = "ACTIVE" => seen[i].status = "ACTIVE" /\ seen[i].exp = c[i].exp
           ELSE c[i].purpose = "ORDER"
  BY <1>1 DEF Knows
<1>6. Len(seen) <= Len(e)
  BY ONLY <1>3, <1>4, <1>5
<1>7. ASSUME NEW i \in 1..Len(e)
      PROVE  IF i <= Len(seen)
             THEN e[i].status = "ACTIVE" => seen[i].status = "ACTIVE" /\ seen[i].exp = e[i].exp
             ELSE e[i].purpose = "ORDER"
  <2>1. CASE i \in 1..Len(c)
    <3>1. e[i] = o[i]
      BY <1>4, <2>1
    <3>2. o[i] = c[i] \/ (o[i].status # "ACTIVE" /\ o[i].purpose = c[i].purpose)
      <4>1. i \in 1..Len(d["holds"])
        BY <1>1, <2>1
      <4>2. KeptOrEnded(w, d["holds"][i], Over(w, d, "holds")[i], i)
        BY ONLY <1>0, <4>1, HoldAfter
      <4>3. KeptOrEnded(w, c[i], o[i], i)
        BY <1>1, <4>2
      <4> QED BY <4>3 DEF KeptOrEnded
    <3>3. IF i <= Len(seen)
          THEN c[i].status = "ACTIVE" => seen[i].status = "ACTIVE" /\ seen[i].exp = c[i].exp
          ELSE c[i].purpose = "ORDER"
      BY <1>5, <2>1
    <3> QED BY ONLY <3>1, <3>2, <3>3
  <2>2. CASE i \notin 1..Len(c)
    <3>1. PICK j \in 1..Len(x) : i = Len(c) + j
      <4>1. i - Len(c) \in 1..Len(x) /\ i = Len(c) + (i - Len(c))
        BY ONLY <1>3, <1>4, <2>2, i \in 1..Len(e)
      <4> QED BY <4>1
    <3>2. e[i] = x[j]
      BY <1>4, <3>1
    <3>3. x # <<>>
      BY <3>1, <1>3
    <3>4. Len(x) = 1 /\ x[1].purpose = "ORDER"
      BY <1>1, <3>3, HoldsAdded
    <3>5. j = 1
      BY <3>1, <3>4
    <3>6. ~(i <= Len(seen))
      BY ONLY <1>3, <1>5, <2>2, i \in 1..Len(e), <1>4
    <3> QED BY <3>2, <3>4, <3>5, <3>6
  <2> QED BY <2>1, <2>2
<1> QED BY <1>1, <1>5, <1>6, <1>7 DEF Knows

\* The committed hold binds what the quote it stands for bound, or was overtaken.
LEMMA CommittedBinds ==
  ASSUME NEW h \in Row.holds, NEW x \in Row.holds, NEW on, NEW holds, NEW seen, NEW t,
         Knows(seen, holds), on \in 1..Len(holds), holds[on] = h,
         h.status = "ACTIVE", h.purpose = "QUOTE", t \in Nat,
         x.purpose = "ORDER", x.from = on, x.qty = h.qty
  PROVE  Binds(seen, t, t)[x] <= Binds(seen, t, t)[h]
<1>1. on \in Nat /\ on <= Len(seen) /\ seen[on].status = "ACTIVE" /\ seen[on].exp = h.exp
  BY DEF Knows
<1>2. on \in DOMAIN seen
  <2>1. seen \in Seq(Row.holds)
    BY DEF Knows
  <2>2. on \in 1..Len(seen)
    BY <1>1, <2>1
  <2> QED BY <2>1, <2>2
<1>3. h.exp \in Nat /\ h.qty \in Nat
  BY DEF Row
<1>4. Binds(seen, t, t)[h] = IF h.exp > t THEN h.qty ELSE 0
  BY DEF Binds, Live, Overtaken
<1>5. Binds(seen, t, t)[x] \in {0, h.qty} /\ (h.exp <= t => Binds(seen, t, t)[x] = 0)
  BY <1>1, <1>2 DEF Binds, Overtaken
<1> QED BY <1>3, <1>4, <1>5

\* A COMMIT that places no quote never makes what binds more.
LEMMA BindsAfter ==
  ASSUME NEW w, NEW d, NEW n, Done(w, d, n), NEW seen, Knows(seen, d["holds"]), NEW t \in Nat
  PROVE  Binding(View(w, d)["holds"], seen, t, t) <= Binding(d["holds"], seen, t, t)
<1>0. Sound(d) /\ Local(w, d, n) /\ Typed(d) /\ Fit(w, d, n) /\ Changed(w, d)
  BY DEF Done, Sound, Local
<1>1. PICK o, x, c, e : /\ o = Over(w, d, "holds") /\ x = w.new["holds"] /\ c = d["holds"]
                        /\ e = View(w, d)["holds"]
  OBVIOUS
<1>2. PICK R, W : R = Row.holds /\ W = Binds(seen, t, t)
  OBVIOUS
<1>3. /\ e = o \o x /\ o \in Seq(R) /\ x \in Seq(R) /\ c \in Seq(R) /\ Len(o) = Len(c)
      /\ Len(c) \in Nat /\ Len(x) \in Nat
  BY <1>0, <1>1, <1>2, HoldsAfter
<1>4. e \in Seq(R)
  <2>1. e = o \o x /\ o \in Seq(R) /\ x \in Seq(R)
    BY <1>3
  <2> QED BY ONLY <2>1
<1>5. /\ W \in [R -> Int]
      /\ Binding(c, seen, t, t) = Weigh(c, W) /\ Binding(e, seen, t, t) = Weigh(e, W)
  <2>1. c \in Seq(Row.holds) /\ e \in Seq(Row.holds)
    BY <1>2, <1>3, <1>4
  <2>2. Binds(seen, t, t) \in [Row.holds -> Int] /\ Binding(c, seen, t, t) = Weigh(c, Binds(seen, t, t))
    BY ONLY <2>1, BindingWeighs
  <2>3. Binding(e, seen, t, t) = Weigh(e, Binds(seen, t, t))
    BY ONLY <2>1, BindingWeighs
  <2> QED BY <1>2, <2>2, <2>3
<1>6. Weigh(e, W) = Weigh(o, W) + Weigh(x, W)
  BY ONLY <1>3, <1>5, WeighJoin
<1>7. /\ Weigh(o, W) \in Int /\ Weigh(x, W) \in Int /\ Weigh(c, W) \in Int
  BY ONLY <1>3, <1>5, WeighType
<1>8. \A i \in 1..Len(c) : KeptOrEnded(w, c[i], o[i], i)
  BY <1>0, <1>1, HoldAfter
<1>9. \A h \in R : W[h] \in Nat /\ (h.status # "ACTIVE" => W[h] = 0)
  BY <1>2, BindsFewer, EndedBinds
<1>10. CASE x = <<>>
  <2>1. Weigh(x, W) = 0
    <3>1. \A i \in 1..Len(x) : W[x[i]] = 0
      BY <1>10
    <3> QED BY ONLY <1>3, <1>5, <3>1, WeighZero
  <2>2. NoMore(c, o, W, W)
    <3>1. ASSUME NEW i \in 1..Len(c) PROVE W[o[i]] <= W[c[i]]
      <4>1. PICK h, g : h = c[i] /\ g = o[i]
        OBVIOUS
      <4>2. KeptOrEnded(w, h, g, i)
        BY <1>8, <4>1
      <4>3. h \in R /\ g \in R /\ (g = h \/ g.status # "ACTIVE")
        BY <1>2, <4>2 DEF KeptOrEnded
      <4>4. W[g] <= W[h]
        BY ONLY <1>9, <4>3
      <4> QED BY <4>1, <4>4
    <3> QED BY <1>3, <3>1 DEF NoMore
  <2>3. Weigh(o, W) <= Weigh(c, W)
    BY ONLY <1>3, <1>5, <2>2, WeighLess
  <2> QED BY <1>1, <1>5, <1>6, <1>7, <2>1, <2>3
<1>11. CASE x # <<>>
  <2>1. PICK on : on = w.calls.on
    OBVIOUS
  <2>2. /\ w.calls.op = "convert" /\ Len(x) = 1
        /\ x[1].purpose = "ORDER" /\ x[1].from = on
        /\ x[1].qty = w.seen.qty
        /\ on \in 1..Len(c) /\ <<"holds", on>> \in DOMAIN w.set
        /\ c[on] = w.seen /\ w.seen.purpose = "QUOTE"
    BY <1>1, <1>11, <2>1, HoldsAdded
  <2>3. PICK h, g, y : h = c[on] /\ g = o[on] /\ y = x[1]
    OBVIOUS
  <2>4. KeptOrEnded(w, h, g, on)
    BY <1>8, <2>2, <2>3
  <2>5. h \in R /\ g \in R /\ g.status # "ACTIVE" /\ h.status = "ACTIVE"
    BY <1>2, <2>2, <2>4 DEF KeptOrEnded
  <2>6. y \in R
    <3>1. 1 \in 1..Len(x) /\ x \in Seq(R)
      BY <1>3, <2>2
    <3> QED BY <2>3, <3>1
  <2>7. ButFor(c, o, W, on)
    <3>1. ASSUME NEW j \in 1..Len(c), j # on PROVE o[j] = c[j]
      <4>1. KeptOrEnded(w, c[j], o[j], j)
        BY <1>8
      <4> QED BY <2>1, <2>2, <3>1, <4>1 DEF KeptOrEnded, EndsHold
    <3> QED BY <1>3, <3>1 DEF ButFor
  <2>8. Replaced(c, o, W, on)
    BY ONLY <1>3, <1>5, <2>2, <2>7, OneReplaced
  <2>9. Weigh(o, W) = Weigh(c, W) - W[h] + W[g]
    BY <2>3, <2>8 DEF Replaced
  <2>10. Weigh(x, W) = W[y]
    <3>1. Weigh(x, W) = W[x[1]]
      BY ONLY <1>3, <1>5, <2>2, WeighOne
    <3> QED BY <2>3, <3>1
  <2>11. W[y] <= W[h]
    <3>1. Knows(seen, c)
      BY <1>1
    <3>2. h.purpose = "QUOTE" /\ y.purpose = "ORDER" /\ y.from = on /\ y.qty = h.qty
      BY <2>2, <2>3
    <3>3. h \in Row.holds /\ y \in Row.holds /\ c[on] = h
      BY <1>2, <2>3, <2>5, <2>6
    <3>4. Binds(seen, t, t)[y] <= Binds(seen, t, t)[h]
      BY ONLY <2>2, <2>5, <3>1, <3>2, <3>3, t \in Nat, CommittedBinds
    <3> QED BY <1>2, <3>4
  <2>12. W[g] = 0 /\ W[h] \in Nat /\ W[y] \in Nat
    BY <1>9, <2>5, <2>6
  <2>13. Weigh(e, W) <= Weigh(c, W)
    BY ONLY <1>6, <1>7, <2>9, <2>10, <2>11, <2>12
  <2> QED BY <1>1, <1>5, <2>13
<1> QED BY <1>10, <1>11

\* A COMMIT of a unit that does not keep the fence leaves the ledger as it is.
LEMMA LedgerStays ==
  ASSUME NEW w, NEW d, NEW n, Sound(d), Local(w, d, n), <<"fence", 1>> \notin DOMAIN w.set
  PROVE  View(w, d)["ledger"] = d["ledger"]
<1>1. "ledger" \in Tables /\ Typed(d) /\ w.new["ledger"] = <<>>
  BY DEF Tables, Sound, Local, Guarded
<1>2. \A k \in DOMAIN w.set : k[1] # "ledger"
  BY ZenonT(40) DEF Local, Fit, Kept
<1> QED BY ONLY <1>1, <1>2, ViewUntouched

\* What a peer found when it asked is still there after a COMMIT.
LEMMA PeerAsked ==
  ASSUME NEW w, NEW d, NEW n, Done(w, d, n), NEW u, Local(u, d, n), Apart(w, u), Asked(u, d),
         u.calls.qty \in Int
  PROVE  Asked(u, View(w, d))
<1>0. Sound(d) /\ Local(w, d, n)
  BY DEF Done
<1>1. <<"fence", 1>> \in DOMAIN u.set /\ <<"fence", 1>> \notin DOMAIN w.set
  BY DEF Asked, Apart
<1>2. View(w, d)["ledger"] = d["ledger"]
  BY ONLY <1>0, <1>1, LedgerStays
<1>3. PICK seen, t, e : seen = u.seen /\ t = u.at /\ e = View(w, d)
  OBVIOUS
<1>4. t \in Nat /\ Knows(seen, d["holds"])
  BY <1>3 DEF Asked, Local, Fit
<1>5. Knows(seen, View(w, d)["holds"])
  BY ONLY <1>4, Done(w, d, n), StillKnows
<1>6. Binding(View(w, d)["holds"], seen, t, t) <= Binding(d["holds"], seen, t, t)
  BY ONLY <1>4, Done(w, d, n), BindsAfter
<1>7. Binding(e["holds"], seen, t, t) \in Int /\ Binding(d["holds"], seen, t, t) \in Int
  <2>1. e["holds"] \in Seq(Row.holds) /\ d["holds"] \in Seq(Row.holds)
    <3>1. View(w, d)["holds"] = Over(w, d, "holds") \o w.new["holds"]
          /\ Over(w, d, "holds") \in Seq(Row.holds) /\ w.new["holds"] \in Seq(Row.holds)
          /\ d["holds"] \in Seq(Row.holds)
      BY ONLY <1>0, HoldsAfter
    <3>2. PICK R, o, x : R = Row.holds /\ o = Over(w, d, "holds") /\ x = w.new["holds"]
      OBVIOUS
    <3>3. o \in Seq(R) /\ x \in Seq(R)
      BY <3>1, <3>2
    <3>4. o \o x \in Seq(R)
      BY ONLY <3>3
    <3> QED BY <1>3, <3>1, <3>2, <3>4
  <2>2. PICK W : W = Binds(seen, t, t)
    OBVIOUS
  <2>3. W \in [Row.holds -> Int] /\ Binding(e["holds"], seen, t, t) = Weigh(e["holds"], W)
    BY ONLY <2>1, <2>2, BindingWeighs
  <2>4. Binding(d["holds"], seen, t, t) = Weigh(d["holds"], W)
    BY ONLY <2>1, <2>2, BindingWeighs
  <2>5. Weigh(e["holds"], W) \in Int /\ Weigh(d["holds"], W) \in Int
    BY ONLY <2>1, <2>3, WeighType
  <2> QED BY <2>3, <2>4, <2>5
<1>8. OnHand(d["ledger"], "A") \in Int
  <2>1. d["ledger"] \in Seq(Row.ledger)
    BY <1>0 DEF Sound, Typed, Tables
  <2> QED BY <2>1, OnHandType
<1>9. Binding(d["holds"], seen, t, t) + u.calls.qty <= OnHand(d["ledger"], "A")
  BY <1>3 DEF Asked
<1>10. Binding(e["holds"], seen, t, t) + u.calls.qty <= OnHand(d["ledger"], "A")
  <2>1. PICK a, b, c, q : /\ a = Binding(e["holds"], seen, t, t) /\ b = Binding(d["holds"], seen, t, t)
                          /\ c = OnHand(d["ledger"], "A") /\ q = u.calls.qty
    OBVIOUS
  <2>2. a \in Int /\ b \in Int /\ c \in Int /\ q \in Int /\ a <= b /\ b + q <= c
    BY <1>3, <1>6, <1>7, <1>8, <1>9, <2>1
  <2>3. a + q <= c
    BY ONLY <2>2
  <2> QED BY <2>1, <2>3
<1> QED BY <1>1, <1>2, <1>3, <1>5, <1>10 DEF Asked

\* A unit at its COMMIT, with what it has found of the holds.
Finished(w, d, n) == Sound(d) /\ Local(w, d, n) /\ Complete(w) /\ Holding(w, d)

\* What a peer has found and written of holds stands after a COMMIT.
LEMMA PeerHolding ==
  ASSUME NEW w, NEW d, NEW n, Finished(w, d, n), NEW u, Local(u, d, n), Apart(w, u), Holding(u, d),
         u.calls.op = "hold" => u.calls.qty \in Int
  PROVE  Holding(u, View(w, d))
<1>1. CASE Past(u, {"hold"}, 1)
  <2>1. Asked(u, d) /\ <<"fence", 1>> \in DOMAIN u.set
    BY <1>1 DEF Holding, Asked
  <2>2. w.calls.op # "hold"
    <3>1. SUFFICES ASSUME w.calls.op = "hold" PROVE FALSE
      OBVIOUS
    <3>2. Past(w, {"hold"}, 1)
      BY <3>1 DEF Finished, Complete, Past, Program
    <3>3. <<"fence", 1>> \in DOMAIN w.set
      BY <3>2 DEF Finished, Holding, Asked
    <3> QED BY <2>1, <3>3 DEF Apart
  <2>3. Done(w, d, n)
    BY <2>2 DEF Done, Finished
  <2>4. u.calls.qty \in Int
    BY <1>1 DEF Past
  <2>5. Asked(u, View(w, d))
    BY ONLY <2>1, <2>3, <2>4, Local(u, d, n), Apart(w, u), PeerAsked
  <2> QED BY <2>5 DEF Holding
<1>2. CASE ~Past(u, {"hold"}, 1)
  BY <1>2 DEF Holding
<1> QED BY <1>1, <1>2

\* A unit that has begun nothing yet has found nothing yet.
LEMMA FirstHolds ==
  ASSUME NEW u, NEW d, NEW n, Fit(u, d, n), Clean(u), u.pc <= 1
  PROVE  Holding(u, d)
<1>1. u.new["holds"] = <<>> /\ u.pc \in Nat
  BY DEF Fit, Clean, NoRows, Tables
<1>2. ~Past(u, {"convert"}, 1) /\ ~Past(u, {"convert"}, 3) /\ ~Past(u, {"hold"}, 1)
  BY <1>1 DEF Past
<1> QED BY <1>1, <1>2 DEF Holding

\* A command that places no hold and converts none has none to answer for.
LEMMA OtherHolds ==
  ASSUME NEW u, NEW d, u.calls.op \notin {"hold", "convert"}
  PROVE  Holding(u, d)
BY DEF Holding, Past

\* Units that have found and written the same answer for the same.
LEMMA SameHolding ==
  ASSUME NEW u, NEW v, NEW d, Holding(u, d), v.calls = u.calls, v.pc = u.pc, v.at = u.at,
         v.seen = u.seen, v.new = u.new, v.set = u.set
  PROVE  Holding(v, d)
BY DEF Holding, Asked, Past

\* The statement is refused, given up, re-run, or the unit answers for what it goes on with.
Answers(p) == Refuse(p) \/ GiveUp(p) \/ Rerun(p) \/ \E v : Becomes(p, v) /\ Holding(v, db)

\* What asking finds.
LEMMA AskAnswers ==
  ASSUME NEW p, Context(p), At(p, "askPromise"), AskPromise(p)
  PROVE  Answers(p)
<1>0. /\ Shaped(unit[p]) /\ Ready(unit[p], db, now) /\ Typed(db) /\ Fit(unit[p], db, now)
      /\ unit[p].calls \in Request
  BY ContextFacts
<1>1. unit[p].calls.op = "hold" /\ unit[p].pc = 1
  BY AtPlace DEF Place
<1>2. /\ Rows(p, "holds") = db["holds"] /\ Rows(p, "ledger") = db["ledger"]
      /\ unit[p].new = NoRows
  <2>1. "holds" \in Tables /\ "ledger" \in Tables
    BY DEF Tables
  <2> QED BY <1>1, <2>1, ContextFirst
<1>3. PICK u, v : u = unit[p] /\ v = Then([Fenced(p, unit[p], 0) EXCEPT !.seen = Rows(p, "holds")])
  OBVIOUS
<1>4. CASE /\ Becomes(p, v)
           /\ Call(p).qty <= OnHand(Rows(p, "ledger"), "A") - Promised(Rows(p, "holds"), unit[p].at)
  <2>1. PICK w : /\ After(u, w) /\ w.due = u.due
                 /\ Rewrites(u, w, "fence", 1, [ver |-> View(u, db).fence[1].ver])
                 /\ Shaped(v) /\ v.pc = w.pc /\ v.calls = w.calls /\ v.run = w.run /\ v.at = w.at
                 /\ v.due = w.due /\ v.new = w.new /\ v.set = w.set /\ v.seen = Rows(p, "holds")
    BY SMTT(40), <1>3, AskFields
  <2>2. /\ v.calls = u.calls /\ v.at = u.at /\ v.new = u.new /\ <<"fence", 1>> \in DOMAIN v.set
        /\ v.seen = db["holds"]
    BY <1>2, <2>1 DEF After, Rewrites
  <2>3. PICK c, l, t, q : c = db["holds"] /\ l = db["ledger"] /\ t = u.at /\ q = u.calls.qty
    OBVIOUS
  <2>4. /\ c \in Seq(Row.holds) /\ l \in Seq(Row.ledger) /\ t \in Nat /\ q \in Int
    <3>1. q \in Int
      BY <1>0, <1>3, <2>3, RequestFacts
    <3> QED BY <1>0, <1>3, <2>3, <3>1 DEF Typed, Tables, Fit
  <2>5. Knows(c, c)
    BY <2>4 DEF Knows
  <2>6. q <= OnHand(l, "A") - Promised(c, t)
    BY <1>2, <1>3, <1>4, <2>3 DEF Call
  <2>7. Binding(c, c, t, t) <= Promised(c, t)
    BY ONLY <2>4, BindingPromised
  <2>8. Binding(c, c, t, t) \in Int /\ Promised(c, t) \in Int /\ OnHand(l, "A") \in Int
    <3>1. PICK W, V : W = Binds(c, t, t) /\ V = Pledges(t)
      OBVIOUS
    <3>2. W \in [Row.holds -> Int] /\ Binding(c, c, t, t) = Weigh(c, W)
      BY ONLY <2>4, <3>1, BindingWeighs
    <3>3. V \in [Row.holds -> Int] /\ Promised(c, t) = Weigh(c, V)
      BY ONLY <2>4, <3>1, PromisedWeighs
    <3>4. Weigh(c, W) \in Int
      BY ONLY <2>4, <3>2, WeighType
    <3>5. Weigh(c, V) \in Int
      BY ONLY <2>4, <3>3, WeighType
    <3>6. OnHand(l, "A") \in Int
      BY ONLY <2>4, OnHandType
    <3> QED BY <3>2, <3>3, <3>4, <3>5, <3>6
  <2>9. Binding(c, c, t, t) + q <= OnHand(l, "A")
    <3>1. PICK a, b, f : a = Binding(c, c, t, t) /\ b = Promised(c, t) /\ f = OnHand(l, "A")
      OBVIOUS
    <3>2. a \in Int /\ b \in Int /\ f \in Int /\ q \in Int /\ a <= b /\ q <= f - b
      BY <2>4, <2>6, <2>7, <2>8, <3>1
    <3>3. a + q <= f
      BY ONLY <3>2
    <3> QED BY <3>1, <3>3
  <2>10. Asked(v, db)
    BY <2>2, <2>3, <2>5, <2>9 DEF Asked
  <2>11. v.new["holds"] = <<>> /\ v.calls.op = "hold"
    BY <1>1, <1>2, <1>3, <2>2 DEF NoRows, Tables
  <2>12. Holding(v, db)
    BY <2>10, <2>11 DEF Holding, Past
  <2> QED BY <1>4, <2>12 DEF Answers
<1>5. Refuse(p) \/ (/\ Becomes(p, v)
                    /\ Call(p).qty <= OnHand(Rows(p, "ledger"), "A") - Promised(Rows(p, "holds"), unit[p].at))
  BY SMTT(40), <1>3 DEF AskPromise
<1> QED BY <1>4, <1>5 DEF Answers

\* The row of a hold that is placed, the first its unit inserts.
LEMMA InsertedHold ==
  ASSUME NEW p, Context(p), unit[p].pc = 2, unit[p].calls.op \in {"hold", "convert"},
         NEW row, NEW v, v = Then(Appended(unit[p], "holds", row))
  PROVE  /\ v.pc = 3 /\ v.calls = unit[p].calls /\ v.at = unit[p].at /\ v.seen = unit[p].seen
         /\ v.set = unit[p].set /\ v.new["holds"] = <<row>>
<1>1. /\ Shaped(unit[p]) /\ Fit(unit[p], db, now) /\ Written(unit[p]) /\ "holds" \in DOMAIN unit[p].new
  BY ContextFacts DEF Fit, Tables
<1>2. unit[p].new["holds"] = <<>>
  <2>1. Slot(unit[p].calls.op, "holds") = 2 /\ "holds" \in Keyed
    BY DEF Slot, Keyed
  <2> QED BY <1>1, <2>1 DEF Written
<1>3. PICK w : w = Appended(unit[p], "holds", row)
  OBVIOUS
<1>4. /\ Shaped(w) /\ w.pc = unit[p].pc /\ w.calls = unit[p].calls /\ w.at = unit[p].at
      /\ w.seen = unit[p].seen /\ w.set = unit[p].set /\ w.new["holds"] = Append(unit[p].new["holds"], row)
  BY ONLY <1>1, <1>3, AppendedFields
<1>5. v = Then(w) /\ Shaped(w)
  BY <1>3, <1>4
<1>6. /\ v.pc = w.pc + 1 /\ v.calls = w.calls /\ v.at = w.at /\ v.seen = w.seen
      /\ v.new = w.new /\ v.set = w.set
  BY ONLY <1>5, ThenFields
<1>7. Append(<<>>, row) = <<row>>
  OBVIOUS
<1> QED BY <1>2, <1>4, <1>6, <1>7

\* A hold that is inserted goes on, waits for its code, or collides and runs again.
LEMMA InsertAnswers ==
  ASSUME NEW p, Context(p), Holding(unit[p], db), NEW row, InsertCoded(p, "holds", row, unit[p]),
         \A v : v = Then(Appended(unit[p], "holds", row)) => Holding(v, db)
  PROVE  Answers(p)
<1>1. PICK u, v : u = [unit[p] EXCEPT !.want = Len(db["holds"]) + 1] /\ v = Then(Appended(unit[p], "holds", row))
  OBVIOUS
<1>2. Holding(v, db)
  BY <1>1
<1>3. Holding(u, db)
  <2>1. Shaped(unit[p])
    BY ContextFacts
  <2>2. /\ u.calls = unit[p].calls /\ u.pc = unit[p].pc /\ u.at = unit[p].at /\ u.seen = unit[p].seen
        /\ u.new = unit[p].new /\ u.set = unit[p].set
    BY <1>1, <2>1, Fields DEF Shaped
  <2> QED BY ONLY <2>2, Holding(unit[p], db), SameHolding
<1>4. Becomes(p, v) \/ Becomes(p, u) \/ Rerun(p)
  BY <1>1 DEF InsertCoded
<1> QED BY <1>2, <1>3, <1>4 DEF Answers

\* A hold is placed with the amount that was asked for,
LEMMA PlaceAnswers ==
  ASSUME NEW p, Context(p), Holding(unit[p], db), At(p, "placeHold"), PlaceHold(p)
  PROVE  Answers(p)
<1>1. unit[p].calls.op = "hold" /\ unit[p].pc = 2
  BY AtPlace DEF Place
<1>2. PICK row : row = Hold(Call(p), "QUOTE", Call(p).qty, unit[p].at + 1, 0)
  OBVIOUS
<1>3. row.purpose = "QUOTE" /\ row.qty = unit[p].calls.qty /\ row.from = 0 /\ row.status = "ACTIVE"
  BY <1>2 DEF Hold, Call
<1>4. ASSUME NEW v, v = Then(Appended(unit[p], "holds", row)) PROVE Holding(v, db)
  <2>1. /\ v.pc = 3 /\ v.calls = unit[p].calls /\ v.at = unit[p].at /\ v.seen = unit[p].seen
        /\ v.set = unit[p].set /\ v.new["holds"] = <<row>>
    BY <1>1, <1>4, InsertedHold
  <2>2. Asked(unit[p], db)
    BY <1>1 DEF Holding, Past
  <2>3. Asked(v, db)
    BY <2>1, <2>2 DEF Asked
  <2>4. \A i \in 1..Len(v.new["holds"]) : v.new["holds"][i] = row
    BY <2>1
  <2> QED BY <1>1, <1>3, <2>1, <2>3, <2>4 DEF Holding, Past
<1>5. InsertCoded(p, "holds", row, unit[p])
  BY <1>2 DEF PlaceHold
<1> QED BY <1>4, <1>5, InsertAnswers

\* a committed one with that of the quote it stands for,
LEMMA PlaceCommittedAnswers ==
  ASSUME NEW p, Context(p), Holding(unit[p], db), At(p, "placeCommitted"), PlaceCommitted(p)
  PROVE  Answers(p)
<1>1. unit[p].calls.op = "convert" /\ unit[p].pc = 2
  BY AtPlace DEF Place
<1>2. PICK row : row = Hold(Call(p), "ORDER", unit[p].seen.qty, Never, Call(p).on)
  OBVIOUS
<1>3. row.purpose = "ORDER" /\ row.qty = unit[p].seen.qty /\ row.from = unit[p].calls.on /\ row.status = "ACTIVE"
  BY <1>2 DEF Hold, Call
<1>4. ASSUME NEW v, v = Then(Appended(unit[p], "holds", row)) PROVE Holding(v, db)
  <2>1. /\ v.pc = 3 /\ v.calls = unit[p].calls /\ v.at = unit[p].at /\ v.seen = unit[p].seen
        /\ v.set = unit[p].set /\ v.new["holds"] = <<row>>
    BY <1>1, <1>4, InsertedHold
  <2>2. unit[p].seen.purpose = "QUOTE"
    BY <1>1 DEF Holding, Past
  <2>4. \A i \in 1..Len(v.new["holds"]) : v.new["holds"][i] = row
    BY <2>1
  <2>5. ~Past(v, {"convert"}, 3) /\ ~Past(v, {"hold"}, 1) /\ v.calls.op = "convert"
    BY <1>1, <2>1 DEF Past
  <2> QED BY <1>3, <2>1, <2>2, <2>4, <2>5 DEF Holding
<1>5. InsertCoded(p, "holds", row, unit[p])
  BY <1>2 DEF PlaceCommitted
<1> QED BY <1>4, <1>5, InsertAnswers

\* which is read as a quote,
LEMMA ReadHoldAnswers ==
  ASSUME NEW p, Context(p), At(p, "readHold"), ReadHold(p), unit[p].calls.op = "convert"
  PROVE  Answers(p)
<1>1. unit[p].pc = 1 /\ Shaped(unit[p]) /\ unit[p].new = NoRows
  <2>1. unit[p].pc = 1
    BY AtPlace DEF Place
  <2> QED BY <2>1, ContextFirst, ContextFacts
<1>2. PICK h, w, v : h = Rows(p, "holds")[unit[p].calls.on] /\ w = [unit[p] EXCEPT !.seen = h] /\ v = Then(w)
  OBVIOUS
<1>3. CASE Becomes(p, v) /\ h.purpose = "QUOTE"
  <2>1. /\ Shaped(w) /\ w.pc = unit[p].pc /\ w.calls = unit[p].calls /\ w.seen = h /\ w.new = unit[p].new
    BY <1>1, <1>2, Fields DEF Shaped
  <2>2. v = Then(w) /\ Shaped(w)
    BY <1>2, <2>1
  <2>3. v.pc = w.pc + 1 /\ v.calls = w.calls /\ v.seen = w.seen /\ v.new = w.new
    BY ONLY <2>2, ThenFields
  <2>4. v.new["holds"] = <<>> /\ v.seen.purpose = "QUOTE" /\ v.calls.op = "convert" /\ v.pc = 2
    BY <1>1, <1>3, <2>1, <2>3 DEF NoRows, Tables
  <2>5. Holding(v, db)
    BY <2>4 DEF Holding, Past
  <2> QED BY <1>3, <2>5 DEF Answers
<1>4. Refuse(p) \/ (Becomes(p, v) /\ h.purpose = "QUOTE")
  BY SMTT(40), <1>2 DEF ReadHold, Call
<1> QED BY <1>3, <1>4 DEF Answers

\* and is ended by the unit that committed it.
LEMMA ConvertAnswers ==
  ASSUME NEW p, Context(p), Holding(unit[p], db), At(p, "convertHold"), EndHold(p, "CONVERTED")
  PROVE  Answers(p)
<1>1. unit[p].calls.op = "convert" /\ unit[p].pc = 3
  BY AtPlace DEF Place
<1>2. Shaped(unit[p])
  BY ContextFacts
<1>3. PICK row, w, v : /\ row = [Rows(p, "holds")[Call(p).on] EXCEPT !.status = "CONVERTED", !.ver = @ + 1]
                       /\ w = Updated(unit[p], "holds", Call(p).on, row) /\ v = Then(w)
  OBVIOUS
<1>4. CASE Becomes(p, v)
  <2>1. /\ Shaped(w) /\ w.pc = unit[p].pc /\ w.calls = unit[p].calls /\ w.seen = unit[p].seen
        /\ w.new = unit[p].new /\ DOMAIN w.set = DOMAIN unit[p].set \cup {<<"holds", Call(p).on>>}
    <3>1. PICK u, on : u = unit[p] /\ on = Call(p).on
      OBVIOUS
    <3>2. Shaped(u) /\ w = Updated(u, "holds", on, row)
      BY <1>2, <1>3, <3>1
    <3>3. /\ Shaped(w) /\ w.pc = u.pc /\ w.want = u.want /\ w.calls = u.calls /\ w.run = u.run
          /\ w.at = u.at /\ w.seen = u.seen /\ w.due = u.due /\ w.new = u.new
          /\ DOMAIN w.set = DOMAIN u.set \cup {<<"holds", on>>} /\ w.set[<<"holds", on>>] = row
          /\ \A k \in DOMAIN u.set : k # <<"holds", on>> => w.set[k] = u.set[k]
      BY ONLY <3>2, UpdatedFields
    <3> QED BY <3>1, <3>3
  <2>2. v = Then(w) /\ Shaped(w)
    BY <1>3, <2>1
  <2>3. v.pc = w.pc + 1 /\ v.calls = w.calls /\ v.seen = w.seen /\ v.new = w.new /\ v.set = w.set
    BY ONLY <2>2, ThenFields
  <2>4. <<"holds", v.calls.on>> \in DOMAIN v.set
    BY <2>1, <2>3 DEF Call
  <2>5. v.calls = unit[p].calls /\ v.seen = unit[p].seen /\ v.new = unit[p].new /\ v.calls.op = "convert"
    BY <1>1, <2>1, <2>3
  <2>6. unit[p].seen.purpose = "QUOTE"
    BY <1>1 DEF Holding, Past
  <2>7. Holding(v, db)
    BY <2>4, <2>5, <2>6 DEF Holding, Past
  <2> QED BY <1>4, <2>7 DEF Answers
<1>5. Refuse(p) \/ Becomes(p, v)
  BY ZenonT(40), <1>3 DEF EndHold, Cas
<1> QED BY <1>4, <1>5 DEF Answers

\* Every statement: the unit goes on and answers for what it has found and written.
LEMMA StatementAnswers ==
  ASSUME NEW p, Context(p), Holding(unit[p], db),
         InventoryStatement(p) \/ CommerceStatement(p) \/ DocumentStatement(p)
  PROVE  Answers(p)
<1>1. CASE unit[p].calls.op \notin {"hold", "convert"}
  <2>1. Progress(p)
    BY StatementProgress
  <2>2. ASSUME NEW v, Follows(p, v) PROVE Becomes(p, v) /\ Holding(v, db)
    BY <1>1, <2>2, OtherHolds DEF Follows, Keeps
  <2> QED BY <2>1, <2>2 DEF Progress, Answers
<1>2. CASE unit[p].calls.op \in {"hold", "convert"}
  <2>1. PICK s : s = Program[unit[p].calls.op][unit[p].pc]
    OBVIOUS
  <2>2. \A x : At(p, x) <=> x = s
    <3>1. unit[p].run > 0 /\ unit[p].pc \in 1..Len(Steps(p))
      BY DEF InventoryStatement, CommerceStatement, DocumentStatement, At
    <3> QED BY <2>1, <3>1 DEF At, Steps, Call
  <2>3. s \in {"askPromise", "placeHold", "readHold", "placeCommitted", "convertHold"}
    <3>1. unit[p].pc \in 1..Len(Program[unit[p].calls.op])
      BY DEF Context, Ready
    <3>2. CASE unit[p].calls.op = "hold"
      <4>1. Program[unit[p].calls.op] = <<"askPromise", "placeHold">>
        BY <3>2 DEF Program
      <4> QED BY <2>1, <3>1, <4>1
    <3>3. CASE unit[p].calls.op = "convert"
      <4>1. Program[unit[p].calls.op] = <<"readHold", "placeCommitted", "convertHold">>
        BY <3>3 DEF Program
      <4> QED BY <2>1, <3>1, <4>1
    <3> QED BY <1>2, <3>2, <3>3
  <2>4. At(p, s)
    BY <2>2
  <2>5. \/ s = "askPromise" /\ AskPromise(p)
        \/ s = "placeHold" /\ PlaceHold(p)
        \/ s = "readHold" /\ ReadHold(p)
        \/ s = "placeCommitted" /\ PlaceCommitted(p)
        \/ s = "convertHold" /\ EndHold(p, "CONVERTED")
    BY <2>2, <2>3 DEF InventoryStatement, CommerceStatement, DocumentStatement
  <2>6. CASE s = "readHold" /\ unit[p].calls.op = "hold"
    BY <2>4, <2>6, AtPlace DEF Place
  <2> QED BY <1>2, <2>4, <2>5, <2>6, AskAnswers, PlaceAnswers, PlaceCommittedAnswers, ReadHoldAnswers, ConvertAnswers
<1> QED BY <1>1, <1>2

\* Every unit answers for what it has found and written of holds.
HoldsKept == \A p \in Processes : Holding(unit[p], db)

\* Before any unit has begun, none has found anything.
LEMMA HoldsBegin == ASSUME StoreInit PROVE HoldsKept
<1>1. IInv
  BY InvInit
<1>2. ASSUME NEW p \in Processes PROVE Holding(unit[p], db)
  <2>1. Fit(unit[p], db, now) /\ Clean(unit[p])
    BY <1>1 DEF IInv, InOrder, Local
  <2>2. unit[p].pc <= 1
    BY DEF StoreInit, NoUnit
  <2> QED BY ONLY <2>1, <2>2, FirstHolds
<1> QED BY <1>2 DEF HoldsKept

\* Every unit stays, or begins anew.
Spared == \A o \in Processes : unit'[o] = unit[o] \/ unit'[o].pc <= 1

\* A step of one unit that begins anew spares the others.
LEMMA OneSpared ==
  ASSUME DOMAIN unit = Processes, NEW p \in Processes, NEW v, unit' = [unit EXCEPT ![p] = v], v.pc <= 1
  PROVE  Spared
<1>1. \A o \in Processes : unit'[o] = IF o = p THEN v ELSE unit[o]
  BY ZenonT(40)
<1> QED BY <1>1 DEF Spared

\* A unit that is refused, given up or run again begins anew.
LEMMA LeaverSpared ==
  ASSUME DOMAIN unit = Processes, NEW p \in Processes, Refuse(p) \/ GiveUp(p) \/ Rerun(p)
  PROVE  Spared
<1>1. PICK r, z : r = [NoUnit EXCEPT !.calls = unit[p].calls, !.run = unit[p].run + 1] /\ z = NoUnit
  OBVIOUS
<1>2. r.pc <= 1 /\ z.pc <= 1
  BY <1>1 DEF NoUnit
<1>3. unit' = [unit EXCEPT ![p] = r] \/ unit' = [unit EXCEPT ![p] = z]
  <2>1. CASE Refuse(p)
    BY ZenonT(40), <1>1, <2>1 DEF Refuse
  <2>2. CASE GiveUp(p)
    BY ZenonT(40), <1>1, <2>2 DEF GiveUp, Becomes
  <2>3. CASE Rerun(p)
    <3>1. Becomes(p, r) \/ GiveUp(p)
      BY ZenonT(40), <1>1, <2>3 DEF Rerun
    <3> QED BY <2>2, <3>1 DEF Becomes
  <2> QED BY <2>1, <2>2, <2>3
<1> QED BY <1>2, <1>3, OneSpared

\* A unit that stays, or begins anew, answers for what it did.
LEMMA HoldsQuiet ==
  ASSUME HoldsKept, InOrder', db' = db,
         \A o \in Processes : unit'[o] = unit[o] \/ unit'[o].pc <= 1 \/ Holding(unit'[o], db)
  PROVE  HoldsKept'
<1>1. ASSUME NEW o \in Processes PROVE Holding(unit'[o], db')
  <2>1. CASE unit'[o].pc <= 1
    <3>1. PICK u, d, n : u = unit'[o] /\ d = db' /\ n = now'
      OBVIOUS
    <3>2. Fit(u, d, n) /\ Clean(u) /\ u.pc <= 1
      BY <2>1, <3>1 DEF InOrder, Local
    <3>3. Holding(u, d)
      BY ONLY <3>2, FirstHolds
    <3> QED BY <3>1, <3>3
  <2> QED BY <2>1 DEF HoldsKept
<1> QED BY <1>1 DEF HoldsKept

\* A statement keeps every unit answering.
LEMMA StatementKeepsHolds ==
  ASSUME IInv, HoldsKept, NEW p \in Processes,
         InventoryStatement(p) \/ CommerceStatement(p) \/ DocumentStatement(p)
  PROVE  HoldsKept'
<1>0. BusInv /\ InOrder /\ DOMAIN unit = Processes
  BY SceneFacts DEF IInv
<1>1. unit[p].run > 0 /\ unit[p].pc \in 1..Len(Steps(p))
  BY DEF InventoryStatement, CommerceStatement, DocumentStatement, At
<1>2. Context(p)
  BY <1>0, <1>1, ContextHolds
<1>3. Answers(p)
  <2>1. Holding(unit[p], db)
    BY DEF HoldsKept
  <2> QED BY <1>2, <2>1, StatementAnswers
<1>4. InOrder' /\ db' = db
  BY <1>0, StatementInOrder
<1>5. CASE Refuse(p) \/ GiveUp(p) \/ Rerun(p)
  <2>1. Spared
    BY <1>0, <1>5, LeaverSpared
  <2> QED BY <1>4, <2>1, HoldsQuiet DEF Spared
<1>6. CASE \E v : Becomes(p, v) /\ Holding(v, db)
  <2>1. PICK v : unit' = [unit EXCEPT ![p] = v] /\ Holding(v, db)
    BY <1>6 DEF Becomes
  <2>2. \A o \in Processes : unit'[o] = IF o = p THEN v ELSE unit[o]
    BY ZenonT(40), <1>0, <2>1
  <2> QED BY <1>4, <2>1, <2>2, HoldsQuiet
<1> QED BY <1>3, <1>5, <1>6 DEF Answers

\* So does every other step but a COMMIT.
LEMMA QuietKeepsHolds ==
  ASSUME IInv, HoldsKept, [Next]_store,
         \A p \in Processes : Ends(p) => Stored(unit[p].calls)
  PROVE  HoldsKept'
<1>0. BusInv /\ InOrder /\ DOMAIN unit = Processes /\ UnitsShaped
  BY SceneFacts DEF IInv
<1>1. InOrder' /\ db' = db
  BY <1>0, QuietInOrder
<1>2. CASE \E p \in Processes : InventoryStatement(p) \/ CommerceStatement(p) \/ DocumentStatement(p)
  BY <1>2, StatementKeepsHolds
<1>3. CASE Spared
  BY <1>1, <1>3, HoldsQuiet DEF Spared
<1>4. CASE unit' = unit
  BY <1>1, <1>4, HoldsQuiet
<1>7. CASE \E p \in Processes : Ends(p) \/ Fail(p)
  <2>1. PICK p \in Processes : Rerun(p) \/ GiveUp(p)
    BY ZenonT(40), <1>7 DEF Ends, Commit, Fail
  <2> QED BY <1>0, <1>3, <2>1, LeaverSpared
<1>8. CASE \E p \in Processes : Look(p)
  <2>1. PICK p \in Processes : Look(p)
    BY <1>8
  <2>2. PICK w, v : w = [unit[p] EXCEPT !.at = now] /\ v = Then(w)
    OBVIOUS
  <2>3. Shaped(unit[p]) /\ unit[p].pc = 0
    BY <1>0, <2>1 DEF UnitsShaped, Look
  <2>4. v = Then(w) /\ Shaped(w) /\ w.pc = 0
    BY <2>2, <2>3, Fields DEF Shaped
  <2>5. v.pc = w.pc + 1
    BY ONLY <2>4, ThenFields
  <2>6. v.pc = 1
    BY <2>4, <2>5
  <2>7. PICK z : z = NoUnit
    OBVIOUS
  <2>10. z.pc <= 1
    BY <2>7 DEF NoUnit
  <2>8. unit' = [unit EXCEPT ![p] = v] \/ unit' = [unit EXCEPT ![p] = z]
    BY ZenonT(40), <2>1, <2>2, <2>7 DEF Look, Becomes
  <2>9. v.pc <= 1
    BY <2>6
  <2> QED BY <1>0, <1>3, <2>8, <2>9, <2>10, OneSpared
<1>9. CASE \E p \in Processes : \E q \in scene.calls : Send(p, q)
  <2>1. PICK p \in Processes : \E q \in scene.calls : Send(p, q)
    BY <1>9
  <2>2. PICK q : Send(p, q)
    BY <2>1
  <2>3. PICK v : v = [unit[p] EXCEPT !.calls = q, !.run = 1]
    OBVIOUS
  <2>4. Shaped(unit[p]) /\ unit[p].pc = 0
    BY <1>0, <2>2 DEF UnitsShaped, Send, InOrder, Local, Clean
  <2>5. v.pc <= 1
    BY <2>3, <2>4, Fields DEF Shaped
  <2>6. unit' = [unit EXCEPT ![p] = v]
    BY ZenonT(40), <1>0, <2>2, <2>3 DEF Send
  <2> QED BY <1>0, <1>3, <2>5, <2>6, OneSpared
<1>10. CASE Tick \/ UNCHANGED store
  BY <1>4, <1>10 DEF Tick, store
<1> QED BY <1>2, <1>7, <1>8, <1>9, <1>10 DEF Next

\* A unit at its COMMIT.
LEMMA EndsFinished ==
  ASSUME IInv, HoldsKept, NEW p \in Processes, Ends(p)
  PROVE  Finished(unit[p], db, now) /\ unit[p].calls \in Request
<1>1. unit[p].run > 0 /\ unit[p].pc > Len(Steps(p))
  BY DEF Ends
<1>2. unit[p].calls \in Request
  BY <1>1, SceneFacts DEF IInv
<1>3. Sound(db) /\ Local(unit[p], db, now) /\ Holding(unit[p], db)
  BY DEF IInv, InOrder, HoldsKept
<1>4. Complete(unit[p])
  <2>1. unit[p].pc \in Nat
    BY <1>3 DEF Local, Fit
  <2> QED BY <1>1, <1>2, <2>1, RequestFacts DEF Complete, Steps, Call
<1> QED BY <1>2, <1>3, <1>4 DEF Finished

\* A COMMIT keeps its peers answering for what they found.
LEMMA CommitKeepsHolds ==
  ASSUME IInv, HoldsKept, NEW p \in Processes, Ends(p), ~Stored(unit[p].calls)
  PROVE  HoldsKept'
<1>1. InOrder' /\ db' = View(unit[p], db) /\ DOMAIN unit = Processes
  <2>1. Commit(p)
    BY DEF Ends
  <2> QED BY <2>1, CommitInOrder, SceneFacts DEF IInv
<1>2. unit' = [unit EXCEPT ![p] = NoUnit]
  BY ZenonT(40) DEF Ends, Commit
<1>3. PICK w : w = unit[p]
  OBVIOUS
<1>4. Finished(w, db, now)
  BY <1>3, EndsFinished
<1>5. ASSUME NEW o \in Processes PROVE Holding(unit'[o], db')
  <2>0. PICK u, e, n : u = unit'[o] /\ e = db' /\ n = now'
    OBVIOUS
  <2>1. Fit(u, e, n) /\ Clean(u)
    BY <1>1, <2>0 DEF InOrder, Local
  <2>2. CASE o = p
    <3>1. u = NoUnit
      BY <1>1, <1>2, <2>0, <2>2
    <3>2. u.pc <= 1
      BY <3>1 DEF NoUnit
    <3>3. Holding(u, e)
      BY ONLY <2>1, <3>2, FirstHolds
    <3> QED BY <2>0, <3>3
  <2>3. CASE o # p
    <3>1. u = unit[o]
      BY <1>1, <1>2, <2>0, <2>3
    <3>2. Local(u, db, now) /\ Apart(w, u) /\ Holding(u, db)
      BY <1>3, <2>3, <3>1 DEF IInv, InOrder, HoldsKept
    <3>3. CASE u.run > 0
      <4>1. u.calls \in Request
        BY <3>1, <3>3, SceneFacts DEF IInv
      <4>2. u.calls.op = "hold" => u.calls.qty \in Int
        BY <4>1, RequestFacts
      <4>3. Holding(u, View(w, db))
        BY ONLY <1>4, <3>2, <4>2, PeerHolding
      <4> QED BY <1>1, <1>3, <2>0, <4>3
    <3>4. CASE ~(u.run > 0)
      <4>1. u.run = 0
        BY <3>1, <3>4, StoreAssumption DEF IInv, BusInv, Heard
      <4>2. u.pc <= 1
        BY <2>1, <4>1 DEF Clean
      <4>3. Holding(u, e)
        BY ONLY <2>1, <4>2, FirstHolds
      <4> QED BY <2>0, <4>3
    <3> QED BY <3>3, <3>4
  <2> QED BY <2>2, <2>3
<1> QED BY <1>5 DEF HoldsKept

\* Every step keeps the units answering for what they found of holds.
LEMMA HoldsStep == ASSUME IInv, HoldsKept, [Next]_store PROVE HoldsKept'
<1>1. CASE \E p \in Processes : Ends(p) /\ ~Stored(unit[p].calls)
  BY <1>1, CommitKeepsHolds
<1>2. CASE \A p \in Processes : Ends(p) => Stored(unit[p].calls)
  BY <1>2, QuietKeepsHolds
<1> QED BY <1>1, <1>2

\* What is placed fits beside what binds when it commits.
LEMMA PlacedFits ==
  ASSUME NEW w, NEW d, NEW n \in Nat, Finished(w, d, n), w.calls.op = "hold", w.calls.qty \in Int
  PROVE  Binding(View(w, d)["holds"], w.seen, w.at, n) <= OnHand(View(w, d)["ledger"], "A")
<1>0. /\ Sound(d) /\ Local(w, d, n) /\ Typed(d) /\ Fit(w, d, n) /\ Written(w) /\ Changed(w, d)
      /\ Complete(w) /\ Holding(w, d)
  BY DEF Finished, Sound, Local
<1>1. PICK seen, t, q : seen = w.seen /\ t = w.at /\ q = w.calls.qty
  OBVIOUS
<1>2. t \in Nat /\ t <= n
  BY <1>0, <1>1 DEF Fit
<1>3. Asked(w, d)
  <2>1. Past(w, {"hold"}, 1)
    BY <1>0 DEF Complete, Past, Program
  <2> QED BY <1>0, <2>1 DEF Holding
<1>4. PICK x, c, e, l : x = w.new["holds"] /\ c = d["holds"] /\ e = View(w, d)["holds"] /\ l = d["ledger"]
  OBVIOUS
<1>5. PICK R : R = Row.holds
  OBVIOUS
<1>6. /\ e = c \o x /\ c \in Seq(R) /\ x \in Seq(R)
  <2>1. "holds" \in Tables
    BY DEF Tables
  <2>2. \A k \in DOMAIN w.set : k[1] # "holds"
    BY <1>0 DEF Changed, EndsHold
  <2>3. Over(w, d, "holds") = d["holds"]
    <3>1. \A i \in 1..Len(d["holds"]) : <<"holds", i>> \notin DOMAIN w.set
      BY <2>2
    <3>2. Len(d["holds"]) \in Nat /\ d["holds"] \in Seq(Row.holds)
      BY <1>0, HoldsAfter
    <3>3. PICK h : h = d["holds"] /\ h \in Seq(Row.holds)
      BY <3>2
    <3>4. Over(w, d, "holds") = [i \in 1..Len(h) |-> h[i]]
      BY <3>1, <3>3 DEF Over
    <3>5. h = [i \in 1..Len(h) |-> h[i]]
      BY <3>3
    <3> QED BY <3>3, <3>4, <3>5
  <2>4. View(w, d)["holds"] = Over(w, d, "holds") \o w.new["holds"]
    BY <2>1, ViewIs
  <2>5. c \in Seq(R) /\ x \in Seq(R)
    BY <1>0, <1>4, <1>5, HoldsAfter
  <2> QED BY <1>4, <2>3, <2>4, <2>5
<1>7. Len(x) = 1 /\ x[1].qty = q
  <2>1. "holds" \in Keyed
    BY DEF Keyed
  <2>2. Len(w.new["holds"]) \in Rights(w.calls)["holds"]
    BY <1>0, <2>1, EndWritten DEF Complete
  <2>3. Rights(w.calls)["holds"] = {1}
    BY <2>1 DEF Rights, Keyed
  <2>4. Len(x) = 1
    BY <1>4, <2>2, <2>3
  <2> QED BY <1>0, <1>1, <1>4, <2>4 DEF Holding
<1>8. View(w, d)["ledger"] = l
  <2>1. "ledger" \in Keyed /\ "ledger" \in Tables
    BY DEF Keyed, Tables
  <2>2. Len(w.new["ledger"]) \in Rights(w.calls)["ledger"]
    BY <1>0, <2>1, EndWritten DEF Complete
  <2>3. Rights(w.calls)["ledger"] = {0}
    BY <2>1 DEF Rights, Keyed
  <2>4. w.new["ledger"] = <<>>
    BY <1>0, <2>1, <2>2, <2>3 DEF Fit
  <2>5. \A k \in DOMAIN w.set : k[1] # "ledger"
    BY ZenonT(40), <1>0 DEF Fit, Kept
  <2>6. View(w, d)["ledger"] = d["ledger"]
    BY ONLY <1>0, <2>1, <2>4, <2>5, ViewUntouched
  <2> QED BY <1>4, <2>6
<1>9. e \in Seq(R)
  <2>1. e = c \o x /\ c \in Seq(R) /\ x \in Seq(R)
    BY <1>6
  <2> QED BY ONLY <2>1
<1>10. PICK W : W = Binds(seen, t, n)
  OBVIOUS
<1>11. W \in [R -> Int] /\ Binding(e, seen, t, n) = Weigh(e, W) /\ Binding(c, seen, t, n) = Weigh(c, W)
  <2>1. c \in Seq(Row.holds) /\ e \in Seq(Row.holds)
    BY <1>5, <1>6, <1>9
  <2>2. Binds(seen, t, n) \in [Row.holds -> Int] /\ Binding(c, seen, t, n) = Weigh(c, Binds(seen, t, n))
    BY ONLY <2>1, BindingWeighs
  <2>3. Binding(e, seen, t, n) = Weigh(e, Binds(seen, t, n))
    BY ONLY <2>1, BindingWeighs
  <2> QED BY <1>5, <1>10, <2>2, <2>3
<1>12. Weigh(e, W) = Weigh(c, W) + Weigh(x, W)
  BY ONLY <1>6, <1>11, WeighJoin
<1>13. Weigh(x, W) = W[x[1]]
  BY ONLY <1>6, <1>7, <1>11, WeighOne
<1>14. W[x[1]] <= q /\ W[x[1]] \in Int
  <2>1. PICK y : y = x[1]
    OBVIOUS
  <2>2. y \in Row.holds
    <3>1. 1 \in 1..Len(x) /\ x \in Seq(R)
      BY <1>6, <1>7
    <3> QED BY <1>5, <2>1, <3>1
  <2>3. Binds(seen, t, n)[y] \in Nat /\ Binds(seen, t, n)[y] <= y.qty
    BY <2>2, BindsFewer
  <2> QED BY <1>7, <1>10, <2>1, <2>3
<1>15. Binding(c, seen, t, n) <= Binding(c, seen, t, t)
  <2>1. c \in Seq(Row.holds)
    BY <1>5, <1>6
  <2> QED BY ONLY <1>2, <2>1, n \in Nat, BindingLater
<1>16. Binding(c, seen, t, t) + q <= OnHand(l, "A")
  BY <1>1, <1>3, <1>4 DEF Asked
<1>17. Weigh(c, W) \in Int
  BY ONLY <1>6, <1>11, WeighType
<1>18. Binding(c, seen, t, t) \in Int /\ OnHand(l, "A") \in Int
  <2>1. c \in Seq(Row.holds)
    BY <1>5, <1>6
  <2>2. PICK V : V = Binds(seen, t, t)
    OBVIOUS
  <2>3. V \in [Row.holds -> Int] /\ Binding(c, seen, t, t) = Weigh(c, V)
    BY ONLY <2>1, <2>2, BindingWeighs
  <2>4. Weigh(c, V) \in Int
    BY ONLY <2>1, <2>3, WeighType
  <2>5. l \in Seq(Row.ledger)
    BY <1>0, <1>4 DEF Typed, Tables
  <2>6. OnHand(l, "A") \in Int
    BY ONLY <2>5, OnHandType
  <2> QED BY <2>3, <2>4, <2>6
<1>19. Weigh(e, W) <= OnHand(l, "A")
  <2>1. PICK a, b, f, g, h : /\ a = Weigh(e, W) /\ b = Weigh(c, W) /\ f = OnHand(l, "A")
                             /\ g = W[x[1]] /\ h = Binding(c, seen, t, t)
    OBVIOUS
  <2>2. /\ a = b + g /\ g <= q /\ b <= h /\ h + q <= f
        /\ b \in Int /\ f \in Int /\ g \in Int /\ h \in Int /\ q \in Int
    BY <1>1, <1>11, <1>12, <1>13, <1>14, <1>15, <1>16, <1>17, <1>18, <2>1
  <2>3. a <= f
    BY ONLY <2>2
  <2> QED BY <2>1, <2>3
<1> QED BY <1>1, <1>4, <1>8, <1>11, <1>19

-----------------------------------------------------------------------------
\* A hold that is placed fits when it commits, whatever was placed, released, converted or
\* taken out of stock since it asked.
THEOREM PlacedHoldsAlwaysFit == Spec => PlacedHoldsFit
<1>1. ASSUME IInv, HoldsKept, [Next]_store, NEW p \in Processes,
             Ends(p), Call(p).op = "hold", ~Stored(Call(p))
      PROVE  Binding(db'.holds, unit[p].seen, unit[p].at, now) <= OnHand(db'.ledger, "A")
  <2>1. PICK w : w = unit[p]
    OBVIOUS
  <2>2. Finished(w, db, now) /\ w.calls \in Request
    BY <1>1, <2>1, EndsFinished
  <2>3. w.calls.op = "hold" /\ w.calls.qty \in Int /\ now \in Nat
    BY <1>1, <2>1, <2>2, RequestFacts, SceneFacts DEF Call, IInv
  <2>4. Binding(View(w, db)["holds"], w.seen, w.at, now) <= OnHand(View(w, db)["ledger"], "A")
    BY ONLY <2>2, <2>3, PlacedFits
  <2>5. db' = View(w, db)
    <3>1. Commit(p) /\ ~Stored(unit[p].calls)
      BY <1>1 DEF Ends, Call
    <3> QED BY <1>1, <2>1, <3>1, CommitInOrder DEF IInv
  <2> QED BY <2>1, <2>4, <2>5
<1>2. ASSUME IInv, HoldsKept, [Next]_store
      PROVE  [\A p \in Processes :
                Ends(p) /\ Call(p).op = "hold" /\ ~Stored(Call(p)) =>
                  Binding(db'.holds, unit[p].seen, unit[p].at, now) <= OnHand(db'.ledger, "A")]_store
  BY <1>1, <1>2
<1>3. Spec => [](IInv /\ HoldsKept)
  <2>1. StoreInit => IInv /\ HoldsKept
    BY InvInit, HoldsBegin
  <2>2. IInv /\ HoldsKept /\ [Next]_store => (IInv /\ HoldsKept)'
    BY InvStep, HoldsStep
  <2> QED BY <2>1, <2>2, PTL DEF Spec
<1> QED BY <1>2, <1>3, PTL DEF Spec, PlacedHoldsFit

-----------------------------------------------------------------------------
\* What documents and ledger weigh.

\* One for a movement that is made for row i of t, and what it brings in for it.
Moving(t, i) == [m \in Row.ledger |-> IF m.on = <<t, i>> THEN 1 ELSE 0]
Bringing(i) == [m \in Row.ledger |-> IF m.on = <<"pos", i>> THEN m.qty ELSE 0]
Working(i, prod, at) ==
  [m \in Row.ledger |-> IF m.on = <<"works", i>> /\ m.prod = prod /\ m.at = at THEN m.qty ELSE 0]
Receiving(i) == [g \in Row.grns |-> IF g.on = i THEN g.qty ELSE 0]
Standing(i) == [h \in Row.holds |-> IF h.from = i THEN 1 ELSE 0]

\* How often stock moved for a document is what those movements weigh, one each,
LEMMA MovedForWeighs ==
  ASSUME NEW d, d["ledger"] \in Seq(Row.ledger), NEW t, NEW i
  PROVE  Moving(t, i) \in [Row.ledger -> Int] /\ MovedFor(d, t, i) = Weigh(d["ledger"], Moving(t, i))
<1>1. \A j \in 1..Len(d["ledger"]) : d["ledger"][j] \in Row.ledger
  OBVIOUS
<1>2. Moving(t, i) \in [Row.ledger -> Int]
  BY DEF Moving
<1>3. [j \in 1..Len(d["ledger"]) |-> IF d["ledger"][j].on = <<t, i>> THEN 1 ELSE 0]
        = [j \in 1..Len(d["ledger"]) |-> Moving(t, i)[d["ledger"][j]]]
  BY <1>1 DEF Moving
<1> QED BY ZenonT(40), <1>2, <1>3 DEF MovedFor, HowMany, Amount, Weigh

\* what came in for a purchase order what they bring,
LEMMA BroughtInWeighs ==
  ASSUME NEW d, d["ledger"] \in Seq(Row.ledger), NEW i
  PROVE  Bringing(i) \in [Row.ledger -> Int] /\ BroughtIn(d, i) = Weigh(d["ledger"], Bringing(i))
<1>1. \A j \in 1..Len(d["ledger"]) : d["ledger"][j] \in Row.ledger
  OBVIOUS
<1>2. Bringing(i) \in [Row.ledger -> Int]
  BY DEF Bringing, Row
<1> QED BY <1>1, <1>2 DEF Bringing, BroughtIn, Amount, Weigh

\* what a work order has at a place what is brought there for it,
LEMMA WorkBalanceWeighs ==
  ASSUME NEW d, d["ledger"] \in Seq(Row.ledger), NEW i, NEW prod, NEW at
  PROVE  /\ Working(i, prod, at) \in [Row.ledger -> Int]
         /\ WorkBalance(d, i, prod, at) = Weigh(d["ledger"], Working(i, prod, at))
<1>1. \A j \in 1..Len(d["ledger"]) : d["ledger"][j] \in Row.ledger
  OBVIOUS
<1>2. Working(i, prod, at) \in [Row.ledger -> Int]
  BY DEF Working, Row
<1> QED BY <1>1, <1>2 DEF Working, WorkBalance, Amount, Weigh

\* what was received what its receipts say,
LEMMA ReceivedWeighs ==
  ASSUME NEW grns \in Seq(Row.grns), NEW i
  PROVE  Receiving(i) \in [Row.grns -> Int] /\ Received(grns, i) = Weigh(grns, Receiving(i))
<1>1. \A j \in 1..Len(grns) : grns[j] \in Row.grns
  OBVIOUS
<1>2. Receiving(i) \in [Row.grns -> Int]
  BY DEF Receiving, Row
<1> QED BY <1>1, <1>2 DEF Receiving, Received, Amount, Weigh

\* and how many holds stand for a quote what those weigh, one each.
LEMMA StandingWeighs ==
  ASSUME NEW holds \in Seq(Row.holds), NEW i
  PROVE  /\ Standing(i) \in [Row.holds -> Int]
         /\ HowMany(holds, LAMBDA h : h.from = i) = Weigh(holds, Standing(i))
<1>1. \A j \in 1..Len(holds) : holds[j] \in Row.holds
  OBVIOUS
<1>2. Standing(i) \in [Row.holds -> Int]
  BY DEF Standing
<1>3. [j \in 1..Len(holds) |-> IF holds[j].from = i THEN 1 ELSE 0]
        = [j \in 1..Len(holds) |-> Standing(i)[holds[j]]]
  BY <1>1 DEF Standing
<1> QED BY ZenonT(40), <1>2, <1>3 DEF HowMany, Amount, Weigh

-----------------------------------------------------------------------------
\* The tables that only grow.

\* A COMMIT adds the unit's movements and receipts after those that are there.
LEMMA TableAfter ==
  ASSUME NEW w, NEW d, NEW n, Sound(d), Local(w, d, n), NEW t \in {"ledger", "grns"}
  PROVE  /\ View(w, d)[t] = d[t] \o w.new[t]
         /\ d[t] \in Seq(Row[t]) /\ w.new[t] \in Seq(Row[t]) /\ View(w, d)[t] \in Seq(Row[t])
<1>1. t \in Tables /\ Typed(d) /\ Fit(w, d, n)
  BY DEF Tables, Sound, Local
<1>2. \A k \in DOMAIN w.set : k[1] # t
  BY ZenonT(40), <1>1 DEF Fit, Kept
<1>3. PICK R, c, x : R = Row[t] /\ c = d[t] /\ x = w.new[t]
  OBVIOUS
<1>4. c \in Seq(R) /\ x \in Seq(R)
  BY <1>1, <1>3 DEF Typed, Fit
<1>5. Over(w, d, t) = c
  <2>1. \A i \in 1..Len(c) : <<t, i>> \notin DOMAIN w.set
    BY <1>2
  <2>2. Over(w, d, t) = [i \in 1..Len(c) |-> c[i]]
    BY <1>3, <2>1 DEF Over
  <2>3. c = [i \in 1..Len(c) |-> c[i]]
    BY <1>4
  <2> QED BY <2>2, <2>3
<1>6. View(w, d)[t] = c \o x
  BY <1>1, <1>3, <1>5, ViewIs
<1>7. c \o x \in Seq(R)
  BY ONLY <1>4
<1> QED BY <1>3, <1>4, <1>6, <1>7

-----------------------------------------------------------------------------
\* What units tell of their documents.

WorkOps == {"stageWork", "finishWork", "cancelWork"}

\* What a work order's command moves.
WorkMoves(q, w) ==
  IF q.op = "stageWork" THEN Transfer(w.gross, "raw", "shop")
  ELSE IF q.op = "finishWork" THEN Worked(q, w)
  ELSE Transfer(PutBack(w), "shop", "raw")

\* What a unit's movements are made for: the document its caller names, or the sale it inserts.
Why(u, d) ==
  IF u.calls.op = "complete" THEN <<"orders", u.calls.on>>
  ELSE IF u.calls.op = "sale" THEN <<"orders", Len(d["orders"]) + 1>>
  ELSE IF u.calls.op = "receive" THEN <<"pos", u.calls.on>>
  ELSE IF u.calls.op \in WorkOps THEN <<"works", u.calls.on>>
  ELSE IF u.calls.op = "count" THEN <<"counts", u.calls.on>>
  ELSE <<"move", 0>>

\* What was received when the purchase order was seen still is, at the version that was seen.
Counted(u, grns, pos) ==
  /\ u.seen.got \in Int /\ u.seen.qty \in Nat
  /\ u.seen.ver = pos[u.calls.on].ver => Received(grns, u.calls.on) = u.seen.got
  /\ u.calls.op = "receive" => u.seen.got + u.calls.qty <= u.seen.qty
  /\ u.calls.op = "withdraw" => u.seen.got = 0

\* The order a sale inserts: complete, and issued when it counts anything.
SaleRow(q, row) == row.status = "COMPLETED" /\ row.qty = q.qty /\ (row.issued <=> q.qty > 0)

\* What completing the order w with its stock moves: one movement, of what it counts if anything.
Goods(w) == IF w.qty > 0 THEN 1 ELSE 0

\* What a unit has written of movements, receipts and sales is what its request says, and
\* it has closed the document it moved stock for once it is past that.
Told(u, d) ==
  /\ \A i \in 1..Len(u.new["ledger"]) : u.new["ledger"][i].on = Why(u, d)
  /\ u.calls.op = "receive" =>
       /\ \A i \in 1..Len(u.new["ledger"]) : u.new["ledger"][i].qty = u.calls.qty
       /\ \A i \in 1..Len(u.new["grns"]) :
            u.new["grns"][i].on = u.calls.on /\ u.new["grns"][i].qty = u.calls.qty
  /\ u.calls.op = "sale" =>
       \A i \in 1..Len(u.new["orders"]) : SaleRow(u.calls, u.new["orders"][i])
  /\ Past(u, {"complete"}, 2) => Len(u.new["ledger"]) = Goods(u.seen)
  /\ Past(u, WorkOps, 2) =>
       u.new["ledger"] = Movements(u.calls, <<"works", u.calls.on>>, WorkMoves(u.calls, u.seen))
  /\ Past(u, {"receive", "withdraw", "short"}, 1) => Counted(u, d["grns"], d["pos"])
  /\ Past(u, {"complete"}, 3) => <<"orders", u.calls.on>> \in DOMAIN u.set
  /\ Past(u, {"receive"}, 4) => <<"pos", u.calls.on>> \in DOMAIN u.set
  /\ Past(u, WorkOps, 3) => <<"works", u.calls.on>> \in DOMAIN u.set

\* The commands that tell of a document, or move stock for none.
Tellers == {"move", "count", "complete", "sale", "receive", "withdraw", "short"} \cup WorkOps

\* A unit that is not past its movements has made none.
LEMMA NoMoves ==
  ASSUME NEW u, NEW d, NEW n, Fit(u, d, n), Written(u), u.pc <= Slot(u.calls.op, "ledger")
  PROVE  u.new["ledger"] = <<>>
<1>1. "ledger" \in Keyed /\ u.pc \in Nat
  BY DEF Keyed, Fit
<1>2. Slot(u.calls.op, "ledger") \in Nat
  BY DEF Slot
<1> QED BY <1>1, <1>2 DEF Written

\* A command that moves no stock has moved none.
LEMMA NoneMoved ==
  ASSUME NEW u, NEW d, NEW n, Fit(u, d, n), Written(u), Rights(u.calls)["ledger"] = {0}
  PROVE  u.new["ledger"] = <<>>
<1>1. "ledger" \in Keyed /\ "ledger" \in Tables
  BY DEF Keyed, Tables
<1>2. u.new["ledger"] = <<>> \/ Len(u.new["ledger"]) = 0
  BY <1>1 DEF Written
<1>3. PICK R, l : R = Row["ledger"] /\ l = u.new["ledger"] /\ l \in Seq(R)
  BY <1>1 DEF Fit
<1> QED BY <1>2, <1>3

\* A unit that has begun nothing yet has told nothing yet.
LEMMA FirstTold ==
  ASSUME NEW u, NEW d, NEW n, Fit(u, d, n), Clean(u), u.pc <= 1
  PROVE  Told(u, d)
<1>1. u.new["ledger"] = <<>> /\ u.new["grns"] = <<>> /\ u.new["orders"] = <<>> /\ u.pc \in Nat
  BY DEF Fit, Clean, NoRows, Tables
<1>2. /\ ~Past(u, WorkOps, 2) /\ ~Past(u, {"receive", "withdraw", "short"}, 1)
      /\ ~Past(u, {"complete"}, 2) /\ ~Past(u, {"complete"}, 3)
      /\ ~Past(u, {"receive"}, 4) /\ ~Past(u, WorkOps, 3)
  BY <1>1 DEF Past
<1> QED BY <1>1, <1>2 DEF Told

\* A command that moves no stock and receives nothing has nothing to tell.
LEMMA OtherTold ==
  ASSUME NEW u, NEW d, NEW n, Fit(u, d, n), Written(u), u.calls.op \in DOMAIN Program,
         u.calls.op \notin Tellers
  PROVE  Told(u, d)
<1>1. Rights(u.calls)["ledger"] = {0}
  BY DEF Rights, Keyed, Tellers, WorkOps
<1>2. u.new["ledger"] = <<>>
  BY ONLY <1>1, Fit(u, d, n), Written(u), NoneMoved
<1> QED BY <1>2 DEF Told, Past, Tellers, WorkOps

\* The command that reads its sales order or its work order has nothing to tell by then.
LEMMA EarlyTold ==
  ASSUME NEW u, NEW d, NEW n, Fit(u, d, n), Written(u), u.pc <= 2,
         u.calls.op \in {"complete"} \cup WorkOps
  PROVE  Told(u, d)
<1>1. u.pc <= Slot(u.calls.op, "ledger") /\ u.pc \in Nat
  BY DEF Slot, WorkOps, Fit
<1>2. u.new["ledger"] = <<>>
  BY ONLY <1>1, Fit(u, d, n), Written(u), NoMoves
<1>3. /\ ~Past(u, WorkOps, 2) /\ ~Past(u, WorkOps, 3)
      /\ ~Past(u, {"complete"}, 2) /\ ~Past(u, {"complete"}, 3)
  BY <1>1 DEF Past
<1> QED BY <1>2, <1>3 DEF Told, Past, WorkOps

\* v is u one statement on, with the same movements, sales and receipts.
Further(u, v) ==
  /\ v.calls = u.calls /\ v.seen = u.seen /\ v.pc = u.pc + 1 /\ u.pc \in Nat
  /\ v.new["ledger"] = u.new["ledger"] /\ v.new["orders"] = u.new["orders"]
  /\ v.new["grns"] = u.new["grns"] /\ DOMAIN u.set \subseteq DOMAIN v.set

\* What was told stays told.
LEMMA ToldFurther ==
  ASSUME NEW u, NEW v, NEW d, Told(u, d), Further(u, v), u.pc > 1,
         u.calls.op \in {"complete"} \cup WorkOps => u.pc # 2,
         u.calls.op = "complete" /\ u.pc = 3 => <<"orders", u.calls.on>> \in DOMAIN v.set,
         u.calls.op = "receive" /\ u.pc = 4 => <<"pos", u.calls.on>> \in DOMAIN v.set,
         u.calls.op \in WorkOps /\ u.pc = 3 => <<"works", u.calls.on>> \in DOMAIN v.set
  PROVE  Told(v, d)
<1>1. Why(v, d) = Why(u, d)
  BY DEF Further, Why
<1>2. /\ \A i \in 1..Len(v.new["ledger"]) : v.new["ledger"][i].on = Why(v, d)
      /\ v.calls.op = "receive" =>
           /\ \A i \in 1..Len(v.new["ledger"]) : v.new["ledger"][i].qty = v.calls.qty
           /\ \A i \in 1..Len(v.new["grns"]) :
                v.new["grns"][i].on = v.calls.on /\ v.new["grns"][i].qty = v.calls.qty
      /\ v.calls.op = "sale" =>
           \A i \in 1..Len(v.new["orders"]) : SaleRow(v.calls, v.new["orders"][i])
  BY <1>1 DEF Further, Told
<1>3. Past(v, WorkOps, 2) =>
        v.new["ledger"] = Movements(v.calls, <<"works", v.calls.on>>, WorkMoves(v.calls, v.seen))
  BY DEF Further, Told, Past
<1>4. Past(v, {"receive", "withdraw", "short"}, 1) => Counted(v, d["grns"], d["pos"])
  BY DEF Further, Told, Past, Counted
<1>5. Past(v, {"complete"}, 3) => <<"orders", v.calls.on>> \in DOMAIN v.set
  BY DEF Further, Told, Past
<1>6. Past(v, {"receive"}, 4) => <<"pos", v.calls.on>> \in DOMAIN v.set
  BY DEF Further, Told, Past
<1>7. Past(v, WorkOps, 3) => <<"works", v.calls.on>> \in DOMAIN v.set
  BY DEF Further, Told, Past
<1>8. Past(v, {"complete"}, 2) => Len(v.new["ledger"]) = Goods(v.seen)
  BY DEF Further, Told, Past
<1> QED BY <1>2, <1>3, <1>4, <1>5, <1>6, <1>7, <1>8 DEF Told

-----------------------------------------------------------------------------
\* How a statement goes on.

\* The statement is refused, given up, re-run, or the unit tells what it goes on with.
Tells(p) == Refuse(p) \/ GiveUp(p) \/ Rerun(p) \/ \E v : Becomes(p, v) /\ Told(v, db)

\* v is u with these movements.
Laid(u, v, moves) ==
  /\ v.calls = u.calls /\ v.seen = u.seen /\ v.pc = u.pc + 1
  /\ v.new["ledger"] = moves /\ v.new["orders"] = u.new["orders"] /\ v.new["grns"] = u.new["grns"]
  /\ DOMAIN u.set \subseteq DOMAIN v.set

\* The fields of a unit after it posts movements,
LEMMA LaidFields ==
  ASSUME NEW p, Context(p), unit[p].new["ledger"] = <<>>, NEW moves \in Seq(Row.ledger),
         NEW v, v = Then(Append2Ledger(p, moves))
  PROVE  Laid(unit[p], v, moves)
<1>0. Shaped(unit[p]) /\ DOMAIN unit[p].new = Tables
  BY ContextFacts DEF Fit
<1>1. PICK w, u, ver : w = Append2Ledger(p, moves) /\ u = unit[p] /\ ver = Fence(p).ver + Len(moves)
  OBVIOUS
<1>2. Ledgered(w, u, moves, ver)
  BY <1>0, <1>1, LedgerFields
<1>3. v = Then(w) /\ Shaped(w)
  BY <1>1, <1>2 DEF Ledgered
<1>4. v.pc = w.pc + 1 /\ v.calls = w.calls /\ v.seen = w.seen /\ v.new = w.new /\ v.set = w.set
  BY ONLY <1>3, ThenFields
<1>5. u.new["ledger"] \o moves = moves
  <2>1. PICK R : R = Row.ledger
    OBVIOUS
  <2>2. moves \in Seq(R)
    BY <2>1
  <2>3. <<>> \o moves = moves
    BY ONLY <2>2
  <2> QED BY <1>1, <2>3
<1>6. w.new["orders"] = u.new["orders"] /\ w.new["grns"] = u.new["grns"]
  BY <1>0, <1>1, <1>2 DEF Ledgered, Tables
<1> QED BY <1>1, <1>2, <1>4, <1>5, <1>6 DEF Laid, Ledgered

\* Movements are told, or refused.
LEMMA MoveTells ==
  ASSUME NEW p, Context(p), unit[p].new["ledger"] = <<>>, NEW on, NEW list, Move(p, on, list),
         NEW moves \in Seq(Row.ledger), moves = Movements(unit[p].calls, on, list),
         \A v : Laid(unit[p], v, moves) => Told(v, db)
  PROVE  Tells(p)
<1>1. PICK v : v = Then(Append2Ledger(p, moves))
  OBVIOUS
<1>2. Told(v, db)
  BY <1>1, LaidFields
<1>3. Refuse(p) \/ Becomes(p, v)
  BY <1>1 DEF Move, Call
<1> QED BY <1>2, <1>3 DEF Tells

\* v is u with row i of t updated.
Closed(u, v, t, i) ==
  /\ v.calls = u.calls /\ v.seen = u.seen /\ v.pc = u.pc + 1 /\ v.new = u.new
  /\ DOMAIN v.set = DOMAIN u.set \cup {<<t, i>>}

\* after it updates a document,
LEMMA ClosedFields ==
  ASSUME NEW u, Shaped(u), NEW t, NEW i, NEW row, NEW v, v = Then(Updated(u, t, i, row))
  PROVE  Closed(u, v, t, i)
<1>1. PICK w : w = Updated(u, t, i, row)
  OBVIOUS
<1>2. /\ Shaped(w) /\ w.pc = u.pc /\ w.want = u.want /\ w.calls = u.calls /\ w.run = u.run
      /\ w.at = u.at /\ w.seen = u.seen /\ w.due = u.due /\ w.new = u.new
      /\ DOMAIN w.set = DOMAIN u.set \cup {<<t, i>>} /\ w.set[<<t, i>>] = row
      /\ \A k \in DOMAIN u.set : k # <<t, i>> => w.set[k] = u.set[k]
  BY ONLY <1>1, Shaped(u), UpdatedFields
<1>3. v = Then(w) /\ Shaped(w)
  BY <1>1, <1>2
<1>4. v.pc = w.pc + 1 /\ v.calls = w.calls /\ v.seen = w.seen /\ v.new = w.new /\ v.set = w.set
  BY ONLY <1>3, ThenFields
<1> QED BY <1>2, <1>4 DEF Closed

\* A document that is closed is told of, or was closed before.
LEMMA CloseTells ==
  ASSUME NEW p, Context(p), NEW t, NEW i, NEW holds, NEW row, NEW retryable,
         Cas(p, t, i, holds, row, retryable),
         \A v : Closed(unit[p], v, t, i) => Told(v, db)
  PROVE  Tells(p)
<1>1. PICK v : v = Then(Updated(unit[p], t, i, row))
  OBVIOUS
<1>2. Shaped(unit[p])
  BY ContextFacts
<1>3. Told(v, db)
  BY <1>1, <1>2, ClosedFields
<1>4. Refuse(p) \/ GiveUp(p) \/ Becomes(p, v)
  BY ZenonT(40), <1>1 DEF Cas
<1> QED BY <1>3, <1>4 DEF Tells

\* v is u with the first row inserted into t.
Placed(u, v, t, row) ==
  /\ v.calls = u.calls /\ v.seen = u.seen /\ v.pc = u.pc + 1 /\ v.set = u.set
  /\ v.new[t] = <<row>>
  /\ \A s \in {"ledger", "orders", "grns"} : s # t => v.new[s] = u.new[s]

\* and after it inserts a row.
LEMMA PlacedFields ==
  ASSUME NEW u, Shaped(u), DOMAIN u.new = Tables, NEW t \in Coded, u.new[t] = <<>>, NEW row,
         NEW v, v = Then(Appended(u, t, row))
  PROVE  Placed(u, v, t, row)
<1>0. t \in DOMAIN u.new /\ \A s \in {"ledger", "orders", "grns"} : s \in DOMAIN u.new
  BY DEF Coded, Tables
<1>1. PICK w : w = Appended(u, t, row)
  OBVIOUS
<1>2. /\ Shaped(w) /\ w.pc = u.pc /\ w.want = u.want /\ w.calls = u.calls /\ w.run = u.run
      /\ w.at = u.at /\ w.seen = u.seen /\ w.due = u.due /\ w.set = u.set
      /\ DOMAIN w.new = DOMAIN u.new /\ w.new[t] = Append(u.new[t], row)
      /\ \A s \in DOMAIN u.new : s # t => w.new[s] = u.new[s]
  BY ONLY <1>0, <1>1, Shaped(u), AppendedFields
<1>3. v = Then(w) /\ Shaped(w)
  BY <1>1, <1>2
<1>4. v.pc = w.pc + 1 /\ v.calls = w.calls /\ v.seen = w.seen /\ v.new = w.new /\ v.set = w.set
  BY ONLY <1>3, ThenFields
<1>5. Append(<<>>, row) = <<row>>
  OBVIOUS
<1> QED BY <1>0, <1>2, <1>4, <1>5 DEF Placed

\* Units that have found and written the same tell the same.
LEMMA SameTold ==
  ASSUME NEW u, NEW v, NEW d, Told(u, d), v.calls = u.calls, v.pc = u.pc,
         v.seen = u.seen, v.new = u.new, v.set = u.set
  PROVE  Told(v, d)
BY DEF Told, Past, Why, Counted

\* A row that is inserted is told of, or waits for its code, or collides.
LEMMA PlaceTells ==
  ASSUME NEW p, Context(p), Told(unit[p], db), NEW t \in Coded, unit[p].new[t] = <<>>, NEW row,
         InsertCoded(p, t, row, unit[p]),
         \A v : Placed(unit[p], v, t, row) => Told(v, db)
  PROVE  Tells(p)
<1>0. Shaped(unit[p]) /\ DOMAIN unit[p].new = Tables
  BY ContextFacts DEF Fit
<1>1. PICK u, v : u = [unit[p] EXCEPT !.want = Len(db[t]) + 1] /\ v = Then(Appended(unit[p], t, row))
  OBVIOUS
<1>2. Told(v, db)
  BY <1>0, <1>1, PlacedFields
<1>3. Told(u, db)
  <2>2. /\ u.calls = unit[p].calls /\ u.pc = unit[p].pc /\ u.seen = unit[p].seen
        /\ u.new = unit[p].new /\ u.set = unit[p].set
    BY <1>0, <1>1, Fields DEF Shaped
  <2> QED BY ONLY <2>2, Told(unit[p], db), SameTold
<1>4. Becomes(p, v) \/ Becomes(p, u) \/ Rerun(p)
  BY <1>1 DEF InsertCoded
<1> QED BY <1>2, <1>3, <1>4 DEF Tells

-----------------------------------------------------------------------------
\* The statements that tell something, one by one.

\* Before its movements a unit has made none.
LEMMA NotMoved ==
  ASSUME NEW p, Context(p), unit[p].pc <= Slot(unit[p].calls.op, "ledger")
  PROVE  unit[p].new["ledger"] = <<>>
<1>1. Fit(unit[p], db, now) /\ Written(unit[p])
  BY ContextFacts
<1> QED BY ONLY <1>1, unit[p].pc <= Slot(unit[p].calls.op, "ledger"), NoMoves

\* One movement, for a caller's own reason or for a document.
LEMMA SingleTells ==
  ASSUME NEW p, Context(p), Told(unit[p], db), NEW x \in Int, NEW on \in Origins \X Nat,
         unit[p].pc = Slot(unit[p].calls.op, "ledger"), Move(p, on, <<<<"A", x, "none">>>>),
         on = Why(unit[p], db), unit[p].calls.op \in {"move", "complete", "sale", "receive"},
         unit[p].calls.op = "receive" => x = unit[p].calls.qty,
         unit[p].calls.op = "complete" => Goods(unit[p].seen) = 1
  PROVE  Tells(p)
<1>0. unit[p].calls \in Request /\ unit[p].calls.key \in STRING /\ unit[p].pc \in Nat
  BY ContextFacts, RequestFacts
<1>1. unit[p].new["ledger"] = <<>>
  BY <1>0, NotMoved
<1>2. PICK list : list = <<<<"A", x, "none">>>>
  OBVIOUS
<1>3. list \in Seq(Item) /\ Len(list) = 1 /\ list[1][2] = x
  BY <1>2, OneItem
<1>4. PICK moves : moves = Movements(unit[p].calls, on, list)
  OBVIOUS
<1>5. /\ moves \in Seq(Row.ledger) /\ Len(moves) = Len(list)
      /\ \A i \in 1..Len(moves) : moves[i].by = unit[p].calls.key /\ moves[i].on = on
  BY <1>0, <1>3, <1>4, MovementRows
<1>6. \A i \in 1..Len(moves) : moves[i].qty = x
  BY <1>3, <1>4, <1>5 DEF Movements
<1>7. ASSUME NEW v, Laid(unit[p], v, moves) PROVE Told(v, db)
  <2>1. Why(v, db) = Why(unit[p], db)
    BY <1>7 DEF Laid, Why
  <2>2. v.calls.op \in {"move", "complete", "sale", "receive"} /\ v.pc = unit[p].pc + 1
    BY <1>7 DEF Laid
  <2>3. ~Past(v, WorkOps, 2) /\ ~Past(v, {"complete"}, 3) /\ ~Past(v, {"receive"}, 4) /\ ~Past(v, WorkOps, 3)
    <3>1. unit[p].pc = IF unit[p].calls.op = "receive" THEN 3 ELSE IF unit[p].calls.op = "move" THEN 1 ELSE 2
      BY DEF Slot
    <3>2. v.calls = unit[p].calls
      BY <1>7 DEF Laid
    <3> QED BY <2>2, <3>1, <3>2 DEF Past, WorkOps
  <2>4. Past(v, {"receive", "withdraw", "short"}, 1) => Counted(v, db["grns"], db["pos"])
    <3>1. ASSUME Past(v, {"receive", "withdraw", "short"}, 1) PROVE Counted(v, db["grns"], db["pos"])
      <4>1. unit[p].calls.op = "receive" /\ unit[p].pc > 1 /\ v.calls = unit[p].calls /\ v.seen = unit[p].seen
        BY <1>0, <1>7, <2>2, <3>1 DEF Past, Laid, Slot
      <4>2. Counted(unit[p], db["grns"], db["pos"])
        BY <4>1 DEF Told, Past
      <4> QED BY <4>1, <4>2 DEF Counted
    <3> QED BY <3>1
  <2>5. v.calls.op = "receive" =>
          /\ \A i \in 1..Len(v.new["ledger"]) : v.new["ledger"][i].qty = v.calls.qty
          /\ \A i \in 1..Len(v.new["grns"]) :
               v.new["grns"][i].on = v.calls.on /\ v.new["grns"][i].qty = v.calls.qty
    BY <1>6, <1>7 DEF Laid, Told
  <2>6. v.calls.op = "sale" => \A i \in 1..Len(v.new["orders"]) : SaleRow(v.calls, v.new["orders"][i])
    BY <1>7 DEF Laid, Told
  <2>7. \A i \in 1..Len(v.new["ledger"]) : v.new["ledger"][i].on = Why(v, db)
    BY <1>5, <1>7, <2>1 DEF Laid
  <2>8. Past(v, {"complete"}, 2) => Len(v.new["ledger"]) = Goods(v.seen)
    BY <1>3, <1>5, <1>7 DEF Laid, Past
  <2> QED BY <2>3, <2>4, <2>5, <2>6, <2>7, <2>8 DEF Told
<1> QED BY <1>1, <1>2, <1>4, <1>5, <1>7, MoveTells

\* No movement, where an order or a sale counts nothing.
LEMMA UnmovedTells ==
  ASSUME NEW p, Context(p), Told(unit[p], db), Becomes(p, Then(unit[p])), unit[p].pc = 2,
         unit[p].calls.op \in {"complete", "sale"},
         unit[p].calls.op = "complete" => Goods(unit[p].seen) = 0
  PROVE  Tells(p)
<1>0. Shaped(unit[p])
  BY ContextFacts
<1>1. PICK u, v : u = unit[p] /\ v = Then(u)
  OBVIOUS
<1>2. u.pc = 2 /\ u.calls.op \in {"complete", "sale"} /\ Told(u, db) /\ Shaped(u)
  BY <1>0, <1>1
<1>3. v.pc = u.pc + 1 /\ v.calls = u.calls /\ v.seen = u.seen /\ v.new = u.new
  BY ONLY <1>1, <1>2, ThenFields
<1>4. u.new["ledger"] = <<>>
  <2>1. unit[p].pc <= Slot(unit[p].calls.op, "ledger")
    BY DEF Slot
  <2> QED BY <1>1, <2>1, NotMoved
<1>5. v.calls.op \in {"complete", "sale"} /\ v.pc = 3 /\ v.new["ledger"] = <<>>
  BY <1>2, <1>3, <1>4
<1>6. /\ ~Past(v, WorkOps, 2) /\ ~Past(v, WorkOps, 3) /\ ~Past(v, {"complete"}, 3)
      /\ ~Past(v, {"receive"}, 4) /\ ~Past(v, {"receive", "withdraw", "short"}, 1)
      /\ v.calls.op # "receive"
  BY <1>5 DEF Past, WorkOps
<1>7. Past(v, {"complete"}, 2) => Len(v.new["ledger"]) = Goods(v.seen)
  BY <1>1, <1>3, <1>5 DEF Past
<1>8. v.calls.op = "sale" => \A i \in 1..Len(v.new["orders"]) : SaleRow(v.calls, v.new["orders"][i])
  BY <1>2, <1>3 DEF Told
<1>9. Told(v, db)
  BY <1>5, <1>6, <1>7, <1>8 DEF Told
<1> QED BY <1>1, <1>9 DEF Tells

\* A movement of its own names no document.
LEMMA MoveStatementTells ==
  ASSUME NEW p, Context(p), Told(unit[p], db), At(p, "move"),
         Move(p, <<"move", 0>>, <<<<"A", Call(p).qty, "none">>>>)
  PROVE  Tells(p)
<1>1. unit[p].calls.op = "move" /\ unit[p].pc = 1 /\ unit[p].calls \in Request
  BY AtPlace, ContextFacts DEF Place
<1>2. PICK x \in Int : x = Call(p).qty
  BY <1>1, RequestFacts DEF Call
<1>3. PICK on \in Origins \X Nat : on = <<"move", 0>>
  BY DEF Origins
<1>4. unit[p].pc = Slot(unit[p].calls.op, "ledger") /\ on = Why(unit[p], db)
  BY <1>1, <1>3 DEF Slot, Why, WorkOps
<1> QED BY <1>1, <1>2, <1>3, <1>4, SingleTells

\* The stock of a completed order is issued for that order,
LEMMA IssueOrderTells ==
  ASSUME NEW p, Context(p), Told(unit[p], db), At(p, "issueOrder"), IssueOrder(p)
  PROVE  Tells(p)
<1>1. unit[p].calls.op = "complete" /\ unit[p].pc = 2 /\ unit[p].calls \in Request /\ Noted(unit[p], db)
  BY AtPlace, ContextFacts DEF Place
<1>0. unit[p].seen.qty \in Nat
  <2>1. unit[p].seen \in Row.orders
    BY <1>1 DEF Noted, Past
  <2> QED BY <2>1 DEF Row
<1>2. PICK x \in Int : x = -unit[p].seen.qty
  BY <1>0
<1>3. PICK on \in Origins \X Nat : on = <<"orders", unit[p].calls.on>>
  BY <1>1, RequestFacts DEF Origins
<1>4. unit[p].pc = Slot(unit[p].calls.op, "ledger") /\ on = Why(unit[p], db)
  BY <1>1, <1>3 DEF Slot, Why, WorkOps
<1>5. CASE unit[p].seen.qty = 0
  <2>1. Becomes(p, Then(unit[p])) /\ Goods(unit[p].seen) = 0
    BY <1>5 DEF IssueOrder, Goods
  <2> QED BY <1>1, <2>1, UnmovedTells
<1>6. CASE unit[p].seen.qty # 0
  <2>1. Refuse(p) \/ Move(p, on, <<<<"A", x, "none">>>>)
    BY <1>2, <1>3, <1>6 DEF IssueOrder, Call
  <2>2. Goods(unit[p].seen) = 1
    BY <1>0, <1>6 DEF Goods
  <2> QED BY <1>1, <1>4, <2>1, <2>2, SingleTells DEF Tells
<1> QED BY <1>5, <1>6

\* and moves it on.
LEMMA CloseOrderTells ==
  ASSUME NEW p, Context(p), Told(unit[p], db), At(p, "closeOrder"), CloseOrder(p), unit[p].calls.op = "complete"
  PROVE  Tells(p)
<1>1. unit[p].pc = 3
  BY AtPlace DEF Place
<1>2. PICK i, holds, row, retryable : i = unit[p].calls.on /\ Cas(p, "orders", i, holds, row, retryable)
  <2>1. PICK row : Cas(p, "orders", unit[p].calls.on, AsRead(p, "orders"), row, FALSE)
    BY ZenonT(40) DEF CloseOrder, Call
  <2> QED BY <2>1
<1>3. ASSUME NEW v, Closed(unit[p], v, "orders", i) PROVE Told(v, db)
  <2>1. Further(unit[p], v) /\ <<"orders", unit[p].calls.on>> \in DOMAIN v.set
    BY <1>1, <1>2, <1>3 DEF Closed, Further
  <2>2. /\ unit[p].calls.op \notin WorkOps /\ unit[p].calls.op # "receive" /\ unit[p].pc > 1
        /\ unit[p].pc # 2
    BY <1>1 DEF WorkOps
  <2> QED BY <2>1, <2>2, ToldFurther
<1> QED BY <1>2, <1>3, CloseTells

\* A sale inserts its order,
LEMMA InsertSaleTells ==
  ASSUME NEW p, Context(p), Told(unit[p], db), At(p, "insertSale"), InsertSale(p)
  PROVE  Tells(p)
<1>1. unit[p].calls.op = "sale" /\ unit[p].pc = 1
  BY AtPlace DEF Place
<1>2. unit[p].new["orders"] = <<>> /\ unit[p].new["ledger"] = <<>>
  BY <1>1, ContextFirst DEF NoRows, Tables
<1>3. PICK row : row = [by |-> Call(p).key, status |-> "COMPLETED", ver |-> 1, qty |-> Call(p).qty,
                        issued |-> Call(p).qty > 0]
  OBVIOUS
<1>4. SaleRow(unit[p].calls, row) /\ "orders" \in Coded
  BY <1>3 DEF Coded, SaleRow, Call
<1>5. InsertCoded(p, "orders", row, unit[p])
  BY <1>3 DEF InsertSale
<1>6. ASSUME NEW v, Placed(unit[p], v, "orders", row) PROVE Told(v, db)
  <2>1. /\ v.new["orders"] = <<row>> /\ v.new["ledger"] = <<>> /\ v.calls.op = "sale"
        /\ v.calls = unit[p].calls
    BY <1>1, <1>2, <1>6 DEF Placed
  <2>2. \A j \in 1..Len(v.new["orders"]) : v.new["orders"][j] = row
    BY <2>1
  <2> QED BY <1>4, <2>1, <2>2 DEF Told, Past, WorkOps
<1> QED BY <1>2, <1>4, <1>5, <1>6, PlaceTells

\* issues stock for it
LEMMA IssueSaleTells ==
  ASSUME NEW p, Context(p), Told(unit[p], db), At(p, "issueSale"), IssueSale(p)
  PROVE  Tells(p)
<1>1. /\ unit[p].calls.op = "sale" /\ unit[p].pc = 2 /\ unit[p].calls \in Request
      /\ Fit(unit[p], db, now) /\ Written(unit[p])
  BY AtPlace, ContextFacts DEF Place
<1>2. Len(Rows(p, "orders")) = Len(db["orders"]) + 1 /\ Len(db["orders"]) \in Nat
  <2>1. "orders" \in Keyed /\ "orders" \in Tables
    BY DEF Keyed, Tables
  <2>2. Len(unit[p].new["orders"]) = 1
    <3>1. Rights(unit[p].calls)["orders"] = {1}
      BY <1>1, <2>1 DEF Rights
    <3>2. Slot(unit[p].calls.op, "orders") = 1
      BY DEF Slot
    <3>3. Written(unit[p]) /\ "orders" \in Keyed /\ unit[p].pc = 2
      BY <1>1, <2>1
    <3>4. Len(unit[p].new["orders"]) \in Rights(unit[p].calls)["orders"]
      BY ONLY <3>2, <3>3 DEF Written
    <3> QED BY <3>1, <3>4
  <2>3. Reads(Rows(p, "orders"), unit[p], db, "orders")
    BY <2>1, RowsTyped
  <2> QED BY <2>2, <2>3 DEF Reads
<1>3. PICK x \in Int : x = -Call(p).qty
  <2>1. Call(p).qty \in Int
    BY <1>1, RequestFacts DEF Call
  <2> QED BY <2>1
<1>4. PICK on \in Origins \X Nat : on = <<"orders", Len(db["orders"]) + 1>>
  <2>1. Len(db["orders"]) + 1 \in Nat /\ "orders" \in Origins
    BY <1>2 DEF Origins
  <2> QED BY <2>1
<1>5. unit[p].pc = Slot(unit[p].calls.op, "ledger") /\ on = Why(unit[p], db)
  BY <1>1, <1>4 DEF Slot, Why
<1>6. CASE Call(p).qty = 0
  <2>1. Becomes(p, Then(unit[p]))
    BY <1>6 DEF IssueSale
  <2> QED BY <1>1, <2>1, UnmovedTells
<1>7. CASE Call(p).qty # 0
  <2>1. Move(p, on, <<<<"A", x, "none">>>>)
    BY <1>2, <1>3, <1>4, <1>7 DEF IssueSale
  <2> QED BY <1>1, <1>5, <2>1, SingleTells
<1> QED BY <1>6, <1>7

\* and records a payment, which is told nothing of.
LEMMA PaySaleTells ==
  ASSUME NEW p, Context(p), Told(unit[p], db), At(p, "paySale"), InsertSalePayment(p)
  PROVE  Tells(p)
<1>1. /\ unit[p].calls.op = "sale" /\ unit[p].pc = 3 /\ Written(unit[p])
      /\ unit[p].calls.op \notin WorkOps /\ unit[p].calls.op # "complete" /\ unit[p].calls.op # "receive"
  BY AtPlace, ContextFacts DEF Place, WorkOps
<1>2. unit[p].new["pays"] = <<>> /\ "pays" \in Coded
  <2>1. "pays" \in Keyed /\ Slot(unit[p].calls.op, "pays") = 3 /\ "pays" \in Coded
    BY <1>1 DEF Keyed, Slot, Coded
  <2> QED BY <1>1, <2>1 DEF Written
<1>3. PICK row : InsertCoded(p, "pays", row, unit[p])
  BY DEF InsertSalePayment
<1>4. ASSUME NEW v, Placed(unit[p], v, "pays", row) PROVE Told(v, db)
  <2>1. Further(unit[p], v)
    BY <1>1, <1>4 DEF Placed, Further
  <2>2. PICK u : u = unit[p]
    OBVIOUS
  <2>3. /\ Told(u, db) /\ Further(u, v) /\ u.pc > 1 /\ u.calls.op \notin WorkOps
        /\ u.calls.op # "complete" /\ u.calls.op # "receive"
    BY <1>1, <2>1, <2>2
  <2> QED BY ONLY <2>3, ToldFurther
<1> QED BY <1>2, <1>3, <1>4, PlaceTells

\* A count moves stock for itself.
LEMMA CountTells ==
  ASSUME NEW p, Context(p), At(p, "settleCount"), SettleCount(p)
  PROVE  Tells(p)
<1>0. Shaped(unit[p]) /\ DOMAIN unit[p].new = Tables /\ unit[p].calls \in Request
  BY ContextFacts DEF Fit
<1>1. unit[p].calls.op = "count" /\ unit[p].pc = 1 /\ unit[p].new["ledger"] = <<>>
  <2>1. unit[p].calls.op = "count" /\ unit[p].pc = 1
    BY AtPlace DEF Place
  <2> QED BY <2>1, ContextFirst DEF NoRows, Tables
<1>2. ASSUME NEW v, v.calls = unit[p].calls,
             \A i \in 1..Len(v.new["ledger"]) : v.new["ledger"][i].on = <<"counts", unit[p].calls.on>>
      PROVE  Told(v, db)
  BY <1>1, <1>2 DEF Told, Past, WorkOps, Why
<1>3. PICK c, variance, moves, row :
        /\ c = Rows(p, "counts")[Call(p).on]
        /\ variance = c.counted - OnHand(Rows(p, "ledger"), "A")
        /\ moves = Adjustment(Call(p), variance)
        /\ row = [c EXCEPT !.status = "COMMITTED", !.ver = @ + 1, !.by = Call(p).key]
  OBVIOUS
<1>4. CASE SettledBefore(p)
  <2>1. PICK v : v = Then(unit[p])
    OBVIOUS
  <2>2. v.calls = unit[p].calls /\ v.new = unit[p].new
    BY ONLY <1>0, <2>1, ThenFields
  <2>3. Told(v, db)
    BY <1>1, <1>2, <2>2
  <2>4. Becomes(p, v)
    BY <1>4, <2>1 DEF SettleCount
  <2> QED BY <2>3, <2>4 DEF Tells
<1>5. CASE ~SettledBefore(p)
  <2>1. \/ Refuse(p)
        \/ /\ Exists(p, "counts", Call(p).on)
           /\ Becomes(p, Then(Updated(Append2Ledger(p, moves), "counts", Call(p).on, row)))
    BY <1>3, <1>5 DEF SettleCount, Adjustment
  <2>2. CASE /\ Exists(p, "counts", Call(p).on)
             /\ Becomes(p, Then(Updated(Append2Ledger(p, moves), "counts", Call(p).on, row)))
    <3>1. "counts" \in Tables /\ "ledger" \in Tables
      BY DEF Tables
    <3>2. PICK a, b, R, S : /\ a = Rows(p, "counts") /\ b = Rows(p, "ledger")
                            /\ R = Row["counts"] /\ S = Row["ledger"]
      OBVIOUS
    <3>3. a \in Seq(R) /\ b \in Seq(S)
      BY ZenonT(40), <3>1, <3>2, RowsTyped DEF Reads
    <3>4. Call(p).on \in 1..Len(a)
      BY <2>2, <3>2 DEF Exists
    <3>5. c \in R
      BY <1>3, <3>2, <3>3, <3>4
    <3>6. c.counted \in Nat
      BY <3>2, <3>5 DEF Row
    <3>7. OnHand(b, "A") \in Int
      BY <3>2, <3>3, OnHandType
    <3>8. variance \in Int
      BY SMTT(40), <1>3, <3>2, <3>6, <3>7
    <3>9. PICK w, i, x, v : /\ i = Call(p).on /\ w = Append2Ledger(p, moves)
                            /\ x = Updated(w, "counts", i, row) /\ v = Then(x)
      OBVIOUS
    <3>10. /\ moves \in Seq(Row.ledger)
           /\ \A j \in 1..Len(moves) : moves[j].on = <<"counts", unit[p].calls.on>>
      <4>1. PICK q : q = unit[p].calls
        OBVIOUS
      <4>2. q \in Request /\ variance \in Int /\ moves = Adjustment(q, variance)
        BY <1>0, <1>3, <3>8, <4>1 DEF Call
      <4>3. /\ moves \in Seq(Row.ledger)
            /\ \A j \in 1..Len(moves) : moves[j].by = q.key /\ moves[j].on = <<"counts", q.on>>
        BY ONLY <4>2, AdjustmentRows
      <4> QED BY <4>1, <4>3
    <3>11. w.calls = unit[p].calls /\ Shaped(w) /\ w.new["ledger"] = unit[p].new["ledger"] \o moves
      <4>1. Ledgered(w, unit[p], moves, Fence(p).ver + Len(moves))
        BY <1>0, <3>9, LedgerFields
      <4> QED BY ONLY <4>1 DEF Ledgered
    <3>12. unit[p].new["ledger"] \o moves = moves
      <4>1. PICK T : T = Row.ledger
        OBVIOUS
      <4>2. moves \in Seq(T)
        BY <3>10, <4>1
      <4>3. <<>> \o moves = moves
        BY ONLY <4>2
      <4> QED BY <1>1, <4>3
    <3>13. Closed(w, v, "counts", i)
      BY <3>9, <3>11, ClosedFields
    <3>14. v.calls = unit[p].calls /\ v.new["ledger"] = moves
      BY <3>11, <3>12, <3>13 DEF Closed
    <3>15. Told(v, db)
      BY <1>2, <3>10, <3>14
    <3>16. Becomes(p, v)
      BY <2>2, <3>9
    <3> QED BY <3>15, <3>16 DEF Tells
  <2> QED BY <2>1, <2>2 DEF Tells
<1> QED BY <1>4, <1>5

\* A purchase order's command begins with what was received for it.
LEMMA ReadPurchaseTells ==
  ASSUME NEW p, Context(p), At(p, "readPurchase"), ReadPurchase(p)
  PROVE  Tells(p)
<1>0. Shaped(unit[p]) /\ Typed(db) /\ unit[p].calls \in Request
  BY ContextFacts
<1>1. unit[p].calls.op \in {"receive", "withdraw", "short"} /\ unit[p].pc = 1
  BY AtPlace DEF Place
<1>2. unit[p].new["ledger"] = <<>> /\ unit[p].new["grns"] = <<>>
  BY <1>1, ContextFirst DEF NoRows, Tables
<1>3. Rows(p, "pos") = db["pos"] /\ Rows(p, "grns") = db["grns"]
  <2>1. "pos" \in Tables /\ "grns" \in Tables
    BY DEF Tables
  <2> QED BY <1>1, <2>1, ContextFirst
<1>4. PICK q, i, a, g, seen : /\ q = unit[p].calls /\ i = q.on /\ a = db["pos"][i]
                              /\ g = Received(db["grns"], i) /\ seen = [a EXCEPT !.got = g]
  OBVIOUS
<1>5. \/ Refuse(p)
      \/ /\ i \in 1..Len(db["pos"])
         /\ q.op = "receive" => g + q.qty <= a.qty
         /\ q.op = "withdraw" => g = 0
         /\ Becomes(p, Then([unit[p] EXCEPT !.seen = seen]))
  <2>1. \/ Refuse(p)
        \/ /\ Exists(p, "pos", q.on)
           /\ CASE q.op = "receive"  -> g + q.qty <= a.qty
                [] q.op = "withdraw" -> a.ver = q.ver /\ g = 0
                [] q.op = "short"    -> a.ver = q.ver
           /\ Becomes(p, Then([unit[p] EXCEPT !.seen = seen]))
    BY ZenonT(40), <1>3, <1>4 DEF ReadPurchase, Call
  <2>2. Exists(p, "pos", q.on) => i \in 1..Len(db["pos"])
    BY <1>3, <1>4 DEF Exists
  <2>3. q.op \in {"receive", "withdraw", "short"}
    BY <1>1, <1>4
  <2> QED BY <2>1, <2>2, <2>3
<1>6. CASE /\ i \in 1..Len(db["pos"])
           /\ q.op = "receive" => g + q.qty <= a.qty
           /\ q.op = "withdraw" => g = 0
           /\ Becomes(p, Then([unit[p] EXCEPT !.seen = seen]))
  <2>1. a \in Row.pos /\ a.qty \in Nat
    <3>1. "pos" \in Tables
      BY DEF Tables
    <3>2. PICK c, R : c = db["pos"] /\ R = Row["pos"]
      OBVIOUS
    <3>3. c \in Seq(R) /\ i \in 1..Len(c) /\ a = c[i]
      BY <1>0, <1>4, <1>6, <3>1, <3>2 DEF Typed
    <3>4. a \in R
      BY ONLY <3>3
    <3>5. a \in Row.pos
      BY <3>2, <3>4
    <3> QED BY <3>5 DEF Row
  <2>2. g \in Int
    <3>1. "grns" \in Tables
      BY DEF Tables
    <3>2. db["grns"] \in Seq(Row["grns"])
      BY <1>0, <3>1 DEF Typed
    <3>3. PICK c, W, R : c = db["grns"] /\ W = Receiving(i) /\ R = Row.grns
      OBVIOUS
    <3>4. c \in Seq(R) /\ W \in [R -> Int] /\ g = Weigh(c, W)
      BY <1>4, <3>2, <3>3, ReceivedWeighs
    <3>5. Weigh(c, W) \in Int
      BY ONLY <3>4, WeighType
    <3> QED BY <3>4, <3>5
  <2>3. seen.got = g /\ seen.qty = a.qty
    <3>1. a \in Row.pos /\ seen = [a EXCEPT !.got = g]
      BY <1>4, <2>1
    <3> QED BY ONLY ZenonT(40), <3>1 DEF Row
  <2>4. PICK v : v = Then([unit[p] EXCEPT !.seen = seen])
    OBVIOUS
  <2>5. v.calls = q /\ v.seen = seen /\ v.new = unit[p].new /\ v.pc = 2
    <3>1. Seen(v, unit[p], seen)
      BY <1>0, <2>4, SeenFields
    <3> QED BY <1>1, <1>4, <3>1 DEF Seen
  <2>6. Counted(v, db["grns"], db["pos"])
    BY <1>4, <1>6, <2>1, <2>2, <2>3, <2>5 DEF Counted
  <2>7. Told(v, db)
    BY <1>1, <1>2, <1>4, <2>5, <2>6 DEF Told, Past, WorkOps
  <2>8. Becomes(p, v)
    BY <1>6, <2>4
  <2> QED BY <2>7, <2>8 DEF Tells
<1> QED BY <1>5, <1>6 DEF Tells

\* A goods receipt is written for the purchase order and the quantity that is asked.
LEMMA InsertReceiptTells ==
  ASSUME NEW p, Context(p), Told(unit[p], db), At(p, "insertReceipt"), InsertReceipt(p)
  PROVE  Tells(p)
<1>1. unit[p].calls.op = "receive" /\ unit[p].pc = 2 /\ Written(unit[p])
  BY AtPlace, ContextFacts DEF Place
<1>2. unit[p].new["grns"] = <<>> /\ "grns" \in Coded
  <2>1. "grns" \in Keyed /\ Slot(unit[p].calls.op, "grns") = 2 /\ "grns" \in Coded
    BY <1>1 DEF Keyed, Slot, Coded
  <2> QED BY <1>1, <2>1 DEF Written
<1>3. unit[p].new["ledger"] = <<>>
  <2>1. unit[p].pc <= Slot(unit[p].calls.op, "ledger")
    BY <1>1 DEF Slot
  <2> QED BY <2>1, NotMoved
<1>4. PICK row : row = [by |-> Call(p).key, on |-> Call(p).on, qty |-> Call(p).qty]
  OBVIOUS
<1>5. row.on = unit[p].calls.on /\ row.qty = unit[p].calls.qty /\ InsertCoded(p, "grns", row, unit[p])
  BY <1>4 DEF InsertReceipt, Call
<1>6. Counted(unit[p], db["grns"], db["pos"])
  BY <1>1 DEF Told, Past
<1>7. ASSUME NEW v, Placed(unit[p], v, "grns", row) PROVE Told(v, db)
  <2>1. /\ v.new["grns"] = <<row>> /\ v.new["ledger"] = <<>> /\ v.calls = unit[p].calls
        /\ v.seen = unit[p].seen /\ v.pc = 3
    BY <1>1, <1>3, <1>7 DEF Placed
  <2>2. \A j \in 1..Len(v.new["grns"]) : v.new["grns"][j] = row
    BY <2>1
  <2>3. Counted(v, db["grns"], db["pos"])
    BY <1>6, <2>1 DEF Counted
  <2> QED BY <1>1, <1>5, <2>1, <2>2, <2>3 DEF Told, Past, WorkOps
<1> QED BY <1>2, <1>5, <1>7, PlaceTells

\* What comes in is for the purchase order.
LEMMA StockReceiptTells ==
  ASSUME NEW p, Context(p), Told(unit[p], db), At(p, "stockReceipt"), StockReceipt(p)
  PROVE  Tells(p)
<1>1. unit[p].calls.op = "receive" /\ unit[p].pc = 3 /\ unit[p].calls \in Request
  BY AtPlace, ContextFacts DEF Place
<1>2. PICK x \in Int : x = Call(p).qty
  <2>1. Call(p).qty \in Int
    BY <1>1, RequestFacts DEF Call
  <2> QED BY <2>1
<1>3. PICK on \in Origins \X Nat : on = <<"pos", unit[p].calls.on>>
  BY <1>1, RequestFacts DEF Origins
<1>4. unit[p].pc = Slot(unit[p].calls.op, "ledger") /\ on = Why(unit[p], db)
  BY <1>1, <1>3 DEF Slot, Why
<1>5. Move(p, on, <<<<"A", x, "none">>>>)
  BY <1>2, <1>3 DEF StockReceipt, Call
<1>6. x = unit[p].calls.qty
  BY <1>2 DEF Call
<1> QED BY <1>1, <1>4, <1>5, <1>6, SingleTells

\* A purchase order is closed by the command that read it.
LEMMA ClosePurchaseTells ==
  ASSUME NEW p, Context(p), Told(unit[p], db), At(p, "closePurchase"), ClosePurchase(p)
  PROVE  Tells(p)
<1>1. /\ unit[p].calls.op \in {"receive", "withdraw", "short"} /\ unit[p].pc \in {2, 4}
      /\ unit[p].calls.op \notin WorkOps /\ unit[p].calls.op # "complete"
  BY AtPlace DEF Place, WorkOps
<1>2. PICK i, holds, row, retryable : i = unit[p].calls.on /\ Cas(p, "pos", i, holds, row, retryable)
  BY DEF ClosePurchase, CloseDocument, Call
<1>3. ASSUME NEW v, Closed(unit[p], v, "pos", i) PROVE Told(v, db)
  <2>1. Further(unit[p], v) /\ <<"pos", unit[p].calls.on>> \in DOMAIN v.set
    BY <1>1, <1>2, <1>3 DEF Closed, Further
  <2>2. PICK u : u = unit[p]
    OBVIOUS
  <2>3. /\ Told(u, db) /\ Further(u, v) /\ u.pc > 1 /\ u.calls.op \notin WorkOps
        /\ u.calls.op # "complete" /\ <<"pos", u.calls.on>> \in DOMAIN v.set
    BY <1>1, <2>1, <2>2
  <2> QED BY ONLY <2>3, ToldFurther
<1> QED BY <1>2, <1>3, CloseTells

\* A work order's movements are those of its command, for itself.
LEMMA MoveWorkTells ==
  ASSUME NEW p, Context(p), At(p, "moveWork"), MoveWork(p)
  PROVE  Tells(p)
<1>0. Noted(unit[p], db) /\ unit[p].calls \in Request
  BY ContextFacts
<1>1. unit[p].calls.op \in {"stageWork", "finishWork", "cancelWork"} /\ unit[p].pc = 2
  BY AtPlace DEF Place
<1>2. PICK q, w, list : q = unit[p].calls /\ w = unit[p].seen /\ list = WorkMoves(q, w)
  OBVIOUS
<1>3. w \in Row.works /\ (q.op = "finishWork" => w.status \in Opened)
  BY <1>0, <1>1, <1>2 DEF Noted, Past
<1>4. w.gross \in Nat /\ PutBack(w) \in Int
  <2>1. w.gross \in Nat /\ w.issued \in Nat /\ w.made \in Nat /\ w.scrapped \in Nat
    BY <1>3 DEF Row
  <2>2. w.issued - w.made - w.scrapped \in Int
    BY <2>1
  <2> QED BY <2>1, <2>2 DEF PutBack
<1>5. "shop" \in Sites /\ "raw" \in Sites
  BY DEF Sites
<1>6. list \in Seq(Item)
  <2>1. CASE q.op = "stageWork"
    <3>1. list = Transfer(w.gross, "raw", "shop") /\ w.gross \in Int
      BY <1>2, <1>4, <2>1 DEF WorkMoves
    <3> QED BY ZenonT(40), <1>5, <3>1, TransferItems
  <2>2. CASE q.op = "finishWork"
    <3>1. list = Worked(q, w) /\ q \in Request
      BY <1>0, <1>2, <2>2 DEF WorkMoves
    <3> QED BY <1>3, <2>2, <3>1, WorkedItems
  <2>3. CASE q.op = "cancelWork"
    <3>1. list = Transfer(PutBack(w), "shop", "raw")
      BY <1>2, <2>3 DEF WorkMoves
    <3> QED BY ZenonT(40), <1>4, <1>5, <3>1, TransferItems
  <2> QED BY <1>1, <1>2, <2>1, <2>2, <2>3
<1>7. PICK on \in Origins \X Nat : on = <<"works", q.on>>
  <2>1. <<"works", q.on>> \in Origins \X Nat
    BY <1>0, <1>2, RequestFacts DEF Origins
  <2> QED BY <2>1
<1>8. Move(p, on, list)
  BY <1>1, <1>2, <1>7 DEF MoveWork, Work, Call, WorkMoves
<1>9. PICK moves : moves = Movements(q, on, list)
  OBVIOUS
<1>10. /\ moves \in Seq(Row.ledger)
       /\ \A i \in 1..Len(moves) : moves[i].by = q.key /\ moves[i].on = on
  <2>1. q.key \in STRING
    BY <1>0, <1>2, RequestFacts
  <2> QED BY <1>6, <1>9, <2>1, MovementRows
<1>11. unit[p].new["ledger"] = <<>>
  <2>1. unit[p].pc <= Slot(unit[p].calls.op, "ledger")
    BY <1>1 DEF Slot
  <2> QED BY <2>1, NotMoved
<1>12. ASSUME NEW v, Laid(unit[p], v, moves) PROVE Told(v, db)
  <2>1. v.calls = q /\ v.seen = w /\ v.pc = 3 /\ v.new["ledger"] = moves
    BY <1>1, <1>2, <1>12 DEF Laid
  <2>2. on = Why(v, db)
    BY <1>1, <1>2, <1>7, <2>1 DEF Why, WorkOps
  <2>3. v.new["ledger"] = Movements(v.calls, <<"works", v.calls.on>>, WorkMoves(v.calls, v.seen))
    BY <1>2, <1>7, <1>9, <2>1
  <2>4. \A i \in 1..Len(v.new["ledger"]) : v.new["ledger"][i].on = Why(v, db)
    BY <1>10, <2>1, <2>2
  <2>5. v.calls.op \in {"stageWork", "finishWork", "cancelWork"}
    BY <1>1, <1>2, <2>1
  <2> QED BY ONLY <2>1, <2>3, <2>4, <2>5 DEF Told, Past, WorkOps
<1> QED BY <1>2, <1>8, <1>9, <1>10, <1>11, <1>12, MoveTells

\* It is closed by the command that moved stock for it.
LEMMA CloseWorkTells ==
  ASSUME NEW p, Context(p), Told(unit[p], db), At(p, "closeWork"), CloseWork(p)
  PROVE  Tells(p)
<1>1. /\ unit[p].calls.op \in {"stageWork", "finishWork", "cancelWork"} /\ unit[p].pc = 3
      /\ unit[p].calls.op # "complete" /\ unit[p].calls.op # "receive"
  BY AtPlace DEF Place
<1>2. PICK i, holds, row, retryable : i = unit[p].calls.on /\ Cas(p, "works", i, holds, row, retryable)
  BY DEF CloseWork, Call
<1>3. ASSUME NEW v, Closed(unit[p], v, "works", i) PROVE Told(v, db)
  <2>1. Further(unit[p], v) /\ <<"works", unit[p].calls.on>> \in DOMAIN v.set
    BY <1>1, <1>2, <1>3 DEF Closed, Further
  <2>2. PICK u : u = unit[p]
    OBVIOUS
  <2>3. /\ Told(u, db) /\ Further(u, v) /\ u.pc > 1 /\ u.pc # 2
        /\ u.calls.op # "complete" /\ u.calls.op # "receive"
        /\ <<"works", u.calls.on>> \in DOMAIN v.set
    BY <1>1, <2>1, <2>2
  <2> QED BY ONLY <2>3, ToldFurther
<1> QED BY <1>2, <1>3, CloseTells

\* A unit that goes on as it should, and has nothing to tell yet or ever.
LEMMA ProgressTells ==
  ASSUME NEW p, Progress(p),
         \A v : Follows(p, v) => Told(v, db)
  PROVE  Tells(p)
<1>1. ASSUME NEW v, Follows(p, v) PROVE Becomes(p, v) /\ Told(v, db)
  BY <1>1 DEF Follows
<1> QED BY <1>1 DEF Progress, Tells

\* Every statement: the unit goes on and tells what it has found and written.
LEMMA StatementTells ==
  ASSUME NEW p, Context(p), Told(unit[p], db),
         InventoryStatement(p) \/ CommerceStatement(p) \/ DocumentStatement(p)
  PROVE  Tells(p)
<1>0. Progress(p) /\ unit[p].calls.op \in DOMAIN Program /\ unit[p].pc \in Nat
  BY StatementProgress, ContextFacts
<1>a. ASSUME NEW v, Follows(p, v) PROVE v.calls = unit[p].calls /\ Fit(v, db, now) /\ Written(v)
  BY <1>a DEF Follows, Keeps, Local
<1>1. CASE unit[p].calls.op \notin Tellers
  <2>1. ASSUME NEW v, Follows(p, v) PROVE Told(v, db)
    <3>1. Fit(v, db, now) /\ Written(v) /\ v.calls.op \in DOMAIN Program /\ v.calls.op \notin Tellers
      BY <1>0, <1>1, <1>a, <2>1
    <3> QED BY ONLY <3>1, OtherTold
  <2> QED BY <1>0, <2>1, ProgressTells
<1>2. CASE unit[p].calls.op \in Tellers
  <2>1. PICK s : s = Program[unit[p].calls.op][unit[p].pc]
    OBVIOUS
  <2>2. \A x : At(p, x) <=> x = s
    <3>1. unit[p].run > 0 /\ unit[p].pc \in 1..Len(Steps(p))
      BY DEF InventoryStatement, CommerceStatement, DocumentStatement, At
    <3> QED BY <2>1, <3>1 DEF At, Steps, Call
  <2>3. /\ At(p, s) /\ Place(unit[p].calls.op, unit[p].pc, s)
    BY <2>2, AtPlace
  <2>4. \/ s = "move" /\ Move(p, <<"move", 0>>, <<<<"A", Call(p).qty, "none">>>>)
        \/ s = "settleCount" /\ SettleCount(p)
        \/ s = "readOrder" /\ ReadOrder(p)
        \/ s = "readWork" /\ ReadWork(p)
        \/ s = "issueOrder" /\ IssueOrder(p)
        \/ s = "closeOrder" /\ CloseOrder(p)
        \/ s = "insertSale" /\ InsertSale(p)
        \/ s = "issueSale" /\ IssueSale(p)
        \/ s = "paySale" /\ InsertSalePayment(p)
        \/ s = "readPurchase" /\ ReadPurchase(p)
        \/ s = "insertReceipt" /\ InsertReceipt(p)
        \/ s = "stockReceipt" /\ StockReceipt(p)
        \/ s = "closePurchase" /\ ClosePurchase(p)
        \/ s = "moveWork" /\ MoveWork(p)
        \/ s = "closeWork" /\ CloseWork(p)
    <3>1. s \notin {"readPayable", "recordPayment", "readPayment", "ceiling", "settlePayment", "askPromise",
                    "placeHold", "readHold", "releaseHold", "placeCommitted", "convertHold", "readDue",
                    "stampDue", "preview"}
      <4>1. unit[p].calls.op \in {"move", "count", "complete", "sale", "receive", "withdraw", "short",
                                  "stageWork", "finishWork", "cancelWork"}
        BY <1>2 DEF Tellers, WorkOps
      <4> QED BY <2>3, <4>1 DEF Place
    <3>2. CASE InventoryStatement(p)
      BY <2>2, <3>1, <3>2 DEF InventoryStatement
    <3>3. CASE CommerceStatement(p)
      BY <2>2, <3>1, <3>3 DEF CommerceStatement
    <3>4. CASE DocumentStatement(p)
      BY <2>2, <3>1, <3>4 DEF DocumentStatement
    <3> QED BY <3>2, <3>3, <3>4
  <2>5. CASE \/ s = "readOrder" /\ ReadOrder(p)
             \/ s = "readWork" /\ ReadWork(p)
    <3>1. unit[p].pc = 1 /\ unit[p].calls.op \in {"complete"} \cup WorkOps
      <4>1. unit[p].pc = 1 /\ unit[p].calls.op \in {"confirm", "complete", "completeOnly", "cancel",
                                                    "stageWork", "finishWork", "cancelWork"}
        BY <2>3, <2>5 DEF Place
      <4> QED BY <1>2, <4>1 DEF Tellers, WorkOps
    <3>2. Refuse(p) \/ \E row : Becomes(p, Then([unit[p] EXCEPT !.seen = row]))
      BY <2>5 DEF ReadOrder, ReadDocument, ReadWork
    <3>3. CASE \E row : Becomes(p, Then([unit[p] EXCEPT !.seen = row]))
      <4>1. PICK row, x : x = Then([unit[p] EXCEPT !.seen = row]) /\ Becomes(p, x)
        BY <3>3
      <4>2. x.pc = 2
        <5>1. Shaped(unit[p])
          BY ContextFacts
        <5>2. Seen(x, unit[p], row)
          BY <4>1, <5>1, SeenFields
        <5> QED BY <3>1, <5>2 DEF Seen
      <4>3. ASSUME NEW v, Follows(p, v) PROVE Told(v, db)
        <5>1. v = x
          <6>1. DOMAIN unit = Processes /\ p \in Processes
            BY ContextFacts DEF UnitsShaped
          <6>2. unit' = [unit EXCEPT ![p] = v] /\ unit' = [unit EXCEPT ![p] = x]
            BY <4>1, <4>3 DEF Follows, Becomes
          <6> QED BY ONLY ZenonT(40), <6>1, <6>2
        <5>2. Fit(v, db, now) /\ Written(v) /\ v.calls.op \in {"complete"} \cup WorkOps /\ v.pc <= 2
          BY <1>a, <3>1, <4>2, <4>3, <5>1
        <5> QED BY ONLY <5>2, EarlyTold
      <4> QED BY <1>0, <4>3, ProgressTells
    <3> QED BY <3>2, <3>3 DEF Tells
  <2>6. CASE s = "closeOrder" /\ CloseOrder(p)
    <3>1. unit[p].calls.op = "complete"
      BY <1>2, <2>3, <2>6 DEF Tellers, WorkOps, Place
    <3> QED BY <2>3, <2>6, <3>1, CloseOrderTells
  <2>7. CASE \/ s = "move" /\ Move(p, <<"move", 0>>, <<<<"A", Call(p).qty, "none">>>>)
             \/ s = "settleCount" /\ SettleCount(p)
    BY <2>3, <2>7, MoveStatementTells, CountTells
  <2>8. CASE \/ s = "issueOrder" /\ IssueOrder(p)
             \/ s = "insertSale" /\ InsertSale(p)
             \/ s = "issueSale" /\ IssueSale(p)
             \/ s = "paySale" /\ InsertSalePayment(p)
    BY <2>3, <2>8, IssueOrderTells, InsertSaleTells, IssueSaleTells, PaySaleTells
  <2>9. CASE \/ s = "readPurchase" /\ ReadPurchase(p)
             \/ s = "insertReceipt" /\ InsertReceipt(p)
             \/ s = "stockReceipt" /\ StockReceipt(p)
             \/ s = "closePurchase" /\ ClosePurchase(p)
    BY <2>3, <2>9, ReadPurchaseTells, InsertReceiptTells, StockReceiptTells, ClosePurchaseTells
  <2>10. CASE \/ s = "moveWork" /\ MoveWork(p)
              \/ s = "closeWork" /\ CloseWork(p)
    BY <2>3, <2>10, MoveWorkTells, CloseWorkTells
  <2> QED BY ONLY ZenonT(60), <2>4, <2>5, <2>6, <2>7, <2>8, <2>9, <2>10
<1> QED BY <1>1, <1>2

-----------------------------------------------------------------------------
\* What a COMMIT adds to the documents' weights.

\* A unit at its COMMIT, with what it tells.
Closing(w, d, n) == Finished(w, d, n) /\ Told(w, d)

\* What is known of a unit at its COMMIT.
LEMMA ClosingFacts ==
  ASSUME NEW w, NEW d, NEW n, Closing(w, d, n)
  PROVE  /\ Sound(d) /\ Local(w, d, n) /\ Typed(d) /\ Fit(w, d, n) /\ Written(w) /\ Noted(w, d)
         /\ Changed(w, d) /\ Complete(w) /\ Holding(w, d) /\ Told(w, d)
         /\ w.calls.op \in DOMAIN Program /\ w.pc \in Nat
         /\ \A t \in Keyed : Len(w.new[t]) \in Rights(w.calls)[t]
<1>1. /\ Sound(d) /\ Local(w, d, n) /\ Typed(d) /\ Fit(w, d, n) /\ Written(w) /\ Noted(w, d)
      /\ Changed(w, d) /\ Complete(w) /\ Holding(w, d) /\ Told(w, d)
  BY DEF Closing, Finished, Sound, Local
<1>2. w.calls.op \in DOMAIN Program /\ w.pc \in Nat /\ w.pc > Len(Program[w.calls.op])
  BY <1>1 DEF Complete
<1>3. \A t \in Keyed : Len(w.new[t]) \in Rights(w.calls)[t]
  BY <1>1, <1>2, EndWritten
<1> QED BY <1>1, <1>2, <1>3

\* A table that a unit adds rows to weighs what it did and what they do.
Adding(old, more, all, w) == Weigh(all, w) = Weigh(old, w) + Weigh(more, w) /\ Weigh(old, w) \in Int

\* What a table weighs after a COMMIT.
LEMMA TableAdds ==
  ASSUME NEW w, NEW d, NEW n, Closing(w, d, n), NEW t \in {"ledger", "grns"}, NEW W \in [Row[t] -> Int]
  PROVE  Adding(d[t], w.new[t], View(w, d)[t], W)
<1>1. Sound(d) /\ Local(w, d, n)
  BY ClosingFacts
<1>2. View(w, d)[t] = d[t] \o w.new[t] /\ d[t] \in Seq(Row[t]) /\ w.new[t] \in Seq(Row[t])
  BY <1>1, TableAfter
<1>3. PICK R, a, b, c : R = Row[t] /\ a = d[t] /\ b = w.new[t] /\ c = View(w, d)[t]
  OBVIOUS
<1>4. W \in [R -> Int] /\ a \in Seq(R) /\ b \in Seq(R) /\ c = a \o b
  BY <1>2, <1>3
<1>5. Weigh(a \o b, W) = Weigh(a, W) + Weigh(b, W)
  BY ONLY <1>4, WeighJoin
<1>6. Weigh(a, W) \in Int
  BY ONLY <1>4, WeighType
<1> QED BY <1>3, <1>4, <1>5, <1>6 DEF Adding

\* The one row of a list weighs what the list does, rows that weigh nothing nothing.
LEMMA WeighRows ==
  ASSUME NEW R, NEW W \in [R -> Int], NEW rows \in Seq(R), NEW x,
         (x = 0 /\ \A i \in 1..Len(rows) : W[rows[i]] = 0) \/ (Len(rows) = 1 /\ W[rows[1]] = x)
  PROVE  Weigh(rows, W) = x
<1>1. CASE x = 0 /\ \A i \in 1..Len(rows) : W[rows[i]] = 0
  BY ONLY <1>1, W \in [R -> Int], rows \in Seq(R), WeighZero
<1>2. CASE Len(rows) = 1 /\ W[rows[1]] = x
  <2>1. Weigh(rows, W) = W[rows[1]]
    BY ONLY <1>2, W \in [R -> Int], rows \in Seq(R), WeighOne
  <2> QED BY <1>2, <2>1
<1> QED BY <1>1, <1>2

\* The receipts of a purchase order grow by what is received for it,
Incoming(w, i) == IF w.calls.op = "receive" /\ w.calls.on = i THEN w.calls.qty ELSE 0

\* What has been received for a purchase order after a COMMIT.
LEMMA ReceivedAfter ==
  ASSUME NEW w, NEW d, NEW n, Closing(w, d, n), NEW i
  PROVE  /\ Received(View(w, d)["grns"], i) = Received(d["grns"], i) + Incoming(w, i)
         /\ Received(d["grns"], i) \in Int
<1>0. /\ Sound(d) /\ Local(w, d, n) /\ Told(w, d) /\ w.calls.op \in DOMAIN Program
      /\ Len(w.new["grns"]) \in Rights(w.calls)["grns"]
  BY ClosingFacts DEF Keyed
<1>1. /\ d["grns"] \in Seq(Row["grns"]) /\ w.new["grns"] \in Seq(Row["grns"])
      /\ View(w, d)["grns"] \in Seq(Row["grns"])
  BY <1>0, TableAfter
<1>2. PICK a, b, c, R, W : /\ a = d["grns"] /\ b = w.new["grns"] /\ c = View(w, d)["grns"]
                           /\ R = Row.grns /\ W = Receiving(i)
  OBVIOUS
<1>3. a \in Seq(Row.grns) /\ c \in Seq(Row.grns) /\ b \in Seq(R)
  BY <1>1, <1>2
<1>4. W \in [R -> Int] /\ Received(a, i) = Weigh(a, W) /\ Received(c, i) = Weigh(c, W)
  BY <1>2, <1>3, ReceivedWeighs
<1>5. Adding(a, b, c, W)
  <2>1. W \in [Row["grns"] -> Int] /\ "grns" \in {"ledger", "grns"}
    BY <1>2, <1>4
  <2> QED BY <1>2, <2>1, TableAdds
<1>6. Weigh(b, W) = Incoming(w, i)
  <2>1. ASSUME NEW j \in 1..Len(b) PROVE W[b[j]] = IF b[j].on = i THEN b[j].qty ELSE 0
    <3>1. b[j] \in R
      BY ONLY <1>3, <2>1
    <3>2. PICK g : g = b[j] /\ g \in Row.grns
      BY <1>2, <3>1
    <3>3. Receiving(i)[g] = IF g.on = i THEN g.qty ELSE 0
      BY <3>2 DEF Receiving
    <3> QED BY <1>2, <3>2, <3>3
  <2>2. CASE w.calls.op = "receive"
    <3>1. Rights(w.calls)["grns"] = {1}
      BY <2>2 DEF Rights, Keyed
    <3>2. Len(b) = 1
      BY <1>0, <1>2, <3>1
    <3>3. b[1].on = w.calls.on /\ b[1].qty = w.calls.qty
      BY <1>0, <1>2, <2>2, <3>2 DEF Told
    <3>4. W[b[1]] = Incoming(w, i)
      BY <2>1, <2>2, <3>2, <3>3 DEF Incoming
    <3> QED BY ONLY <1>3, <1>4, <3>2, <3>4, WeighRows
  <2>3. CASE w.calls.op # "receive"
    <3>1. Rights(w.calls)["grns"] = {0}
      BY <2>3 DEF Rights, Keyed
    <3>2. Len(b) = 0
      BY <1>0, <1>2, <3>1
    <3>3. 0 = 0 /\ \A j \in 1..Len(b) : W[b[j]] = 0
      BY <3>2
    <3>4. Weigh(b, W) = 0
      BY ONLY <1>3, <1>4, <3>3, WeighRows
    <3> QED BY <2>3, <3>4 DEF Incoming
  <2> QED BY <2>2, <2>3
<1> QED BY <1>2, <1>4, <1>5, <1>6 DEF Adding

\* and so does what came in for it.
LEMMA BroughtAfter ==
  ASSUME NEW w, NEW d, NEW n, Closing(w, d, n), NEW i
  PROVE  BroughtIn(View(w, d), i) = BroughtIn(d, i) + Incoming(w, i) /\ BroughtIn(d, i) \in Int
<1>0. /\ Sound(d) /\ Local(w, d, n) /\ Told(w, d) /\ w.calls.op \in DOMAIN Program
      /\ Len(w.new["ledger"]) \in Rights(w.calls)["ledger"]
  BY ClosingFacts DEF Keyed
<1>1. /\ d["ledger"] \in Seq(Row["ledger"]) /\ w.new["ledger"] \in Seq(Row["ledger"])
      /\ View(w, d)["ledger"] \in Seq(Row["ledger"])
  BY <1>0, TableAfter
<1>2. PICK a, b, c, R, W, e : /\ a = d["ledger"] /\ b = w.new["ledger"] /\ c = View(w, d)["ledger"]
                              /\ R = Row.ledger /\ W = Bringing(i) /\ e = View(w, d)
  OBVIOUS
<1>3. d["ledger"] \in Seq(Row.ledger) /\ e["ledger"] \in Seq(Row.ledger) /\ b \in Seq(R)
  BY <1>1, <1>2
<1>4. W \in [R -> Int] /\ BroughtIn(d, i) = Weigh(a, W) /\ BroughtIn(e, i) = Weigh(c, W)
  BY <1>2, <1>3, BroughtInWeighs
<1>5. Adding(a, b, c, W)
  <2>1. W \in [Row["ledger"] -> Int] /\ "ledger" \in {"ledger", "grns"}
    BY <1>2, <1>4
  <2> QED BY <1>2, <2>1, TableAdds
<1>6. Weigh(b, W) = Incoming(w, i)
  <2>1. ASSUME NEW j \in 1..Len(b) PROVE W[b[j]] = (IF b[j].on = <<"pos", i>> THEN b[j].qty ELSE 0) /\ b[j].on = Why(w, d)
    <3>1. b[j] \in R
      BY ONLY <1>3, <2>1
    <3>2. PICK g : g = b[j] /\ g \in Row.ledger
      BY <1>2, <3>1
    <3>3. Bringing(i)[g] = IF g.on = <<"pos", i>> THEN g.qty ELSE 0
      BY <3>2 DEF Bringing
    <3>4. b[j].on = Why(w, d)
      BY <1>0, <1>2, <2>1 DEF Told
    <3> QED BY <1>2, <3>2, <3>3, <3>4
  <2>2. CASE w.calls.op = "receive"
    <3>1. Rights(w.calls)["ledger"] = {1}
      BY <2>2 DEF Rights, Keyed
    <3>2. Len(b) = 1
      BY <1>0, <1>2, <3>1
    <3>3. b[1].on = <<"pos", w.calls.on>> /\ b[1].qty = w.calls.qty
      <4>1. Why(w, d) = <<"pos", w.calls.on>>
        BY <2>2 DEF Why
      <4> QED BY <1>0, <1>2, <2>1, <2>2, <3>2, <4>1 DEF Told
    <3>4. W[b[1]] = Incoming(w, i)
      BY <2>1, <2>2, <3>2, <3>3 DEF Incoming
    <3> QED BY ONLY <1>3, <1>4, <3>2, <3>4, WeighRows
  <2>3. CASE w.calls.op # "receive"
    <3>1. Why(w, d) # <<"pos", i>>
      BY <2>3 DEF Why
    <3>3. 0 = 0 /\ \A j \in 1..Len(b) : W[b[j]] = 0
      BY <2>1, <3>1
    <3>4. Weigh(b, W) = 0
      BY ONLY <1>3, <1>4, <3>3, WeighRows
    <3> QED BY <2>3, <3>4 DEF Incoming
  <2> QED BY <2>2, <2>3
<1> QED BY <1>2, <1>4, <1>5, <1>6 DEF Adding

\* The unit completes an order with its stock, or sells one, and it counts something.
Issues(w) ==
  (w.calls.op = "complete" /\ w.seen.qty > 0) \/ (w.calls.op = "sale" /\ w.calls.qty > 0)

\* Stock moves once more for that order.
Issued(w, d, i) == IF Issues(w) /\ Why(w, d) = <<"orders", i>> THEN 1 ELSE 0

\* How often stock has moved for a sales order after a COMMIT.
LEMMA MovedAfter ==
  ASSUME NEW w, NEW d, NEW n, Closing(w, d, n), NEW i
  PROVE  /\ MovedFor(View(w, d), "orders", i) = MovedFor(d, "orders", i) + Issued(w, d, i)
         /\ MovedFor(d, "orders", i) \in Int
<1>0. /\ Sound(d) /\ Local(w, d, n) /\ Told(w, d) /\ w.calls.op \in DOMAIN Program
      /\ Len(w.new["ledger"]) \in Rights(w.calls)["ledger"] /\ Complete(w) /\ w.pc \in Nat
  BY ClosingFacts DEF Keyed
<1>1. /\ d["ledger"] \in Seq(Row["ledger"]) /\ w.new["ledger"] \in Seq(Row["ledger"])
      /\ View(w, d)["ledger"] \in Seq(Row["ledger"])
  BY <1>0, TableAfter
<1>2. PICK a, b, c, R, W, e : /\ a = d["ledger"] /\ b = w.new["ledger"] /\ c = View(w, d)["ledger"]
                              /\ R = Row.ledger /\ W = Moving("orders", i) /\ e = View(w, d)
  OBVIOUS
<1>3. d["ledger"] \in Seq(Row.ledger) /\ e["ledger"] \in Seq(Row.ledger) /\ b \in Seq(R)
  BY <1>1, <1>2
<1>4. W \in [R -> Int] /\ MovedFor(d, "orders", i) = Weigh(a, W) /\ MovedFor(e, "orders", i) = Weigh(c, W)
  BY <1>2, <1>3, MovedForWeighs
<1>5. Adding(a, b, c, W)
  <2>1. W \in [Row["ledger"] -> Int] /\ "ledger" \in {"ledger", "grns"}
    BY <1>2, <1>4
  <2> QED BY <1>2, <2>1, TableAdds
<1>6. Weigh(b, W) = Issued(w, d, i)
  <2>1. ASSUME NEW j \in 1..Len(b) PROVE W[b[j]] = (IF b[j].on = <<"orders", i>> THEN 1 ELSE 0) /\ b[j].on = Why(w, d)
    <3>1. b[j] \in R
      BY ONLY <1>3, <2>1
    <3>2. PICK g : g = b[j] /\ g \in Row.ledger
      BY <1>2, <3>1
    <3>3. Moving("orders", i)[g] = IF g.on = <<"orders", i>> THEN 1 ELSE 0
      BY <3>2 DEF Moving
    <3>4. b[j].on = Why(w, d)
      BY <1>0, <1>2, <2>1 DEF Told
    <3> QED BY <1>2, <3>2, <3>3, <3>4
  <2>2. w.calls.op = "complete" => Len(b) = Goods(w.seen)
    <3>1. w.calls.op = "complete" => Past(w, {"complete"}, 2)
      BY <1>0 DEF Complete, Past, Program
    <3> QED BY <1>0, <1>2, <3>1 DEF Told
  <2>3. w.calls.op = "sale" => Len(b) = IF w.calls.qty > 0 THEN 1 ELSE 0
    BY <1>0, <1>2 DEF Rights, Keyed
  <2>4. CASE Issues(w)
    <3>1. Len(b) = 1
      BY <2>2, <2>3, <2>4 DEF Issues, Goods
    <3>2. W[b[1]] = Issued(w, d, i)
      BY <2>1, <2>4, <3>1 DEF Issued
    <3> QED BY ONLY <1>3, <1>4, <3>1, <3>2, WeighRows
  <2>5. CASE ~Issues(w)
    <3>1. \A j \in 1..Len(b) : W[b[j]] = 0
      <4>1. CASE w.calls.op \in {"complete", "sale"}
        <5>1. Len(b) = 0
          BY <2>2, <2>3, <2>5, <4>1 DEF Issues, Goods
        <5> QED BY <5>1
      <4>2. CASE w.calls.op \notin {"complete", "sale"}
        <5>1. Why(w, d) # <<"orders", i>>
          BY <4>2 DEF Why
        <5> QED BY <2>1, <5>1
      <4> QED BY <4>1, <4>2
    <3>2. 0 = 0 /\ \A j \in 1..Len(b) : W[b[j]] = 0
      BY <3>1
    <3>3. Weigh(b, W) = 0
      BY ONLY <1>3, <1>4, <3>2, WeighRows
    <3> QED BY <2>5, <3>3 DEF Issued
  <2> QED BY <2>4, <2>5
<1> QED BY <1>2, <1>4, <1>5, <1>6 DEF Adding

-----------------------------------------------------------------------------
\* What units tell stays true.

\* A purchase order that a COMMIT leaves at its version is left as it was, and nothing was
\* received for it.
LEMMA SameVersion ==
  ASSUME NEW w, NEW d, NEW n, Closing(w, d, n), NEW i \in 1..Len(d["pos"]),
         View(w, d)["pos"][i].ver <= d["pos"][i].ver
  PROVE  Incoming(w, i) = 0
<1>1. /\ Sound(d) /\ Local(w, d, n) /\ Typed(d) /\ Fit(w, d, n) /\ Told(w, d) /\ Changed(w, d)
      /\ Complete(w)
  BY ClosingFacts
<1>2. CASE w.calls.op = "receive" /\ w.calls.on = i
  <2>1. PICK k : k = <<"pos", i>>
    OBVIOUS
  <2>2. k \in DOMAIN w.set
    <3>1. Past(w, {"receive"}, 4)
      BY <1>1, <1>2 DEF Complete, Past, Program
    <3> QED BY <1>1, <1>2, <2>1, <3>1 DEF Told
  <2>3. "pos" \in Tables
    BY DEF Tables
  <2>4. View(w, d)["pos"][i] = w.set[k]
    BY <1>1, <2>1, <2>2, <2>3, CommitRow
  <2>5. Marks(w, d["pos"][i], w.set[k], "pos", i)
    <3>1. k[1] = "pos" /\ k[2] = i /\ k[1] \in {"orders", "pos", "works"}
      BY <2>1
    <3>2. Marks(w, d[k[1]][k[2]], w.set[k], k[1], k[2])
      BY <1>1, <2>2, <3>1 DEF Changed
    <3> QED BY <3>1, <3>2
  <2>6. w.set[k].ver = d["pos"][i].ver + 1
    BY <2>5 DEF Marks
  <2>7. d["pos"][i].ver \in Nat
    <3>1. PICK c, R : c = d["pos"] /\ R = Row["pos"]
      OBVIOUS
    <3>2. c \in Seq(R) /\ i \in 1..Len(c)
      BY <1>1, <2>3, <3>1 DEF Typed
    <3>3. c[i] \in R
      BY ONLY <3>2
    <3> QED BY <3>1, <3>3 DEF Row
  <2> QED BY <2>4, <2>6, <2>7
<1>3. CASE ~(w.calls.op = "receive" /\ w.calls.on = i)
  BY <1>3 DEF Incoming
<1> QED BY <1>2, <1>3

\* What a unit has counted as received still is, or the order has moved on.
LEMMA PeerCounted ==
  ASSUME NEW w, NEW d, NEW n, Closing(w, d, n), NEW u, SawOpen(u, d["pos"]),
         Counted(u, d["grns"], d["pos"])
  PROVE  Counted(u, View(w, d)["grns"], View(w, d)["pos"])
<1>1. Sound(d) /\ Local(w, d, n)
  BY ClosingFacts
<1>2. PICK i, a, b : i = u.calls.on /\ a = d["pos"][i] /\ b = View(w, d)["pos"][i]
  OBVIOUS
<1>3. i \in 1..Len(d["pos"]) /\ u.seen.ver \in Nat /\ u.seen.ver <= a.ver
  BY <1>2 DEF SawOpen
<1>4. b = a \/ (b.ver \in Nat /\ a.ver \in Nat /\ b.ver > a.ver)
  <2>1. "pos" \in {"orders", "pays", "holds", "pos", "works"}
    OBVIOUS
  <2> QED BY <1>1, <1>2, <1>3, <2>1, CommitLater
<1>5. ASSUME u.seen.ver = b.ver PROVE Received(View(w, d)["grns"], i) = u.seen.got
  <2>1. b = a
    BY <1>3, <1>4, <1>5
  <2>2. a.ver \in Nat
    BY <1>3, <1>5, <2>1
  <2>3. Incoming(w, i) = 0
    <3>1. i \in 1..Len(d["pos"]) /\ View(w, d)["pos"][i].ver <= d["pos"][i].ver
      BY <1>2, <1>3, <2>1, <2>2
    <3> QED BY ONLY <3>1, Closing(w, d, n), SameVersion
  <2>4. Received(View(w, d)["grns"], i) = Received(d["grns"], i) + Incoming(w, i) /\ Received(d["grns"], i) \in Int
    BY ReceivedAfter
  <2>5. Received(d["grns"], i) = u.seen.got
    BY <1>2, <1>5, <2>1 DEF Counted
  <2> QED BY <2>3, <2>4, <2>5
<1> QED BY <1>2, <1>5 DEF Counted

\* The sale that a peer has moved stock for keeps its number: its code is locked.
LEMMA WhyStays ==
  ASSUME NEW w, NEW d, NEW n, Closing(w, d, n), NEW u, Local(u, d, n), Apart(w, u),
         u.new["ledger"] # <<>>
  PROVE  Why(u, View(w, d)) = Why(u, d)
<1>1. Sound(d) /\ Local(w, d, n) /\ Typed(d) /\ Fit(w, d, n)
  BY ClosingFacts
<1>2. CASE u.calls.op = "sale"
  <2>1. "orders" \in Keyed /\ "orders" \in Tables /\ "orders" \in Coded /\ "ledger" \in Keyed
    BY DEF Keyed, Tables, Coded
  <2>2. Written(u) /\ u.pc \in Nat
    BY DEF Local, Fit
  <2>3. Slot(u.calls.op, "ledger") = 2 /\ Slot(u.calls.op, "orders") = 1 /\ Rights(u.calls)["orders"] = {1}
    BY <1>2 DEF Slot, Rights, Keyed
  <2>4. u.pc > 2
    BY <2>1, <2>2, <2>3 DEF Written
  <2>5. Len(u.new["orders"]) \in Rights(u.calls)["orders"]
    <3>1. u.pc > 0 /\ u.pc > Slot(u.calls.op, "orders")
      BY <2>2, <2>3, <2>4
    <3> QED BY ONLY <2>1, <2>2, <3>1 DEF Written
  <2>6. u.new["orders"] # <<>>
    BY <2>3, <2>5
  <2>7. w.new["orders"] = <<>>
    BY <2>1, <2>6 DEF Apart
  <2>8. Reads(View(w, d)["orders"], w, d, "orders")
    BY <1>1, <2>1, ViewRows
  <2>9. Len(View(w, d)["orders"]) = Len(d["orders"])
    BY <2>7, <2>8 DEF Reads
  <2> QED BY <1>2, <2>9 DEF Why
<1>3. CASE u.calls.op # "sale"
  BY <1>3 DEF Why
<1> QED BY <1>2, <1>3

\* What a peer tells stands after a COMMIT.
LEMMA PeerTold ==
  ASSUME NEW w, NEW d, NEW n, Closing(w, d, n), NEW u, Local(u, d, n), Apart(w, u), Told(u, d)
  PROVE  Told(u, View(w, d))
<1>1. PICK e : e = View(w, d)
  OBVIOUS
<1>2. \A i \in 1..Len(u.new["ledger"]) : u.new["ledger"][i].on = Why(u, e)
  <2>1. CASE u.new["ledger"] = <<>>
    BY <2>1
  <2>2. CASE u.new["ledger"] # <<>>
    <3>1. Why(u, e) = Why(u, d)
      BY <1>1, <2>2, WhyStays
    <3> QED BY <3>1 DEF Told
  <2> QED BY <2>1, <2>2
<1>3. Past(u, {"receive", "withdraw", "short"}, 1) => Counted(u, e["grns"], e["pos"])
  <2>1. ASSUME Past(u, {"receive", "withdraw", "short"}, 1) PROVE Counted(u, e["grns"], e["pos"])
    <3>1. SawOpen(u, d["pos"]) /\ Counted(u, d["grns"], d["pos"])
      BY <2>1 DEF Local, Noted, Told
    <3> QED BY <1>1, <3>1, PeerCounted
  <2> QED BY <2>1
<1>4. PICK f : f = d
  OBVIOUS
<1>5. Told(u, f)
  BY <1>4
<1>6. Told(u, e)
  BY ONLY <1>2, <1>3, <1>5 DEF Told
<1> QED BY <1>1, <1>6

-----------------------------------------------------------------------------
\* What units tell is kept.

ToldAll == \A p \in Processes : Told(unit[p], db)

\* No unit has told anything at first.
LEMMA ToldBegin == ASSUME StoreInit PROVE ToldAll
<1>1. IInv
  BY InvInit
<1>2. ASSUME NEW p \in Processes PROVE Told(unit[p], db)
  <2>1. Fit(unit[p], db, now) /\ Clean(unit[p])
    BY <1>1 DEF IInv, InOrder, Local
  <2>2. unit[p].pc <= 1
    BY DEF StoreInit, NoUnit
  <2> QED BY ONLY <2>1, <2>2, FirstTold
<1> QED BY <1>2 DEF ToldAll

\* A unit that stays, or begins anew, tells what it told.
LEMMA ToldQuiet ==
  ASSUME ToldAll, InOrder', db' = db,
         \A o \in Processes : unit'[o] = unit[o] \/ unit'[o].pc <= 1 \/ Told(unit'[o], db)
  PROVE  ToldAll'
<1>1. ASSUME NEW o \in Processes PROVE Told(unit'[o], db')
  <2>1. CASE unit'[o].pc <= 1
    <3>1. PICK u, d, n : u = unit'[o] /\ d = db' /\ n = now'
      OBVIOUS
    <3>2. Fit(u, d, n) /\ Clean(u) /\ u.pc <= 1
      BY <2>1, <3>1 DEF InOrder, Local
    <3>3. Told(u, d)
      BY ONLY <3>2, FirstTold
    <3> QED BY <3>1, <3>3
  <2> QED BY <2>1 DEF ToldAll
<1> QED BY <1>1 DEF ToldAll

\* A statement keeps every unit telling.
LEMMA StatementKeepsTold ==
  ASSUME IInv, ToldAll, NEW p \in Processes,
         InventoryStatement(p) \/ CommerceStatement(p) \/ DocumentStatement(p)
  PROVE  ToldAll'
<1>0. BusInv /\ InOrder /\ DOMAIN unit = Processes
  BY SceneFacts DEF IInv
<1>1. unit[p].run > 0 /\ unit[p].pc \in 1..Len(Steps(p))
  BY DEF InventoryStatement, CommerceStatement, DocumentStatement, At
<1>2. Context(p)
  BY <1>0, <1>1, ContextHolds
<1>3. Tells(p)
  <2>1. Told(unit[p], db)
    BY DEF ToldAll
  <2> QED BY <1>2, <2>1, StatementTells
<1>4. InOrder' /\ db' = db
  BY <1>0, StatementInOrder
<1>5. CASE Refuse(p) \/ GiveUp(p) \/ Rerun(p)
  <2>1. Spared
    BY <1>0, <1>5, LeaverSpared
  <2> QED BY <1>4, <2>1, ToldQuiet DEF Spared
<1>6. CASE \E v : Becomes(p, v) /\ Told(v, db)
  <2>1. PICK v : unit' = [unit EXCEPT ![p] = v] /\ Told(v, db)
    BY <1>6 DEF Becomes
  <2>2. \A o \in Processes : unit'[o] = IF o = p THEN v ELSE unit[o]
    BY ZenonT(40), <1>0, <2>1
  <2> QED BY <1>4, <2>1, <2>2, ToldQuiet
<1> QED BY <1>3, <1>5, <1>6 DEF Tells

\* So does every other step but a COMMIT.
LEMMA QuietKeepsTold ==
  ASSUME IInv, ToldAll, [Next]_store,
         \A p \in Processes : Ends(p) => Stored(unit[p].calls)
  PROVE  ToldAll'
<1>0. BusInv /\ InOrder /\ DOMAIN unit = Processes /\ UnitsShaped
  BY SceneFacts DEF IInv
<1>1. InOrder' /\ db' = db
  BY <1>0, QuietInOrder
<1>2. CASE \E p \in Processes : InventoryStatement(p) \/ CommerceStatement(p) \/ DocumentStatement(p)
  BY <1>2, StatementKeepsTold
<1>3. CASE Spared
  BY <1>1, <1>3, ToldQuiet DEF Spared
<1>4. CASE unit' = unit
  BY <1>1, <1>4, ToldQuiet
<1>7. CASE \E p \in Processes : Ends(p) \/ Fail(p)
  <2>1. PICK p \in Processes : Rerun(p) \/ GiveUp(p)
    BY ZenonT(40), <1>7 DEF Ends, Commit, Fail
  <2> QED BY <1>0, <1>3, <2>1, LeaverSpared
<1>8. CASE \E p \in Processes : Look(p)
  <2>1. PICK p \in Processes : Look(p)
    BY <1>8
  <2>2. PICK w, v : w = [unit[p] EXCEPT !.at = now] /\ v = Then(w)
    OBVIOUS
  <2>3. Shaped(unit[p]) /\ unit[p].pc = 0
    BY <1>0, <2>1 DEF UnitsShaped, Look
  <2>4. v = Then(w) /\ Shaped(w) /\ w.pc = 0
    BY <2>2, <2>3, Fields DEF Shaped
  <2>5. v.pc = w.pc + 1
    BY ONLY <2>4, ThenFields
  <2>6. v.pc = 1
    BY <2>4, <2>5
  <2>7. PICK z : z = NoUnit
    OBVIOUS
  <2>10. z.pc <= 1
    BY <2>7 DEF NoUnit
  <2>8. unit' = [unit EXCEPT ![p] = v] \/ unit' = [unit EXCEPT ![p] = z]
    BY ZenonT(40), <2>1, <2>2, <2>7 DEF Look, Becomes
  <2>9. v.pc <= 1
    BY <2>6
  <2> QED BY <1>0, <1>3, <2>8, <2>9, <2>10, OneSpared
<1>9. CASE \E p \in Processes : \E q \in scene.calls : Send(p, q)
  <2>1. PICK p \in Processes : \E q \in scene.calls : Send(p, q)
    BY <1>9
  <2>2. PICK q : Send(p, q)
    BY <2>1
  <2>3. PICK v : v = [unit[p] EXCEPT !.calls = q, !.run = 1]
    OBVIOUS
  <2>4. Shaped(unit[p]) /\ unit[p].pc = 0
    BY <1>0, <2>2 DEF UnitsShaped, Send, InOrder, Local, Clean
  <2>5. v.pc <= 1
    BY <2>3, <2>4, Fields DEF Shaped
  <2>6. unit' = [unit EXCEPT ![p] = v]
    BY ZenonT(40), <1>0, <2>2, <2>3 DEF Send
  <2> QED BY <1>0, <1>3, <2>5, <2>6, OneSpared
<1>10. CASE Tick \/ UNCHANGED store
  BY <1>4, <1>10 DEF Tick, store
<1> QED BY <1>2, <1>7, <1>8, <1>9, <1>10 DEF Next

\* A COMMIT keeps its peers telling what they told.
LEMMA CommitKeepsTold ==
  ASSUME IInv, HoldsKept, ToldAll, NEW p \in Processes, Ends(p), ~Stored(unit[p].calls)
  PROVE  ToldAll'
<1>1. InOrder' /\ db' = View(unit[p], db) /\ DOMAIN unit = Processes
  <2>1. Commit(p)
    BY DEF Ends
  <2> QED BY <2>1, CommitInOrder, SceneFacts DEF IInv
<1>2. unit' = [unit EXCEPT ![p] = NoUnit]
  BY ZenonT(40) DEF Ends, Commit
<1>3. PICK w : w = unit[p]
  OBVIOUS
<1>4. Closing(w, db, now)
  BY <1>3, EndsFinished DEF Closing, ToldAll
<1>5. ASSUME NEW o \in Processes PROVE Told(unit'[o], db')
  <2>0. PICK u, e, n : u = unit'[o] /\ e = db' /\ n = now'
    OBVIOUS
  <2>1. Fit(u, e, n) /\ Clean(u)
    BY <1>1, <2>0 DEF InOrder, Local
  <2>2. CASE o = p
    <3>1. u = NoUnit
      BY <1>1, <1>2, <2>0, <2>2
    <3>2. u.pc <= 1
      BY <3>1 DEF NoUnit
    <3>3. Told(u, e)
      BY ONLY <2>1, <3>2, FirstTold
    <3> QED BY <2>0, <3>3
  <2>3. CASE o # p
    <3>1. u = unit[o]
      BY <1>1, <1>2, <2>0, <2>3
    <3>2. Local(u, db, now) /\ Apart(w, u) /\ Told(u, db)
      BY <1>3, <2>3, <3>1 DEF IInv, InOrder, ToldAll
    <3>3. CASE u.run > 0
      <4>1. u.calls \in Request
        BY <3>1, <3>3, SceneFacts DEF IInv
      <4>3. Told(u, View(w, db))
        BY ONLY <1>4, <3>2, PeerTold
      <4> QED BY <1>1, <1>3, <2>0, <4>3
    <3>4. CASE ~(u.run > 0)
      <4>1. u.run = 0
        BY <3>1, <3>4, StoreAssumption DEF IInv, BusInv, Heard
      <4>2. u.pc <= 1
        BY <2>1, <4>1 DEF Clean
      <4>3. Told(u, e)
        BY ONLY <2>1, <4>2, FirstTold
      <4> QED BY <2>0, <4>3
    <3> QED BY <3>3, <3>4
  <2> QED BY <2>2, <2>3
<1> QED BY <1>5 DEF ToldAll

\* Every step keeps the units answering for what they have written.
LEMMA ToldStep == ASSUME IInv, HoldsKept, ToldAll, [Next]_store PROVE ToldAll'
<1>1. CASE \E p \in Processes : Ends(p) /\ ~Stored(unit[p].calls)
  BY <1>1, CommitKeepsTold
<1>2. CASE \A p \in Processes : Ends(p) => Stored(unit[p].calls)
  BY <1>2, QuietKeepsTold
<1> QED BY <1>1, <1>2

-----------------------------------------------------------------------------
\* Sales orders and the ledger after a COMMIT.

\* The sales order a as the unit leaves it, b: as it was, or closed from an open one.
OrderLeft(w, a, b, i) ==
  \/ b = a /\ ~(w.calls.op = "complete" /\ w.calls.on = i)
  \/ /\ w.calls.op \in {"confirm", "complete", "completeOnly", "cancel"} /\ w.calls.on = i
     /\ a = w.seen /\ a.status \in {"DRAFT", "CONFIRMED"}
     /\ b.status = OrderEnd(w.calls.op) /\ b.qty = a.qty
     /\ b.issued <=> a.issued \/ w.calls.op = "complete"

\* A COMMIT leaves a sales order so,
LEMMA OrderIsLeft ==
  ASSUME NEW w, NEW d, NEW n, Closing(w, d, n), NEW i \in 1..Len(d["orders"])
  PROVE  OrderLeft(w, d["orders"][i], View(w, d)["orders"][i], i)
<1>1. /\ Sound(d) /\ Local(w, d, n) /\ Typed(d) /\ Fit(w, d, n) /\ Told(w, d) /\ Changed(w, d)
      /\ Complete(w) /\ Noted(w, d)
  BY ClosingFacts
<1>2. PICK k, a, b : k = <<"orders", i>> /\ a = d["orders"][i] /\ b = View(w, d)["orders"][i]
  OBVIOUS
<1>3. "orders" \in Tables
  BY DEF Tables
<1>4. CASE k \notin DOMAIN w.set
  <2>1. b = a
    BY <1>1, <1>2, <1>3, <1>4, CommitRow
  <2>2. ~(w.calls.op = "complete" /\ w.calls.on = i)
    <3>1. w.calls.op = "complete" => Past(w, {"complete"}, 3)
      BY <1>1 DEF Complete, Past, Program
    <3> QED BY <1>1, <1>2, <1>4, <3>1 DEF Told
  <2> QED BY <1>2, <2>1, <2>2 DEF OrderLeft
<1>5. CASE k \in DOMAIN w.set
  <2>1. b = w.set[k]
    BY <1>1, <1>2, <1>3, <1>5, CommitRow
  <2>2. Marks(w, a, b, "orders", i)
    <3>1. k[1] = "orders" /\ k[2] = i /\ k[1] \in {"orders", "pos", "works"}
      BY <1>2
    <3>2. Marks(w, d[k[1]][k[2]], w.set[k], k[1], k[2])
      BY <1>1, <1>5, <3>1 DEF Changed
    <3> QED BY <1>2, <2>1, <3>1, <3>2
  <2>3. CASE w.calls.op = "verify" /\ b = a
    BY <1>2, <2>3 DEF OrderLeft
  <2>4. CASE ~(w.calls.op = "verify" /\ b = a)
    <3>1. /\ i = w.calls.on /\ a.ver = w.seen.ver /\ w.calls.op \in {"confirm", "complete", "completeOnly", "cancel"}
          /\ b.status = OrderEnd(w.calls.op) /\ b.qty = a.qty
          /\ b.issued <=> a.issued \/ w.calls.op = "complete"
      BY <2>2, <2>4 DEF Marks
    <3>2. Past(w, {"confirm", "complete", "completeOnly", "cancel"}, 1)
      BY <1>1, <3>1 DEF Complete, Past, Program
    <3>3. Saw(w, d.orders) /\ w.seen.status \in {"DRAFT", "CONFIRMED"}
      BY <1>1, <3>2 DEF Noted
    <3>4. a = w.seen
      BY <1>2, <3>1, <3>3 DEF Saw
    <3> QED BY <1>2, <3>1, <3>3, <3>4 DEF OrderLeft
  <2> QED BY <2>3, <2>4
<1> QED BY <1>4, <1>5

\* How often stock has moved for this sales order.
Sent(row) == IF row.issued /\ row.qty > 0 THEN 1 ELSE 0

\* A sales order and the ledger tell one story.
Accounted(d, i) ==
  /\ d["orders"][i].issued => d["orders"][i].status = "COMPLETED"
  /\ MovedFor(d, "orders", i) = Sent(d["orders"][i])

\* An order that was there has issued its stock once when it is marked as issued,
LEMMA OldOrder ==
  ASSUME NEW w, NEW d, NEW n, Closing(w, d, n), NEW i \in 1..Len(d["orders"]), Accounted(d, i)
  PROVE  Accounted(View(w, d), i)
<1>1. PICK a, b : a = d["orders"][i] /\ b = View(w, d)["orders"][i]
  OBVIOUS
<1>2. OrderLeft(w, a, b, i)
  BY <1>1, OrderIsLeft
<1>3. MovedFor(View(w, d), "orders", i) = MovedFor(d, "orders", i) + Issued(w, d, i)
  BY MovedAfter
<1>4. (a.issued => a.status = "COMPLETED") /\ MovedFor(d, "orders", i) = Sent(a)
  BY <1>1 DEF Accounted
<1>5. Sent(b) = Sent(a) + Issued(w, d, i) /\ (b.issued => b.status = "COMPLETED")
  <2>1. Len(d["orders"]) \in Nat /\ i # Len(d["orders"]) + 1
    <3>1. Typed(d)
      BY ClosingFacts
    <3>2. d["orders"] \in Seq(Row["orders"])
      BY <3>1 DEF Typed, Tables
    <3>3. PICK m : m = Len(d["orders"]) /\ m \in Nat
      BY <3>2
    <3> QED BY <3>3
  <2>2. CASE w.calls.op = "complete" /\ w.calls.on = i
    <3>1. /\ a = w.seen /\ a.status \in {"DRAFT", "CONFIRMED"} /\ b.status = "COMPLETED"
          /\ b.qty = a.qty /\ b.issued
      BY <1>2, <2>2 DEF OrderLeft, OrderEnd
    <3>2. Sent(a) = 0 /\ Sent(b) = IF a.qty > 0 THEN 1 ELSE 0
      BY <1>4, <3>1 DEF Sent
    <3>3. Issued(w, d, i) = IF a.qty > 0 THEN 1 ELSE 0
      BY <2>2, <3>1 DEF Issued, Issues, Why
    <3> QED BY <3>1, <3>2, <3>3
  <2>3. CASE ~(w.calls.op = "complete" /\ w.calls.on = i)
    <3>1. Issued(w, d, i) = 0
      BY <2>1, <2>3 DEF Issued, Issues, Why
    <3>2. b = a \/ (~a.issued /\ ~b.issued)
      BY <1>2, <1>4, <2>3 DEF OrderLeft
    <3>3. Sent(b) = Sent(a) /\ Sent(a) \in Nat /\ (b.issued => b.status = "COMPLETED")
      BY <1>4, <3>2 DEF Sent
    <3> QED BY <3>1, <3>3
  <2> QED BY <2>2, <2>3
<1> QED BY <1>1, <1>3, <1>4, <1>5 DEF Accounted

\* and the one that is sold at the till has issued its own.
LEMMA NewOrder ==
  ASSUME NEW w, NEW d, NEW n, Closing(w, d, n), w.calls.op = "sale",
         \A k \in 1..Len(d.ledger) :
           d.ledger[k].on[1] = "orders" => d.ledger[k].on[2] \in 1..Len(d.orders),
         NEW i, i = Len(d["orders"]) + 1
  PROVE  Accounted(View(w, d), i)
<1>1. /\ Sound(d) /\ Local(w, d, n) /\ Typed(d) /\ Fit(w, d, n) /\ Told(w, d)
      /\ Len(w.new["orders"]) \in Rights(w.calls)["orders"]
  BY ClosingFacts DEF Keyed
<1>2. Reads(View(w, d)["orders"], w, d, "orders")
  BY <1>1, ViewRows DEF Tables
<1>3. Len(w.new["orders"]) = 1
  <2>1. Rights(w.calls)["orders"] = {1}
    BY DEF Rights, Keyed
  <2> QED BY <1>1, <2>1
<1>4. View(w, d)["orders"][i] = w.new["orders"][1]
  BY <1>2, <1>3 DEF Reads
<1>5. SaleRow(w.calls, w.new["orders"][1])
  BY <1>1, <1>3 DEF Told
<1>6. Issued(w, d, i) = IF w.calls.qty > 0 THEN 1 ELSE 0
  BY DEF Issued, Issues, Why
<1>7. MovedFor(d, "orders", i) = 0
  <2>1. PICK l, R, W : l = d["ledger"] /\ R = Row.ledger /\ W = Moving("orders", i)
    OBVIOUS
  <2>2. l \in Seq(R) /\ d["ledger"] \in Seq(Row.ledger)
    BY <1>1, <2>1 DEF Typed, Tables
  <2>3. W \in [R -> Int] /\ MovedFor(d, "orders", i) = Weigh(l, W)
    BY <2>1, <2>2, MovedForWeighs
  <2>4. Len(d["orders"]) \in Nat
    BY <1>2 DEF Reads
  <2>5. ASSUME NEW k \in 1..Len(l) PROVE W[l[k]] = 0
    <3>1. l[k] \in R
      BY ONLY <2>2, <2>5
    <3>2. PICK m : m = l[k] /\ m \in Row.ledger
      BY <2>1, <3>1
    <3>3. m.on # <<"orders", i>>
      <4>1. CASE m.on = <<"orders", i>>
        <5>1. m.on[1] = "orders" /\ m.on[2] = i
          BY <4>1
        <5>2. i \in 1..Len(d["orders"])
          BY <2>1, <3>2, <5>1
        <5>3. PICK s : s = Len(d["orders"]) /\ s \in Nat
          BY <2>4
        <5> QED BY <5>2, <5>3
      <4> QED BY <4>1
    <3>4. Moving("orders", i)[m] = 0
      BY <3>2, <3>3 DEF Moving
    <3> QED BY <2>1, <3>2, <3>4
  <2>6. Weigh(l, W) = 0
    BY ONLY <2>2, <2>3, <2>5, WeighZero
  <2> QED BY <2>3, <2>6
<1>8. MovedFor(View(w, d), "orders", i) = MovedFor(d, "orders", i) + Issued(w, d, i)
  BY MovedAfter
<1> QED BY <1>4, <1>5, <1>6, <1>7, <1>8 DEF Sent, SaleRow, Accounted

\* A COMMIT leaves orders and ledger matched.
LEMMA OrdersKept ==
  ASSUME NEW w, NEW d, NEW n, Closing(w, d, n), Matched(d)
  PROVE  OrdersMatch(View(w, d))
<1>1. /\ Sound(d) /\ Local(w, d, n) /\ Typed(d) /\ Fit(w, d, n) /\ w.calls.op \in DOMAIN Program
      /\ Len(w.new["orders"]) \in Rights(w.calls)["orders"]
  BY ClosingFacts DEF Keyed
<1>2. PICK e : e = View(w, d)
  OBVIOUS
<1>3. Reads(e["orders"], w, d, "orders")
  BY <1>1, <1>2, ViewRows DEF Tables
<1>4. \A i \in 1..Len(d["orders"]) : Accounted(d, i)
  BY DEF Matched, Matches, OrdersMatch, Sent, Accounted
<1>5. ASSUME NEW i \in 1..Len(e["orders"]) PROVE Accounted(e, i)
  <2>1. CASE i \in 1..Len(d["orders"])
    BY <1>2, <1>4, <2>1, OldOrder
  <2>2. CASE i \notin 1..Len(d["orders"])
    <3>0. PICK x, m, k : x = Len(e["orders"]) /\ m = Len(d["orders"]) /\ k = Len(w.new["orders"])
      OBVIOUS
    <3>00. /\ i \in 1..x /\ i \notin 1..m /\ m \in Nat /\ k \in Nat /\ x = m + k
      BY <1>3, <2>2, <3>0 DEF Reads
    <3>1. Len(w.new["orders"]) \in {0, 1} /\ Len(w.new["orders"]) # 0
      <4>1. Len(w.new["orders"]) # 0
        <5>1. k # 0
          BY ONLY <3>00
        <5> QED BY <3>0, <5>1
      <4>2. Rights(w.calls)["orders"] \in {{0}, {1}}
        BY DEF Rights, Keyed
      <4> QED BY <1>1, <4>1, <4>2
    <3>2. w.calls.op = "sale"
      <4>1. w.calls.op # "sale" => Rights(w.calls)["orders"] = {0}
        BY DEF Rights, Keyed
      <4> QED BY <1>1, <3>1, <4>1
    <3>3. i = Len(d["orders"]) + 1
      <4>1. k \in {0, 1} /\ k # 0
        BY <3>0, <3>1
      <4>2. i = m + 1
        BY ONLY <3>00, <4>1
      <4> QED BY <3>0, <4>2
    <3>4. \A z \in 1..Len(d.ledger) :
            d.ledger[z].on[1] = "orders" => d.ledger[z].on[2] \in 1..Len(d.orders)
      BY DEF Matched
    <3>5. Accounted(View(w, d), i)
      BY ONLY Closing(w, d, n), <3>2, <3>3, <3>4, NewOrder
    <3> QED BY <1>2, <3>5
  <2> QED BY <2>1, <2>2
<1>6. OrdersMatch(e)
  BY <1>5 DEF OrdersMatch, Sent, Accounted
<1> QED BY <1>2, <1>6

-----------------------------------------------------------------------------
\* Purchase orders, receipts and the ledger after a COMMIT.

\* The purchase order a, of which got was received, as the unit leaves it, b: as it was, or
\* closed from the open one it has counted.
PurchaseLeft(w, a, b, i, got) ==
  \/ b = a /\ ~(w.calls.op = "receive" /\ w.calls.on = i)
  \/ /\ w.calls.op \in {"receive", "withdraw", "short"} /\ w.calls.on = i
     /\ a.status \in {"DRAFT", "SENT"} /\ b.status = PurchaseEnd(w) /\ b.qty = a.qty
     /\ w.seen.qty = a.qty /\ w.seen.got = got
     /\ w.calls.op = "receive" => got + w.calls.qty <= a.qty
     /\ w.calls.op = "withdraw" => got = 0

\* a purchase order so,
LEMMA PurchaseIsLeft ==
  ASSUME NEW w, NEW d, NEW n, Closing(w, d, n), NEW i \in 1..Len(d["pos"])
  PROVE  PurchaseLeft(w, d["pos"][i], View(w, d)["pos"][i], i, Received(d["grns"], i))
<1>1. /\ Sound(d) /\ Local(w, d, n) /\ Typed(d) /\ Fit(w, d, n) /\ Told(w, d) /\ Changed(w, d)
      /\ Complete(w) /\ Noted(w, d)
  BY ClosingFacts
<1>2. PICK k, a, b : k = <<"pos", i>> /\ a = d["pos"][i] /\ b = View(w, d)["pos"][i]
  OBVIOUS
<1>3. "pos" \in Tables
  BY DEF Tables
<1>4. CASE k \notin DOMAIN w.set
  <2>1. b = a
    BY <1>1, <1>2, <1>3, <1>4, CommitRow
  <2>2. ~(w.calls.op = "receive" /\ w.calls.on = i)
    <3>1. w.calls.op = "receive" => Past(w, {"receive"}, 4)
      BY <1>1 DEF Complete, Past, Program
    <3> QED BY <1>1, <1>2, <1>4, <3>1 DEF Told
  <2> QED BY <1>2, <2>1, <2>2 DEF PurchaseLeft
<1>5. CASE k \in DOMAIN w.set
  <2>1. b = w.set[k]
    BY <1>1, <1>2, <1>3, <1>5, CommitRow
  <2>2. Marks(w, a, b, "pos", i)
    <3>1. k[1] = "pos" /\ k[2] = i /\ k[1] \in {"orders", "pos", "works"}
      BY <1>2
    <3>2. Marks(w, d[k[1]][k[2]], w.set[k], k[1], k[2])
      BY <1>1, <1>5, <3>1 DEF Changed
    <3> QED BY <1>2, <2>1, <3>1, <3>2
  <2>3. /\ i = w.calls.on /\ a.ver = w.seen.ver /\ w.calls.op \in {"receive", "withdraw", "short"}
        /\ b.qty = a.qty /\ b.status = PurchaseEnd(w)
    BY <2>2 DEF Marks
  <2>4. Past(w, {"receive", "withdraw", "short"}, 1)
    BY <1>1, <2>3 DEF Complete, Past, Program
  <2>5. SawOpen(w, d["pos"]) /\ Counted(w, d["grns"], d["pos"])
    BY <1>1, <2>4 DEF Noted, Told
  <2>6. a.qty = w.seen.qty /\ a.status \in {"DRAFT", "SENT"}
    BY <1>2, <2>3, <2>5 DEF SawOpen
  <2>7. /\ Received(d["grns"], i) = w.seen.got
        /\ w.calls.op = "receive" => w.seen.got + w.calls.qty <= w.seen.qty
        /\ w.calls.op = "withdraw" => w.seen.got = 0
    BY <1>2, <2>3, <2>5 DEF Counted
  <2> QED BY <1>2, <2>3, <2>6, <2>7 DEF PurchaseLeft
<1> QED BY <1>4, <1>5

\* What was received of the purchase order a is what its status says.
Right(got, a) ==
  /\ got <= a.qty
  /\ a.status = "RECEIVED" <=> got = a.qty
  /\ a.status = "CANCELLED" => got = 0

\* which keeps it right.
LEMMA PurchaseRight ==
  ASSUME NEW w, NEW a, NEW b, NEW i, NEW got \in Int, PurchaseLeft(w, a, b, i, got), Right(got, a),
         NEW x \in Int, x = Incoming(w, i), a.qty \in Nat, w.calls.qty \in Int
  PROVE  Right(got + x, b)
<1>1. PICK z, y, s, r : z = a.qty /\ y = w.calls.qty /\ s = a.status /\ r = b.status
  OBVIOUS
<1>2. CASE b = a /\ ~(w.calls.op = "receive" /\ w.calls.on = i)
  <2>1. x = 0
    BY <1>2 DEF Incoming
  <2>2. got + x = got
    BY ONLY <2>1, got \in Int
  <2> QED BY <1>2, <2>2
<1>3. CASE ~(b = a /\ ~(w.calls.op = "receive" /\ w.calls.on = i))
  <2>1. /\ w.calls.op \in {"receive", "withdraw", "short"} /\ w.calls.on = i
        /\ a.status \in {"DRAFT", "SENT"} /\ b.status = PurchaseEnd(w) /\ b.qty = a.qty
        /\ w.seen.qty = a.qty /\ w.seen.got = got
        /\ w.calls.op = "receive" => got + w.calls.qty <= a.qty
        /\ w.calls.op = "withdraw" => got = 0
    BY <1>3 DEF PurchaseLeft
  <2>2. got <= z /\ got # z /\ z \in Nat /\ y \in Int
    BY <1>1, <2>1 DEF Right
  <2>3. CASE w.calls.op = "receive"
    <3>1. x = y /\ got + y <= z /\ r = (IF got + y = z THEN "RECEIVED" ELSE "SENT")
      BY <1>1, <2>1, <2>3 DEF Incoming, PurchaseEnd
    <3> QED BY <1>1, <2>1, <3>1 DEF Right
  <2>4. CASE w.calls.op # "receive"
    <3>1. x = 0
      BY <2>4 DEF Incoming
    <3>2. got + x = got
      BY ONLY <3>1, got \in Int
    <3>3. r = IF w.calls.op = "withdraw" THEN "CANCELLED" ELSE "SHORT_CLOSED"
      BY <1>1, <2>1, <2>4 DEF PurchaseEnd
    <3> QED BY <1>1, <2>1, <2>2, <3>2, <3>3 DEF Right
  <2> QED BY <2>3, <2>4
<1> QED BY <1>2, <1>3

\* A COMMIT leaves purchase orders, receipts and ledger matched.
LEMMA PurchasesKept ==
  ASSUME NEW w, NEW d, NEW n, Closing(w, d, n), Matched(d), w.calls.qty \in Int
  PROVE  PurchasesMatch(View(w, d))
<1>1. /\ Sound(d) /\ Local(w, d, n) /\ Typed(d) /\ Fit(w, d, n) /\ Written(w)
  BY ClosingFacts
<1>2. PICK e : e = View(w, d)
  OBVIOUS
<1>3. Len(e["pos"]) = Len(d["pos"])
  <2>1. Reads(e["pos"], w, d, "pos")
    BY <1>1, <1>2, ViewRows DEF Tables
  <2>2. w.new["pos"] = <<>>
    BY <1>1 DEF Written
  <2> QED BY <2>1, <2>2 DEF Reads
<1>4. \A i \in 1..Len(d["pos"]) :
        Received(d["grns"], i) = BroughtIn(d, i) /\ Right(Received(d["grns"], i), d["pos"][i])
  BY DEF Matched, Matches, PurchasesMatch, Right
<1>5. ASSUME NEW i \in 1..Len(e["pos"])
      PROVE  Received(e["grns"], i) = BroughtIn(e, i) /\ Right(Received(e["grns"], i), e["pos"][i])
  <2>1. i \in 1..Len(d["pos"])
    BY <1>3, <1>5
  <2>2. PICK a, b, got : a = d["pos"][i] /\ b = e["pos"][i] /\ got = Received(d["grns"], i)
    OBVIOUS
  <2>3. Received(e["grns"], i) = got + Incoming(w, i) /\ got \in Int
    BY <1>2, <2>2, ReceivedAfter
  <2>4. BroughtIn(e, i) = BroughtIn(d, i) + Incoming(w, i)
    BY <1>2, BroughtAfter
  <2>5. got = BroughtIn(d, i) /\ Right(got, a)
    BY <1>4, <2>1, <2>2
  <2>6. PurchaseLeft(w, a, b, i, got)
    BY <1>2, <2>1, <2>2, PurchaseIsLeft
  <2>7. PICK x : x = Incoming(w, i)
    OBVIOUS
  <2>8. x \in Int
    BY <2>7 DEF Incoming
  <2>9. a.qty \in Nat
    <3>1. PICK c, R : c = d["pos"] /\ R = Row["pos"]
      OBVIOUS
    <3>2. c \in Seq(R) /\ i \in 1..Len(c)
      BY <1>1, <2>1, <3>1 DEF Typed, Tables
    <3>3. c[i] \in R
      BY ONLY <3>2
    <3> QED BY <2>2, <3>1, <3>3 DEF Row
  <2>10. Right(got + x, b)
    BY <2>3, <2>5, <2>6, <2>7, <2>8, <2>9, PurchaseRight
  <2> QED BY <2>2, <2>3, <2>4, <2>5, <2>7, <2>10
<1>6. PurchasesMatch(e)
  BY <1>5 DEF PurchasesMatch, Right
<1> QED BY <1>2, <1>6

-----------------------------------------------------------------------------
\* What a work order's movements bring where.

\* What an item brings of prod to the place.
Sharing(prod, at) == [x \in Item |-> IF x[1] = prod /\ x[3] = at THEN x[2] ELSE 0]

\* The items bring n together.
Shares(list, prod, at, n) ==
  list \in Seq(Item) /\ n \in Int /\ Weigh(list, Sharing(prod, at)) = n

\* The share of an item is a number.
LEMMA SharingType ==
  ASSUME NEW prod, NEW at
  PROVE  Sharing(prod, at) \in [Item -> Int]
<1>1. ASSUME NEW x \in Item PROVE (IF x[1] = prod /\ x[3] = at THEN x[2] ELSE 0) \in Int
  <2>1. x[2] \in Int
    BY DEF Item
  <2> QED BY <2>1
<1> QED BY <1>1 DEF Sharing

\* Nothing brings nothing, one item what it is for its product and place,
LEMMA MovedShares ==
  ASSUME NEW x \in {"A", "F"}, NEW n \in Int, NEW s \in Sites, NEW prod, NEW at
  PROVE  Shares(Moved(x, n, s), prod, at, IF x = prod /\ s = at THEN n ELSE 0)
<1>1. PICK l, W, m : /\ l = Moved(x, n, s) /\ W = Sharing(prod, at)
                     /\ m = IF x = prod /\ s = at THEN n ELSE 0
  OBVIOUS
<1>2. l \in Seq(Item) /\ Len(l) = (IF n = 0 THEN 0 ELSE 1) /\ W \in [Item -> Int] /\ m \in Int
  BY <1>1, MovedItems, SharingType
<1>3. PICK R : R = Item
  OBVIOUS
<1>4. l \in Seq(R) /\ W \in [R -> Int]
  BY <1>2, <1>3
<1>5. Weigh(l, W) = m
  <2>1. CASE n = 0
    <3>1. \A i \in 1..Len(l) : W[l[i]] = 0
      BY <1>2, <2>1
    <3>2. Weigh(l, W) = 0
      BY ONLY <1>4, <3>1, WeighZero
    <3> QED BY <1>1, <2>1, <3>2
  <2>2. CASE n # 0
    <3>1. l = <<<<x, n, s>>>>
      BY <1>1, <2>2 DEF Moved
    <3>2. PICK y : y = <<x, n, s>>
      OBVIOUS
    <3>3. y \in Item /\ y[1] = x /\ y[2] = n /\ y[3] = s
      BY <3>2 DEF Item
    <3>4. Sharing(prod, at)[y] = m
      BY <1>1, <3>3 DEF Sharing
    <3>5. Len(l) = 1 /\ W[l[1]] = m
      BY <1>1, <1>2, <2>2, <3>1, <3>2, <3>4
    <3> QED BY ONLY <1>4, <3>5, WeighRows
  <2> QED BY <2>1, <2>2
<1> QED BY <1>1, <1>2, <1>5 DEF Shares

\* and two lists what both bring.
LEMMA JoinedShares ==
  ASSUME NEW a, NEW b, NEW prod, NEW at, NEW x, NEW y,
         Shares(a, prod, at, x), Shares(b, prod, at, y)
  PROVE  Shares(a \o b, prod, at, x + y)
<1>1. PICK R, W : R = Item /\ W = Sharing(prod, at)
  OBVIOUS
<1>2. W \in [R -> Int] /\ a \in Seq(R) /\ b \in Seq(R) /\ x \in Int /\ y \in Int
  BY <1>1, SharingType DEF Shares
<1>3. Weigh(a \o b, W) = Weigh(a, W) + Weigh(b, W)
  BY ONLY <1>2, WeighJoin
<1>4. a \o b \in Seq(R)
  BY ONLY <1>2
<1>5. x + y \in Int
  BY <1>2
<1> QED BY <1>1, <1>3, <1>4, <1>5 DEF Shares

\* A transfer brings to one place what it takes from the other.
LEMMA TransferShares ==
  ASSUME NEW n \in Int, NEW from \in Sites, NEW to \in Sites, NEW prod, NEW at
  PROVE  Shares(Transfer(n, from, to), prod, at,
                (IF "A" = prod /\ from = at THEN -n ELSE 0) + (IF "A" = prod /\ to = at THEN n ELSE 0))
<1>1. PICK a, b, x, y : /\ a = Moved("A", -n, from) /\ b = Moved("A", n, to)
                        /\ x = (IF "A" = prod /\ from = at THEN -n ELSE 0)
                        /\ y = IF "A" = prod /\ to = at THEN n ELSE 0
  OBVIOUS
<1>2. Shares(a, prod, at, x)
  <2>1. PICK m \in Int : m = -n
    OBVIOUS
  <2> QED BY <1>1, <2>1, MovedShares
<1>3. Shares(b, prod, at, y)
  BY <1>1, MovedShares
<1>4. Shares(a \o b, prod, at, x + y)
  BY ONLY <1>2, <1>3, JoinedShares
<1> QED BY <1>1, <1>4 DEF Transfer

\* A run brings in what it made, and takes from the workshop all that was staged there.
LEMMA WorkedShares ==
  ASSUME NEW q, NEW w, NEW m \in Nat, NEW s \in Nat, NEW k \in Nat, q.qty = m, q.scrap = s,
         k = (IF w.kind = "kitting" THEN w.gross ELSE w.issued)
  PROVE  /\ Shares(Worked(q, w), "F", "goods", m)
         /\ Shares(Worked(q, w), "A", "shop", -k)
<1>1. "shop" \in Sites /\ "goods" \in Sites /\ "raw" \in Sites
  BY DEF Sites
<1>2. PICK used, made, back :
        /\ used = (IF w.kind = "kitting" THEN Moved("A", -(m + s), "shop")
                   ELSE Moved("A", -m, "shop") \o Moved("A", -s, "shop"))
        /\ made = Moved("F", m, "goods") /\ back = Transfer(k - m - s, "shop", "raw")
  OBVIOUS
<1>3. Worked(q, w) = (used \o made) \o back
  BY <1>2 DEF Worked
<1>4. PICK y \in Int : y = -(m + s)
  OBVIOUS
<1>5. Shares(used, "F", "goods", 0) /\ Shares(used, "A", "shop", y)
  <2>1. CASE w.kind = "kitting"
    <3>1. used = Moved("A", y, "shop")
      BY <1>2, <1>4, <2>1
    <3>2. Shares(Moved("A", y, "shop"), "F", "goods", IF "A" = "F" /\ "shop" = "goods" THEN y ELSE 0)
      BY <1>1, MovedShares
    <3>3. Shares(Moved("A", y, "shop"), "A", "shop", IF "A" = "A" /\ "shop" = "shop" THEN y ELSE 0)
      BY <1>1, MovedShares
    <3> QED BY <3>1, <3>2, <3>3
  <2>2. CASE w.kind # "kitting"
    <3>1. PICK f \in Int, g \in Int : f = -m /\ g = -s
      OBVIOUS
    <3>2. PICK a, b : a = Moved("A", f, "shop") /\ b = Moved("A", g, "shop")
      OBVIOUS
    <3>3. used = a \o b
      BY <1>2, <2>2, <3>1, <3>2
    <3>4. Shares(a, "F", "goods", 0) /\ Shares(b, "F", "goods", 0)
      <4>1. \A h \in Int : Shares(Moved("A", h, "shop"), "F", "goods", IF "A" = "F" /\ "shop" = "goods" THEN h ELSE 0)
        BY <1>1, MovedShares
      <4> QED BY <3>1, <3>2, <4>1
    <3>5. Shares(a, "A", "shop", f) /\ Shares(b, "A", "shop", g)
      <4>1. \A h \in Int : Shares(Moved("A", h, "shop"), "A", "shop", IF "A" = "A" /\ "shop" = "shop" THEN h ELSE 0)
        BY <1>1, MovedShares
      <4> QED BY <3>1, <3>2, <4>1
    <3>6. Shares(a \o b, "F", "goods", 0 + 0)
      BY ONLY <3>4, JoinedShares
    <3>7. Shares(a \o b, "A", "shop", f + g)
      BY ONLY <3>5, JoinedShares
    <3>8. f + g = y /\ 0 + 0 = 0
      BY <1>4, <3>1
    <3> QED BY <3>3, <3>6, <3>7, <3>8
  <2> QED BY <2>1, <2>2
<1>6. Shares(made, "F", "goods", m) /\ Shares(made, "A", "shop", 0)
  <2>0. m \in Int
    OBVIOUS
  <2>1. Shares(Moved("F", m, "goods"), "F", "goods", IF "F" = "F" /\ "goods" = "goods" THEN m ELSE 0)
    BY <1>1, <2>0, MovedShares
  <2>2. Shares(Moved("F", m, "goods"), "A", "shop", IF "F" = "A" /\ "goods" = "shop" THEN m ELSE 0)
    BY <1>1, <2>0, MovedShares
  <2> QED BY <1>2, <2>1, <2>2
<1>7. PICK z \in Int, r \in Int : z = k - m - s /\ r = -z
  OBVIOUS
<1>8. Shares(back, "F", "goods", 0) /\ Shares(back, "A", "shop", r)
  <2>1. Shares(Transfer(z, "shop", "raw"), "F", "goods",
               (IF "A" = "F" /\ "shop" = "goods" THEN -z ELSE 0) + (IF "A" = "F" /\ "raw" = "goods" THEN z ELSE 0))
    BY <1>1, TransferShares
  <2>2. Shares(Transfer(z, "shop", "raw"), "A", "shop",
               (IF "A" = "A" /\ "shop" = "shop" THEN -z ELSE 0) + (IF "A" = "A" /\ "raw" = "shop" THEN z ELSE 0))
    BY <1>1, TransferShares
  <2>3. (IF "A" = "F" /\ "shop" = "goods" THEN -z ELSE 0) + (IF "A" = "F" /\ "raw" = "goods" THEN z ELSE 0) = 0
    OBVIOUS
  <2>4. (IF "A" = "A" /\ "shop" = "shop" THEN -z ELSE 0) + (IF "A" = "A" /\ "raw" = "shop" THEN z ELSE 0) = r
    BY <1>7
  <2> QED BY <1>2, <1>7, <2>1, <2>2, <2>3, <2>4
<1>9. Shares(Worked(q, w), "F", "goods", m)
  <2>1. Shares(used \o made, "F", "goods", 0 + m)
    BY ONLY <1>5, <1>6, JoinedShares
  <2>2. Shares((used \o made) \o back, "F", "goods", (0 + m) + 0)
    BY ONLY <1>8, <2>1, JoinedShares
  <2>3. (0 + m) + 0 = m
    OBVIOUS
  <2> QED BY <1>3, <2>2, <2>3
<1>10. Shares(Worked(q, w), "A", "shop", -k)
  <2>1. Shares(used \o made, "A", "shop", y + 0)
    BY ONLY <1>5, <1>6, JoinedShares
  <2>2. Shares((used \o made) \o back, "A", "shop", (y + 0) + r)
    BY ONLY <1>8, <2>1, JoinedShares
  <2>3. (y + 0) + r = -k
    BY <1>4, <1>7
  <2> QED BY <1>3, <2>2, <2>3
<1> QED BY <1>9, <1>10

\* Movements made for a work order bring what their items do.
LEMMA WorkingShares ==
  ASSUME NEW q, NEW on, NEW list, NEW prod, NEW at, NEW x, Shares(list, prod, at, x),
         q.key \in STRING, on \in Nat
  PROVE  Weigh(Movements(q, <<"works", on>>, list), Working(on, prod, at)) = x
<1>0. Len(list) \in Nat
  BY DEF Shares
<1>1. PICK n, l, o : n = Len(list) /\ n \in Nat /\ l = Movements(q, o, list) /\ o = <<"works", on>>
  BY <1>0
<1>2. o \in Origins \X Nat
  BY <1>1 DEF Origins
<1>3. list \in Seq(Item)
  BY DEF Shares
<1>4. l \in Seq(Row.ledger) /\ Len(l) = n
  BY <1>1, <1>2, <1>3, MovementRows
<1>5. ASSUME NEW i \in 1..n
      PROVE  Working(on, prod, at)[l[i]] = Sharing(prod, at)[list[i]]
  <2>1. l[i] = [by |-> q.key, on |-> o, prod |-> list[i][1], qty |-> list[i][2], at |-> list[i][3]]
    BY <1>1, <1>5 DEF Movements
  <2>2. PICK m, y, R, S : m = l[i] /\ y = list[i] /\ R = Row.ledger /\ S = Item
    OBVIOUS
  <2>3. l \in Seq(R) /\ i \in 1..Len(l) /\ list \in Seq(S) /\ i \in 1..Len(list)
    BY <1>1, <1>3, <1>4, <1>5, <2>2
  <2>4. l[i] \in R /\ list[i] \in S
    BY ONLY <2>3
  <2>5. m \in Row.ledger /\ y \in Item
    BY <2>2, <2>4
  <2>6. m.on = <<"works", on>> /\ m.prod = y[1] /\ m.qty = y[2] /\ m.at = y[3]
    BY <1>1, <2>1, <2>2
  <2>7. Working(on, prod, at)[m] = IF m.on = <<"works", on>> /\ m.prod = prod /\ m.at = at THEN m.qty ELSE 0
    BY <2>5 DEF Working
  <2>8. Sharing(prod, at)[y] = IF y[1] = prod /\ y[3] = at THEN y[2] ELSE 0
    BY <2>5 DEF Sharing
  <2> QED BY <2>2, <2>6, <2>7, <2>8
<1>6. [i \in 1..Len(l) |-> Working(on, prod, at)[l[i]]] = [i \in 1..Len(list) |-> Sharing(prod, at)[list[i]]]
  BY <1>1, <1>4, <1>5
<1>7. Weigh(l, Working(on, prod, at)) = Weigh(list, Sharing(prod, at))
  BY <1>6 DEF Weigh
<1> QED BY <1>1, <1>7 DEF Shares

-----------------------------------------------------------------------------
\* Work orders and the ledger after a COMMIT.

\* What the command takes to the workshop, or out of it when it is negative.
Taken(q, a) ==
  IF q.op = "stageWork" THEN a.gross
  ELSE IF q.op = "finishWork" THEN -(IF a.kind = "kitting" THEN a.gross ELSE a.issued)
  ELSE -PutBack(a)

Output(q) == IF q.op = "finishWork" THEN q.qty ELSE 0

\* The movements of a work order weigh what it takes and what it makes.
LEMMA WorkMovesShare ==
  ASSUME NEW q \in Request, q.op \in WorkOps, NEW a \in Row.works
  PROVE  /\ Shares(WorkMoves(q, a), "F", "goods", Output(q))
         /\ Shares(WorkMoves(q, a), "A", "shop", Taken(q, a))
<1>1. "shop" \in Sites /\ "goods" \in Sites /\ "raw" \in Sites
  BY DEF Sites
<1>2. PICK g \in Int, k \in Nat, z \in Int :
        g = a.gross /\ k = (IF a.kind = "kitting" THEN a.gross ELSE a.issued) /\ z = PutBack(a)
  <2>1. a.gross \in Nat /\ a.issued \in Nat /\ a.made \in Nat /\ a.scrapped \in Nat
    BY DEF Row
  <2>2. (IF a.kind = "kitting" THEN a.gross ELSE a.issued) \in Nat /\ PutBack(a) \in Int
    BY <2>1 DEF PutBack
  <2> QED BY <2>1, <2>2
<1>3. CASE q.op = "stageWork"
  <2>1. Shares(Transfer(g, "raw", "shop"), "F", "goods",
               (IF "A" = "F" /\ "raw" = "goods" THEN -g ELSE 0) + (IF "A" = "F" /\ "shop" = "goods" THEN g ELSE 0))
    BY <1>1, TransferShares
  <2>2. Shares(Transfer(g, "raw", "shop"), "A", "shop",
               (IF "A" = "A" /\ "raw" = "shop" THEN -g ELSE 0) + (IF "A" = "A" /\ "shop" = "shop" THEN g ELSE 0))
    BY <1>1, TransferShares
  <2>3. (IF "A" = "F" /\ "raw" = "goods" THEN -g ELSE 0) + (IF "A" = "F" /\ "shop" = "goods" THEN g ELSE 0) = 0
    OBVIOUS
  <2>4. (IF "A" = "A" /\ "raw" = "shop" THEN -g ELSE 0) + (IF "A" = "A" /\ "shop" = "shop" THEN g ELSE 0) = g
    OBVIOUS
  <2>5. WorkMoves(q, a) = Transfer(g, "raw", "shop") /\ Output(q) = 0 /\ Taken(q, a) = g
    BY <1>2, <1>3 DEF WorkMoves, Output, Taken
  <2> QED BY <2>1, <2>2, <2>3, <2>4, <2>5
<1>4. CASE q.op = "finishWork"
  <2>1. q.qty \in Nat /\ q.scrap \in Nat
    BY <1>4, RequestFacts
  <2>2. PICK m \in Nat, s \in Nat : m = q.qty /\ s = q.scrap
    BY <2>1
  <2>3. Shares(Worked(q, a), "F", "goods", m) /\ Shares(Worked(q, a), "A", "shop", -k)
    BY <1>2, <2>2, WorkedShares
  <2>4. WorkMoves(q, a) = Worked(q, a) /\ Output(q) = m /\ Taken(q, a) = -k
    BY <1>2, <1>4, <2>2 DEF WorkMoves, Output, Taken
  <2> QED BY <2>3, <2>4
<1>5. CASE q.op = "cancelWork"
  <2>1. Shares(Transfer(z, "shop", "raw"), "F", "goods",
               (IF "A" = "F" /\ "shop" = "goods" THEN -z ELSE 0) + (IF "A" = "F" /\ "raw" = "goods" THEN z ELSE 0))
    BY <1>1, TransferShares
  <2>2. Shares(Transfer(z, "shop", "raw"), "A", "shop",
               (IF "A" = "A" /\ "shop" = "shop" THEN -z ELSE 0) + (IF "A" = "A" /\ "raw" = "shop" THEN z ELSE 0))
    BY <1>1, TransferShares
  <2>3. (IF "A" = "F" /\ "shop" = "goods" THEN -z ELSE 0) + (IF "A" = "F" /\ "raw" = "goods" THEN z ELSE 0) = 0
    OBVIOUS
  <2>4. (IF "A" = "A" /\ "shop" = "shop" THEN -z ELSE 0) + (IF "A" = "A" /\ "raw" = "shop" THEN z ELSE 0) = -z
    OBVIOUS
  <2>5. WorkMoves(q, a) = Transfer(z, "shop", "raw") /\ Output(q) = 0 /\ Taken(q, a) = -z
    BY <1>2, <1>5 DEF WorkMoves, Output, Taken
  <2> QED BY <2>1, <2>2, <2>3, <2>4, <2>5
<1> QED BY <1>3, <1>4, <1>5 DEF WorkOps

\* The work order a has made f and has s in the workshop, if it ran once at most.
Tallies(a, f, s) ==
  /\ Young(a)
  /\ RunOnce(a) => f = a.made /\ s = (IF a.status = "IN_PROGRESS" THEN a.issued ELSE 0)

\* It still has when it has been staged, run or cancelled.
LEMMA TalliesStill ==
  ASSUME NEW q \in Request, q.op \in WorkOps, NEW a \in Row.works, NEW b \in Row.works,
         b.ver = a.ver + 1, WorkEnd(q, a, b), Opens(q.op, a.status),
         NEW f \in Int, NEW s \in Int, Tallies(a, f, s)
  PROVE  Tallies(b, f + Output(q), s + Taken(q, a))
<1>1. /\ a.ver \in Nat /\ a.gross \in Nat /\ a.issued \in Nat /\ a.made \in Nat /\ a.scrapped \in Nat
      /\ b.ver \in Nat /\ b.issued \in Nat /\ b.made \in Nat
  BY DEF Row
<1>2. PICK v, g, o, m, c, x : /\ v = a.ver /\ g = a.gross /\ o = a.issued /\ m = a.made /\ c = a.scrapped
                              /\ x = q.qty
  OBVIOUS
<1>3. v \in Nat /\ g \in Nat /\ o \in Nat /\ m \in Nat /\ c \in Nat /\ x \in Int
  BY <1>1, <1>2, RequestFacts
<1>4. /\ v >= 1 /\ (a.status = "IN_PROGRESS" => v >= 2)
      /\ v <= 2 => /\ a.status \in {"DRAFT", "IN_PROGRESS", "CANCELLED"} /\ m = 0 /\ c = 0
                   /\ a.status = "DRAFT" => o = 0
                   /\ a.status = "IN_PROGRESS" /\ a.kind = "kitting" => o = g
  BY <1>2 DEF Tallies, Young
<1>5. v <= 3 => f = m /\ s = (IF a.status = "IN_PROGRESS" THEN o ELSE 0)
  BY <1>2 DEF Tallies, RunOnce
<1>6. CASE q.op = "stageWork"
  <2>1. /\ b.status = "IN_PROGRESS" /\ b.issued = g /\ b.made = m /\ b.scrapped = c /\ b.gross = g
        /\ a.status = "DRAFT" /\ b.ver = v + 1
    BY <1>2, <1>6 DEF WorkEnd, Opens
  <2>2. Output(q) = 0 /\ Taken(q, a) = g
    BY <1>2, <1>6 DEF Output, Taken
  <2>3. Young(b)
    BY <1>3, <1>4, <2>1 DEF Young
  <2>4. RunOnce(b) => f + 0 = b.made /\ s + g = b.issued
    BY <1>3, <1>4, <1>5, <2>1 DEF RunOnce
  <2> QED BY <2>1, <2>2, <2>3, <2>4 DEF Tallies
<1>7. CASE q.op = "finishWork"
  <2>1. /\ b.status \in {"BLOCKED_SHORTAGE", "COMPLETED"} /\ b.made = x
        /\ a.status \in {"IN_PROGRESS", "BLOCKED_SHORTAGE"} /\ b.ver = v + 1
    BY <1>2, <1>7 DEF WorkEnd, Opens, Opened
  <2>2. Output(q) = x /\ Taken(q, a) = -(IF a.kind = "kitting" THEN g ELSE o)
    BY <1>2, <1>7 DEF Output, Taken
  <2>3. Young(b)
    <3>1. ~(b.ver <= 2) /\ b.ver >= 1
      <4>1. CASE v <= 1
        BY <1>3, <1>4, <2>1, <4>1
      <4>2. CASE v > 1
        BY <1>3, <2>1, <4>2
      <4> QED BY <1>3, <4>1, <4>2
    <3> QED BY <2>1, <3>1 DEF Young
  <2>4. RunOnce(b) => f + x = b.made /\ s - (IF a.kind = "kitting" THEN g ELSE o) = 0
    <3>1. ASSUME RunOnce(b) PROVE v <= 2
      BY <1>3, <2>1, <3>1 DEF RunOnce
    <3>2. v <= 2 => f = 0 /\ a.status = "IN_PROGRESS" /\ s = o /\ (a.kind = "kitting" => o = g)
      BY <1>3, <1>4, <1>5, <2>1
    <3> QED BY <1>3, <2>1, <3>1, <3>2
  <2>5. s + -(IF a.kind = "kitting" THEN g ELSE o) = s - (IF a.kind = "kitting" THEN g ELSE o)
    BY <1>3
  <2> QED BY <2>1, <2>2, <2>3, <2>4, <2>5 DEF Tallies
<1>8. CASE q.op = "cancelWork"
  <2>1. /\ b.status = "CANCELLED" /\ b.made = m /\ b.scrapped = c /\ b.ver = v + 1
        /\ a.status \in {"IN_PROGRESS", "BLOCKED_SHORTAGE", "DRAFT"}
    BY <1>2, <1>8 DEF WorkEnd, Opens, Opened
  <2>2. PICK z : z = PutBack(a)
    OBVIOUS
  <2>3. z = IF a.kind = "kitting" THEN (IF a.status = "IN_PROGRESS" THEN g ELSE 0) ELSE o - m - c
    BY <1>2, <2>2 DEF PutBack
  <2>4. Output(q) = 0 /\ Taken(q, a) = -z
    BY <1>8, <2>2 DEF Output, Taken
  <2>5. Young(b)
    BY <1>3, <1>4, <2>1 DEF Young
  <2>6. RunOnce(b) => f + 0 = b.made /\ s + -z = 0
    <3>1. ASSUME RunOnce(b) PROVE v <= 2
      BY <1>3, <2>1, <3>1 DEF RunOnce
    <3>2. v <= 2 => f = m /\ s = z /\ z \in Int
      <4>1. CASE a.status = "IN_PROGRESS"
        BY <1>3, <1>4, <1>5, <2>1, <2>3, <4>1
      <4>2. CASE a.status # "IN_PROGRESS"
        BY <1>3, <1>4, <1>5, <2>1, <2>3, <4>2
      <4> QED BY <4>1, <4>2
    <3> QED BY <1>3, <2>1, <3>1, <3>2
  <2> QED BY <2>1, <2>4, <2>5, <2>6 DEF Tallies
<1> QED BY <1>6, <1>7, <1>8 DEF WorkOps

\* What a unit brings of prod to the place for work order i.
Brought(w, i, prod, at) ==
  IF w.calls.op \in WorkOps /\ w.calls.on = i THEN Weigh(w.new["ledger"], Working(i, prod, at)) ELSE 0

\* What a work order has at a place grows by what is brought there for it.
LEMMA WorkAfter ==
  ASSUME NEW w, NEW d, NEW n, Closing(w, d, n), NEW i, NEW prod, NEW at
  PROVE  /\ WorkBalance(View(w, d), i, prod, at) = WorkBalance(d, i, prod, at) + Brought(w, i, prod, at)
         /\ WorkBalance(d, i, prod, at) \in Int
<1>0. /\ Sound(d) /\ Local(w, d, n) /\ Told(w, d) /\ w.calls.op \in DOMAIN Program
      /\ Len(w.new["ledger"]) \in Rights(w.calls)["ledger"]
  BY ClosingFacts DEF Keyed
<1>1. /\ d["ledger"] \in Seq(Row["ledger"]) /\ w.new["ledger"] \in Seq(Row["ledger"])
      /\ View(w, d)["ledger"] \in Seq(Row["ledger"])
  BY <1>0, TableAfter
<1>2. PICK a, b, c, R, W, e : /\ a = d["ledger"] /\ b = w.new["ledger"] /\ c = View(w, d)["ledger"]
                              /\ R = Row.ledger /\ W = Working(i, prod, at) /\ e = View(w, d)
  OBVIOUS
<1>3. d["ledger"] \in Seq(Row.ledger) /\ e["ledger"] \in Seq(Row.ledger) /\ b \in Seq(R)
  BY <1>1, <1>2
<1>4. W \in [R -> Int] /\ WorkBalance(d, i, prod, at) = Weigh(a, W) /\ WorkBalance(e, i, prod, at) = Weigh(c, W)
  BY <1>2, <1>3, WorkBalanceWeighs
<1>5. Adding(a, b, c, W)
  <2>1. W \in [Row["ledger"] -> Int] /\ "ledger" \in {"ledger", "grns"}
    BY <1>2, <1>4
  <2> QED BY <1>2, <2>1, TableAdds
<1>6. Weigh(b, W) = Brought(w, i, prod, at)
  <2>1. CASE w.calls.op \in WorkOps /\ w.calls.on = i
    BY <1>2, <2>1 DEF Brought
  <2>2. CASE ~(w.calls.op \in WorkOps /\ w.calls.on = i)
    <3>1. Why(w, d) # <<"works", i>>
      BY <2>2 DEF Why
    <3>2. ASSUME NEW j \in 1..Len(b) PROVE W[b[j]] = 0
      <4>1. b[j] \in R
        BY ONLY <1>3, <3>2
      <4>2. PICK g : g = b[j] /\ g \in Row.ledger
        BY <1>2, <4>1
      <4>3. Working(i, prod, at)[g] = IF g.on = <<"works", i>> /\ g.prod = prod /\ g.at = at THEN g.qty ELSE 0
        BY <4>2 DEF Working
      <4>4. b[j].on = Why(w, d)
        BY <1>0, <1>2, <3>2 DEF Told
      <4> QED BY <1>2, <3>1, <4>2, <4>3, <4>4
    <3>3. Weigh(b, W) = 0
      BY ONLY <1>3, <1>4, <3>2, WeighZero
    <3> QED BY <2>2, <3>3 DEF Brought
  <2> QED BY <2>1, <2>2
<1> QED BY <1>2, <1>4, <1>5, <1>6 DEF Adding

\* The work order a as the unit leaves it, b: as it was, or staged, run or cancelled from
\* the one it saw, with the movements of that.
WorkLeft(w, a, b, i) ==
  \/ b = a /\ ~(w.calls.op \in WorkOps /\ w.calls.on = i)
  \/ /\ w.calls.op \in WorkOps /\ w.calls.on = i
     /\ b.ver = a.ver + 1 /\ WorkEnd(w.calls, a, b) /\ Opens(w.calls.op, a.status)
     /\ w.new["ledger"] = Movements(w.calls, <<"works", i>>, WorkMoves(w.calls, a))

\* A work order's command has three statements.
LEMMA WorkLength == \A op \in WorkOps : Len(Program[op]) = 3
<1>1. /\ Len(Program["stageWork"]) = 3 /\ Len(Program["finishWork"]) = 3
      /\ Len(Program["cancelWork"]) = 3
  BY DEF Program
<1> QED BY <1>1 DEF WorkOps

\* A COMMIT leaves a work order so.
LEMMA WorkIsLeft ==
  ASSUME NEW w, NEW d, NEW n, Closing(w, d, n), NEW i \in 1..Len(d["works"])
  PROVE  WorkLeft(w, d["works"][i], View(w, d)["works"][i], i)
<1>1. /\ Sound(d) /\ Local(w, d, n) /\ Typed(d) /\ Fit(w, d, n) /\ Told(w, d) /\ Changed(w, d)
      /\ Complete(w) /\ Noted(w, d)
  BY ClosingFacts
<1>2. PICK k, a, b : k = <<"works", i>> /\ a = d["works"][i] /\ b = View(w, d)["works"][i]
  OBVIOUS
<1>3. "works" \in Tables
  BY DEF Tables
<1>4. CASE k \notin DOMAIN w.set
  <2>1. b = a
    BY <1>1, <1>2, <1>3, <1>4, CommitRow
  <2>2. ~(w.calls.op \in WorkOps /\ w.calls.on = i)
    <3>1. w.calls.op \in WorkOps => Past(w, WorkOps, 3)
      BY <1>1, WorkLength DEF Complete, Past
    <3> QED BY <1>1, <1>2, <1>4, <3>1 DEF Told
  <2> QED BY <1>2, <2>1, <2>2 DEF WorkLeft
<1>5. CASE k \in DOMAIN w.set
  <2>1. b = w.set[k]
    BY <1>1, <1>2, <1>3, <1>5, CommitRow
  <2>2. Marks(w, a, b, "works", i)
    <3>1. k[1] = "works" /\ k[2] = i /\ k[1] \in {"orders", "pos", "works"}
      BY <1>2
    <3>2. Marks(w, d[k[1]][k[2]], w.set[k], k[1], k[2])
      BY <1>1, <1>5, <3>1 DEF Changed
    <3> QED BY <1>2, <2>1, <3>1, <3>2
  <2>3. /\ i = w.calls.on /\ a.ver = w.seen.ver /\ b.ver = a.ver + 1
        /\ w.calls.op \in {"stageWork", "finishWork", "cancelWork"} /\ WorkEnd(w.calls, a, b)
    BY <2>2 DEF Marks
  <2>4. Past(w, {"stageWork", "finishWork", "cancelWork"}, 1) /\ Past(w, WorkOps, 2)
    <3>1. w.calls.op \in WorkOps /\ w.calls.op \in {"stageWork", "finishWork", "cancelWork"}
      BY <2>3 DEF WorkOps
    <3>2. w.pc \in Nat /\ w.pc > 3
      BY <1>1, <3>1, WorkLength DEF Complete
    <3> QED BY <3>1, <3>2 DEF Past
  <2>5. /\ Saw(w, d.works)
        /\ w.calls.op = "finishWork" => w.seen.status \in Opened
        /\ w.calls.op = "stageWork" => w.seen.status = "DRAFT"
        /\ w.calls.op = "cancelWork" => w.seen.status \in Opened \cup {"DRAFT"}
    BY <1>1, <2>4 DEF Noted
  <2>6. a = w.seen
    BY <1>2, <2>3, <2>5 DEF Saw
  <2>7. Opens(w.calls.op, a.status)
    BY <2>5, <2>6 DEF Opens
  <2>8. w.new["ledger"] = Movements(w.calls, <<"works", w.calls.on>>, WorkMoves(w.calls, w.seen))
    BY <1>1, <2>4 DEF Told
  <2> QED BY <1>2, <2>3, <2>6, <2>7, <2>8 DEF WorkLeft, WorkOps
<1> QED BY <1>4, <1>5

\* A COMMIT leaves work orders and ledger matched.
LEMMA WorksKept ==
  ASSUME NEW w, NEW d, NEW n, Closing(w, d, n), Matched(d), w.calls \in Request
  PROVE  WorksMatch(View(w, d)) /\ \A i \in 1..Len(View(w, d).works) : Young(View(w, d).works[i])
<1>1. /\ Sound(d) /\ Local(w, d, n) /\ Typed(d) /\ Fit(w, d, n) /\ Written(w)
  BY ClosingFacts
<1>2. PICK e : e = View(w, d)
  OBVIOUS
<1>3. Len(e["works"]) = Len(d["works"]) /\ e["works"] \in Seq(Row["works"])
  <2>1. Reads(e["works"], w, d, "works")
    BY <1>1, <1>2, ViewRows DEF Tables
  <2>2. w.new["works"] = <<>>
    BY <1>1 DEF Written
  <2> QED BY <2>1, <2>2 DEF Reads
<1>4. \A i \in 1..Len(d["works"]) :
        Tallies(d["works"][i], WorkBalance(d, i, "F", "goods"), WorkBalance(d, i, "A", "shop"))
  BY DEF Matched, Matches, WorksMatch, Tallies
<1>5. ASSUME NEW i \in 1..Len(e["works"])
      PROVE  Tallies(e["works"][i], WorkBalance(e, i, "F", "goods"), WorkBalance(e, i, "A", "shop"))
  <2>1. i \in 1..Len(d["works"]) /\ i \in Nat
    BY <1>3, <1>5
  <2>2. PICK a, b, f, s : /\ a = d["works"][i] /\ b = e["works"][i]
                          /\ f = WorkBalance(d, i, "F", "goods") /\ s = WorkBalance(d, i, "A", "shop")
    OBVIOUS
  <2>3. a \in Row.works /\ b \in Row.works
    <3>1. PICK c, x, R : c = d["works"] /\ x = e["works"] /\ R = Row["works"]
      OBVIOUS
    <3>2. c \in Seq(R) /\ x \in Seq(R) /\ i \in 1..Len(c) /\ i \in 1..Len(x)
      BY <1>1, <1>3, <1>5, <2>1, <3>1 DEF Typed, Tables
    <3>3. c[i] \in R /\ x[i] \in R
      BY ONLY <3>2
    <3> QED BY <2>2, <3>1, <3>3
  <2>4. /\ WorkBalance(e, i, "F", "goods") = f + Brought(w, i, "F", "goods") /\ f \in Int
        /\ WorkBalance(e, i, "A", "shop") = s + Brought(w, i, "A", "shop") /\ s \in Int
    BY <1>2, <2>2, WorkAfter
  <2>5. Tallies(a, f, s)
    BY <1>4, <2>1, <2>2
  <2>6. WorkLeft(w, a, b, i)
    BY <1>2, <2>1, <2>2, WorkIsLeft
  <2>7. CASE b = a /\ ~(w.calls.op \in WorkOps /\ w.calls.on = i)
    <3>1. Brought(w, i, "F", "goods") = 0 /\ Brought(w, i, "A", "shop") = 0
      BY <2>7 DEF Brought
    <3>2. f + 0 = f /\ s + 0 = s
      BY <2>4
    <3> QED BY <2>2, <2>4, <2>5, <2>7, <3>1, <3>2
  <2>8. CASE ~(b = a /\ ~(w.calls.op \in WorkOps /\ w.calls.on = i))
    <3>1. /\ w.calls.op \in WorkOps /\ w.calls.on = i
          /\ b.ver = a.ver + 1 /\ WorkEnd(w.calls, a, b) /\ Opens(w.calls.op, a.status)
          /\ w.new["ledger"] = Movements(w.calls, <<"works", i>>, WorkMoves(w.calls, a))
      BY <2>6, <2>8 DEF WorkLeft
    <3>2. PICK q, l : q = w.calls /\ l = WorkMoves(q, a)
      OBVIOUS
    <3>3. Shares(l, "F", "goods", Output(q)) /\ Shares(l, "A", "shop", Taken(q, a))
      BY <2>3, <3>1, <3>2, WorkMovesShare
    <3>4. q.key \in STRING
      BY <3>2, RequestFacts
    <3>5. /\ Weigh(Movements(q, <<"works", i>>, l), Working(i, "F", "goods")) = Output(q)
          /\ Weigh(Movements(q, <<"works", i>>, l), Working(i, "A", "shop")) = Taken(q, a)
      BY ONLY <2>1, <3>3, <3>4, WorkingShares
    <3>6. Brought(w, i, "F", "goods") = Output(q) /\ Brought(w, i, "A", "shop") = Taken(q, a)
      BY <3>1, <3>2, <3>5 DEF Brought
    <3>7. /\ q \in Request /\ q.op \in WorkOps /\ a \in Row.works /\ b \in Row.works
          /\ b.ver = a.ver + 1 /\ WorkEnd(q, a, b) /\ Opens(q.op, a.status)
          /\ f \in Int /\ s \in Int /\ Tallies(a, f, s)
      BY <2>3, <2>4, <2>5, <3>1, <3>2
    <3>8. Tallies(b, f + Output(q), s + Taken(q, a))
      BY ONLY <3>7, TalliesStill
    <3> QED BY <2>2, <2>4, <3>6, <3>8
  <2> QED BY <2>7, <2>8
<1>6. WorksMatch(e) /\ \A i \in 1..Len(e.works) : Young(e.works[i])
  BY <1>5 DEF WorksMatch, Tallies
<1> QED BY <1>2, <1>6

-----------------------------------------------------------------------------
\* Holds after a COMMIT.

\* One more hold stands for the quote that is converted.
Stands(w, i) == IF w.calls.op = "convert" /\ w.calls.on = i THEN 1 ELSE 0

\* How many holds stand for one of this status.
Became(status) == IF status = "CONVERTED" THEN 1 ELSE 0

\* A hold that was there names what it did, and is converted when a hold stands for it.
LEMMA HoldIsLeft ==
  ASSUME NEW w, NEW d, NEW n, Closing(w, d, n), NEW i \in 1..Len(d["holds"])
  PROVE  /\ Over(w, d, "holds")[i].from = d["holds"][i].from
         /\ Became(Over(w, d, "holds")[i].status) = Became(d["holds"][i].status) + Stands(w, i)
<1>1. Typed(d) /\ Fit(w, d, n) /\ Changed(w, d) /\ Complete(w) /\ Holding(w, d)
  BY ClosingFacts
<1>2. PICK k, h, o : k = <<"holds", i>> /\ h = d["holds"][i] /\ o = Over(w, d, "holds")[i]
  OBVIOUS
<1>3. KeptOrEnded(w, h, o, i)
  BY <1>1, <1>2, HoldAfter
<1>4. CASE k \notin DOMAIN w.set
  <2>1. o = h
    BY <1>2, <1>3, <1>4 DEF KeptOrEnded
  <2>2. Stands(w, i) = 0
    <3>1. w.calls.op = "convert" => Past(w, {"convert"}, 3)
      BY <1>1 DEF Complete, Past, Program
    <3> QED BY <1>1, <1>2, <1>4, <3>1 DEF Holding, Stands
  <2>3. Became(h.status) + 0 = Became(h.status)
    BY DEF Became
  <2> QED BY <1>2, <2>1, <2>2, <2>3
<1>5. CASE k \in DOMAIN w.set
  <2>1. /\ EndsHold(w, h, o, i) /\ o.status = Ended(w.calls.op) /\ h.status = "ACTIVE" /\ o.from = h.from
    BY <1>2, <1>3, <1>5 DEF KeptOrEnded
  <2>2. w.calls.op \in {"release", "convert", "expire"} /\ (w.calls.op # "expire" => i = w.calls.on)
    BY <2>1 DEF EndsHold
  <2>3. Became(o.status) = Stands(w, i) /\ Became(h.status) = 0 /\ Stands(w, i) \in Nat
    BY <2>1, <2>2 DEF Became, Stands, Ended
  <2> QED BY <1>2, <2>1, <2>3
<1> QED BY <1>4, <1>5

\* The holds a unit adds, none or one: it is active, and stands for the quote that is
\* converted or for none.
LEMMA HoldIsNew ==
  ASSUME NEW w, NEW d, NEW n, Closing(w, d, n)
  PROVE  \/ w.new["holds"] = <<>> /\ w.calls.op # "convert"
         \/ /\ Len(w.new["holds"]) = 1 /\ w.new["holds"][1].status = "ACTIVE"
            /\ IF w.calls.op = "convert"
               THEN w.new["holds"][1].from = w.calls.on /\ w.calls.on \in 1..Len(d["holds"])
               ELSE w.new["holds"][1].from = 0
<1>1. /\ Typed(d) /\ Fit(w, d, n) /\ Written(w) /\ Complete(w) /\ Holding(w, d) /\ Noted(w, d)
      /\ Len(w.new["holds"]) \in Rights(w.calls)["holds"]
  BY ClosingFacts DEF Keyed
<1>2. CASE w.calls.op \notin {"hold", "convert"}
  BY <1>1, <1>2, NoNewHolds
<1>3. CASE w.calls.op \in {"hold", "convert"}
  <2>1. Rights(w.calls)["holds"] = {1}
    BY <1>3 DEF Rights, Keyed
  <2>2. Len(w.new["holds"]) = 1
    BY <1>1, <2>1
  <2>3. CASE w.calls.op = "hold"
    BY <1>1, <2>2, <2>3 DEF Holding
  <2>4. CASE w.calls.op = "convert"
    <3>1. Past(w, {"release", "convert"}, 1)
      BY <1>1, <2>4 DEF Complete, Past, Program
    <3>2. w.calls.on \in 1..Len(d["holds"])
      BY <1>1, <3>1 DEF Noted, Saw
    <3> QED BY <1>1, <2>2, <2>4, <3>2 DEF Holding
  <2> QED BY <1>3, <2>3, <2>4
<1> QED BY <1>2, <1>3

\* The holds that stand for one grow by the one that it is converted into.
LEMMA StandingAfter ==
  ASSUME NEW w, NEW d, NEW n, Closing(w, d, n), NEW i \in Nat \ {0}
  PROVE  /\ Weigh(View(w, d)["holds"], Standing(i)) = Weigh(d["holds"], Standing(i)) + Stands(w, i)
         /\ Weigh(d["holds"], Standing(i)) \in Int
<1>1. Sound(d) /\ Local(w, d, n)
  BY ClosingFacts
<1>2. PICK c, o, x, e, R, W : /\ c = d["holds"] /\ o = Over(w, d, "holds") /\ x = w.new["holds"]
                              /\ e = View(w, d)["holds"] /\ R = Row.holds /\ W = Standing(i)
  OBVIOUS
<1>3. /\ e = o \o x /\ o \in Seq(R) /\ x \in Seq(R) /\ c \in Seq(R) /\ Len(o) = Len(c)
  BY <1>1, <1>2, HoldsAfter
<1>4. W \in [R -> Int]
  <2>1. c \in Seq(Row.holds)
    BY <1>2, <1>3
  <2> QED BY <1>2, <2>1, StandingWeighs
<1>5. \A h \in R : W[h] = IF h.from = i THEN 1 ELSE 0
  BY <1>2 DEF Standing
<1>6. Weigh(o, W) = Weigh(c, W)
  <2>1. ASSUME NEW j \in 1..Len(c) PROVE W[o[j]] = W[c[j]]
    <3>1. o[j] \in R /\ c[j] \in R
      BY ONLY <1>3, <2>1
    <3>2. o[j].from = c[j].from
      BY <1>2, <2>1, HoldIsLeft
    <3> QED BY <1>5, <3>1, <3>2
  <2> QED BY ONLY <1>3, <2>1, WeighSame
<1>7. Weigh(o \o x, W) = Weigh(o, W) + Weigh(x, W)
  BY ONLY <1>3, <1>4, WeighJoin
<1>8. Weigh(x, W) = Stands(w, i)
  <2>1. CASE x = <<>> /\ w.calls.op # "convert"
    <3>1. \A j \in 1..Len(x) : W[x[j]] = 0
      BY <2>1
    <3>2. Weigh(x, W) = 0
      BY ONLY <1>3, <1>4, <3>1, WeighZero
    <3> QED BY <2>1, <3>2 DEF Stands
  <2>2. CASE ~(x = <<>> /\ w.calls.op # "convert")
    <3>1. /\ Len(x) = 1
          /\ IF w.calls.op = "convert" THEN x[1].from = w.calls.on ELSE x[1].from = 0
      BY <1>2, <2>2, HoldIsNew
    <3>2. x[1] \in R
      <4>1. 1 \in 1..Len(x)
        BY <3>1
      <4> QED BY ONLY <1>3, <4>1
    <3>3. W[x[1]] = Stands(w, i)
      BY <1>5, <3>1, <3>2 DEF Stands
    <3> QED BY ONLY <1>3, <1>4, <3>1, <3>3, WeighRows
  <2> QED BY <2>1, <2>2
<1>9. Weigh(c, W) \in Int
  BY ONLY <1>3, <1>4, WeighType
<1> QED BY <1>2, <1>3, <1>6, <1>7, <1>8, <1>9

\* A hold that is new stands for none, and none for it.
LEMMA NewHold ==
  ASSUME NEW w, NEW d, NEW n, Closing(w, d, n),
         \A i \in 1..Len(d.holds) : d.holds[i].from \in 0..Len(d.holds)
  PROVE  Weigh(d["holds"], Standing(Len(d["holds"]) + 1)) = 0
<1>1. Sound(d) /\ Local(w, d, n)
  BY ClosingFacts
<1>2. PICK c, R, i, W : c = d["holds"] /\ R = Row.holds /\ i = Len(d["holds"]) + 1 /\ W = Standing(i)
  OBVIOUS
<1>3. c \in Seq(R) /\ Len(c) \in Nat /\ d["holds"] \in Seq(Row.holds)
  BY <1>1, <1>2, HoldsAfter
<1>4. W \in [R -> Int]
  BY <1>2, <1>3, StandingWeighs
<1>5. ASSUME NEW j \in 1..Len(c) PROVE W[c[j]] = 0
  <2>1. c[j] \in R
    BY ONLY <1>3, <1>5
  <2>2. c[j].from \in 0..Len(c) /\ i = Len(c) + 1
    BY <1>2, <1>5
  <2>3. c[j].from # i
    BY ONLY <1>3, <2>2
  <2>4. \A h \in R : W[h] = IF h.from = i THEN 1 ELSE 0
    BY <1>2 DEF Standing
  <2> QED BY <2>1, <2>3, <2>4
<1>6. Weigh(c, W) = 0
  BY ONLY <1>3, <1>4, <1>5, WeighZero
<1> QED BY <1>2, <1>6

\* A COMMIT leaves holds matched.
LEMMA HoldsMatched ==
  ASSUME NEW w, NEW d, NEW n, Closing(w, d, n), Matched(d)
  PROVE  /\ HoldsMatch(View(w, d))
         /\ \A i \in 1..Len(View(w, d).holds) : View(w, d).holds[i].from \in 0..Len(View(w, d).holds)
<1>1. Sound(d) /\ Local(w, d, n)
  BY ClosingFacts
<1>2. PICK c, o, x, e, R : /\ c = d["holds"] /\ o = Over(w, d, "holds") /\ x = w.new["holds"]
                           /\ e = View(w, d)["holds"] /\ R = Row.holds
  OBVIOUS
<1>3. /\ e = o \o x /\ o \in Seq(R) /\ x \in Seq(R) /\ c \in Seq(R) /\ Len(o) = Len(c)
      /\ Len(c) \in Nat /\ Len(x) \in Nat
  BY <1>1, <1>2, HoldsAfter
<1>4. /\ e \in Seq(R) /\ Len(e) = Len(o) + Len(x)
      /\ \A i \in 1..Len(o) : i \in 1..Len(e) /\ e[i] = o[i]
      /\ \A i \in 1..Len(x) : e[Len(o) + i] = x[i]
  <2>1. o \in Seq(R) /\ x \in Seq(R)
    BY <1>3
  <2>2. e = o \o x
    BY <1>3
  <2>3. /\ e \in Seq(R) /\ Len(e) = Len(o) + Len(x) /\ Len(x) \in Nat
        /\ \A i \in 1..Len(o) : i \in 1..Len(e) /\ e[i] = o[i]
        /\ \A i \in 1..Len(x) : e[Len(o) + i] = x[i]
    BY ONLY <2>1, <2>2, Joined
  <2> QED BY <2>3
<1>5. e \in Seq(Row.holds) /\ c \in Seq(Row.holds)
  BY <1>2, <1>3, <1>4
<1>6. /\ \A i \in 1..Len(c) : HowMany(c, LAMBDA h : h.from = i) = Became(c[i].status)
      /\ \A i \in 1..Len(c) : c[i].from \in 0..Len(c)
  BY <1>2 DEF Matched, Matches, HoldsMatch, Became
<1>7. ASSUME NEW i \in 1..Len(e)
      PROVE  Weigh(e, Standing(i)) = Became(e[i].status) /\ e[i].from \in 0..Len(e)
  <2>0. i \in Nat \ {0}
    BY <1>3, <1>4
  <2>1. Weigh(e, Standing(i)) = Weigh(c, Standing(i)) + Stands(w, i) /\ Weigh(c, Standing(i)) \in Int
    BY <1>2, <2>0, StandingAfter
  <2>2. CASE i \in 1..Len(c)
    <3>1. o[i].from = c[i].from /\ Became(o[i].status) = Became(c[i].status) + Stands(w, i)
      BY <1>2, <2>2, HoldIsLeft
    <3>2. Weigh(c, Standing(i)) = HowMany(c, LAMBDA h : h.from = i)
      BY <1>5, StandingWeighs
    <3>3. Weigh(c, Standing(i)) = Became(c[i].status)
      BY <1>6, <2>2, <3>2
    <3>4. e[i] = o[i]
      BY <1>3, <1>4, <2>2
    <3>5. e[i].from \in 0..Len(e)
      <4>1. e[i].from \in 0..Len(c)
        BY <1>6, <2>2, <3>1, <3>4
      <4> QED BY <1>3, <1>4, <4>1
    <3> QED BY <2>1, <3>1, <3>3, <3>4, <3>5
  <2>3. CASE i \notin 1..Len(c)
    <3>0. PICK m, k : m = Len(c) /\ k = Len(x)
      OBVIOUS
    <3>1. i \in 1..(m + k) /\ i \notin 1..m /\ m \in Nat /\ k \in Nat
      BY <1>3, <1>4, <2>3, <3>0
    <3>2. k # 0
      BY ONLY <3>1
    <3>3. x # <<>>
      BY <3>0, <3>2
    <3>4. /\ Len(x) = 1 /\ x[1].status = "ACTIVE"
          /\ IF w.calls.op = "convert" THEN x[1].from = w.calls.on /\ w.calls.on \in 1..Len(c)
             ELSE x[1].from = 0
      BY <1>2, <3>3, HoldIsNew
    <3>5. i = m + 1
      <4>1. k = 1
        BY <3>0, <3>4
      <4> QED BY ONLY <3>1, <4>1
    <3>6. e[i] = x[1]
      BY <1>3, <1>4, <3>0, <3>4, <3>5
    <3>7. Weigh(c, Standing(i)) = 0
      <4>1. \A j \in 1..Len(d.holds) : d.holds[j].from \in 0..Len(d.holds)
        BY DEF Matched
      <4>2. Weigh(d["holds"], Standing(Len(d["holds"]) + 1)) = 0
        BY ONLY Closing(w, d, n), <4>1, NewHold
      <4> QED BY <1>2, <3>0, <3>5, <4>2
    <3>8. Stands(w, i) = 0
      <4>1. w.calls.op = "convert" => w.calls.on \in 1..m
        BY <3>0, <3>4
      <4>2. w.calls.op = "convert" => w.calls.on # i
        BY <3>1, <4>1
      <4> QED BY <4>2 DEF Stands
    <3>9. Became(e[i].status) = 0
      BY <3>4, <3>6 DEF Became
    <3>10. e[i].from \in 0..Len(e)
      <4>1. e[i].from \in 0..m
        BY <3>0, <3>1, <3>4, <3>6
      <4>2. Len(e) = m + 1
        BY <1>3, <1>4, <3>0, <3>4
      <4> QED BY <3>1, <4>1, <4>2
    <3> QED BY <2>1, <3>7, <3>8, <3>9, <3>10
  <2> QED BY <2>2, <2>3
<1>8. PICK v : v = View(w, d)
  OBVIOUS
<1>9. \A i \in 1..Len(v.holds) : HowMany(v.holds, LAMBDA h : h.from = i) = Became(v.holds[i].status)
  <2>1. \A i \in 1..Len(e) : HowMany(e, LAMBDA h : h.from = i) = Weigh(e, Standing(i))
    BY <1>5, StandingWeighs
  <2> QED BY <1>2, <1>7, <1>8, <2>1
<1>10. HoldsMatch(v)
  BY <1>9 DEF HoldsMatch, Became
<1> QED BY <1>2, <1>7, <1>8, <1>10

-----------------------------------------------------------------------------
\* A COMMIT keeps documents and ledger matched.

\* A movement that is made for a sales order names one that is there.
LEMMA NamesOrder ==
  ASSUME NEW w, NEW d, NEW n, Closing(w, d, n), Why(w, d)[1] = "orders"
  PROVE  Why(w, d)[2] \in 1..Len(View(w, d)["orders"])
<1>1. /\ Sound(d) /\ Local(w, d, n) /\ Typed(d) /\ Fit(w, d, n) /\ Noted(w, d) /\ Complete(w)
      /\ Len(w.new["orders"]) \in Rights(w.calls)["orders"]
  BY ClosingFacts DEF Keyed
<1>2. Reads(View(w, d)["orders"], w, d, "orders")
  BY <1>1, ViewRows DEF Tables
<1>3. PICK x, m, k : x = Len(View(w, d)["orders"]) /\ m = Len(d["orders"]) /\ k = Len(w.new["orders"])
  OBVIOUS
<1>4. m \in Nat /\ k \in Nat /\ x = m + k
  BY <1>2, <1>3 DEF Reads
<1>5. w.calls.op \in {"complete", "sale"}
  BY DEF Why
<1>6. CASE w.calls.op = "complete"
  <2>1. Past(w, {"confirm", "complete", "completeOnly", "cancel"}, 1)
    BY <1>1, <1>6 DEF Complete, Past, Program
  <2>2. w.calls.on \in 1..m
    BY <1>1, <1>3, <2>1 DEF Noted, Saw
  <2>3. w.calls.on \in 1..x
    BY ONLY <1>4, <2>2
  <2> QED BY <1>3, <1>6, <2>3 DEF Why
<1>7. CASE w.calls.op = "sale"
  <2>1. Rights(w.calls)["orders"] = {1}
    BY <1>7 DEF Rights, Keyed
  <2>2. k = 1
    BY <1>1, <1>3, <2>1
  <2>3. m + 1 \in 1..x
    BY ONLY <1>4, <2>2
  <2> QED BY <1>3, <1>7, <2>3 DEF Why
<1> QED BY <1>5, <1>6, <1>7

\* Movements name the sales orders that are there.
LEMMA LedgerNames ==
  ASSUME NEW w, NEW d, NEW n, Closing(w, d, n),
         \A k \in 1..Len(d.ledger) :
           d.ledger[k].on[1] = "orders" => d.ledger[k].on[2] \in 1..Len(d.orders)
  PROVE  \A k \in 1..Len(View(w, d).ledger) :
           View(w, d).ledger[k].on[1] = "orders" =>
             View(w, d).ledger[k].on[2] \in 1..Len(View(w, d).orders)
<1>1. Sound(d) /\ Local(w, d, n) /\ Told(w, d)
  BY ClosingFacts
<1>2. PICK c, x, e, R, v : /\ c = d["ledger"] /\ x = w.new["ledger"] /\ e = View(w, d)["ledger"]
                           /\ R = Row["ledger"] /\ v = View(w, d)["orders"]
  OBVIOUS
<1>3. c \in Seq(R) /\ x \in Seq(R) /\ e = c \o x
  BY <1>1, <1>2, TableAfter
<1>4. /\ e \in Seq(R) /\ Len(e) = Len(c) + Len(x) /\ Len(x) \in Nat
      /\ \A i \in 1..Len(c) : i \in 1..Len(e) /\ e[i] = c[i]
      /\ \A i \in 1..Len(x) : e[Len(c) + i] = x[i]
  <2>1. c \in Seq(R) /\ x \in Seq(R)
    BY <1>3
  <2>2. e = c \o x
    BY <1>3
  <2> QED BY ONLY <2>1, <2>2, Joined
<1>5. PICK m, k : m = Len(d["orders"]) /\ k = Len(v)
  OBVIOUS
<1>6. m \in Nat /\ k \in Nat /\ m <= k
  BY <1>1, <1>2, <1>5, CommitTyped DEF Tables
<1>7. ASSUME NEW i \in 1..Len(e), e[i].on[1] = "orders" PROVE e[i].on[2] \in 1..k
  <2>1. CASE i \in 1..Len(c)
    <3>1. e[i].on[2] \in 1..m
      BY <1>2, <1>4, <1>5, <1>7, <2>1
    <3> QED BY <1>6, <3>1
  <2>2. CASE i \notin 1..Len(c)
    <3>1. PICK a, b : a = Len(c) /\ b = Len(x)
      OBVIOUS
    <3>2. a \in Nat /\ b \in Nat /\ i \in 1..(a + b) /\ i \notin 1..a
      BY <1>3, <1>4, <2>2, <3>1
    <3>3. PICK j : j = i - a
      OBVIOUS
    <3>4. j \in 1..b /\ i = a + j
      BY ONLY <3>2, <3>3
    <3>5. e[i] = x[j]
      BY <1>4, <3>1, <3>4
    <3>6. x[j].on = Why(w, d)
      BY <1>1, <1>2, <3>1, <3>4 DEF Told
    <3>7. Why(w, d)[1] = "orders"
      BY <1>7, <3>5, <3>6
    <3>8. Why(w, d)[2] \in 1..Len(View(w, d)["orders"])
      BY <3>7, NamesOrder
    <3> QED BY <1>2, <1>5, <3>5, <3>6, <3>8
  <2> QED BY <2>1, <2>2
<1> QED BY <1>2, <1>5, <1>7

\* A COMMIT leaves documents and ledger that match.
LEMMA CommitMatched ==
  ASSUME NEW w, NEW d, NEW n, Closing(w, d, n), Matched(d), w.calls \in Request
  PROVE  Matched(View(w, d))
<1>1. w.calls.qty \in Int
  BY RequestFacts
<1>2. PICK e : e = View(w, d)
  OBVIOUS
<1>3. OrdersMatch(e)
  BY <1>2, OrdersKept
<1>4. PurchasesMatch(e)
  BY <1>1, <1>2, PurchasesKept
<1>5. WorksMatch(e) /\ \A i \in 1..Len(e.works) : Young(e.works[i])
  BY <1>2, WorksKept
<1>6. HoldsMatch(e) /\ \A i \in 1..Len(e.holds) : e.holds[i].from \in 0..Len(e.holds)
  BY <1>2, HoldsMatched
<1>7. \A k \in 1..Len(e.ledger) :
        e.ledger[k].on[1] = "orders" => e.ledger[k].on[2] \in 1..Len(e.orders)
  <2>1. \A k \in 1..Len(d.ledger) :
          d.ledger[k].on[1] = "orders" => d.ledger[k].on[2] \in 1..Len(d.orders)
    BY DEF Matched
  <2> QED BY <1>2, <2>1, LedgerNames
<1> QED BY <1>2, <1>3, <1>4, <1>5, <1>6, <1>7 DEF Matched, Matches

\* Every step keeps documents and ledger matched.
LEMMA MatchedStep ==
  ASSUME IInv, HoldsKept, ToldAll, Matched(db), [Next]_store
  PROVE  Matched(db)'
<1>1. CASE \E p \in Processes : Ends(p) /\ ~Stored(unit[p].calls)
  <2>1. PICK p \in Processes : Ends(p) /\ ~Stored(unit[p].calls)
    BY <1>1
  <2>2. PICK w : w = unit[p]
    OBVIOUS
  <2>3. Closing(w, db, now) /\ w.calls \in Request
    BY <2>1, <2>2, EndsFinished DEF Closing, ToldAll
  <2>4. Matched(View(w, db))
    BY ONLY <2>3, Matched(db), CommitMatched
  <2>5. db' = View(w, db)
    <3>1. Commit(p)
      BY <2>1 DEF Ends
    <3> QED BY <2>1, <2>2, <3>1, CommitInOrder DEF IInv
  <2> QED BY <2>4, <2>5
<1>2. CASE \A p \in Processes : Ends(p) => Stored(unit[p].calls)
  <2>1. db' = db
    BY <1>2, QuietInOrder DEF IInv
  <2> QED BY <2>1
<1> QED BY <1>1, <1>2

\* A scene opens on documents that match the ledger.
LEMMA MatchedBegin == ASSUME StoreInit PROVE Matched(db)
<1>1. PICK s \in Scenarios : db = s.db
  BY DEF StoreInit
<1> QED BY <1>1, ScenarioAssumption

-----------------------------------------------------------------------------
\* Documents and ledger tell one story, whatever requests run side by side, are re-run,
\* cut off or sent again: orders, purchase orders, work orders and converted holds.
THEOREM DocumentsAlwaysMatch == Spec => []DocumentsMatchLedger
<1>1. StoreInit => IInv /\ HoldsKept /\ ToldAll /\ Matched(db)
  BY InvInit, HoldsBegin, ToldBegin, MatchedBegin
<1>2. /\ IInv /\ HoldsKept /\ ToldAll /\ Matched(db) /\ [Next]_store
      => (IInv /\ HoldsKept /\ ToldAll /\ Matched(db))'
  BY InvStep, HoldsStep, ToldStep, MatchedStep
<1>3. Spec => [](IInv /\ HoldsKept /\ ToldAll /\ Matched(db))
  BY <1>1, <1>2, PTL DEF Spec
<1>4. IInv /\ HoldsKept /\ ToldAll /\ Matched(db) => DocumentsMatchLedger
  BY DEF Matched, DocumentsMatchLedger
<1> QED BY <1>3, <1>4, PTL
=============================================================================
