---------------------------- MODULE SupplyChain -----------------------------
(***************************************************************************)
(* The supply-chain service: its commands as programs of statements, run   *)
(* by several processes against one database for callers that resend a     *)
(* request under its key when no answer came.                              *)
(***************************************************************************)
EXTENDS ScmWorkOrders

\* The statements of each command between the receipt look-up and COMMIT.  COMPLETE is
\* two commands: complete asks for the stock to be issued, completeOnly does not.
Program ==
  [move     |-> <<"move">>,
   confirm  |-> <<"readOrder", "closeOrder">>,
   complete |-> <<"readOrder", "issueOrder", "closeOrder">>,
   completeOnly |-> <<"readOrder", "closeOrder">>,
   cancel   |-> <<"readOrder", "closeOrder">>,
   sale     |-> <<"insertSale", "issueSale", "paySale">>,
   pay      |-> <<"readPayable", "recordPayment">>,
   refund   |-> <<"readPayable", "recordPayment">>,
   verify   |-> <<"readPayment", "ceiling", "settlePayment">>,
   reject   |-> <<"readPayment", "settlePayment">>,
   hold     |-> <<"askPromise", "placeHold">>,
   release  |-> <<"readHold", "releaseHold">>,
   convert  |-> <<"readHold", "placeCommitted", "convertHold">>,
   expire   |-> <<"readDue", "stampDue">>,
   preview  |-> <<"preview">>,
   count    |-> <<"settleCount">>,
   receive  |-> <<"readPurchase", "insertReceipt", "stockReceipt", "closePurchase">>,
   withdraw |-> <<"readPurchase", "closePurchase">>,
   short    |-> <<"readPurchase", "closePurchase">>,
   stageWork  |-> <<"readWork", "moveWork", "closeWork">>,
   finishWork |-> <<"readWork", "moveWork", "closeWork">>,
   cancelWork |-> <<"readWork", "moveWork", "closeWork">>]

Steps(p) == Program[Call(p).op]

At(p, statement) ==
  unit[p].run > 0 /\ unit[p].pc \in 1..Len(Steps(p)) /\ Steps(p)[unit[p].pc] = statement

Ends(p) == unit[p].run > 0 /\ unit[p].pc > Len(Steps(p)) /\ Commit(p)

InventoryStatement(p) ==
  \/ At(p, "move") /\ Move(p, <<"move", 0>>, <<<<"A", Call(p).qty, "none">>>>)
  \/ At(p, "askPromise") /\ AskPromise(p)
  \/ At(p, "placeHold") /\ PlaceHold(p)
  \/ At(p, "readHold") /\ ReadHold(p)
  \/ At(p, "releaseHold") /\ EndHold(p, "RELEASED")
  \/ At(p, "placeCommitted") /\ PlaceCommitted(p)
  \/ At(p, "convertHold") /\ EndHold(p, "CONVERTED")
  \/ At(p, "readDue") /\ ReadDue(p)
  \/ At(p, "stampDue") /\ StampDue(p)
  \/ At(p, "preview") /\ Preview(p)
  \/ At(p, "settleCount") /\ SettleCount(p)

CommerceStatement(p) ==
  \/ At(p, "readOrder") /\ ReadOrder(p)
  \/ At(p, "issueOrder") /\ IssueOrder(p)
  \/ At(p, "closeOrder") /\ CloseOrder(p)
  \/ At(p, "insertSale") /\ InsertSale(p)
  \/ At(p, "issueSale") /\ IssueSale(p)
  \/ At(p, "paySale") /\ InsertSalePayment(p)
  \/ At(p, "readPayable") /\ ReadPayable(p)
  \/ At(p, "recordPayment") /\ RecordPayment(p)
  \/ At(p, "readPayment") /\ ReadPayment(p)
  \/ At(p, "ceiling") /\ CeilingOfRefund(p)
  \/ At(p, "settlePayment") /\ SettlePayment(p)

DocumentStatement(p) ==
  \/ At(p, "readPurchase") /\ ReadPurchase(p)
  \/ At(p, "insertReceipt") /\ InsertReceipt(p)
  \/ At(p, "stockReceipt") /\ StockReceipt(p)
  \/ At(p, "closePurchase") /\ ClosePurchase(p)
  \/ At(p, "readWork") /\ ReadWork(p)
  \/ At(p, "moveWork") /\ MoveWork(p)
  \/ At(p, "closeWork") /\ CloseWork(p)

Next ==
  \/ \E p \in Processes :
       \/ \E q \in scene.calls : Send(p, q)
       \/ Look(p)
       \/ InventoryStatement(p)
       \/ CommerceStatement(p)
       \/ DocumentStatement(p)
       \/ Ends(p)
       \/ Fail(p)
  \/ Tick

Spec == StoreInit /\ [][Next]_store

-----------------------------------------------------------------------------
\* What a movement is made for, and where.
Origins == {"move", "orders", "pos", "works", "counts"}
Sites   == {"none", "raw", "shop", "goods"}

\* What the rows of each table hold.  The quantity of a sales order is what its lines
\* count in stock, none when no line has a tracked product.  A work order stages at least one piece, and has
\* issued some once it is opened.
Row ==
  [ledger |-> [by : STRING, on : Origins \X Nat, prod : {"A", "F"}, qty : Int, at : Sites],
   fence  |-> [ver : Nat],
   orders |-> [by : STRING, status : {"DRAFT", "CONFIRMED", "COMPLETED", "CANCELLED"},
               ver : Nat, qty : Nat, issued : BOOLEAN],
   pays   |-> [by : STRING, order : Nat, kind : {"PAYMENT", "REFUND"}, qty : Nat,
               status : {"PENDING", "VERIFIED", "REJECTED"}, ver : Nat],
   holds  |-> [by : STRING, purpose : {"QUOTE", "ORDER"}, qty : Nat,
               status : {"ACTIVE", "RELEASED", "CONVERTED", "EXPIRED"}, ver : Nat,
               exp : Nat, from : Nat],
   counts |-> [by : STRING, status : {"PREVIEWED", "COMMITTED"}, ver : Nat, rev : Nat,
               expected : Int, counted : Nat],
   pos    |-> [by : STRING, status : {"DRAFT", "SENT", "RECEIVED", "CANCELLED", "SHORT_CLOSED"},
               ver : Nat, qty : Nat, got : Int],
   grns   |-> [by : STRING, on : Nat, qty : Nat],
   works  |-> {w \in [by : STRING, kind : {"kitting", "customization"},
                      status : {"DRAFT", "IN_PROGRESS", "BLOCKED_SHORTAGE", "COMPLETED", "CANCELLED"},
                      ver : Nat, planned : Nat, gross : Nat \ {0}, issued : Nat, made : Nat,
                      scrapped : Nat] : w.status \in Opened => w.issued > 0}]

Typed(d) == DOMAIN d = Tables /\ (\A t \in Tables : d[t] \in Seq(Row[t])) /\ Len(d.fence) = 1

TypeOK ==
  /\ Typed(db)
  /\ receipt \in [DOMAIN receipt -> scene.calls]
  /\ told \in [scene.calls -> {"NONE", "DONE", "REFUSED"}]
  /\ sent \in [scene.calls -> 0..MaxCalls]
  /\ \A p \in Processes :
       /\ unit[p].run \in 0..MaxAttempts /\ unit[p].pc \in Nat /\ unit[p].at \in 0..now
       /\ \A t \in Tables : unit[p].new[t] \in Seq(Row[t])
       /\ \A k \in DOMAIN unit[p].set : k \in Tables \X Nat /\ unit[p].set[k] \in Row[k[1]]
  /\ now \in 0..scene.until

\* No product's ledger sums to less than nothing.
Covers(d) == \A x \in {"A", "F"} : OnHand(d.ledger, x) >= 0

\* Stock that is not there never leaves: whatever sales, fulfilments, kits and
\* counts run side by side, no product's ledger sums to less than nothing.
StockNeverNegative == Covers(db)

\* The tables whose rows name the request that wrote them.
Keyed == {"ledger", "orders", "pays", "holds", "grns"}

Of(t, key) == HowMany(db[t], LAMBDA row : row.by = key)

\* What the committed outcome of a request consists of.
Rights(q) ==
  [t \in Keyed |->
     CASE t = "ledger" /\ q.op \in {"move", "receive"} -> {1}
       [] t = "ledger" /\ q.op = "sale" -> {IF q.qty > 0 THEN 1 ELSE 0}
       [] t = "ledger" /\ q.op = "finishWork" -> 1..6
       [] t = "ledger" /\ q.op \in {"stageWork", "cancelWork"} -> {0, 2}
       [] t = "ledger" /\ q.op \in {"complete", "count"} -> {0, 1}
       [] t = "orders" /\ q.op = "sale"     -> {1}
       [] t = "pays"   /\ q.op \in {"sale", "pay", "refund"} -> {1}
       [] t = "holds"  /\ q.op \in {"hold", "convert"} -> {1}
       [] t = "grns"   /\ q.op = "receive"  -> {1}
       [] OTHER -> {0}]

\* A key has its whole effect once or no effect: whatever copies of a request ran,
\* were refused, re-run, cut off or answered, its movements, documents, payments
\* and holds are there exactly when its receipt is.
OnceOrNotAtAll ==
  \A q \in scene.calls : \A t \in Keyed :
    Of(t, q.key) \in (IF Stored(q) THEN Rights(receipt[q.key])[t] ELSE {0})

\* A caller is told its request is done only when the committed receipt of its key
\* names that request: not one that was cut off, nor another under the same key.
DoneIsStored ==
  \A q \in scene.calls : told[q] = "DONE" => Stored(q) /\ receipt[q.key] = q

\* The outcome stored under a key stands: no later copy, and no other request that
\* was given the same key while the first still ran, replaces it.
StoredStands ==
  [][\A k \in DOMAIN receipt : k \in DOMAIN receipt' /\ receipt'[k] = receipt[k]]_store

\* What the movements of a work order add up to, of one product at one place.
WorkBalance(d, i, prod, at) ==
  Amount(d.ledger, LAMBDA m :
    IF m.on = <<"works", i>> /\ m.prod = prod /\ m.at = at THEN m.qty ELSE 0)

\* A work order that has been staged and then run or cancelled once.
RunOnce(w) == w.ver <= 3

MovedFor(d, t, i) == HowMany(d.ledger, LAMBDA m : m.on = <<t, i>>)

OrdersMatch(d) ==
  \A i \in 1..Len(d.orders) :
    /\ d.orders[i].issued => d.orders[i].status = "COMPLETED"
    /\ MovedFor(d, "orders", i) =
         (IF d.orders[i].issued /\ d.orders[i].qty > 0 THEN 1 ELSE 0)

WorksMatch(d) ==
  \A i \in 1..Len(d.works) : RunOnce(d.works[i]) =>
    /\ WorkBalance(d, i, "F", "goods") = d.works[i].made
    /\ WorkBalance(d, i, "A", "shop") =
         (IF d.works[i].status = "IN_PROGRESS" THEN d.works[i].issued ELSE 0)

BroughtIn(d, i) == Amount(d.ledger, LAMBDA m : IF m.on = <<"pos", i>> THEN m.qty ELSE 0)

PurchasesMatch(d) ==
  \A i \in 1..Len(d.pos) :
    LET got == Received(d.grns, i) IN
    /\ got = BroughtIn(d, i)
    /\ got <= d.pos[i].qty
    /\ d.pos[i].status = "RECEIVED" <=> got = d.pos[i].qty
    /\ d.pos[i].status = "CANCELLED" => got = 0

HoldsMatch(d) ==
  \A i \in 1..Len(d.holds) :
    HowMany(d.holds, LAMBDA h : h.from = i) =
      (IF d.holds[i].status = "CONVERTED" THEN 1 ELSE 0)

Matches(d) == OrdersMatch(d) /\ WorksMatch(d) /\ PurchasesMatch(d) /\ HoldsMatch(d)

\* A document and the ledger tell one story: a sales order whose stock is marked as
\* issued is COMPLETED, here or at the till, and what it counts has gone out once;
\* one without the mark, open, cancelled or completed without issuing, took nothing
\* out, however many completed or cancelled it at once; a work order has brought in
\* what its row counts as made and holds in the workshop what it staged while it is
\* in progress, nothing once it was run or cancelled; what a purchase order's receipts
\* say is what came in, never more than was ordered, all of it exactly when the order
\* is RECEIVED and nothing when it was cancelled; a quote hold that was converted
\* became one committed hold, however many converted it.
DocumentsMatchLedger == Matches(db)

Paid(d) == \A i \in 1..Len(d.orders) : Net(d.pays, i) >= 0

\* Money goes back only out of money that came in: per order, the refunds verified
\* never exceed the payments verified.
RefundsWithinPaid == Paid(db)

\* A hold committed from a quote that had run out at time t for one who saw these
\* holds, behind its back.
Overtaken(h, seen, t) ==
  /\ h.purpose = "ORDER" /\ h.from \in DOMAIN seen
  /\ seen[h.from].status = "ACTIVE" /\ seen[h.from].exp <= t

Binding(holds, seen, t, n) ==
  Amount(holds, LAMBDA h : IF Live(h, n) /\ ~Overtaken(h, seen, t) THEN h.qty ELSE 0)

\* A hold that is placed fits: when it commits, stock covers all live holds together,
\* whatever was placed, released or converted since it asked.  Set aside are quotes
\* that had run out when it asked and were converted all the same before it was done.
PlacedHoldsFit ==
  [][\A p \in Processes :
       Ends(p) /\ Call(p).op = "hold" /\ ~Stored(Call(p)) =>
         Binding(db'.holds, unit[p].seen, unit[p].at, now) <= OnHand(db'.ledger, "A")]_store

Stood(d) ==
  \A i \in 1..Len(d.counts) : \A k \in 1..Len(d.ledger) :
    d.ledger[k].on = <<"counts", i>> =>
      OnHand(SubSeq(d.ledger, 1, k - 1), "A") = d.counts[i].expected

\* A committed count corrects the stock its preview counted: nothing moved between
\* the preview and the adjustment that the count would undo.
CountedStockStood == Stood(db)

\* A kitting order never brings in more sets than it planned.
MadeAsPlanned ==
  \A i \in 1..Len(db.works) :
    db.works[i].kind = "kitting" => WorkBalance(db, i, "F", "goods") <= db.works[i].planned

-----------------------------------------------------------------------------
\* What a caller can ask: a movement has a sign, every other amount is a quantity.
Request ==
  {q \in [key : STRING, op : DOMAIN Program, on : Nat, ver : Nat, qty : Int, scrap : Nat] :
     q.op # "move" => q.qty >= 0}

\* A row names rows that are there.
Refers(d) ==
  /\ \A i \in 1..Len(d.pays) : d.pays[i].order \in 1..Len(d.orders)
  /\ \A k \in 1..Len(d.ledger) :
       d.ledger[k].on[1] = "counts" => d.ledger[k].on[2] \in 1..Len(d.counts)

\* A count of the fence's present revision expects the present stock.
Fresh(d) ==
  \A i \in 1..Len(d.counts) :
    /\ d.counts[i].rev <= d.fence[1].ver
    /\ d.counts[i].rev = d.fence[1].ver => d.counts[i].expected = OnHand(d.ledger, "A")

\* A work order is inserted at version 1 and staged before it is in progress; staged,
\* nothing of it is made or scrapped yet, and a kit has the gross quantity at hand.
Young(w) ==
  /\ w.ver >= 1
  /\ w.status = "IN_PROGRESS" => w.ver >= 2
  /\ w.ver <= 2 =>
       /\ w.status \in {"DRAFT", "IN_PROGRESS", "CANCELLED"} /\ w.made = 0 /\ w.scrapped = 0
       /\ w.status = "DRAFT" => w.issued = 0
       /\ w.status = "IN_PROGRESS" /\ w.kind = "kitting" => w.issued = w.gross

\* Documents and ledger match, and name what is there.
Matched(d) ==
  /\ Matches(d)
  /\ \A k \in 1..Len(d.ledger) :
       d.ledger[k].on[1] = "orders" => d.ledger[k].on[2] \in 1..Len(d.orders)
  /\ \A i \in 1..Len(d.holds) : d.holds[i].from \in 0..Len(d.holds)
  /\ \A i \in 1..Len(d.works) : Young(d.works[i])

Sound(d) == Typed(d) /\ Refers(d) /\ Covers(d) /\ Stood(d) /\ Fresh(d) /\ Paid(d)

\* A scene opens on a database the service has left behind, and its requests are new.
ASSUME ScenarioAssumption ==
  \A s \in Scenarios :
    /\ s.calls \subseteq Request
    /\ Sound(s.db) /\ Matched(s.db)
    /\ \A q \in s.calls : \A t \in Keyed : \A i \in 1..Len(s.db[t]) : s.db[t][i].by # q.key
=============================================================================
