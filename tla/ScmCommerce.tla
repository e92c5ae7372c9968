----------------------------- MODULE ScmCommerce ----------------------------
(***************************************************************************)
(* The statements of Commerce and Procurement inside a unit of work, each  *)
(* on one document row: a sales order, a payment, a purchase order with    *)
(* its receipts.                                                           *)
(***************************************************************************)
EXTENDS ScmInventory

\* A versioned action reads its document first: the version its caller names must
\* be the row's, and the status must allow the action.
ReadDocument(p, t, allowed) ==
  LET q == Call(p)  row == Rows(p, t)[q.on] IN
  IF Exists(p, t, q.on) /\ row.ver = q.ver /\ row.status \in allowed
  THEN Becomes(p, Then([unit[p] EXCEPT !.seen = row]))
  ELSE Refuse(p)

AsRead_Always(p, t) == TRUE
AsRead(p, t) == Rows(p, t)[Call(p).on].ver = unit[p].seen.ver

\* The document moves on only from the version that was read.
CloseDocument(p, t, status, retryable) ==
  Cas(p, t, Call(p).on, AsRead(p, t),
      [Rows(p, t)[Call(p).on] EXCEPT !.status = status, !.ver = @ + 1], retryable)

-----------------------------------------------------------------------------
\* Sales orders.

ReadOrder(p) ==
  ReadDocument(p, "orders",
    CASE Call(p).op = "confirm"  -> {"DRAFT"}
      [] Call(p).op \in {"complete", "completeOnly"} -> {"CONFIRMED"}
      [] Call(p).op = "cancel"   -> {"DRAFT", "CONFIRMED"})

\* COMPLETE with issueStock: what the lines count goes out through the ledger, after a
\* look at the stock that waits for nobody.  Lines that count nothing move nothing.
IssueOrder(p) ==
  LET counted == unit[p].seen.qty IN
  IF counted = 0 THEN Becomes(p, Then(unit[p]))
  ELSE IF OnHand(Rows(p, "ledger"), "A") < counted THEN Refuse(p)
  ELSE Move(p, <<"orders", Call(p).on>>, <<<<"A", -counted, "none">>>>)

\* stockIssuedAt is set where issueStock was asked, whether or not anything moved.
CloseOrder(p) ==
  LET q == Call(p) IN
  Cas(p, "orders", q.on, AsRead(p, "orders"),
      [Rows(p, "orders")[q.on] EXCEPT
         !.status = CASE q.op = "confirm" -> "CONFIRMED"
                      [] q.op \in {"complete", "completeOnly"} -> "COMPLETED"
                      [] q.op = "cancel"  -> "CANCELLED",
         !.ver = @ + 1, !.issued = @ \/ q.op = "complete"], FALSE)

\* A POS sale is a new order, complete from the start: the order under its code,
\* the stock, then the payment to be verified.  The same unit marks its stock issued
\* once a counted line went out.
InsertSale(p) ==
  LET counted == Call(p).qty IN
  InsertCoded(p, "orders",
    [by |-> Call(p).key, status |-> "COMPLETED", ver |-> 1, qty |-> counted,
     issued |-> counted > 0], unit[p])

IssueSale(p) ==
  IF Call(p).qty = 0 THEN Becomes(p, Then(unit[p]))
  ELSE Move(p, <<"orders", Len(Rows(p, "orders"))>>, <<<<"A", -Call(p).qty, "none">>>>)

-----------------------------------------------------------------------------
\* Payments.

Payment(q, order, kind) ==
  [by |-> q.key, order |-> order, kind |-> kind, qty |-> q.qty, status |-> "PENDING", ver |-> 1]

InsertSalePayment(p) ==
  InsertCoded(p, "pays", Payment(Call(p), Len(Rows(p, "orders")), "PAYMENT"), unit[p])

\* A payment is recorded on an order that is not cancelled; a refund on any.
ReadPayable(p) ==
  LET q == Call(p) IN
  IF Exists(p, "orders", q.on) /\ (q.op = "pay" => Rows(p, "orders")[q.on].status # "CANCELLED")
  THEN Becomes(p, Then(unit[p]))
  ELSE Refuse(p)

RecordPayment(p) ==
  InsertCoded(p, "pays",
    Payment(Call(p), Call(p).on, IF Call(p).op = "pay" THEN "PAYMENT" ELSE "REFUND"), unit[p])

ReadPayment(p) == ReadDocument(p, "pays", {"PENDING"})

Verified(pays, order, kind) ==
  Amount(pays, LAMBDA y :
    IF y.order = order /\ y.kind = kind /\ y.status = "VERIFIED" THEN y.qty ELSE 0)

Net(pays, order) == Verified(pays, order, "PAYMENT") - Verified(pays, order, "REFUND")

\* The same without the lock.
CeilingOfRefund_Unlocked(p) ==
  LET y == unit[p].seen IN
  IF Call(p).op = "verify" /\ y.kind = "REFUND" /\ Net(Rows(p, "pays"), y.order) < y.qty
  THEN Refuse(p) ELSE Becomes(p, Then(unit[p]))

\* A refund is verified under the lock of its order: its ceiling is the net that
\* is verified then.
CeilingOfRefund(p) ==
  LET y == unit[p].seen IN
  IF Call(p).op = "reject" \/ y.kind = "PAYMENT" THEN Becomes(p, Then(unit[p]))
  ELSE /\ ~LockedByPeer(p, "orders", y.order)
       /\ IF Net(Rows(p, "pays"), y.order) < y.qty THEN Refuse(p)
          ELSE Becomes(p, Then(Updated(unit[p], "orders", y.order, Rows(p, "orders")[y.order])))

SettlePayment(p) ==
  CloseDocument(p, "pays", IF Call(p).op = "verify" THEN "VERIFIED" ELSE "REJECTED", FALSE)

-----------------------------------------------------------------------------
\* Purchase orders and goods receipts.

Received(grns, i) == Amount(grns, LAMBDA g : IF g.on = i THEN g.qty ELSE 0)

\* The receipt is planned against the order and the receipts read at the start.
ReadPurchase(p) ==
  LET q == Call(p)  row == Rows(p, "pos")[q.on]  got == Received(Rows(p, "grns"), q.on) IN
  IF /\ Exists(p, "pos", q.on)
     /\ row.status = "SENT" \/ (q.op = "withdraw" /\ row.status = "DRAFT")
     /\ CASE q.op = "receive"  -> got + q.qty <= row.qty
          [] q.op = "withdraw" -> row.ver = q.ver /\ got = 0
          [] q.op = "short"    -> row.ver = q.ver
  THEN Becomes(p, Then([unit[p] EXCEPT !.seen = [row EXCEPT !.got = got]]))
  ELSE Refuse(p)

InsertReceipt(p) ==
  InsertCoded(p, "grns", [by |-> Call(p).key, on |-> Call(p).on, qty |-> Call(p).qty], unit[p])

StockReceipt(p) == Move(p, <<"pos", Call(p).on>>, <<<<"A", Call(p).qty, "none">>>>)

\* The same whatever its version is by then.
ClosePurchase_Blind(p) ==
  LET q == Call(p)  row == Rows(p, "pos")[q.on] IN
  Cas(p, "pos", q.on, TRUE,
      [row EXCEPT !.ver = @ + 1, !.status =
        CASE q.op = "receive" -> (IF unit[p].seen.got + q.qty = row.qty THEN "RECEIVED" ELSE "SENT")
          [] q.op = "withdraw" -> "CANCELLED"
          [] q.op = "short" -> "SHORT_CLOSED"], FALSE)

ClosePurchase(p) ==
  LET q == Call(p)  complete == unit[p].seen.got + q.qty = unit[p].seen.qty IN
  CloseDocument(p, "pos",
    CASE q.op = "receive"  -> (IF complete THEN "RECEIVED" ELSE "SENT")
      [] q.op = "withdraw" -> "CANCELLED"
      [] q.op = "short"    -> "SHORT_CLOSED", q.op = "receive")

=============================================================================
