---------------------------- MODULE ScmWorkOrders ---------------------------
(***************************************************************************)
(* Kitting and customization work orders inside a unit of work: stock is   *)
(* staged from the raw store to the workshop, worked, and what was not     *)
(* needed goes back.  One component A per piece, one output F.  A row has  *)
(* the pieces planned, the gross quantity to stage (net and buffer), and   *)
(* what was issued, made and scrapped so far.                              *)
(***************************************************************************)
EXTENDS ScmCommerce

Work(p) == unit[p].seen

Opened == {"IN_PROGRESS", "BLOCKED_SHORTAGE"}

\* How much a run may use: a kitting run what was staged and no more sets than
\* planned, a customization run what was issued.
RunAllowed(q, w) ==
  IF w.kind = "kitting" THEN q.qty <= w.planned /\ q.qty + q.scrap <= w.gross
  ELSE q.qty + q.scrap <= w.issued

ReadWork(p) ==
  LET q == Call(p)  w == Rows(p, "works")[q.on] IN
  IF /\ Exists(p, "works", q.on) /\ w.ver = q.ver
     /\ CASE q.op = "stageWork"  -> w.status = "DRAFT"
          [] q.op = "finishWork" -> w.status \in Opened /\ RunAllowed(q, w)
          [] q.op = "cancelWork" -> w.status \in Opened \cup {"DRAFT"}
  THEN Becomes(p, Then([unit[p] EXCEPT !.seen = w]))
  ELSE Refuse(p)

Moved(prod, n, at) == IF n = 0 THEN <<>> ELSE <<<<prod, n, at>>>>

\* A transfer is an issue at one place and a receipt at the other.
Transfer(n, from, to) == Moved("A", -n, from) \o Moved("A", n, to)

\* Made and scrapped pieces leave as one issue of a kitting run, as two of a
\* customization run; the unused buffer goes back.
Worked(q, w) ==
  LET staged == IF w.kind = "kitting" THEN w.gross ELSE w.issued
      used   == IF w.kind = "kitting" THEN Moved("A", -(q.qty + q.scrap), "shop")
                ELSE Moved("A", -q.qty, "shop") \o Moved("A", -q.scrap, "shop")
  IN used \o Moved("F", q.qty, "goods") \o Transfer(staged - q.qty - q.scrap, "shop", "raw")

\* What a cancelled order puts back: all that a kitting order staged while it is in
\* progress; what a customization order issued and has not counted as worked.
PutBack(w) ==
  IF w.kind = "kitting" THEN IF w.status = "IN_PROGRESS" THEN w.gross ELSE 0
  ELSE w.issued - w.made - w.scrapped

MoveWork(p) ==
  LET q == Call(p)  w == Work(p) IN
  Move(p, <<"works", q.on>>,
    CASE q.op = "stageWork"  -> Transfer(w.gross, "raw", "shop")
      [] q.op = "finishWork" -> Worked(q, w)
      [] q.op = "cancelWork" -> Transfer(PutBack(w), "shop", "raw"))

AfterRun(q, w) ==
  [w EXCEPT !.made = q.qty, !.scrapped = q.scrap,
            !.status = IF q.qty < w.planned THEN "BLOCKED_SHORTAGE" ELSE "COMPLETED"]

CloseWork(p) ==
  LET q == Call(p)
      w == Rows(p, "works")[q.on]
      after == CASE q.op = "stageWork"  -> [w EXCEPT !.status = "IN_PROGRESS", !.issued = w.gross]
                 [] q.op = "finishWork" -> AfterRun(q, w)
                 [] q.op = "cancelWork" -> [w EXCEPT !.status = "CANCELLED"]
  IN Cas(p, "works", q.on, AsRead(p, "works"), [after EXCEPT !.ver = @ + 1], FALSE)
=============================================================================
