---------------------------- MODULE ScmInventory ----------------------------
(***************************************************************************)
(* Inventory's statements inside a unit of work: the movement ledger and   *)
(* its fence, holds on stock, and stocktakes.  On-hand is never stored: it *)
(* is the sum of the ledger.  A request is [key, op, on, ver, qty, scrap]: *)
(* what it does, the row it names, the version its caller has seen of that *)
(* row, and amounts.                                                       *)
(***************************************************************************)
EXTENDS ScmStore

Never == 99      \* a hold without an expiry

Call(p) == unit[p].calls

\* What a list of numbers adds up to, item by item.
Sums(list) ==
  LET sum[i \in 0..Len(list)] == IF i = 0 THEN 0 ELSE sum[i - 1] + list[i] IN sum

Total(list) == Sums(list)[Len(list)]

Amount(rows, Val(_)) == Total([i \in 1..Len(rows) |-> Val(rows[i])])

HowMany(rows, Is(_)) == Amount(rows, LAMBDA row : IF Is(row) THEN 1 ELSE 0)

OnHand(ledger, x) == Amount(ledger, LAMBDA m : IF m.prod = x THEN m.qty ELSE 0)

Live(h, t) == h.status = "ACTIVE" /\ h.exp > t

Promised(holds, t) == Amount(holds, LAMBDA h : IF Live(h, t) THEN h.qty ELSE 0)

-----------------------------------------------------------------------------
\* The ledger.  Its fence is one row per Business: taken before on-hand is read
\* and moved on by every movement.

FenceFree_Always(p) == TRUE
FenceFree(p) == ~LockedByPeer(p, "fence", 1)
Fence(p) == Rows(p, "fence")[1]
Fenced(p, u, n) == Updated(u, "fence", 1, [ver |-> Fence(p).ver + n])

\* A movement leaves or enters a place; which place is never checked against.
Movements(q, on, list) ==
  [i \in 1..Len(list) |->
     [by |-> q.key, on |-> on, prod |-> list[i][1], qty |-> list[i][2], at |-> list[i][3]]]

\* Nothing may leave that is not there, one movement after the other.
Covered(p, moves) ==
  \A i \in 1..Len(moves) :
    OnHand(Rows(p, "ledger") \o SubSeq(moves, 1, i), moves[i].prod) >= 0

Append2Ledger(p, rows) ==
  [Fenced(p, unit[p], Len(rows)) EXCEPT !.new["ledger"] = @ \o rows]

\* appendMovement, once per element of list.
Move(p, on, list) ==
  /\ FenceFree(p)
  /\ LET moves == Movements(Call(p), on, list) IN
     IF Covered(p, moves) THEN Becomes(p, Then(Append2Ledger(p, moves))) ELSE Refuse(p)

-----------------------------------------------------------------------------
\* Holds.

Hold(q, purpose, qty, exp, from) ==
  [by |-> q.key, purpose |-> purpose, qty |-> qty, status |-> "ACTIVE", ver |-> 1,
   exp |-> exp, from |-> from]

\* The same without the fence.
AskPromise_Unfenced(p) ==
  LET holds == Rows(p, "holds") IN
  IF Call(p).qty <= OnHand(Rows(p, "ledger"), "A") - Promised(holds, unit[p].at)
  THEN Becomes(p, Then([unit[p] EXCEPT !.seen = holds]))
  ELSE Refuse(p)

\* A new hold asks, under the fence, what is still to be promised beside the holds
\* it reads.
AskPromise(p) ==
  LET holds == Rows(p, "holds") IN
  /\ FenceFree(p)
  /\ IF Call(p).qty <= OnHand(Rows(p, "ledger"), "A") - Promised(holds, unit[p].at)
     THEN Becomes(p, Then([Fenced(p, unit[p], 0) EXCEPT !.seen = holds]))
     ELSE Refuse(p)

\* A quote lasts until the next day; a committed hold has no expiry.
PlaceHold(p) == InsertCoded(p, "holds", Hold(Call(p), "QUOTE", Call(p).qty, unit[p].at + 1, 0), unit[p])

\* RELEASE and CONVERT begin with the same reading of the hold.
ReadHold(p) ==
  LET q == Call(p)  h == Rows(p, "holds")[q.on] IN
  IF /\ Exists(p, "holds", q.on)
     /\ h.ver = q.ver /\ h.status = "ACTIVE"
     /\ q.op = "convert" => h.purpose = "QUOTE"
  THEN Becomes(p, Then([unit[p] EXCEPT !.seen = h]))
  ELSE Refuse(p)

PlaceCommitted(p) ==
  InsertCoded(p, "holds", Hold(Call(p), "ORDER", unit[p].seen.qty, Never, Call(p).on), unit[p])

HoldIsAsRead_Always(p) == TRUE
HoldIsAsRead(p) ==
  LET h == Rows(p, "holds")[Call(p).on] IN h.ver = unit[p].seen.ver /\ h.status = "ACTIVE"

EndHold(p, status) ==
  Cas(p, "holds", Call(p).on, HoldIsAsRead(p),
      [Rows(p, "holds")[Call(p).on] EXCEPT !.status = status, !.ver = @ + 1], FALSE)

\* The expiry sweep reads what is due, then stamps each row that is still ACTIVE.
ReadDue(p) ==
  Becomes(p, Then([unit[p] EXCEPT !.due =
    {i \in 1..Len(Rows(p, "holds")) :
       Rows(p, "holds")[i].status = "ACTIVE" /\ Rows(p, "holds")[i].exp <= unit[p].at}]))

StampDue(p) ==
  IF unit[p].due = {} THEN Becomes(p, Then(unit[p]))
  ELSE LET i == CHOOSE x \in unit[p].due : \A y \in unit[p].due : x <= y
           h == Rows(p, "holds")[i]
           u == [unit[p] EXCEPT !.due = @ \ {i}]
       IN /\ ~LockedByPeer(p, "holds", i)
          /\ Becomes(p, IF h.status # "ACTIVE" THEN u
                        ELSE Updated(u, "holds", i, [h EXCEPT !.status = "EXPIRED", !.ver = @ + 1]))

-----------------------------------------------------------------------------
\* Stocktakes.  A preview records the fence revision it was taken at.

Preview(p) ==
  /\ FenceFree(p)
  /\ Becomes(p, Then(Appended(Fenced(p, unit[p], 0), "counts",
       [by |-> Call(p).key, status |-> "PREVIEWED", ver |-> 1, rev |-> Fence(p).ver,
        expected |-> OnHand(Rows(p, "ledger"), "A"), counted |-> Call(p).qty])))

CountIsCurrent_AnyRevision(p, c) == c.status = "PREVIEWED"
CountIsCurrent(p, c) == c.status = "PREVIEWED" /\ c.rev = Fence(p).ver

SettledBefore(p) ==
  \E i \in 1..Len(Rows(p, "counts")) :
    Rows(p, "counts")[i].by = Call(p).key /\ Rows(p, "counts")[i].status = "COMMITTED"

\* The commit posts the variance as one ADJUSTMENT and settles the preview, which
\* takes the caller's key; a copy that waited for the fence finds it settled.
SettleCount(p) ==
  LET q == Call(p)
      c == Rows(p, "counts")[q.on]
      variance == c.counted - OnHand(Rows(p, "ledger"), "A")
      posted == IF variance = 0 THEN <<>>
                ELSE Movements(q, <<"counts", q.on>>, <<<<"A", variance, "none">>>>)
  IN /\ FenceFree(p)
     /\ IF SettledBefore(p) THEN Becomes(p, Then(unit[p]))
        ELSE IF Exists(p, "counts", q.on) /\ CountIsCurrent(p, c) /\ Covered(p, posted)
        THEN Becomes(p, Then(Updated(Append2Ledger(p, posted), "counts", q.on,
               [c EXCEPT !.status = "COMMITTED", !.ver = @ + 1, !.by = q.key])))
        ELSE Refuse(p)
=============================================================================
