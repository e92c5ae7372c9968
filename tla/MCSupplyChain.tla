---------------------------- MODULE MCSupplyChain ---------------------------
(***************************************************************************)
(* Scenarios for TLC: each is a database some calls contend for.           *)
(***************************************************************************)
EXTENDS SupplyChain, TLC

CONSTANTS p1, p2

TheProcesses == {p1, p2}
Replicas == Permutations(TheProcesses)

Ask(key, op, on, ver, qty) ==
  [key |-> key, op |-> op, on |-> on, ver |-> ver, qty |-> qty, scrap |-> 0]
Run(key, ver, made, scrapped) == [Ask(key, "finishWork", 1, ver, made) EXCEPT !.scrap = scrapped]

Stock(n) == <<[by |-> "stock", on |-> <<"move", 0>>, prod |-> "A", qty |-> n, at |-> "none"]>>
Empty(n) == [NoRows EXCEPT !["fence"] = <<[ver |-> 0]>>, !["ledger"] = Stock(n)]

Order(status, n) == [by |-> "seed", status |-> status, ver |-> 1, qty |-> n, issued |-> FALSE]
Pay(kind, status, n) ==
  [by |-> "seed", order |-> 1, kind |-> kind, qty |-> n, status |-> status, ver |-> 1]
Quote(n, exp) == [by |-> "seed", purpose |-> "QUOTE", qty |-> n, status |-> "ACTIVE",
                  ver |-> 1, exp |-> exp, from |-> 0]

Scene(d, calls, until) == [db |-> d, calls |-> calls, until |-> until]

Fulfilment == Scene([Empty(2) EXCEPT !["orders"] = <<Order("CONFIRMED", 2)>>],
  {Ask("k1", "complete", 1, 1, 0), Ask("k2", "complete", 1, 1, 0), Ask("k3", "cancel", 1, 1, 0)}, 0)
Dispatch == Scene([Empty(2) EXCEPT !["orders"] = <<Order("CONFIRMED", 2), Order("CONFIRMED", 0)>>],
  {Ask("k1", "complete", 1, 1, 0), Ask("k2", "completeOnly", 1, 1, 0), Ask("k3", "complete", 2, 1, 0),
   Ask("k4", "sale", 0, 0, 0)}, 0)
Tills == Scene([Empty(1) EXCEPT !["orders"] = <<Order("DRAFT", 1)>>],
  {Ask("k1", "sale", 0, 0, 1), Ask("k2", "sale", 0, 0, 1), Ask("k3", "confirm", 1, 1, 0)}, 0)
Reuse == Scene(Empty(3), {Ask("k1", "move", 0, 0, -1), Ask("k1", "move", 0, 0, -2)}, 0)
Refunds == Scene([Empty(0) EXCEPT !["orders"] = <<Order("CONFIRMED", 1)>>,
                    !["pays"] = <<Pay("PAYMENT", "VERIFIED", 2), Pay("REFUND", "PENDING", 2),
                                  Pay("REFUND", "PENDING", 1)>>],
  {Ask("k1", "verify", 2, 1, 0), Ask("k2", "verify", 3, 1, 0), Ask("k3", "reject", 2, 1, 0)}, 0)
Cashier == Scene([Empty(0) EXCEPT !["orders"] = <<Order("CONFIRMED", 1)>>],
  {Ask("k1", "pay", 1, 0, 1), Ask("k2", "refund", 1, 0, 1), Ask("k3", "verify", 1, 1, 0)}, 0)
Promises == Scene([Empty(2) EXCEPT !["holds"] = <<Quote(1, 1)>>],
  {Ask("k1", "hold", 0, 0, 1), Ask("k2", "hold", 0, 0, 2), Ask("k3", "convert", 1, 1, 0)}, 1)
Converts == Scene([Empty(2) EXCEPT !["holds"] = <<Quote(2, 1)>>],
  {Ask("k1", "convert", 1, 1, 0), Ask("k2", "convert", 1, 1, 0), Ask("k3", "expire", 0, 0, 0)}, 1)
Releases == Scene([Empty(2) EXCEPT !["holds"] = <<Quote(2, Never)>>],
  {Ask("k1", "release", 1, 1, 0), Ask("k2", "hold", 0, 0, 1), Ask("k3", "move", 0, 0, -1)}, 0)
Stocktake == Scene(Empty(2),
  {Ask("k1", "preview", 0, 0, 0), Ask("k2", "count", 1, 1, 0), Ask("k3", "move", 0, 0, -1)}, 0)
Inbound == Scene([Empty(0) EXCEPT !["pos"] = <<[by |-> "seed", status |-> "SENT", ver |-> 1, qty |-> 2, got |-> 0]>>],
  {Ask("k1", "receive", 1, 0, 1), Ask("k2", "receive", 1, 0, 2), Ask("k3", "withdraw", 1, 1, 0)}, 0)
ShortClose == Scene([Empty(0) EXCEPT !["pos"] = <<[by |-> "seed", status |-> "SENT", ver |-> 1, qty |-> 2, got |-> 0]>>],
  {Ask("k1", "receive", 1, 0, 1), Ask("k2", "short", 1, 1, 0)}, 0)
Order3(kind, status, ver, issued) ==
  <<[by |-> "seed", kind |-> kind, status |-> status, ver |-> ver, planned |-> 2, gross |-> 3,
     issued |-> issued, made |-> 0, scrapped |-> 0]>>
Staged == <<[by |-> "seed", on |-> <<"works", 1>>, prod |-> "A", qty |-> -3, at |-> "raw"],
            [by |-> "seed", on |-> <<"works", 1>>, prod |-> "A", qty |-> 3, at |-> "shop"]>>
InWork(kind) == [Empty(4) EXCEPT !["ledger"] = @ \o Staged, !["works"] = Order3(kind, "IN_PROGRESS", 2, 3)]
Kitting == Scene(InWork("kitting"),
  {Run("k1", 2, 2, 1), Run("k2", 2, 1, 1), Ask("k3", "cancelWork", 1, 2, 0)}, 0)
Branding == Scene([Empty(3) EXCEPT !["works"] = Order3("customization", "DRAFT", 1, 0)],
  {Ask("k1", "stageWork", 1, 1, 0), Run("k2", 2, 2, 0), Ask("k3", "cancelWork", 1, 2, 0)}, 0)
Rework == Scene(InWork("kitting"), {Run("k1", 2, 1, 0), Run("k2", 3, 2, 0)}, 0)

AllScenes == {Fulfilment, Dispatch, Tills, Reuse, Refunds, Cashier, Promises, Converts, Releases,
              Stocktake, Inbound, ShortClose, Kitting, Branding}
ReworkScene == {Rework}
=============================================================================
