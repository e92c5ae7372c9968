# Zuri: a verification project

Zuri is a business system with AI features: a Next.js server over one
PostgreSQL database (`apps/server`), a few separate services (`services/*`) and
a local device application (`apps/edge`).  Most of it is request handlers whose
correctness is a matter of one transaction.  The parts that are hard to get right
are those that lose, repeat and overlap things: a LINE message becomes a durable
job, a model answers it under a lease, the answer is sent once over a network that
loses answers, and what an outside memory service keeps of it can be taken back;
stock, money and promises of a supply chain are moved by commands that run side by
side; a file is whole in two stores or in neither.  These modules model those
parts.

## The system and its parts

| part | state it keeps | operations | how it meets the others | what is hard | what makes it correct |
|---|---|---|---|---|---|
| LINE conversation jobs (`line-conversation-jobs.js`) | one job row per admitted text event | admit, claim, renew, complete, fail, maintain, send, reconcile, acknowledge | read by server ticks and by the conversation runtime over HTTP; fenced by the account row | two executors, two senders, lost answers, crash between call and write, deadlines | one answer per event, from the latest execution, recorded truthfully, and always an end |
| LINE OA account (`line-oa-account-service.js`) | status, server switch, epoch, version, cohort, push policy | PAUSE, RESUME, ARCHIVE, ENABLE/DISABLE_SERVER, CONFIGURE_*, credential revocation | cancels jobs; its version is the send fence | actions racing admission, settlement and sends | no work of a fenced epoch starts; the cohort changes only over a quiet queue |
| Job erasure (`line-job-erasure.js`) | tombstones on job rows | redact | writes the job rows | a send in flight | nothing erased comes back |
| LINE transports (`server-line-transport.js`) | none | resolve account, reply, push | called by the send handlers | timeouts, 409, 5xx | an ambiguous answer is never called accepted or failed |
| Admission and its reconciler (`api/line/webhook`, `line-admission-reconciler.js`) | raw evidence rows and their status | record, mark, answer 2xx, admit, retry, sweep | calls `admitLineConversation` | a crash after the 2xx, redelivery beside a running admission, two sweeps on one row | what LINE handed over is admitted once or refused with a label |
| Conversation runtime (`services/conversation-runtime`) and Core's operations | a turn in memory; model trace, thread, receipts, job row in Core | claim, renew timer, model, work command, append, complete, fail, status reads | HTTP calls that may be served late, twice or never | renewal racing completion, two executions of one message | the model runs once per message; what is committed has its receipt |
| Memory delivery and erasure | outbox fields on job rows, projection receipts, erasure records | fence, append, record, deliver, erase, attempt, defer, acknowledge | turns and scanners of the tick call the memory service (MSP) | a late append against an erasure, dead scanners, expired leases | erased stays erased, a delivery ends once, neither outbox keeps a row |
| Supply chain (`services/scm`) | ledger, fence, orders, payments, holds, counts, purchase orders, receipts, work orders, operation receipts | some twenty commands | one database, READ COMMITTED | a decision on a sum that moves, same key twice, a killed unit | stock never negative, a key has its effect once, documents match the ledger |
| File management (`services/file-management`) | operation, version, file and outbox rows; objects | upload new, upload version, repeat, list, withdraw | a versioned object store and one database | a put nobody waits for, a commit nobody heard, two versions at once | no result without its bytes, no version lost from its order, no slot lost |
| Rich-menu jobs | job rows | claim, upload, publish | LINE | a second leased queue | one published menu |
| Project manager, GENESISRAG17 executor, market intelligence | plans, backups, pipeline stages, runs | import, transfer, execute | database, object store | partial transfers, stage leases | a stage runs once, a transfer is whole |
| CRM, identity, knowledge, commerce, inventory, marketing, people, ... | their tables | request handlers | one database | little | role checks and validation |
| Web application, edge device, tools, documents | - | - | - | - | not modelled |

`PROJECT.json` lists the parts with their sources and status, and the hazards,
each at the line where it bites.

## Modules

**`LineJobs`** is the job table and the account row: everything Core does to a
job except sending it.  Each action is one transaction (or the effect of one
`updateMany` on one row).

| action | code |
|---|---|
| `Admit` | `admitLineTextMessage`: one row per event, its cohort, epoch and push policy pinned, the out-of-hours reply decided |
| `ExpireWaiting`, `RequeueClaimed` | the first two statements of `maintenance` |
| `ClaimExecution` | `claimExecution`: a lease, a new execution, a claim handed out |
| `Renew` | `renewRuntimeConversationJob` |
| `CommitAnswer`, `FailExecution`, `LeaveUnknown` | `settleExecution` by outcome, reached from `executeClaimed`, `completeRuntimeConversationJob` and `failRuntimeConversationJob` |
| `Pause`, `Disable`, `Enable`, `Archive`, `SetPush`, `Resume`, `Configure`, `SwitchOwner`, `RevokeCredential` | `applyLineOaAccountAction` and `fenceLineOaAccountForCredentialRevocation` |
| `Erase`, `Acknowledge` | `redactLineConversationJobs`, `acknowledgeUnknownLineJob` |

Executors have no state of their own.  A claim (`claims`) is what Core handed
out; it stays in the set for ever, so "the same result posted twice", "an
executor that wakes up an hour later" and "an executor that never comes back"
are all behaviours of the model.  A renewal adds the renewed claim and keeps the
old one, which is what an executor holds when it loses the response.

**`LineDelivery`** extends it with the send handlers and LINE.  A handler goes
through `read` (row read, method chosen), `resolved` (account and token
resolved), `calling` (READY -> SENDING committed), `waiting` (request on the
wire), `answered`, and back to `idle`; each arrow is an action, and between two of
them anything else may happen, a crash included.  `wire` holds requests that
LINE has not answered; a handler that times out leaves its request there.
`line` is what LINE accepted: a reply token works once, a live push retry key
once.  LINE is external and is modelled from how the transports use it:
it answers any request with acceptance (whose answer may be lost), a 400, another
4xx, or something ambiguous; a 409 naming the accepted request comes only for a
live key.

| action | code |
|---|---|
| `ReadServer`, `ReadRuntime`, `CancelAtSend` | the send phase of `runLineConversationWorker`; `sendRuntimeConversationJob` |
| `StopUnsendable` ... `Resolve` | `sendReadyJob` up to the claim |
| `ClaimSend`, `RevokeAnswer`, `LoseRow`, `Contended` | its claim transaction, by outcome |
| `RefuseLate`, `CallLine`, `TimeOut`, `LineReceives`, `Lose` | the call of the transport |
| `RecordResult`, `ReconcileAccepted` | the result write and the CRM outbound |
| `CloseReply`, `RetryPush` | the last two statements of `maintenance` |

**`DeliveryContract`** is what `LineDelivery` is for, without leases, versions,
retries or handlers: each event moves from `pending` through `sending` to
`delivered`, `doubt` or a closed end; the customer is shown at most one message,
none before a send was begun; `delivered` is said only of what was shown; the CRM
books it once.  `LineDelivery!Contract` is the refinement mapping: the row's status
and first-send time give `record`, LINE's side gives `shown`, the CRM outbound gives
`book`.  A `Close` of several events at once is an account fence.  The contract is
honest about what the channel cannot promise: a message may still be shown after
its row was left in doubt or closed.  It also says what the row may never do:
turn doubt into delivery, or reopen.

**`ConversationRuntime`** extends `LineJobs` with the other side of a claim: the
turn of a runtime replica (`runOne` in `turn-runtime.js`) and the operations Core
serves to it.  A turn's place is its `pc`; a call to Core is a request in `net`
that Core may serve late, twice or never (`Serve` leaves it there), so a time-out is
simply the turn going on (`StartUncertain`, `FinishUncertain`, `AppendUncertain`,
`WorkUncertain`, `CompleteUncertain`): it reads Core's status and decides.  The
renewal timer runs beside the turn and moves the claim's version under it.  A
replica that stops for ever is a behaviour of the model because nothing is fair,
and `Crash` lets it start over.

**`LineAdmission`** is the way of a webhook body into jobs: each event is recorded
as evidence, marked, answered, admitted by a continuation nobody waits for, and
swept when its row has been in between too long.  A redelivered event is evidence
of its own, because the payload that is hashed carries LINE's redelivery mark.  An
event is of a kind that says what admission makes of it: a text that `ask`s gets a
job, one that `tell`s is stored, one that `attach`es (a thread event, an unsend) is
stored only in a conversation that is there, a `void` one is left aside unread and a
`refused` one (a text too long, a thread of another Business) is thrown out each time.
The continuation labels such a refusal SKIPPED (`line-conversation-jobs.js:795-806`),
the sweep labels whatever is thrown FAILED (`line-admission-reconciler.js:181-186`);
an event that was left aside without an error, stored or not, is SKIPPED by both.
`LabelsTell` is about what such a label may hide: never a text that asks, unless the
account has changed.

**`LineMemory`** is what MSP holds of one person and how it is taken back.  A turn
(`FenceTurn`, `ReadJob`, `WriteReceipt`, twice, then `CommitTurn`) checks its job
before each call and writes a receipt after it; `Erase` is the erasure transaction
with the record it leaves; a scanner goes through the records that were due when it
began (`StartScan` ... `DeferErasure`), a courier through the pending deliveries.
MSP is external: it serves a call once, perhaps after its caller gave up, keeps a
message it was given, blanks a person's messages and answers a key it knows with
the receipt it stored.

**`ScmStore`, `ScmInventory`, `ScmCommerce`, `ScmWorkOrders`, `SupplyChain`** are the
supply-chain service.  `ScmStore` is the database as the commands see it: a unit of
work per process, statements that read what is committed plus the unit's own writes,
rows and codes that stay locked until it ends, re-runs on a collision, and the
receipt of the idempotency key looked up first and written last.  The next three
modules hold the statements of the commands; `SupplyChain` lists each command as a
program of statements and interleaves the processes between any two of them, gives
the rows their types (`Row`) and says what of a database is in order (`Sound`): the
amounts its properties bound, rows that name rows there are, counts whose revision is
not ahead of the ledger's.  `Matched` says the same of documents: each agrees with the
movements, receipts and holds made for it.  A scene opens on a database in order, with
documents that match and no row of its own requests (`ScenarioAssumption`), as tables
that only these commands write are.

**`FileManagement`** is an upload from the operation row to the answer, at several
replicas, with its object store.  A put may be executed long after nobody waits for
it (`LatePut`); the caller repeats an uncertain upload beside itself.  The listing
with its cursor runs beside the uploads.

**`MC...`** modules are the instances for the model checker.  In four of them a
behaviour starts with a *plan* or *scene*: the jobs, calls, processes and faults it
may have.  Each plan puts its bounds where one hazard is; together they are the
initial states of one run.

**`LineJobsProofs`, `LineDeliveryProofs`, `LineAdmissionProofs`,
`ConversationRuntimeProofs`, `SupplyChainUnits`, `SupplyChainProofs`,
`FileManagementProofs`, `LineMemoryProofs`** hold the theorems.

### Choices worth knowing

- *Transactions are atomic.*  The database runs READ COMMITTED.  Claim, renewal,
  settlement and result writes end in an `updateMany` that compares the row
  version, and every account action that fences increments the versions of the
  rows it cancels, so a transaction that read an older row or account fails
  there.  Admission and account actions lock the account row first; the send
  claim compares and increments the account version.  Erasure runs in
  Serializable transactions of its callers.  The one transaction whose partial
  effect commits is the send claim that loses the job row behind the account
  fence: it is the action `LoseRow`.
- *No cancellation at claim.*  `claimExecution` cancels a QUEUED row of an
  inactive account (lines 579-582).  Admission takes an active account's epoch
  under its row lock, and every fence cancels waiting rows, so there is no such
  row (`FencedWorkStops` checks it) and the branch has no action.
- *The answer deadline* is computed from the lease, as `executionAnswerDeadline`
  does for want of a recorded contract: nothing in the repository writes the
  `:contract` trace event with a budget.
- *Texts are numbers.*  `0` is the out-of-hours reply; execution `n` answers `n`.
- *What the answer rests on* (product facts, test corpora, citations) is read
  inside the send claim; whether it still holds is a choice: `RevokeAnswer`.
- *`OwnerCarried`.*  `sendReadyJob` compares the cohort of the account its port
  resolves.  The integration tests' port is a database row and has the field;
  the production port does not return it.  The constant says which port is
  modelled.  Runs about overlapping sends and fences use `TRUE`, so that the
  runtime's sends exist; the finding below uses the production value.
- *Left out of the LINE modules*: trace events, audit rows, message content.
- *What a runtime turn leaves out*: context composition, answer checks and
  injection receipts, which can only end a turn; `#sku` and product-facts turns.
  Account actions are left to `LineDelivery`'s runs (`MaxAccount = 0`).
- *Memory receipts in two steps*: the receipt's transaction reads the job and then
  writes, at READ COMMITTED, and an erasure may commit between: `ReadJob` and
  `WriteReceipt`.
- *One line per document*: an order, a sale or a purchase order has one line.  The
  quantity of an order or a sale is what its TRACKED lines count, so one of zero has
  none and issues nothing (`sales-orders.js:110-127`); a purchase order's is TRACKED.
  COMPLETE is two commands: `complete` with `issueStock` and `completeOnly` without it
  (`sales-orders.js:171`).  An order's `issued` is its `stockIssuedAt`: a completed order
  without the mark has moved nothing.
- *One component per piece* in the supply chain: a sellable thing `A`, a set `F`
  made of it; codes are indexes in a table.  Unique codes and the receipt's key are
  the only constraints a unit can collide on.  `Fail` is a lock wait that timed out,
  a deadlock's victim, a lost connection or a killed process.
- *The object store* honours `If-None-Match: *`.  That is assumed of the provider;
  the code relies on it (`s3-storage.js:60-71`) and looks again when it was refused.

## Runs

| run | question | instance |
|---|---|---|
| `line_sending` | can the customer see two answers, is the record what LINE accepted, is every step one the contract promises? | one job, two handlers, one crash, one send without an offer, clock to 4 |
| `line_fencing` | can a stale, slow or duplicated executor settle a job? does fenced work stop, a closed or erased row stay so, the cohort hold? is the out-of-hours reply lost or a token kept? | one job, two claimants, one handler, three account actions, clock to 3 |
| `line_settling` | does every server-cohort job end? | one job, one handler, one crash, one account action, fairness |
| `line_failed_delivered` | "UNKNOWN if a prior attempt exists": violated | one handler |
| `line_runtime_unsent` | "will admit exactly one send": violated | production port |
| `line_runtime_stranded` | "the next delivery claim picks up a job that is still READY": violated | tests' port |
| `runtime` | does the model run once per message, does every committed answer have its receipt, is what is delivered what was committed? | one message, a question under memory sync or a work command; two replicas, two executions, one crash |
| `admission` | is everything LINE was told 2xx for recovered, once, and labelled truthfully, in the end? | bodies of one or two events of every kind, threads known and new, a redelivery, two overlapping sweeps, a crash, a paused account |
| `memory` | does what was acknowledged as erased stay erased, does a delivery end once and truthfully, do both outboxes drain? | four plans: two scanners; two couriers; a courier and a policy that refuses; two erasures, beside and after each other |
| `supply_chain` | can stock, money or promises be overdrawn, a key act twice, a document and the ledger part? | two processes, fourteen scenes of two to four calls, each sent up to twice |
| `work_orders` | "a run cannot assemble more than it planned, be completed twice": violated | one order that came up short |
| `files` | does every result have its bytes and its place, does a repeated upload settle, does the listing miss a file? | eight plans of one or two uploads at two replicas with up to three faults |

**Bounds.**  `MaxTime` ends the clock, `MaxAccount` the account actions,
`MaxCrashes` the crashes, `MaxEarly` the sends that a runtime asks for before
their backoff or after the deadline.  `MaxPause` and `WireLife` bound how long a
handler rests between two steps before its call and how long a request lives;
they are what makes a push key's life (`KeyLife`) comparable with the retry
window: `DeliveryAssumption` demands `RetryWindow + MaxPause + WireLife <=
KeyLife`, in the code 23 h plus minutes against 24 h (and that there is a job).  The durations are scaled
so that everything that can expire does so within the clock: a lease (2), a
deadline (2 or 3), a reply window (1), a send lease (1), a retry window (2).
One job is enough because rows meet only in the account row: two jobs are two
copies of the same behaviour under the same fences, and the theorems about
`LineJobs` and `LineDelivery` hold for any number.  Two claimants, handlers, replicas, sweeps,
scanners or couriers are enough to make one of them stale.  `MCLineDelivery`
narrows what a run is not about (`line_sending` has no account actions and no
execution time, `line_fencing` one handler); the full product is out of reach.

In `ConversationRuntime` two executions (`MaxTurns`) meet over one message and each
call is repeated as often as the code repeats it, once.  In `LineAdmission` the unit
is the minute and `StaleAfter = Gap = 1`: a sweep may take a row while the admission
it stands in for still runs.  The events of a body are of one thread (a `refused` one may
be of another): threads share nothing but the conversation an `attach` looks for.  In `LineMemory` two attempts (`MaxAttempts`) make the
second the last, as the eighth is in the code; the backoff is always one tick.  A
plan's `horizon` is the time until which jobs are admitted and erasures asked for;
with 3 a second erasure may follow an acknowledged one, with 2 it may not.
`MemoryAssumption` demands `Wire < Grace`: a turn past its last fence is through,
call and receipt, before an erasure of its job is first asked for.  The code's
numbers are the claim's lease, 5 minutes, and 330 seconds, and
`line-memory-erasure.js:55-58` states the reasoning; the model shows what follows
from it and that nothing less does (its mutant asks at once).  Faults of a plan
count time-outs, stops and failed transactions together.  In the supply chain
`MaxAttempts = 2` re-runs a unit once and `MaxCalls = 2` sends each request twice,
so that a copy meets its original in every phase; the calls of a scene contend for
one row, sum or code, and what does not contend needs no scene.  In `FileManagement`
two attempts of a caller overlap, a page holds one file, and a replica has one slot,
so a slot that is lost is missed at once.

**Deadlock** is not checked: the bounded clock stops, and a queue whose only job
is closed may stop.

**Fairness.**  `line_settling` and `line_runtime_stranded`: the supervisor calls the
tick in a loop, and the tick runs maintenance, sends what is READY and reconciles
what is ACCEPTED: weak fairness for these per job.  A runtime replica keeps asking
Core for work: weak fairness for the sends Core offers.  A handler that is running
goes on (or crashes), and a request is delivered or lost.  Nothing is assumed of
executors, operators, or of what LINE answers.  In `MCLineDelivery` the clock
advances too, and after `Horizon` only once nothing is due, so that the bound on the
clock cannot stop a job half way.

`admission`: the clock and each sweep are weakly fair, because the ticker fires for
ever; a label the sweep keeps writing is written in the end (strong fairness).
Nothing promises a redelivery or that a continuation survives.  `memory`: a turn, a
scan and a courier go on, a call is served or lost, the clock moves on once nothing
is due.  `files`: a request that is being handled is handled, and a caller that was
left uncertain sends again.  In both the faults are bounded, so the liveness says
what happens when they stop.

## Findings

1. **A delivered answer is recorded as FAILED** (`line-conversation-jobs.js:1421`).
   A push times out behind an acceptance; its retry gets a 401, 403 or 429; the
   row becomes FAILED.  ADR-061 line 78 says UNKNOWN if a prior attempt exists,
   and line 1263 of the same function does that where the account cannot be
   resolved.
2. **Runtime answers are not sent in production** (`line-conversation-jobs.js:1267`).
   The resolved account has no `runtimeOwner`, so the sender reports FENCED and
   leaves the row READY until it expires.
3. **A runtime push past its deadline is stuck** (`line-conversation-jobs.js:645`).
   Recovery wants `expiresAt > now`, expiry wants no first send; a push waiting
   for its retry has neither.  Today it is hidden behind 2.
4. **A kitting order delivers more sets than it planned** (`kitting.js:170`).  An
   order left in BLOCKED_SHORTAGE by a short run may be completed again, and each
   run is bounded by the plan on its own.

Seen while modelling, each modelled as the code has it, and stated by no run:

- The acknowledgement of one erasure settles every pending receipt of the person and
  the Customer (`line-memory-projection.js:97`).  If the person has written again and
  been erased again meanwhile, the Customer is shown as ERASED while the second
  request is still in its grace period and MSP may hold the newer text
  (FR-232.md:34-36 says it is not).
- A receipt whose transaction read the job before its erasure is created ACTIVE after
  it (`line-memory-projection.js:47-63`) and is settled only by a later erasure of the
  person, if there is one: `ErasedStaysErased` therefore speaks of receipts left
  PENDING, and of the moment when every erasure is acknowledged.
- The same request sent again under its key may be answered with a version conflict
  and not with the stored outcome, when the first copy commits between the look-up and
  the update (`commands.js:208`, against `evidence.js:40-41`).
- A stock ISSUE takes units that a live hold promised (`atp.js:20-24`); a quote that
  has run out but is not stamped can be converted; a PENDING payment can be recorded
  on an order that is cancelled at that moment (`payments.js:52`); a customization
  order cancelled after it came up short returns its buffer twice
  (`customization.js:201`); located stock is checked in total and not per place.
- The thread keeps the first text appended for a message while receipt and committed
  answer name that of a second execution (`conversation-runtime-memory.js:571`).  A
  work call is refused as final while its first copy still runs
  (`conversation-runtime-core.js:747`).  The deadline of a push answer moves with every
  renewal (`line-conversation-jobs.js:832`).
- The sweep can take a row whose second redelivery has just begun to be admitted,
  because `receivedAt` never moves (`line-conversation-jobs.js:763`); the job is still
  created once (`OneJob`).
- A retry of a committed append to a file that was withdrawn meanwhile is answered 404
  and not with its stored result.

## Proofs

`LineJobsProofs` proves, for every number of jobs, claimants and account
actions and every value of the durations (`JobsAssumption`):

| theorem | property |
|---|---|
| `JobsTypeCorrect` | `JobsTypeOK` |
| `AnswerIsOfLatestExecution` | `AnswerOfLatestExecution` |
| `OnlyOneExecutor` | `OneExecutor` |
| `ClosedRowsHoldNoToken` | `ClosedHoldsNoToken` |
| `OutOfHoursReplyIsKept` | `OutOfHoursReplyKept` |

The properties are not inductive alone.  `JobsInv` adds two facts.
`ClaimsBehind`: a claim's version never exceeds its row's, and where it equals
the version of a CLAIMED row it names that row's execution.  A settlement
compares versions and not, for the server cohort, executions, so without it an
old claim could hold a newer version.  `Unanswered`: a row that may still be
claimed carries no model answer, and the fixed reply only if it is a runtime
row, so that settling such a row is either the first answer or the fixed reply.
The argument is one lemma per group of actions: `RowStep` says what a write of
one row must show, and each action's lemma shows it.  An account action rewrites
all rows at once and is treated in `AccountStepKeeps`.  The action property has
its own three lemmas on top of the same invariant.

`SupplyChainUnits` and `SupplyChainProofs` prove, for every number of processes, set of
scenes, number of requests, copies and attempts (`StoreAssumption`,
`ScenarioAssumption`):

| theorem | property |
|---|---|
| `StoreTypeCorrect` | `TypeOK` |
| `StockStaysCovered` | `StockNeverNegative` |
| `CountsCorrectWhatTheyCounted` | `CountedStockStood` |
| `RefundsStayWithinPaid` | `RefundsWithinPaid` |
| `PlacedHoldsAlwaysFit` | `PlacedHoldsFit` |
| `DocumentsAlwaysMatch` | `DocumentsMatchLedger` |
| `EffectOnceOrNotAtAll` | `OnceOrNotAtAll` |
| `DoneMeansStored` | `DoneIsStored`: a caller is told its request is done only when the committed receipt of its key names that request |
| `OutcomeStands` | `StoredStands`: a stored outcome is never replaced |

*Amounts.*  The properties are about sums: stock, verified payments, rows of a key.
`Sums` is a recursive function, and what it yields is proved from the existence of a
least number (`Least`): that a list has exactly one running total (`SumsRun`), that the
rows of two lists weigh what each weighs together (`WeighJoin`), and what a list weighs
once a row is replaced (`OneReplaced`) or added (`WeighMore`).

*The bus.*  A statement can end in four ways only: the unit goes on, is refused, given
up, or run again.  Each statement of the command modules is shown to be one of these
(`InventoryOutcome`, `CommerceOutcome`, `DocumentOutcome`), after which only `Look` and
`Commit` touch receipts and `told`: the invariant is `BusInv`, and a receipt is added only
for a key that has none, which is why what was told stays true.

*The units.*  COMMIT checks nothing, so what it commits must be in order before.  `Local`
says so of one unit, whatever its peers do: it has inserted as many rows, under its
key, as its statements so far may (`Written`), what it has noted of a row it will decide on is
still so, or the row's version has moved and a compare will refuse it (`Noted`), an
updated row keeps its key, and a payment was settled from the row that was noted
(`Changed`), only the holder of the
fence has written movements or settled a count (`Guarded`), and the stock and the
payments it *reads*, its own writes included, are ones the properties allow
(`Stocked`, `Backed`).  `Apart` says that two units hold different row locks and that
only one holds the unique codes of a table.  The fence is a row, so only one unit can
have written to the ledger: that is what makes a sum that was read under the fence the
sum that is committed.  Refunds have no fence: two refunds of an order are kept apart by
the lock of the order's row that each takes, and `Backed` counts the payments a unit
has verified against the net it saw under that lock.

*The steps.*  What each kind of write does to a unit in order is proved once
(`PassLocal`, `InsertLocal`, `RewriteLocal`, `TouchLocal`, `PostLocal`, `SettleLocal`,
`PreviewLocal`), then each statement of each command is shown to keep `Local` and
`Apart` (`StatementProgress`).  COMMIT turns the database into what its unit reads:
`CommitSound` shows that it is `Sound`, `CommitInOrder` and `PeerLocal` that each peer is
still in order on the database as it has become, for a row the peer holds locked was not
changed, and any other changed row has a new version.  `Invariance` puts these together,
and the theorems are read off `Sound`.  `OnceOrNotAtAll` has its own step (`CommitOnce`):
the rows of a key come from `Written` of the one unit that commits its receipt.

*Promises.*  Holds have no lock of their own beyond the fence, and releasing, converting
or expiring one does not take it: so the sum a hold was granted on may change under its
unit.  `Holding` says what a unit that has asked may rely on (`Asked`): it keeps the
fence, so the ledger stands and nobody else has placed a hold; every hold that is live
was live, with the same expiry, when it asked, or was committed since (`Knows`); and what
binds leaves room for what it asked.  A conversion that commits meanwhile adds a hold,
but ends the quote it was made from, of the same amount, read ACTIVE and locked
(`HoldsAdded`, `CommittedBinds`), so what binds never grows (`BindsAfter`), unless the
quote had run out when the other asked, which is what `Overtaken` sets aside.
`PeerHolding` and `StatementAnswers` carry this over every step, as `HoldsKept` beside
`IInv`, and `PlacedFits` reads the property off at the COMMIT.

*Documents.*  `DocumentsMatchLedger` compares the state of one document with weights of
other tables, and the two are written by different statements of a unit.  `Told` says
what a unit has written so far: its movements are all made for one document (`Why`), and
for a work order they are exactly what the row it saw asks for; a receipt and its
movement carry the received quantity; a unit that is past its update has it among its
writes.  An order that is completed with its stock has one movement or, when it counts
nothing, none (`Goods`), and the row of a sale says of itself what the sale issued
(`SaleRow`).  For a purchase order `Told` also says that what was counted when the order was
seen is still what its receipts say as long as its version stands (`Counted`): another
receipt would have moved the version, so the compare at the end misses.  Each statement
adds its part (`StatementTells`), and a peer's COMMIT takes nothing back (`PeerTold`).
At a COMMIT the ledger, the receipts and the holds grow by the unit's rows, so each
weight grows by what those weigh (`TableAdds`), and a document is as it was, or is the
one the unit names, moved on as its command says (`OrderLeft`, `PurchaseLeft`,
`WorkLeft`, `HoldIsLeft`).  `OrdersKept`, `PurchasesKept`, `WorksKept` and `HoldsMatched`
put the two together, one table each.  The property alone is not inductive: a movement
or a hold could name a row that is inserted only later, and a work order that has been
written once or twice could already have made something.  `Matched` adds what excludes
this: references name rows that are there, and `Young` says what a work order can be at
its first two versions.  The invariant is `Matched` of the database beside `IInv`,
`HoldsKept` and `ToldAll`.

`LineDeliveryProofs` proves, for every number of jobs,
senders, claimants, crashes and account actions and every value of the durations that
`JobsAssumption` and `DeliveryAssumption` allow (there is a job; lease, backoff and
window are positive; `RetryWindow + MaxPause + WireLife <= KeyLife`):

| theorem | property |
|---|---|
| `DeliveryTypeCorrect` | `TypeOK` |
| `DeliveredAtMostOnce` | `AtMostOneDelivery` |
| `FailedRepliesAreSafe` | `FailedReplyIsSafe` |
| `ExecutionStaysSafe` | `AnswerOfLatestExecution`, `ClosedHoldsNoToken`, with the senders running |
| `FencedWorkStopsAlways` | `FencedWorkStops` |
| `CohortAlwaysHolds` | `CohortHolds` |
| `ClosedRowsStayClosed` | `ClosedStaysClosed` |
| `ContractIsKept` | `KeepsContract`: every step maps to a step of `DeliveryContract` or to none |

The invariant of the first four is `SendInv`.  An answer leaves as one reply or as
pushes under one key, and the two are kept apart by the row's method, which changes
once, from reply to push.  `RowSound` says that a row which chose to reply is never
READY again; `SingleReply` that its reply is then in one place (one handler, one
request) and that LINE has shown nothing while a handler holds a refusal, which is
the only case in which the row falls back to push.  For pushes, `HandlerSound` and
`WireSound` carry the time of the row's first send from the row a handler read
through its claim to the request on the wire, so that a request arrives while the
key of an earlier acceptance is still honoured: this is where `DeliveryAssumption`
is used.  `Snapshot` makes a row of an older version unable to be claimed.  Most
steps change nothing of this; `Aside` says what such a step must show, once, and
one lemma per remaining step (`ClaimSendKeeps`, `FallbackKeeps`, `CallKeeps`, ...)
shows the rest.

For the refinement `ToldInv` adds that a row which is READY, being sent or accepted
keeps one answer, and that handlers, requests and LINE hold that text (`TextSound`);
that a handler calls accepted only what LINE has shown (`ToldSound`); and how a row
stands to the account's epoch, switch and cohort (`FenceSound`).  `Onward` says what
every write of a row respects, status by status; each action's row is shown to be
`Onward` once, and both `ClosedRowsStayClosed` and `ContractIsKept` follow from it by
`StepKinds`: a step writes one row, or is an account action, or books, or shows.

`ConversationRuntimeProofs` proves, for every number of jobs, replicas, executions and
crashes, on top of `JobsInv` (`RuntimeAssumption`: there is a job, messages ask
questions or work):

| theorem | property |
|---|---|
| `TurnTypeCorrect` | `TurnTypeOK` |
| `ModelRunsAtMostOnce` | `ModelRunsOnce` |
| `AnswersRestOnReceipts` | `AnswerHasReceipt` |
| `DeliversTheCommitted` | `DeliversWhatWasCommitted` |

An execution number belongs to one replica (`ClaimsApart`), so a request finds either
the turn that made it or nobody (`OneTurn`).  `TextSound` is what a text must rest on
before it may be committed; a turn has it from the moment it leaves the model, the
work tool or the evidence (`TurnSound`, the places `Late`), its requests carry it
(`CallSound`), and no step takes it back (`Grows`).  The model is entered from `ready`
only, under a trace that names this execution, and a turn whose trace has been used is
past `Early`: that is why a second entry is impossible.  A commit meets a turn of its
own execution only past its last stage and with the same text (`Told`): so a turn that
finds its row READY finds its own words there, although the answer to its completion
was lost.  A turn's own steps are `OwnStep`, a served call that writes a record and
no row is `AnsweredStep`, a step over the rows is `RowsStep`; each action is one of the
three, except the commit (`CommitHolds`).

`LineAdmissionProofs` proves, for every number of events, deliveries, sweeps, retries
and crashes (`AdmissionAssumption`):

| theorem | property |
|---|---|
| `AdmissionTypeCorrect` | `TypeOK` |
| `AckedCanBeRecovered` | `AckedIsRecoverable` |
| `OnlyOneJob` | `OneJob` |
| `LabelsTellTheTruth` | `LabelsTell` |

Its invariant follows a request through the phases of the webhook (`Reached`: what is
recorded, what is marked, whether anything failed), its continuation (`Continues`) and
each sweep (`Sweeps`): the verdict a continuation or a sweep carries to its next
transaction is true already, and stays true because of `Grows`, the facts that no
step takes back.  What a SKIPPED row may stand for is listed kind by kind in
`LabelsTell`; what the list excludes is a text that asks and is skipped for a failure
that may pass.

`FileManagementProofs` proves, for every number of callers, replicas, storage bindings,
slots, faults and late puts and every page size (`FileAssumption`: the ids and the calls
are finitely many, ids are positive, a created file is named after its operation):

| theorem | property |
|---|---|
| `FilesTypeCorrect` | `TypeOK` |
| `BytesAlwaysStand` | `BytesStand` |
| `HeardIsAlwaysStored` | `HeardIsStored` |
| `VersionsStayInOrder` | `VersionsInOrder` |
| `SlotsStayBalanced` | `SlotsBalance` |
| `ListingsAreWhole` | `ListingIsWhole` |

The invariant hangs on the operation row.  `AttSound`: an attempt that has passed the
row works for the row of its own operation id, at the storage the row names, and one
about to commit holds an object with its caller's bytes; `KeysOnce` makes that row the
only one under the caller's key and type.  `RowSound` ties a row, its version and its result.
Rows only grow and a key's object never changes (`RowsGrow`, `ObjectsGrow`), which
carries all of this over every other step; `ServiceKinds` and `AttemptKinds` say in how
few ways a step can move the rows and the attempts.  For the listing, `ListSound` says
of every file that stayed as it was that it is listed already exactly if it is not
behind the cursor; that a page has a last file at all, and leaves only what comes after
it, is `LastIs` and `AfterLast`, from a minimal element of a finite strict order
(`Minimal`).

`LineMemoryProofs` proves, for every number of jobs, scanners, couriers, erasures,
faults and late calls (`MemoryAssumption`: `Wire < Grace`, and there is a job):

| theorem | property |
|---|---|
| `MemoryTypeCorrect` | `TypeOK` |
| `ErasedStaysErasedAlways` | `ErasedStaysErased` |
| `DeliveriesTellTruth` | `DeliveryTellsTruth` |

The argument is about time.  `RecSound`: whatever of an erased job is still under way,
a turn or a call, passed its last fence no later than the record was written, and so
is through by `at + Wire` (`TurnSound`, `NetSound`).  A scan stands only at records
whose grace is over (`ScanSound`), so when MSP is asked nothing of the record's jobs
is left to come: `NothingComes`, the one place where `Wire < Grace` is used.  Without
`Covered` (every erased job has its record) a receipt could be written as pending
after the last acknowledgement; `WritersAreCovered` shows it cannot.  `Shown` carries
what receipts and Customer say.  For deliveries, `JobSound` ties row, receipt and MSP
together, and `DeliveryStep` says all that a courier may do to them.

Every invariant and action property of the passing runs is stated by a theorem.  Only
model-checked are the three violations and `MadeAsPlanned`, which the code does not keep,
and all liveness (`AckedSettles`, `RetrySettles`, `OutboxesDrain`, `ServerJobsSettle`),
because fairness and ENABLED are out of the prover's reach.  That a runtime turn always
ends is not checked.

## Not modelled

Within modelled parts: LOT and SERIAL stock, integer overflow, cost sheets, pricing,
catalogue, intake, standalone transfers, de-kitting, order edits and work orders without
locations of the supply chain (`kitting.js:144-147`: stock is only checked at release and
consumed at completion, nothing is staged or returned); reads, authority and provenance of file management (PENDING operations are
reconciled only by their caller's retry, as in the code); paging of the erasure scan,
the vault and mission drafts.  Whole parts: rich-menu jobs, GENESISRAG17 stages,
market intelligence, project manager, CRM retention, the agent's trace journal
(used here as the idempotent journal it is), and the request handlers, user
interface, documents and tools that make up most of the repository's lines and whose
correctness is one transaction or none.

## Plan

1. Two jobs on two accounts for the head-of-line hazard of the offer; failing
   reconciliation.
2. GENESISRAG17 stages, managed blob transfer, rich-menu jobs, CRM retention.
