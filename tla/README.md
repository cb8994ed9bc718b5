# Formal models of the quantum-ai-platform

TLA+ models, TLC configurations and TLAPS proofs about the concurrent and
fault-exposed core of this repository: the ledger of record
(`apps/qip-ledgerd`) reading its event stream; the event fabric's brokers, which
share one managed log (`services/qip-streaming`, `apps/qip-fabricd`); the desk
that ships its fills over that fabric to the ledger (`runtime/qip-kernel`,
`runtime/qip-desk-ship`); the peer mesh that trades two-legged cycles between
regional cells (`libs/qip-peer`, `edge/qip-peer-link`); and what one cell may
spend of its region's capital (`edge/qip-edge`). Paths below are relative
to `src/backend/crates/` unless they start with `src/` or `docs/`.

1. [The system](#1-the-system): inventory of components, state and hazards
2. [Modules](#2-modules): which module models which code, and how
3. [Runs](#3-runs): what TLC checks, within which bounds, and what it shows
4. [Proofs](#4-proofs): what TLAPS proves, from what and along which argument
5. [Disagreements found](#5-disagreements-between-code-and-documentation)
6. [Abstractions](#6-abstractions), [what is not modelled](#7-not-modelled) and
   [the plan](#8-plan)

To repeat a run: `tlc -config peer_cycles.cfg MCPeer`. To repeat the proofs:
`tlapm PeerSaga_proofs.tla`.

## 1. The system

A Rust workspace of about 1.1 million lines and a TypeScript front end. It runs
an eight-stage loop (SENSE, UNDERSTAND, DISCOVER, REASON, SIMULATE, DECIDE, ACT,
LEARN; `runtime/qip-kernel/src/cycle.rs`) on paper accounts only. Around that
loop are long-running processes that share nothing but messages and durable
logs, and that is where its hard behaviours are:

```
  edge cell  --journal outcomes-->  relay / outbox  --produce-->  event fabric (broker)
     |  ^       desk  --fills, operations-->  shipper --produce-->    |    |
     |  |                                        lease, commit, read  |    |  fetch, commit
     |  |                          managed log (Spanner) <------------'    v
     |  | peer frames (token, reserved, fire, fill, unwind)        ledger of record (qip-ledgerd)
     v  |                                                            Spanner / memory backend
  another cell
```

### Components, their state, operations and what makes them correct

**Ledger store** (`apps/qip-ledgerd/src/store.rs`). Durable rows: per cell a
chain of applied records and its tail, a park; per partition a cursor; account
balances, operations, tax lots. Operations: `apply` (one P1 record: post, skip a
duplicate, hold behind a park, park for a gap, an unpostable fill, an integrity
failure or a live fill), `apply_operation`, `release`, the audit at open.
One writer mutex, one batch per decision. *Correct if* each cell's booked history
is one unbroken hash chain per session, nothing is booked twice, no live fill is
ever booked, no quantity account goes negative, the balances are the fold of the
history, and a park only ends as it should.

**Ledger workers** (`consumer.rs`, `lib.rs`). One thread per partition: position,
consumer, group membership, deferral flag. Fetch a batch, apply every record,
commit to the consumer group, go back when a filled gap asks for it; crash and
resume at the store's cursor. *Correct if* no record is passed that is neither
booked nor held for later, re-reading ends, and the group checkpoint always
follows so that producers are not refused for ever.

**Ledger backends** (`apps/qip-ledgerd/src/{backend,spanner}.rs`). One atomic
commit; a lost answer leaves the caller not knowing. A Spanner writer row fences
an older process. *Correct if* an older process's commit never lands after a
newer one's.

**Event fabric broker** (`services/qip-streaming/src/event_fabric`,
`apps/qip-fabricd`). Per partition a log on its disk, a cursor lock, and, for a
managed stream, the lease it believes it holds and the lease epoch its log was
last brought level under; per producer id a highest epoch, the next sequence and
a window of recent batches; and outside it a database with one lease row and one
log per managed partition. Operations: `produce` (admit, commit, append, answer),
`init_producer`, `fetch`, `catch_up`, the lease thread's `tend_leases`,
`relinquish_leases` and `follow_leases`, recovery at open. *Correct if* every
producer slot is on the log once and in order, every disk is a prefix of the
managed log, one broker at a time extends it, an older producer epoch writes
nothing after a newer one was given out, and who keeps trying is answered.

**Producers** (`libs/qip-transport/src/event_fabric/producer.rs`). One epoch, one
next sequence, a fence latch. `init`, `send` with a ladder of retries; a refusal
may tell the sequence to go on at. *Correct if* a retry is recognised as one.

**Consumer groups, segment log, archive, mirror**. Members, generations and
leases; append, roll, flush, recovery; what may be forgotten locally. *Correct
if* a superseded member commits nothing and what was flushed survives.

**Desk feed and shipper** (`runtime/qip-kernel/src/desk_ledger.rs` and the parts
of `platform.rs` that use it, `runtime/qip-desk-ship/src/lib.rs`). Durable: the
event log with fills, operations and acknowledgement watermarks. In memory: the
chain's next position, a bounded queue, a gap flag, the shipper's batch in flight
and its expected position, a worker thread with a producer. Operations: book,
acknowledge, heal a gap, resume; settle and hand over once per cycle; deliver.
*Correct if* every booked fill reaches the ledger's partition, the chain arrives
without holes, and the journalled watermark never speaks of what has not arrived.

**Edge relay, drain and outbox**. What leaves a cell's journal, in which order,
and when it may be forgotten. *Correct if* every outcome leaves at least once
and in order.

**Peer endpoint and saga** (`libs/qip-peer/src/lib.rs`,
`edge/qip-peer-link/src/{saga,wire,host,boundary}.rs`). In memory, per node: the
epochs held, and for each the reservations, declines, FIRE, fills and unwinds
heard of; the saga's open, attempted, executed, unwound and closed cycles; a
reservation book per venue, instrument and side; the cell's newest authority.
One session thread per node: `authorise`, absorb frames, `forget_expired`,
probe clocks, `Saga::step`. *Correct if* no leg trades before FIRE, FIRE needs
every reservation, a committed leg keeps its hold, the book stays inside its
grant, an unwind gives back just the excess inside the declared loss, everything
ends at the TTL, and every cycle is accounted for.

**Edge cell** (`edge/qip-edge`, `edge/qip-sequencing`, `edge/qip-orderbook`,
`edge/qip-protocols`, `edge/qip-strategy`, `edge/qip-routing`,
`edge/qip-arbitrage`, `edge/qip-feature-dag`). In memory: the region table (free,
holds, committed, the bound of the share last applied), the policy payload that
serves and the one before it, each strategy's signed grant, the orders at the
venue, the cycles whose first leg rests, a halt. The node's turn is one thread
(`apps/qip-edge-node/src/scheduler.rs`): halts, rollback, payloads and grants,
then one pass: confirm fills, withdraw what is due, hold capital for each
intent, net and send, resume and send cycles, reconcile with the venue's drop
copy. Around it: fencing and standby takeover, settlement, journal, market-data
sequencing, books, decoders, features, strategies. *Correct if* one process
writes for a cell, capital is neither made nor lost, what is spent stays inside
the share and the ceiling, capital follows what filled, no hold and no resting
leg is forgotten, whatever ends a pass.

**Execution, risk and capital** (`services/qip-execution-engine`, `qip-brokers`,
`qip-risk-engine`, `qip-capital`, `qip-capital-fabric`, `qip-lifecycle`).
Order life against late, repeated and out-of-order reports; autonomy levels and
the kill switch; envelopes and transfers between cells. *Correct if* a terminal
order stays terminal, a halt stops what it says it stops, and capital is neither
made nor lost in flight.

**Everything else**: the kernel cycle, research, learning, world model,
prediction, optimisation, quantum and simulation services; `qip-agency` and the
agents; the API, CLI, web and brain applications; the front end and the
infrastructure files. Sequential, numerical, presentational or I/O code.

### Behaviours that are hard to test

`PROJECT.json` lists each hazard at its line, with the property that would catch
it. In short: a gap filled while its successors are already behind the worker;
a crash between the rows' commit and the group's; a commit applied whose answer
is lost; an operator's release under a running worker; a broker that lost its
disk; live, forked, re-framed or backward records behind gaps, parks and
sessions; two partitions on one balance; a lag limit met by a worker that holds
its commits back; FIRE, fills and declines sent once over a wire that drops and
delays; expiry read off different clocks; an authority that changes between
pricing, reservation, execution and unwind; two cycles on one book; a commit to
the managed log whose answer is lost, or which lands after its broker was
deposed; an init between an admission and its rewind; a local append that fails
after the commit; a drain with a produce in progress; a desk queue that is full
while the chain goes on; a resend that is no longer the batch that was sent; a
desk that dies between delivery and acknowledgement; a pass that ends in an error
with holds standing; a share narrowed below what is already spoken for; an order
withdrawn while the venue fills it; a resting leg that ends turns before its cycle
is resumed.

## 2. Modules

### The ledger

| Module | Code | What it holds |
|---|---|---|
| `LedgerEvents` | `store.rs` records, `libs/qip-contracts/src/ledger.rs` | records, operations, the fold of one event |
| `LedgerStore` | `store.rs` | the rows; `Judge` = the decision of `apply` in its order; `Post`, `Skip`, `Park`, `BookOperation`, `PassOperation`, `Release` = the batches |
| `LedgerBook` | ADR 0100, ADR 0105 as the code keeps them | abstract: entries booked once, in order, with their postings; no offsets, parks, restarts |
| `LedgerDaemon` | `consumer.rs`, and the broker and group as they meet it | extends `LedgerStore`: log, checkpoint, generation, workers, crash, faults; refines `LedgerBook` |
| `LedgerAudit` | `store.rs` `verify_history`, `refold` | the balances recomputed from the history |
| `Sums` | | sums over finite sets, used here and by the cell's capital |
| `MCLedger` | | journals and batches for TLC |

`LedgerStore` has the whole state a decision reads. `Judge(p, o, r)` is
`LedgerStore::apply` as an expression: rehashed offset, live fill, backward span,
full tail, behind, ahead, next - the order matters and mutants change it. Each
outcome is one action because `apply` holds the writer mutex and hands the
backend one batch. In `LedgerDaemon` the actions of one worker (`Step(p)`) are
the calls `PartitionWorker::step` makes that have an effect anyone else can see:
`Join`, `Fetch`, `ApplyRecord` (with the re-read and the seek of the same
iteration), `ApplyNextOperation`, `PassOver`, `Finish` (position and group
commit), `Idle` (deferred commit and rejoin). `FailFetch` is an unanswered fetch
or an undecodable batch. `Crash`/`Start`, `Lapse` (leases run out or the broker
restarts), `LoseBroker`, `LostAck`, `ReleaseStopped`, `ReleaseLive` are the
faults and the operator.

### The peer mesh

| Module | Code | What it holds |
|---|---|---|
| `PeerCycles` | `EpochLeg` | cycles, legs, and the history of a cycle |
| `PeerContract` | what `lib.rs` and `saga.rs` keep | abstract: promise or refuse once, FIRE after both, trade once after FIRE, give back the excess |
| `PeerEndpoint` | `PeerEndpoint::admit`, the `try_*` calls, the saga's stages | one node's view of one cycle: `Admits`/`Applied` for frames, `Stepped` for a pass |
| `PeerSaga` | `PeerSession::turn`, `Saga::step`, `Host::run` | extends `PeerEndpoint`: nodes, clocks, wire, books, counts, restarts; refines `PeerContract` |
| `MCPeer` | | instances for TLC |

`view[n][o]` is `OpportunityState` together with what the saga keeps per cycle
(`attempted`, the spread a leg was sent at, `closed`), which live exactly as
long: `forget_gone` drops them when the endpoint forgets the epoch. `saga[n]` is
the rest: `open`, `fired`, the reservation book, and the status counters kept as
sets of ids. One `Turn` is one whole pass - authorise, expire, count, originate,
reserve, fire, execute, unwind, close - because the session thread does it
without interruption; its inputs are a record `i` of what it reads (authority,
measured clocks, prices, the peers' touches, which reservations the book took).
`Arrive` judges a frame at its arrival, as `absorb` stamps it. `cycle[o]` is
history: what cells promised and venues filled, whoever has forgotten it; no
guard reads it.

### The event fabric

| Module | Code | What it holds |
|---|---|---|
| `FabricProducers` | `event_fabric/producer.rs` of qip-streaming | one producer's state at one partition and the judgement of `admit`: `Fenced`, `OutOfOrder`, `Fresh`, `Duplicate`, `Conflict`; `Admitted`, `Restored`, `Initialised` |
| `FabricPromise` | the contract of a managed partition | abstract: one log, each producer's slots in order and once, acknowledgements that name a batch's offset |
| `FabricBroker` | `produce_managed`, `catch_up`, `tend_leases`, `relinquish_leases` of `broker.rs`; `acquire_after_expiry`, `release`, `commit` of qip-fabricd's `spanner.rs`; the lease thread of `lib.rs` | several brokers, one database, producers; refines `FabricPromise` |
| `MCFabric` | | instances for TLC |

The unit of atomicity is the section a lock delimits or the statement the
database executes. A managed produce is `StartCommit` (admission under the
producers lock, while the partition's cursor lock is held to the end),
`DecideCommit` (the database) and `FinishCommitted`, `FinishRefused`,
`LoseAppend` or `LoseAnswer`; `call[b]` not `NoCall` *is* the cursor lock, so the
lease thread's `SettleLease` and the catch-up wait for it, and `InitProducer` and
`Relinquish`, which do not take it, do not. A lost answer leaves the commit in
`late`, from where it may still be decided at any time (`LandLate`). `log`,
`incarnation` survive a `Crash`; `replay` is the table that reading the disk back
yields, kept step by step. Catching up is one row a step, since a failing read
may end it after any.

### The desk

| Module | Code | What it holds |
|---|---|---|
| `DeskLedgerFeed` | `desk_ledger.rs` | the feed as a value: `FeedAdmitted`, `FeedAcknowledged`, `FeedHealed`, `FeedResumed`, `Acknowledgeable` |
| `DeskPromise` | what the ledger needs of the desk | abstract: the fills arrive as one chain, the watermark behind them |
| `DeskShip` | `platform.rs` (sign, book, acknowledge, resume), `qip-desk-ship`, the producer of `libs/qip-transport`, `produce_from` and `recover_producers` of `broker.rs` | the composition, over `DeskLedgerFeed` and `FabricProducers`; refines `DeskPromise` |
| `MCDesk` | | instances for TLC |

One call of `Shipping::step` is one action: settle what the worker finished,
then hand over at most one batch (`HandOver` is part of every `Settle...`). The
worker's `InitProducer`, `Send` and `GiveUp`, the broker's `Admit` (under the
producers lock) and `AppendBatch` (under the partition's) interleave with it and
with the platform's `Book`. Whatever was sent stays on `wire` and may be offered
again at any time, past the life of its sender: that covers the ladder's
retries, duplicates of the network and requests that arrive after a restart.

### The edge cell

| Module | Code | What it holds |
|---|---|---|
| `RegionAllocation` | `reservation.rs` | the region ledger as a value: `Rebased`, `Rederived`, `Reserved`, `Released`, `Committed`, `Returned`, `Swept` |
| `EdgeCell` | `cell.rs`; `pass.rs` and `scheduler.rs` of qip-edge-node | the cell: policy and grants, orders, nets, cycles, halts, and its pass |
| `MCCell` | | instances for TLC |

Nothing runs beside a turn, so what interleaves is decided between passes: the
payloads, grants, withdrawals and halts of `Mesh`, the venue's `Fill`, and the
passes themselves. A pass is cut where an error may end it (`phase`): `StartPass`
is everything up to the first intent (late orders, confirmations, withdrawals,
the halt check, the sweep), `Ask` one hold, `PlaceNet`, `RefuseNet` and `FailNet`
one net, `CompleteCycle`, `AbandonCycle` and `BreakResumed` one resumed cycle,
`PlaceWhole`, `RestLeg`, `RefuseCycle` and `BreakCycle` one new one, and `EndPass`
the reconciliation. `abandoned` is a pass that an error ended: its holds stand
until the next pass sweeps them. `orders[o].at` is what the venue has filled and
`filled` what the cell has booked; the cell decides on the second, the venue and
the drop copy on the first. `orders` is the map from ids to open orders of the
code; `Slots` are the ids there are room for, interchangeable, so that TLC may
treat them as symmetric.

## 3. Runs

Every run completes in under three minutes with two workers.
The last five state sentences of the documentation the code does not keep.

| Run | Question | Bounds |
|---|---|---|
| `ledger_gaps` | Is anything lost behind a worker or a cursor; do gaps end with their record, do live fills hold their cell, do parks only escalate, does re-reading end, are producers refused for lag admitted again? | 1 partition, 2 cells, up to 4 of 6 kinds of batch in any order and repetition, lag limit 1, 2 crashes, lapses or releases of a stopped daemon |
| `ledger_faults` | Does what is booked stay a contiguous, immutable, balanced history whatever arrives and whatever fails, and does the daemon refine `LedgerBook`? | 3 batches of refused records of every kind with operations between; broker loss, lost answer or release under a running worker |
| `peer_cycles` | Does one cycle keep the contract, settle to the lesser fill, keep its holds and its counts, and is everything let go of in the end? | 2 nodes with clocks 1 apart, 3 authorities (whole, half and too dear to leave) or none, TTL 2, 4 ticks, 2 losses or restarts |
| `peer_book` | Does a cell in two cycles hold no more than its grant, and keep a committed leg's hold? | 3 nodes, the middle one with room for one leg, no faults |
| `fabric_failover` | Is every disk a prefix of the managed log, has a lease epoch one holder, do the brokers together refine one log, is who keeps trying answered? | 2 brokers, 2 incarnations of 1 producer id sending 1 batch each, window 1, 2 rows, 3 lease epochs, 1 fault of 5 kinds |
| `desk_ship` | Does no fill fall out of the feed, can every delivery be acknowledged, does the chain arrive without holes, does everything arrive? | 4 fills, 1 operation, queue 2, memory 3, batches of 2, the code's window of 5, 2 faults of 8 kinds |
| `cell_capital` | Is capital conserved under the ceiling and inside the manifest the share came with, does it follow what filled, is any hold or resting leg forgotten? | 2 strategies, 1 cycle, 3 grants of which one may lapse, 2 manifests or none, 2 payloads, ceiling 2, 2 order slots, orders filled none, in part or whole |
| `ledger_lost_ack`, `peer_stranded`, `fabric_init`, `desk_stall`, `cell_share` | Sentences of the documentation that the code does not keep: section 5 | the fewest batches and faults that show it |

Why the bounds are enough. *Ledger*: a gap needs three records of a session and
a session change needs a second session (`MaxSequence` 3 also reaches the full
tail); a batch holds at most three records under `Stride` 3, so that a gap can
begin in the middle of a batch and end in another; a park is reached again under
every worse reason within four batches; balances of at most 2 in size reach the
floor, the ceiling and the overflow of a fold. Faults are bounded because each is
an independent disturbance: two meet in every order in `ledger_gaps`, and
`ledger_faults` sees each of its kinds alone. Two partitions over one balance are
left to the proofs: a balance is read and written inside one decision, whichever
worker asks. *Peer*: legs of 2 with touches of 1 give a partial fill on
either side or both; two ticks of TTL put an expiry between any two
events; a clock one tick ahead makes one node forget before the other; two
faults lose a frame and restart a node, or restart both. *Fabric*: two brokers
depose one another and take the lease back within three lease epochs, and a
third lease is a third holder of the row; with a window of one and two rows a
batch is pushed out of the window while its retry is under way; two incarnations
give a fenced and a fencing one. One fault is enough for each of its kinds, since
lapses of a dead or draining holder, catch-ups and both incarnations' retries
cost none; two faults were beyond a run of this length, and the safety properties
of this run are proved for any number. *Desk*: four fills against a queue of two
and a memory of three reach the overflow of either, a gap of two with records
queued before it, and a heal in two parts; two faults put a crash or a broker's
restart after a lost answer; they are too few for the promise to break (section
4). Without the overtaking append the same instance was also checked to three
faults. *Edge cell*: with a ceiling of 2, grants of 1 and 2
and manifests that name one grant or two, a share is below, at and above what is
spoken for and above the ceiling; two payloads give one to roll back to; two order
slots make a cycle meet the bound, beside a net or alone; two strategies give a net
of both, one of each, and one left standing when the other fails; one cycle rests
either leg. Faults are not counted: every turn may be any of them. The proofs of
section 4 hold without any of these bounds.

Every property has a mutant in `PROJECT.json`: a plausible bug in the code
(a dropped guard, a wrong order, a missing reset) for which TLC finds that
property violated.

`CHECK_DEADLOCK FALSE` is set where the bounded system stops: after the last
tick no cycle can open and every queue is empty.

### Fairness

`ledger_gaps` assumes `WF(Start)` and `WF(Step(p))`: the run loop
(`consumer.rs` `run`) calls `step` for ever with a bounded back-off, the broker
and the store sooner or later answer, and a stopped process is started again by
its supervisor. Nothing is assumed of producers, of faults or of `FailFetch`.
`WorkersCatchUp` is stated up to a record that never decodes, where the code
stalls on purpose.

`peer_cycles` assumes `WF(Tick)` and `WF(Overdue(n) /\ Turns(n))`: time passes,
and `Host::run` turns on every `recv_timeout(TURN)` whether or not anything
arrived, of which no more is used than that a node holding a cycle past its expiry
turns once more. No frame need ever arrive, and no authority need ever be given.

`fabric_failover` assumes weak fairness of the lease thread (it runs every third
of a TTL, `lib.rs` of qip-fabricd), of catching up and of a commit in progress
(the database answers), of `Lapse` (time passes) and of `Restart` (a restart
policy); and strong fairness of the batch a producer waits with being taken up
by *some* leading broker: producers reach the brokers through one service address
and retry for ever, while each single broker may lose its lease between any two
of their attempts. `SentIsAnswered` excepts a producer another incarnation of its
id has fenced or overtaken.

`desk_ship` assumes weak fairness of the cycle loop's `Step`, the worker, the
broker's answer to what is waited for, appends, and `Resume`. Nothing is assumed
of fills, faults or stale deliveries. `EverythingArrives` has three exceptions,
each a state the code never leaves by itself: a fenced desk (by design), a gap
with an empty queue (`Starved`: healing only ever follows an acknowledgement, and
nothing is left to acknowledge), and a producer whose sequence is behind what the
broker admitted (`Stalled`: section 5).

## 4. Proofs

All for every set of cells, records, operations, partitions, nodes, cycles,
clocks and authorities, and every bound. The assumptions on constants are named
in the modules that declare them and say only that they have their types, that
sentinels are not values, that no batch is longer than `Stride`, and that a cycle
has two different nodes.

| Theorem | Statement |
|---|---|
| `LedgerDaemon_proofs!TypeCorrect` | `Spec => []TypeOK` |
| `ContiguousChains`, `SequencesBookedOnce`, `TailsEndChains`, `PaperOnly`, `QuantitiesHold` | the store's safety properties |
| `LedgerDaemon_proofs!HistoryStays` | no booked row changes, balances move only with a booking |
| `LedgerDaemon_proofs!DaemonImplementsBook` | the daemon refines `LedgerBook` |
| `LedgerLoss_proofs!OnlyGapFillsNeedAnswers` | `NothingLostBehindTheCursor` and the same of running workers, as long as every step is of `HarmlessFaults`: any answer may be lost but a gap fill's |
| `LedgerLoss_proofs!NothingLost` | `NoRecordLost`, when the only faults are crashes, lapses and releases of a stopped daemon |
| `LedgerLoss_proofs!ParksEscalate` | `Spec => ParksOnlyEscalate`, under every fault |
| `LiveFillsHold`, `GapsEndWithTheirRecord` | `LiveFillHoldsItsCell`, `NoGapOutlivesItsRecord`, under `HarmlessFaults` |
| `LedgerAudit_proofs!AuditPasses` | `Spec => []BalancesAreTheFold`, under every fault |
| `PeerSaga_proofs!PeerTypes` | `Spec => []TypeOK` |
| `PeerSaga_proofs!SagaKeepsContract` | the mesh refines `PeerContract` |
| `CommittedLegsHeld`, `CyclesCounted`, `ClosedCyclesSettle` | the saga's safety properties |
| `PeerSaga_proofs!BooksFit` | `Spec => []BookWithinGrant`, for any finite set of cycles |
| `FabricPromise_proofs!TypeCorrect` | `Spec => []TypeOK`, with every window inside its size |
| `FabricPromise_proofs!CommitsAreOrderedByLease` | `Spec => []OneHolderPerEpoch` |
| `FabricPromise_proofs!ReplicasArePrefixes` | `Spec => []ReplicaIsPrefix` |
| `FabricPromise_proofs!BrokersKeepThePromise` | the brokers refine `FabricPromise` |
| `FabricPromise_proofs!AloneFencedFromInit` | one broker alone satisfies `FencedFromInit`, as long as `RestoresWhatWasIssued`: no rewind and no restart goes behind an epoch given out |
| `DeskShip_proofs!TypeCorrect` | `Spec => []TypeOK`, with the queue inside its bound |
| `DeskShip_proofs!NothingForgotten`, `HeadIsOut` | `Spec => []NothingIsForgotten`, `Spec => []OutIsTheHead` |
| `DeskShip_proofs!SlotsAreGivenOnce` | `[]SlotInv`, as long as `RestartsInOrder`: a broker that restarts reads its partition back in order |
| `DeskShip_proofs!PromiseNeedsOrderAtRestart` | the desk refines `DeskPromise`, under the same assumption and no other |
| `DeskShip_proofs!DeskKeepsThePromise` | the same for instances without overtaking appends, or without restarts of the broker |
| `EdgeCell_proofs!CellTypes` | `Spec => []TypeOK` |
| `EdgeCell_proofs!CeilingHolds`, `WarrantHolds` | `Spec => []WithinCeiling`, `Spec => []WithinWarrant` |
| `EdgeCell_proofs!CapitalFollows` | `Spec => []CapitalFollowsFills`, for any number of orders |
| `EdgeCell_proofs!NoHoldIsLeft`, `RestedLegStays` | `Spec => []PassLeavesNoHold`, `Spec => []RestedLegIsKept` |
| `EdgeCell_proofs!ShareHolds` | `[]SpendsWithinTheShare`, as long as `NarrowsOnlyTheFree`: no share is narrowed under what is held and committed |

**Ledger store and daemon.** The inductive invariant is `DaemonInv == TypeOK /\
StoreInv /\ HandsAreOnTheLog`. `StoreInv` joins the properties to each other:
`NoSequenceBookedTwice` alone is not inductive, because a record is judged against
the *tail*, and only `TailEndsTheChain` says the tail is where the rows end; the
chain's contiguity in turn needs the tail's digest to be a booked row's.
`LedgerDaemon_proofs` shows that each decision of `apply` preserves it, and that
every action is such a decision on a record that is on the log. The refinement
follows because a `Post` satisfies `IsNewest` and `Continues` by that invariant,
and every other step leaves `book` alone.

**No record lost.** `LossInv` adds what ties positions to rows: each cell's
records lie on its own partition (`LogIsHomed`); a park lies there, at an offset
the log has reached (`ParksAreHome`); *everything of a parked cell before its
park is booked* (`ParkIsFirstUnbooked`), which is what makes going back to the
park, and no further, enough; and a batch asked for or in hand never starts past
the position; nothing behind a resume offset or a running worker is unsettled
(`NothingPassed`). `HarmlessFaults` leaves out, step by step, what loses a record:
the loss of the broker's log; a release under a running worker, which keeps its own
position and whose next record raises the cursor again; and of lost answers the one
kind that matters, the answer to the record that fills a gap, which is what sends
the worker back (`LosesGapFill`, section 5). Every other commit may be applied and
its answer lost, and the retry is a duplicate that passes nothing. Only the worker's
lead over its store (`WorkersAhead`) needs that no answer is lost at all, and with
it `NoRecordLost` is proved under `FaultKinds \subseteq SafeFaults`. Nothing in
production calls `release` on a running store; it stays in `ledger_faults`, where
what is booked must stay right regardless.

**Cells are held.** `HeedInv` says that what was read was heeded
(`ReadIsHeeded`): a live fill behind a worker holds its cell from its own offset
or an earlier one, and the record a gap awaits is not among those read. It needs
two facts about sessions and deliveries: a gap awaits the tail's session or a
later one (`AwaitedIsCurrent`; without it a booking could start the awaited
session and leave the gap behind), and the delivery a cursor remembers is the one
on the log (`CursorRemembers`; without it a live fill could be taken for the
repeat of a record already applied, and be passed). Both properties are proved under
`HarmlessFaults`. `NoGapOutlivesItsRecord` is false without it: TLC shows a gap whose
record was read and whose answer was lost. `ParksEscalate` needs none of this and
holds under every fault.

**The audit.** `AuditInv` adds to `BalancesAreTheFold` only that what is booked is
finite, though the journals need not be: a sum over it is then a number, and one
event more adds what `Moved` puts on its two accounts, which for a record or an
operation that debits and credits the same account is nothing. `DaemonInv` is what
makes the event one *more*: a post takes a row that was free, and rows never
change. What `verify_history` finds at open is therefore right, and it never stops
a ledger that these actions have written.

**Sums.** `SumOver` is the community modules' `MapThenSumSet`, a recursive function
on subsets that picks one element after another. An induction theorem over an
operator cannot be instantiated here, so `Sums_proofs` argues by a least
counterexample: `SetInduction` is about a *set* of subsets, and its proof takes the
smallest one outside it by `WFMin` on the naturals. From it follow that the
iteration exists and is unique, that any element may be taken out first, and with
that sums of unions, parts and updates. `EdgeCell_proofs` and `LedgerAudit_proofs`
use nothing else of sums.

**Peer mesh.** `MeshInv` says that every *statement* in the system is true of the
cycle it is about, and stays so: every node's view (`ViewsAreTrue`), and every
frame on the wire (`FramesAreTrue`) - for a frame that may arrive late, after
the sender restarted or forgot, only facts that never become false are said. A
token moreover says that its recipient has not answered for the cycle, which is
why a node that restarts cannot promise again: a token is sent once. What
one pass does to one view is stated as `Moved` and proved stage by stage;
`StepKeepsCycle` derives from it everything a turn does to a cycle, including
that the loss of an unwind is covered - `Excess <= Size` and `spread <= unit` at
the time the leg was sent, and products are monotone.

**Event fabric.** Two inductive invariants. `LeaseInv` says that whoever believes
it holds a lease, waits for the database's answer, or has a commit under way under
an epoch either is the row's holder at that epoch or is behind it; so a commit
that lands late meets its own epoch only if its sender still (or again) holds the
lease. `PromiseInv` relates every copy of the truth to the managed log: each
broker's disk is a prefix of it (`DisksFit`), a commit on its way carries an
offset and a batch that follow the log *if* the lease and the offset let it in
(`CallsFit`, `LateFollow`), and each producer table knows at least what the disk
says and never more than what the log and the call in progress account for
(`TablesFit`). The point of the proof is the rewind: after `LoseAnswer` the table
knows less than the log may already hold, which is harmless only because
`caughtUp` is cleared and nothing is admitted before the log is level again.

`AloneFencedFromInit` marks where the fence of `fabric_init` (section 5) gives way.
Its invariant, `FenceIsKnown`, is that a running broker knows every epoch given out,
and the two steps it is assumed of are the two that restore an older table: the
rewind of a produce in progress, and a restart. TLC confirms that neither part of
the hypothesis can go: with two brokers the one that leads need not have heard of the
init at all.

**Desk.** `DeskInv` joins the types to `FeedInv` (the queue is one run that starts
at the watermark, and its end is the chain's or the gap is set) and to `OutInv`
(the batch with the worker is a run at the head of the queue). Booking extends the
run only at its end, healing only at its end too - which is what
`FeedHealed`'s lemma proves for any capacity - and only an acknowledgement of the
batch itself removes from the head.

The promise needs two invariants more. `SlotInv`: a slot, which is a producer
sequence, belongs to one batch among what the broker remembers, is appending and
has logged (`OneBatchPerSlot`), and the window that reading the partition back
yields has none that is not on it (`LogIsReplayed`). `ChainInv`: the fills on the
partition are the chain up to somewhere between the watermark and what is booked,
whatever was ever sent begins no later than where that chain ends, and what the
worker calls delivered is on it. Together they say that a duplicate the broker
vouches for is on the log. The theorems assume one thing, of one step: a broker
that restarts reads its partition back in order, so that the sequence it continues
at is behind no batch that is on it (`RestartsInOrder`). Appends may overtake each
other at any other time. The assumption is met where appends do not overtake each
other (`AppendsInOrder`) and where the broker does not restart, which gives
`DeskKeepsThePromise` (`NoSlotComesBack`). With both faults the promise is false.
A window of two and six faults let TLC find it: the desk crashes and a request
times out, so that two batches are admitted; the later is appended first; a
restarted broker reads them back in that order and gives the later one's slot out
again; and a batch is acknowledged that is not on the log (hazards,
`broker.rs:1030`). `SlotInv` and `ChainInv` were checked by TLC on both kinds of
instance, with three faults, before they were proved.

**Edge cell.** `CellInvariant` is the six properties with what each needs of the
rest. `WithinWarrant` holds through a rollback only because the share remembers the
sequence of the payload it came with, and a payload that still serves under that
sequence names the manifest of it (`CameWith`). `CapitalFollowsFills` needs more
than itself about open orders: a net's order has capital until it ends with nothing
filled, and a resting leg belongs to exactly one cycle (`OrdersArePriced`), for else
resuming one cycle would let another's leg be settled. `PassLeavesNoHold` needs that
a pass knows each hold it took, and that only a pass an error ended does not
(`HoldsAreKnown`). The region table is a value, and the first lemmas say what each
of its operations moves between free, held and committed; the steps then compare
sums over the orders before and after, which is where `Sums_proofs` comes in.
`ShareHolds` marks where `cell_share` (section 5) gives way: what is free, held and
committed stays within the bound (`FreeIsCovered`) through every step, since a step
either moves capital among the three or binds the region anew (`RegionStep`), and
only a share below what is spoken for leaves more than it allows. TLC checked both
invariants under the hypothesis on the instance of `cell_share`.
Nothing bounds the strategies, cycles, grants or order ids but that they are
finite.

**Only model-checked.** Liveness (`WorkersCatchUp`, `ProducersReadmitted`,
`NothingLingers`, `SentIsAnswered`, `EverythingArrives`), since fairness and
ENABLED are beyond the prover. Each safety property of a passing run is stated by a
theorem. Three of the ledger's (`NoRecordLost`, `LiveFillHoldsItsCell`,
`NoGapOutlivesItsRecord`) and the desk's `KeepsThePromise` are proved under the
assumptions on faults named above and not without them. `NoLegIsStranded`
(`peer_stranded`) and `RetriesGetThrough` (`desk_stall`), which the code does not keep,
have no theorem that says how far they hold. `EdgeCell` states no
liveness: a hold left by a pass that failed is returned by the next pass that runs
(`PassLeavesNoHold`), and a halt of the cell's own is for ever.

## 5. Disagreements between code and documentation

Five runs state what a document or a comment says and TLC shows a behaviour of
the code that does otherwise; `PROJECT.json` quotes both.

- `ledger_lost_ack`: "An `Err` means nothing moved". A commit that is applied and
  whose answer is lost is offered again; if it was the record that filled a gap,
  the retry is a duplicate, the re-read is never asked for, and the cursor passes
  the held records. `OnlyGapFillsNeedAnswers` proves that no other lost answer does.
- `peer_stranded`: a leg vetoed after FIRE is "a failed leg for recovery". There
  is no frame that says so: the coordinator's filled leg waits for a fill that
  never comes, and the cycle is dropped at its TTL.
- `fabric_init`: an older epoch is to be fenced from the moment `init` gives out a
  newer one. `init_producer` does not take the cursor lock, so it may fall between
  a managed produce's checkpoint and its rewind, and the rewind puts the older
  epoch back. The epoch given out also lives in memory only until its first
  append: a restart or a failover before that gives it out again.
  `AloneFencedFromInit` proves that a single broker has no third way to forget it.
- `desk_stall`: the desk's retry is to resend "the same bytes". It is built anew
  from what is pending, so a fill booked since makes it a longer batch under the
  same epoch and sequence. If the first one had landed, the broker answers
  `SequenceConflict`, on which the producer changes nothing: every later delivery
  of this process is refused.
- `cell_share`: `bound` is "the bound the ledger enforces now". A share below what
  is held and committed sets what is free to zero and forgets the shortfall, and
  whatever comes back later - a hold released or swept, an order withdrawn
  unfilled, an abandoned cycle - is free again whole. The next pass spends beyond
  the share. `WithinCeiling` shows that it stays within the operator's ceiling,
  which is why the disagreement is with the share only.

Others were seen while modelling and are no runs of their own. ADR 0100 has the
ledger apply by chain continuity what producers append again below the consumed
offset after the broker lost its disk (lines 127-129); the store would, the worker
never fetches below the store's own offset (`consumer.rs:570`).
`ledger_lost_ack.cfg` with `FaultKinds = {"loss"}` and `Batches <- LossBatches`
shows it. In the cell: a break in the middle of a pass does not stop the pass,
which reads the halt once, at its top; a leg sent to rest which fills at once is
reported as a break, since its answer is not read before the reconciliation; the
comment on the sweep says that a halted cell does not pin capital, but a halted
node's turn ends before the sweep (`pass.rs`); a rollback changes the payload that
serves and leaves the share where the newer one put it. The doc of
`DESK_FEED_CAPACITY` has the desk refuse to book a fill past it; `admit` books it
and reports an overflow. An append that fails on one disk (`produce_from`) leaves
its batch admitted: its producer's next batch waits for a broker restart. An
overtaking append and a restart together give a sequence out twice (section 4,
desk).

## 6. Abstractions

*Ledger.* Journal notes, metrics, exports and watermarks are written and never
read by a decision. A record hash is the record itself (`copy` tells two
encodings apart); a digest stands for the history it seals. The consumer's
queue of pending records, credentials, TLS and the retry breaker are left out: a
fetched batch is in hand until applied. An unbalanced operation is one more
refused one. `Homed` is the broker's own-key rule (`acl.rs`). `LoseBroker` is
taken between fetches, so that a batch in hand is on the log.
`record_operation` and `record_watermark` have no caller outside tests.

*Fabric.* One managed partition; one record in a batch; a batch's hash is the
batch. Time is reduced to whether the lease row still runs: `Lapse` under a live
holder is a fault, under any other it is due. The preferred leader's grace and
settling period only delay an acquire. `remember_offset` drops the offset of a
slot at the same size as the window drops the slot, so a duplicate's offset is
read off the log. A `catch_up` inside a produce and one in a lease pass are the
same steps. Quota, credit, schemas, stamps and the archive are left out. A broker
whose log is ahead of the database would refuse to go on; `ReplicaIsPrefix` shows
it never is.

*Desk.* A record is its chain position: the event log fixes what is in it. Venue,
order and id checks that refuse a fill before the chain advances are left out, as
are the id memory's contents (only its size counts). The back-off after a failure
may end at any time. A batch is cut by count, not by bytes or by the envelope
check. The ladder's error for a duplicate whose offset is not remembered is
retried to its end in one step (`RetriesExhausted`). The partition is one on a
single disk, where admission and append are apart; the managed one is
`FabricBroker`. A journal that refuses a *fill* is left out: such a fill is in the
chain and not in the log, and the code says itself that a restart cannot rebuild
it (`platform.rs:24009-24014`).

*Peer.* Prices enter as `priced` (limits no worse than the touch), clock probes
as `clocked` (peers measured and in bound), the peers' edge states as `opening`
and `spread`: each is chosen anew every turn, so that every sequence of
measurements is covered. Frames form a set from which any may arrive: overtaking
happens in the code when a peer reconnects, so this allows more than the code
does. A frame's sequence within its opportunity is fixed by what it says. One
instrument, one side and so one book per cell; legs of one size; cycles of
two legs, the only kind `Saga::draft` makes. Ids are never used twice: they name
the node, its start and a counter. Rebalance tasks are reports nobody acts on.

*Edge cell.* Decimals are small naturals, and an order's quantity is two units. A
strategy, a cycle and the owner's desk differ only in what they may hold against;
a cycle's desk grant is taken as live. An envelope's running totals, realised loss
and per-order limits are left out: an `Ask` is bounded by the grant's gross limit.
The intents are asked in the order of their names; which of them net together is
any subset, in any order. A leg of a cycle carries no capital of its own. A hold's
pass number is left out, because the sweep comes before a pass's first hold, so
that every hold it finds is an earlier pass's. Requotes keep an order's capital
and are left out. After a restart no order is formed until every venue has
answered (`FormNothing`); the account itself is not compared. Retired lots'
unwinds, hedges of a silent venue and the unwinding of a broken cycle are sent
without capital and without an entry among the cell's orders, and are left out
with their fills. The halts that may be lifted are one flag (`wire`); the cell's
own kill switch is never cleared by the node. A rollback is refused under a wire
only. One cell per table: holds are filed by owner, and `sweep_before` touches its
own. A dropped plan leaves its grant, which may be deployed again.

## 7. Not modelled

Byte-level and numerical code (decoders, order books, feature graphs, solvers,
learning, simulation, quantum): what can go wrong there is in values that a
state-space search cannot range over. Process composition, HTTP, presentation,
infrastructure: no protocol state. `PROJECT.json` lists every component with its
reason. The components in the plan below are not modelled yet.

## 8. Plan

Modelled and proved so far: the ledger core, the peer mesh, the managed fabric,
the desk's way to the ledger and the cell's capital. Next, in order of what the
ledger and the cells rest on:

1. `EdgeRelay` over `FabricProducers`: the cells' drain, relay and outbox, the
   counterpart of `DeskShip`; the same abstract promise per cell.
2. `FabricGroup`: members, generations, leases, rebalance; one owner per
   partition. To prove: a superseded member commits nothing, and checkpoints only
   rise.
3. `LedgerFence`: two ledger processes and the Spanner writer row. To prove:
   no commit of an older epoch after a newer one.
4. `SegmentLog`: append, roll, flush, torn tail, recovery; abstract
   specification: a log whose flushed prefix survives.
5. `CellFence`: one writer per cell, and with it what `EdgeCell` leaves out: a
   restart from the journal and the venues' accounts, the unwinding of a broken
   cycle, an envelope's running total across a redeploy.
6. `OrderLife`: orders against late and repeated reports, with the kill switch.
7. The capital fabric's transfers.

Proof still wanted in what is there: under which steps `NoLegIsStranded` and
`RetriesGetThrough` hold, as `OnlyGapFillsNeedAnswers`, `AloneFencedFromInit` and
`ShareHolds` say it of the other three disagreements.
