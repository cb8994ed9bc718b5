-------------------------------- MODULE DeskShip --------------------------------
(***************************************************************************)
(* The desk's fills on their way to the ledger: the platform that books and *)
(* journals them (qip-kernel, desk_ledger.rs and platform.rs), the shipper  *)
(* that the cycle loop steps and its worker thread (qip-desk-ship), the     *)
(* producer the worker drives (qip-transport, event_fabric/producer.rs) and *)
(* the broker of the ledger's partition, on one disk (qip-streaming,        *)
(* produce_from and recover_producers of event_fabric/broker.rs).           *)
(*                                                                         *)
(* A batch's payload is <<kind, from, to>>: fills or operations, the        *)
(* positions from..to-1 of their order.  The network delivers a batch that  *)
(* was sent any number of times, at any time, past the life of its sender.  *)
(***************************************************************************)
EXTENDS FabricProducers, DeskLedgerFeed

CONSTANTS
  BatchRecords,   \* records of one batch at most; 256 in the code
  None,           \* no batch
  MaxFills,       \* fills the venue gives
  MaxOperations,  \* operations the platform records
  MaxFaults,      \* faults spent, all kinds together
  FaultKinds      \* of timeout, archive, journal, append, crash, restart, rival,
                  \* overtake

ASSUME BatchRecordsAssumption == BatchRecords \in Nat \ {0}
ASSUME NoneAssumption == None \notin {"fills", "operations"} \X Nat \X Nat

VARIABLES
  booked,      \* event log: fills booked
  watermark,   \* event log: positions acknowledged
  recorded,    \* event log: operations recorded
  up,          \* the desk process runs
  working,     \* signed orders the venue has yet to fill
  feed,        \* the platform's DeskLedgerFeed
  done,        \* operations acknowledged, in this process
  out,         \* the payload the shipper waits for, or None
  expected,    \* the position its next record must carry, 0 for any
  fenced,      \* it has latched on a newer producer
  worker,      \* the worker thread: what it has, and its producer
  known,       \* broker: what it knows of the producer
  log,         \* broker: the partition
  replay,      \* broker: what reading the partition back yields
  appending,   \* broker: batches admitted and not yet on the disk
  wire,        \* batches sent
  faults       \* faults spent

eventLog == <<booked, watermark, recorded>>
shipper  == <<out, expected, fenced>>
desk     == <<up, working, feed, done, shipper, worker>>
broker   == <<known, log, replay, appending>>
vars     == <<eventLog, desk, broker, wire, faults>>

Idle == [state |-> "idle", epoch |-> 0, next |-> 0]

Init ==
  /\ booked = 0 /\ watermark = 0 /\ recorded = 0
  /\ up = TRUE /\ working = 0 /\ feed = FeedResumed(0, 0) /\ done = 0
  /\ out = None /\ expected = 0 /\ fenced = FALSE /\ worker = Idle
  /\ known = Unheard /\ log = <<>> /\ replay = Unheard /\ appending = {}
  /\ wire = {} /\ faults = 0

Fault(kind) == kind \in FaultKinds /\ faults < MaxFaults /\ faults' = faults + 1

--------------------------------------------------------------------------------
(* The platform's cycle.                                                   *)

LedgerBlocked == IsFull(feed) \/ feed.gap

\* New risk is signed only while the ledger's feed can take its fills.
Sign ==
  /\ up /\ ~LedgerBlocked /\ booked + working < MaxFills
  /\ working' = working + 1
  /\ UNCHANGED <<eventLog, up, feed, done, shipper, worker, broker, wire, faults>>

\* The venue fills an order, blocked or not: the feed admits it, the event log
\* takes it.
Book ==
  /\ up /\ working > 0
  /\ working' = working - 1
  /\ feed' = FeedAdmitted(feed)
  /\ booked' = booked + 1
  /\ UNCHANGED <<watermark, recorded, up, done, shipper, worker, broker, wire, faults>>

RecordOperation ==
  /\ up /\ recorded < MaxOperations
  /\ recorded' = recorded + 1
  /\ UNCHANGED <<booked, watermark, desk, broker, wire, faults>>

--------------------------------------------------------------------------------
(* The shipper's step: settle what the worker finished, then hand over at   *)
(* most one batch more.  One call of the cycle loop, so one step here.      *)

\* Mutant: a full batch, whatever the queue holds.
RunOfFullSize(f) ==
  LET head == CHOOSE n \in f.queue : \A m \in f.queue : n =< m
  IN <<"fills", head, head + BatchRecords>>

\* The longest run of consecutive positions at the head of the queue.
Run(f) ==
  LET head == CHOOSE n \in f.queue : \A m \in f.queue : n =< m
      fits == {k \in 1..BatchRecords : head..(head + k - 1) \subseteq f.queue}
  IN <<"fills", head, head + (CHOOSE k \in fits : \A j \in fits : j =< k)>>

\* Operations first; a run that does not start where the chain is expected to
\* continue is held back.
NextBatch(f, operationsDone, next) ==
  CASE operationsDone < recorded -> <<"operations", operationsDone, recorded>>
    [] operationsDone = recorded /\ f.queue # {} /\ next \in {0, Run(f)[2]} -> Run(f)
    [] OTHER -> None

\* Hand over what comes next of the feed as it now is, unless the shipper
\* waits after a failure or has latched.
HandOver(waits, latched) ==
  LET batch == IF waits \/ latched THEN None ELSE NextBatch(feed', done', expected') IN
  /\ fenced' = latched /\ out' = batch
  /\ worker' = [worker EXCEPT !.state = IF batch = None THEN "idle" ELSE "given"]

\* The fabric has a batch of fills: the watermark is journalled, then the
\* records leave the queue.
SettleFills ==
  /\ worker.state = "delivered" /\ out[1] = "fills"
  /\ Acknowledgeable(feed, out[3])
  /\ watermark' = out[3]
  /\ feed' = FeedAcknowledged(feed, out[3])
  /\ expected' = out[3] /\ UNCHANGED done
  /\ HandOver(FALSE, fenced)
  /\ UNCHANGED <<booked, recorded, up, working, broker, wire, faults>>

\* The fabric has it, and the event log does not take the acknowledgement.
SettleUnlogged ==
  /\ worker.state = "delivered" /\ out[1] = "fills" /\ Fault("journal")
  /\ UNCHANGED <<feed, done, expected>>
  /\ HandOver(TRUE, fenced)
  /\ UNCHANGED <<eventLog, up, working, broker, wire>>

SettleOperations ==
  /\ worker.state = "delivered" /\ out[1] = "operations"
  /\ done' = out[3]
  /\ UNCHANGED <<feed, expected>>
  /\ HandOver(FALSE, fenced)
  /\ UNCHANGED <<eventLog, up, working, broker, wire, faults>>

SettleFailed ==
  /\ worker.state \in {"deferred", "fenced"}
  /\ UNCHANGED <<feed, done, expected>>
  /\ HandOver(worker.state = "deferred", worker.state = "fenced")
  /\ UNCHANGED <<eventLog, up, working, broker, wire, faults>>

\* Nothing to settle: hand over, once the wait after a failure is over.
StepIdle ==
  /\ up /\ worker.state = "idle" /\ ~fenced
  /\ UNCHANGED <<feed, done, expected>>
  /\ NextBatch(feed, done, expected) # None
  /\ HandOver(FALSE, FALSE)
  /\ UNCHANGED <<eventLog, up, working, broker, wire, faults>>

Step == SettleFills \/ SettleUnlogged \/ SettleOperations \/ SettleFailed \/ StepIdle

--------------------------------------------------------------------------------
(* The worker and its producer: deliver, init, send.                       *)

Stamped ==
  [pid |-> "desk", epoch |-> worker.epoch, base |-> worker.next,
   count |-> out[3] - out[2], payload |-> out]

Ended(state) == [worker EXCEPT !.state = state]

\* The first use: an epoch, and the sequence the broker continues at; or the
\* broker gave them and every retry's answer was lost.
InitProducer ==
  /\ worker.state = "given" /\ worker.epoch = 0
  /\ known' = Initialised(known)
  /\ \/ /\ worker' = [worker EXCEPT !.epoch = known'.epoch, !.next = known'.next]
        /\ UNCHANGED faults
     \/ /\ Fault("timeout")
        /\ worker' = Ended("deferred")
  /\ UNCHANGED <<eventLog, up, working, feed, done, shipper, log, replay, appending, wire>>

Send ==
  /\ worker.state = "given" /\ worker.epoch # 0
  /\ worker' = Ended("sent")
  /\ wire' = wire \union {Stamped}
  /\ UNCHANGED <<eventLog, up, working, feed, done, shipper, broker, faults>>

\* No answer in time, on any attempt of the ladder.
GiveUp ==
  /\ worker.state = "sent" /\ Fault("timeout")
  /\ worker' = Ended("deferred")
  /\ UNCHANGED <<eventLog, up, working, feed, done, shipper, broker, wire>>

\* remember_offset: the slots of the last appends, whatever epoch they carry.
Remembered == {log[i].base : i \in {j \in 1..Len(log) : j + WindowSize > Len(log)}}

\* A duplicate whose slot is not remembered is answered with an error, which
\* the ladder retries; when its append failed, to the ladder's end.
RetriesExhausted ==
  /\ worker.state = "sent" /\ Stamped \in wire \ appending
  /\ Duplicate(known, Stamped) /\ Stamped.base \notin Remembered
  /\ worker' = Ended("deferred")
  /\ UNCHANGED <<eventLog, up, working, feed, done, shipper, broker, wire, faults>>

Awaits(batch) == worker.state = "sent" /\ Stamped = batch

\* Mutant: a refused sequence is not adopted.
RefusedUnadopted(next) == Ended("deferred")

\* An out-of-order refusal still tells where the stream continues.
RefusedAt(next) == [worker EXCEPT !.state = "deferred", !.next = next]

\* An acknowledgement moves the sequence on; the batch is delivered, unless its
\* archiving takes longer than the producer waits.
Answered(batch, state) ==
  IF Awaits(batch) THEN [worker EXCEPT !.state = state, !.next = @ + batch.count] ELSE worker

Told(batch) ==
  \/ worker' = Answered(batch, "delivered") /\ UNCHANGED faults
  \/ Awaits(batch) /\ worker' = Answered(batch, "deferred") /\ Fault("archive")

--------------------------------------------------------------------------------
(* The broker: admission under the producers' lock, the append under the    *)
(* partition's.                                                            *)

Admit(batch) ==
  /\ Fresh(known, batch)
  /\ known' = Admitted(known, batch)
  /\ appending' = appending \union {batch}
  /\ UNCHANGED <<eventLog, desk, log, replay, wire, faults>>

\* The two locks leave the appends in any order: one that overtakes a batch
\* admitted before it is counted among the faults.
Overtakes(batch) == \E earlier \in appending : earlier.base < batch.base

AppendBatch(batch) ==
  /\ log' = Append(log, batch)
  /\ replay' = Restored(replay, batch)
  /\ appending' = appending \ {batch}
  /\ IF Overtakes(batch)
     THEN worker' = Answered(batch, "delivered") /\ Fault("overtake")
     ELSE Told(batch)
  /\ UNCHANGED <<eventLog, up, working, feed, done, shipper, known, wire>>

\* The append fails: the admission stands, and nobody is acknowledged.
LoseAppend(batch) ==
  /\ Fault("append")
  /\ appending' = appending \ {batch}
  /\ UNCHANGED <<eventLog, desk, known, log, replay, wire>>

\* A verified duplicate whose slot is remembered is acknowledged.
AnswerDuplicate(batch) ==
  /\ Duplicate(known, batch) /\ batch.base \in Remembered
  /\ Told(batch)
  /\ UNCHANGED <<eventLog, up, working, feed, done, shipper, broker, wire>>

Failed(batch, state) == worker' = IF Awaits(batch) THEN Ended(state) ELSE worker

\* Refused: an older epoch, a conflict or a slot out of the window, a hole.
Refuse(batch) ==
  /\ \/ Fenced(known, batch) /\ Failed(batch, "fenced")
     \/ Repeated(known, batch) /\ ~Matches(known, batch) /\ Failed(batch, "deferred")
     \/ /\ OutOfOrder(known, batch)
        /\ worker' = IF Awaits(batch) THEN RefusedAt(known.next) ELSE worker
  /\ UNCHANGED <<eventLog, up, working, feed, done, shipper, broker, wire, faults>>

Offer(batch) == Admit(batch) \/ AnswerDuplicate(batch) \/ Refuse(batch)

--------------------------------------------------------------------------------
(* Crashes, and another desk process on the same chain.                     *)

\* Another process takes an epoch for this desk's producer id.
RivalInit ==
  /\ Fault("rival")
  /\ known' = Initialised(known)
  /\ UNCHANGED <<eventLog, desk, log, replay, appending, wire>>

\* The broker dies and comes back with what its disk holds.
RestartBroker ==
  /\ Fault("restart")
  /\ known' = replay /\ appending' = {}
  /\ UNCHANGED <<eventLog, desk, log, replay, wire>>

\* The desk dies, with its orders, its queue and its worker.
Crash ==
  /\ up /\ Fault("crash")
  /\ up' = FALSE /\ working' = 0
  /\ feed' = FeedResumed(0, 0) /\ done' = 0
  /\ out' = None /\ expected' = 0 /\ fenced' = FALSE
  /\ worker' = Idle
  /\ UNCHANGED <<eventLog, broker, wire>>

\* resume_book: the chain is folded from the event log again, and refused if
\* the watermark is past it.
Resume ==
  /\ ~up /\ watermark =< booked
  /\ up' = TRUE
  /\ feed' = FeedResumed(booked, watermark)
  /\ UNCHANGED <<eventLog, working, done, shipper, worker, broker, wire, faults>>

--------------------------------------------------------------------------------
Next ==
  \/ Sign \/ Book \/ RecordOperation \/ Step
  \/ InitProducer \/ Send \/ GiveUp \/ RetriesExhausted
  \/ \E batch \in wire : Offer(batch)
  \/ \E batch \in appending : AppendBatch(batch) \/ LoseAppend(batch)
  \/ RivalInit \/ RestartBroker \/ Crash \/ Resume

Spec == Init /\ [][Next]_vars

(* The cycle loop steps the shipper, the worker runs, the network and the   *)
(* broker answer what is sent, a dead desk is started again.                *)
Fairness ==
  /\ WF_vars(Step)
  /\ WF_vars(InitProducer) /\ WF_vars(Send) /\ WF_vars(RetriesExhausted)
  /\ WF_vars(\E batch \in wire : Awaits(batch) /\ Offer(batch))
  /\ WF_vars(\E batch \in appending : AppendBatch(batch))
  /\ WF_vars(Resume)

FairSpec == Spec /\ Fairness

--------------------------------------------------------------------------------
(* Properties.                                                             *)

Payloads == {"fills", "operations"} \X Nat \X Nat
Batches == Batch({"desk"}, Payloads)
Producers == [epoch : Nat, next : Nat, window : Seq(Batches)]
Feeds == [next : Nat, seen : Nat, queue : SUBSET Nat, acknowledged : Nat, gap : BOOLEAN]

\* The kinds of values the state holds, and the queue's bound.
TypeOK ==
  /\ booked \in Nat /\ watermark \in Nat /\ recorded \in Nat
  /\ up \in BOOLEAN /\ working \in Nat /\ done \in Nat
  /\ feed \in Feeds /\ Cardinality(feed.queue) =< OutboxCapacity
  /\ out \in Payloads \union {None}
  /\ expected \in Nat /\ fenced \in BOOLEAN
  /\ worker \in [state : {"idle", "given", "sent", "delivered", "deferred", "fenced"},
                 epoch : Nat, next : Nat]
  /\ known \in Producers /\ replay \in Producers
  /\ log \in Seq(Batches) /\ appending \subseteq Batches /\ wire \subseteq Batches
  /\ faults \in Nat

\* Every fill in the event log that the fabric was not acknowledged to hold is
\* in the queue, as one run from the watermark on, or the feed says it has a
\* gap, and then the queue or the memory is at its bound: no fill of the event
\* log falls out of the feed unnoticed (desk_ledger.rs, "neither leaves a hole").
NothingIsForgotten ==
  up => /\ feed.next = booked /\ feed.acknowledged = watermark
        /\ feed.queue = watermark..(watermark + Cardinality(feed.queue) - 1)
        /\ watermark + Cardinality(feed.queue) =< booked
        /\ feed.gap <=> watermark + Cardinality(feed.queue) < booked
        /\ feed.gap => IsFull(feed)

\* The batch with the worker is the head of the queue, and stays it while the
\* desk books on and heals its gaps: the acknowledgement of what was delivered is
\* always one the feed takes.  One it refuses (check_acknowledge) would be taken
\* for a failing log, and the batch resent for ever (settle of qip-desk-ship).
OutIsTheHead ==
  out # None =>
    IF out[1] = "fills"
    THEN /\ out[2] = feed.acknowledged /\ out[2] < out[3]
         /\ Acknowledgeable(feed, out[3])
    ELSE out[2] = done /\ out[2] < out[3] /\ out[3] =< recorded

Positions(kind) ==
  UNION {log[i].payload[2]..(log[i].payload[3] - 1) :
           i \in {j \in 1..Len(log) : log[j].payload[1] = kind}}

\* The fills reach the ledger's partition as one chain, whatever is retried,
\* resent, delayed or restarted, and the watermark never runs ahead of it.
Promise == INSTANCE DeskPromise WITH arrived <- Positions("fills")
KeepsThePromise == Promise!Spec

\* The producer is behind the stream the broker admitted: what it sends next is
\* refused for as long as both of them live.
Stalled == up /\ worker.epoch # 0 /\ worker.next < known.next

\* A gap with an empty queue: nothing will be acknowledged, so nothing heals it.
Starved == up /\ feed.gap /\ feed.queue = {}

Arrived ==
  /\ Positions("fills") = 0..(booked - 1)
  /\ Positions("operations") = 0..(recorded - 1)

\* Everything booked and recorded arrives, unless the desk is fenced, starved,
\* or its producer is stalled behind the broker, for good.
EverythingArrives ==
  \/ []<>Arrived
  \/ <>[]fenced \/ <>[]Starved \/ <>[]Stalled

\* The shipper's doc: "A failed delivery therefore leaves every record pending,
\* and the retry resends the same bytes", so a failed delivery alone never stops
\* the desk's records for good.
RetriesGetThrough ==
  \/ []<>Arrived
  \/ <>[]fenced \/ <>[]Starved
================================================================================
