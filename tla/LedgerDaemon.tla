---------------------------- MODULE LedgerDaemon ---------------------------
(***************************************************************************)
(* qip-ledgerd at work: one PartitionWorker per partition of the P1 stream *)
(* (apps/qip-ledgerd/src/consumer.rs) reads batches off the broker's log,  *)
(* applies every record through the store and reports its progress to the  *)
(* broker's consumer group.  The broker's log, its group checkpoint and    *)
(* its lag limit are modelled as the worker and the producers meet them    *)
(* (services/qip-streaming/src/event_fabric).                              *)
(*                                                                         *)
(* Batch n of partition p is log[p][n + 1]; its record k (from 0) has the  *)
(* delivery offset n * Stride + k.                                         *)
(***************************************************************************)
EXTENDS LedgerStore, Sequences

CONSTANTS
    Stride,      \* RECORD_STRIDE: more than the records of any batch
    Home,        \* Home[c]: the partition c's producer writes to
    Passed,      \* markers the worker passes over: P1 Gap, other topics
    Garbage,     \* records that do not decode
    Batches,     \* the batches a producer may append
    LagLimit,    \* policy.lag_limit of the stream, in batches
    MaxBatches,  \* bound: batches per partition
    FaultKinds,  \* the faults this instance allows
    MaxFaults,   \* bound: faults in one behaviour
    NoBatch      \* no batch applied since the worker started

AllFaults == {"crash", "lapse", "loss", "lostAck", "release", "liveRelease"}
LogItems == Items \cup Passed \cup Garbage
WorkerType ==
    [position: Nat, seeked: BOOLEAN, at: Nat, fetched: BOOLEAN, joined: BOOLEAN,
     generation: Nat, deferred: BOOLEAN, last: Nat \cup {NoBatch}]

ASSUME StrideAssumption == Stride \in Nat \ {0}
ASSUME HomeAssumption == Home \in [Cells -> Partitions]
ASSUME LogAssumption ==
    /\ Items \cap (Passed \cup Garbage) = {} /\ Passed \cap Garbage = {}
    /\ \A b \in Batches : b \in Seq(LogItems) /\ Len(b) \in 1..Stride
ASSUME DaemonBoundsAssumption ==
    /\ LagLimit \in Nat /\ MaxBatches \in Nat /\ MaxFaults \in Nat
    /\ FaultKinds \subseteq AllFaults /\ NoBatch \notin Nat

VARIABLES
    log,        \* log[p]: the batches the broker holds
    committed,  \* committed[p]: batches the group has checkpointed
    generation, \* the consumer group's generation at the broker
    running,    \* the process is up
    worker,     \* worker[p]: the PartitionWorker, all of it in memory
    faults      \* faults so far

brokerVars == <<log, committed, generation>>
vars == <<storeVars, brokerVars, running, worker, faults>>

\* PartitionWorker::new, with the position the store says.
FreshWorker(offset) ==
    [position |-> offset, seeked |-> FALSE, at |-> 0, fetched |-> FALSE,
     joined |-> FALSE, generation |-> 0, deferred |-> FALSE, last |-> NoBatch]

Init ==
    /\ StoreInit
    /\ log = [p \in Partitions |-> <<>>]
    /\ committed = [p \in Partitions |-> 0]
    /\ generation = 0
    /\ running = TRUE
    /\ worker = [p \in Partitions |-> FreshWorker(0)]
    /\ faults = 0

TypeOK ==
    /\ StoreTypeOK
    /\ log \in [Partitions -> Seq(Batches)]
    /\ committed \in [Partitions -> Nat]
    /\ generation \in Nat
    /\ running \in BOOLEAN
    /\ worker \in [Partitions -> WorkerType]
    /\ faults \in Nat

Base(n) == n * Stride
BatchOf(offset) == offset \div Stride
----------------------------------------------------------------------------
(* Producers and the broker.                                               *)

\* Only this cell's producer writes this cell's records, to one partition.
Homed(p, b) == \A k \in 1..Len(b) : b[k] \in Records => Home[b[k].cell] = p

\* refuse_when_a_group_lags: a group that never committed is invisible.
LagAdmits(p) == committed[p] = 0 \/ Len(log[p]) - committed[p] <= LagLimit

Produce(p, b) ==
    /\ Homed(p, b)
    /\ Len(log[p]) < MaxBatches
    /\ LagAdmits(p)
    /\ log' = [log EXCEPT ![p] = Append(@, b)]
    /\ UNCHANGED <<storeVars, committed, generation, running, worker, faults>>

\* A fault of this instance's kinds, within the bound.
Fault(kind) == kind \in FaultKinds /\ faults < MaxFaults /\ faults' = faults + 1

\* The group's leases run out or the broker restarts: its members are gone,
\* and a commit under the generation they joined is refused.
Lapse ==
    /\ Fault("lapse")
    /\ generation' = generation + 1
    /\ UNCHANGED <<storeVars, log, committed, running, worker>>

\* The broker's disk is lost and it comes back empty; producers append again
\* what they retain.  Taken between two fetches only, so that a batch in a
\* worker's hands is always the one on the log.
LoseBroker ==
    /\ Fault("loss")
    /\ \A p \in Partitions : ~worker[p].fetched
    /\ log' = [p \in Partitions |-> <<>>]
    /\ committed' = [p \in Partitions |-> 0]
    /\ generation' = generation + 1
    /\ UNCHANGED <<storeVars, running, worker>>
----------------------------------------------------------------------------
(* PartitionWorker::step, one action for each durable effect or call.      *)

Ready(p) == running /\ worker[p].joined /\ ~worker[p].fetched

Join(p) ==
    /\ running /\ ~worker[p].joined
    /\ worker' = [worker EXCEPT ![p].joined = TRUE, ![p].generation = generation]
    /\ UNCHANGED <<storeVars, brokerVars, running, faults>>

\* The batch the next fetch asks for.
FetchOffset(p) ==
    IF worker[p].seeked THEN worker[p].at ELSE BatchOf(worker[p].position)

\* decode_batch: every record from the position on decodes.
Decodes(p, n) ==
    \A k \in 1..Len(log[p][n + 1]) :
        Base(n) + k - 1 >= worker[p].position => log[p][n + 1][k] \notin Garbage

Fetch(p) ==
    /\ Ready(p)
    /\ FetchOffset(p) < Len(log[p])
    /\ Decodes(p, FetchOffset(p))
    /\ worker' = [worker EXCEPT ![p].seeked = TRUE, ![p].fetched = TRUE,
                                ![p].at = FetchOffset(p) + 1]
    /\ UNCHANGED <<storeVars, brokerVars, running, faults>>

\* A fetch the broker does not answer, or a batch that does not decode: ask
\* again from the same position.
FailFetch(p) ==
    /\ Ready(p)
    /\ worker' = [worker EXCEPT ![p].seeked = FALSE]
    /\ UNCHANGED <<storeVars, brokerVars, running, faults>>

\* Batch in hand: the worker fetched it last, so it is the one before `at`.
HandBase(p) == Base(worker[p].at - 1)
Hand(p) == log[p][worker[p].at]

\* The first record of the batch at or after the position.
NextOffset(p) == Larger(worker[p].position, HandBase(p))
NextIndex(p) == NextOffset(p) - HandBase(p) + 1
HasNext(p) == running /\ worker[p].fetched /\ NextIndex(p) <= Len(Hand(p))
NextItem(p) == Hand(p)[NextIndex(p)]

\* Mutant: the consumer is not moved back with the position.
MoveOnWithoutSeek(p, o, r) ==
    worker' = [worker EXCEPT ![p].position = NextPosition(p, o, r),
                             ![p].fetched = ~ReReads(p, o, r)]

\* After one record: the next one, or back to where a filled gap began.
MoveOn(p, o, r) ==
    IF ReReads(p, o, r)
    THEN worker' = [worker EXCEPT ![p].position = NextPosition(p, o, r),
                                  ![p].seeked = FALSE, ![p].fetched = FALSE]
    ELSE worker' = [worker EXCEPT ![p].position = o + 1]

ApplyRecord(p) ==
    /\ HasNext(p) /\ NextItem(p) \in Records
    /\ Apply(p, NextOffset(p), NextItem(p))
    /\ MoveOn(p, NextOffset(p), NextItem(p))
    /\ UNCHANGED <<brokerVars, running, faults>>

ApplyNextOperation(p) ==
    /\ HasNext(p) /\ NextItem(p) \in Operations
    /\ ApplyOperation(p, NextOffset(p), NextItem(p))
    /\ worker' = [worker EXCEPT ![p].position = NextOffset(p) + 1]
    /\ UNCHANGED <<brokerVars, running, faults>>

PassOver(p) ==
    /\ HasNext(p) /\ NextItem(p) \in Passed
    /\ worker' = [worker EXCEPT ![p].position = NextOffset(p) + 1]
    /\ UNCHANGED <<storeVars, brokerVars, running, faults>>

\* The store applied the batch and its answer was lost: the worker offers
\* the same delivery again.
LostAck(p) ==
    /\ HasNext(p)
    /\ \/ NextItem(p) \in Records /\ Apply(p, NextOffset(p), NextItem(p))
       \/ NextItem(p) \in Operations /\ ApplyOperation(p, NextOffset(p), NextItem(p))
    /\ Fault("lostAck")
    /\ UNCHANGED <<brokerVars, running, worker>>

\* commit_group: the broker refuses a superseded generation, an offset it
\* does not hold and a checkpoint that would move back.
CommitAccepted(p, n) ==
    /\ worker[p].generation = generation
    /\ n < Len(log[p])
    /\ n + 1 >= committed[p]

CommitGroup(p, n, w) ==
    IF CommitAccepted(p, n)
    THEN /\ committed' = [committed EXCEPT ![p] = n + 1]
         /\ worker' = [worker EXCEPT ![p] = [w EXCEPT !.deferred = FALSE]]
    ELSE /\ worker' = [worker EXCEPT ![p] = [w EXCEPT !.deferred = TRUE, !.joined = FALSE]]
         /\ UNCHANGED committed

\* Mutant: the batch before the one applied is remembered.
AfterBatchOffByOne(p) ==
    [worker[p] EXCEPT !.position = Larger(@, Base(worker[p].at)),
                      !.last = worker[p].at - 2, !.fetched = FALSE]

\* Every record of the batch applied: on to the next batch, and commit it to
\* the group unless commits are deferred.
AfterBatch(p) ==
    [worker[p] EXCEPT !.position = Larger(@, Base(worker[p].at)),
                      !.last = worker[p].at - 1, !.fetched = FALSE]

Finish(p) ==
    /\ running /\ worker[p].fetched /\ ~HasNext(p)
    /\ IF worker[p].deferred
       THEN worker' = [worker EXCEPT ![p] = AfterBatch(p)] /\ UNCHANGED committed
       ELSE CommitGroup(p, worker[p].at - 1, AfterBatch(p))
    /\ UNCHANGED <<storeVars, log, generation, running, faults>>

\* Nothing to fetch: a deferral ends here, and the run loop rejoins.
Idled(p) ==
    [worker[p] EXCEPT !.seeked = TRUE, !.at = FetchOffset(p), !.joined = FALSE]

\* Mutant: the caught-up worker never commits what it held back.
IdleUncommitted(p) ==
    /\ Ready(p)
    /\ FetchOffset(p) >= Len(log[p])
    /\ worker' = [worker EXCEPT ![p] = Idled(p)]
    /\ UNCHANGED <<storeVars, brokerVars, running, faults>>

Idle(p) ==
    /\ Ready(p)
    /\ FetchOffset(p) >= Len(log[p])
    /\ IF worker[p].deferred /\ worker[p].last # NoBatch
       THEN CommitGroup(p, worker[p].last, Idled(p))
       ELSE worker' = [worker EXCEPT ![p] = Idled(p)] /\ UNCHANGED committed
    /\ UNCHANGED <<storeVars, log, generation, running, faults>>
----------------------------------------------------------------------------
(* The process.                                                            *)

Crash ==
    /\ running /\ Fault("crash")
    /\ running' = FALSE
    /\ worker' = [p \in Partitions |-> FreshWorker(0)]
    /\ UNCHANGED <<storeVars, brokerVars>>

\* start: every worker resumes where the store says.
Start ==
    /\ ~running
    /\ running' = TRUE
    /\ worker' = [p \in Partitions |-> FreshWorker(cursor[p].next)]
    /\ UNCHANGED <<storeVars, brokerVars, faults>>

\* LedgerStore::release, with no worker reading, and under a running one.
ReleaseStopped(c) ==
    /\ ~running /\ Fault("release")
    /\ Release(c)
    /\ UNCHANGED <<brokerVars, running, worker>>

ReleaseLive(c) ==
    /\ running /\ Fault("liveRelease")
    /\ Release(c)
    /\ UNCHANGED <<brokerVars, running, worker>>

\* What the worker's thread does next, one step at a time.
Step(p) ==
    \/ Join(p) \/ Fetch(p) \/ ApplyRecord(p) \/ ApplyNextOperation(p)
    \/ PassOver(p) \/ Finish(p) \/ Idle(p)

Next ==
    \/ \E p \in Partitions :
         \/ \E b \in Batches : Produce(p, b)
         \/ Step(p) \/ FailFetch(p) \/ LostAck(p)
    \/ \E c \in Cells : ReleaseStopped(c) \/ ReleaseLive(c)
    \/ Lapse \/ LoseBroker \/ Crash \/ Start

Spec == Init /\ [][Next]_vars

\* A worker's thread runs while the process does, the broker and the store
\* sooner or later answer it, and a stopped process is started again.
Fairness == WF_vars(Start) /\ \A p \in Partitions : WF_vars(Step(p))
FairSpec == Spec /\ Fairness
----------------------------------------------------------------------------
(* Properties.                                                             *)

\* A record is settled if the ledger holds it, or holds its cell and will
\* come back to it.
SettledRecord(p, o, r) ==
    \/ SameEntry(r)
    \/ park[r.cell] # NoPark /\ park[r.cell].partition = p /\ park[r.cell].offset <= o

Settled(p, o, i) ==
    /\ i \in Records => SettledRecord(p, o, i)
    /\ i \notin Garbage

SettledBelow(p, limit) ==
    \A n \in 1..Len(log[p]) : \A k \in 1..Len(log[p][n]) :
        Base(n - 1) + k - 1 < limit => Settled(p, Base(n - 1) + k - 1, log[p][n][k])

\* The resume offset loses nothing: every journal record on the broker's log
\* behind it is booked, or waits behind its cell's park and will be read again
\* - and nothing that does not decode was stepped over.  What a restart does
\* not read again, no one reads.
NothingLostBehindTheCursor ==
    \A p \in Partitions : SettledBelow(p, cursor[p].next)

\* "Nothing here moves past a record it has not applied": the same behind a
\* running worker, which may be ahead of the store but never behind it.
NoRecordLost ==
    \A p \in Partitions :
        /\ SettledBelow(p, cursor[p].next)
        /\ running => /\ SettledBelow(p, worker[p].position)
                      /\ worker[p].position >= cursor[p].next

\* The fourth paper fence: once a worker has read a live fill, its cell is
\* parked for it and stays so - no gap filling, duplicate, conflict or crash
\* lets the cell go - until an operator releases it, and then it is read again.
LiveFillHoldsItsCell ==
    \A p \in Partitions : \A n \in 1..Len(log[p]) : \A k \in 1..Len(log[p][n]) :
        LET r == log[p][n][k] IN
        r \in Records /\ r.body = "live" /\ Base(n - 1) + k - 1 < cursor[p].next =>
            Parked(r.cell) /\ park[r.cell].reason = "live_fill"

\* A gap ends with its record: behind a running worker no record lies that
\* the gap-parked cell is waiting for and could book now.
NoGapOutlivesItsRecord ==
    running => \A p \in Partitions : \A n \in 1..Len(log[p]) : \A k \in 1..Len(log[p][n]) :
        LET r == log[p][n][k] IN
        /\ r \in Records
        /\ Base(n - 1) + k - 1 < worker[p].position
        /\ Parked(r.cell) /\ ~HeldByPark(r)
        /\ r.body = "span"
        => r.first # NextSequence(r) \/ r.first > r.last

\* A cell held for an operator books nothing, and a park's reason only gets
\* worse, until it is released or, for a gap, filled by the session it waits for.
ParksOnlyEscalate ==
    [][\A c \in Cells : Parked(c) =>
         /\ HoldsUntilRelease(c) => chain'[c] = chain[c]
         /\ park'[c] # NoPark =>
              /\ Severity(park'[c].reason) >= Severity(park[c].reason)
              /\ park'[c].offset <= park[c].offset
              /\ chain'[c] = chain[c]
         /\ park[c].reason = "gap" /\ park'[c] = NoPark =>
              chain'[c][park[c].awaiting] # chain[c][park[c].awaiting]
      ]_vars

\* No update, no delete: a row once booked stays as it is, and the balances
\* move only in a step that books one record or one operation.
HistoryIsImmutable ==
    [][/\ \A c \in Cells, s \in Sessions, q \in Sequences :
            Booked(c, s, q) => chain'[c][s][q] = chain[c][s][q]
       /\ \A i \in OpIds : operations[i] # NoRow => operations'[i] = operations[i]
       /\ balance' # balance => chain' # chain \/ operations' # operations
      ]_vars

\* The daemon implements the abstract ledger: every step books one record or
\* one operation as LedgerBook does, or changes nothing of it.
Book == INSTANCE LedgerBook WITH
    book <- [c \in Cells |-> [s \in Sessions |-> [q \in Sequences |->
               IF chain[c][s][q] = NoRow THEN NoRow ELSE chain[c][s][q].record]]]
ImplementsBook == Book!BookSpec

\* The end of what the broker holds, and a batch that never decodes.
CaughtUp(p) == running /\ worker[p].position >= Base(Len(log[p]))
Stalled(p) ==
    /\ running
    /\ FetchOffset(p) < Len(log[p])
    /\ ~Decodes(p, FetchOffset(p))

\* Re-reading ends: a worker always reaches the end of its log again, however
\* many gaps send it back, or stalls at a record that does not decode.
WorkersCatchUp == \A p \in Partitions : []<>(CaughtUp(p) \/ Stalled(p))

\* Producers refused because the ledger's group lags are admitted again: the
\* checkpoint follows once the worker has caught up, unless it has stalled.
ProducersReadmitted == \A p \in Partitions : []<>(LagAdmits(p) \/ Stalled(p))
=============================================================================
