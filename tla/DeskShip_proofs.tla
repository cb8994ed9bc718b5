----------------------------- MODULE DeskShip_proofs -----------------------------
(***************************************************************************)
(* The desk forgets no fill, for any capacities, batches and faults: what   *)
(* the watermark does not cover is queued from the watermark on, or behind  *)
(* a gap that a full queue or a full memory explains; and the batch with    *)
(* the worker is the head of that queue.  And it keeps its promise, where   *)
(* no slot of the producer's comes back.                                    *)
(***************************************************************************)
EXTENDS DeskShip, FiniteSetTheorems, TLAPS

(* The feed, as the chain from w to n with the queue reaching e.            *)

Reaches(f, w, n, e) ==
  /\ f \in Feeds /\ f.next = n /\ f.acknowledged = w
  /\ w =< e /\ e =< n /\ e - w =< OutboxCapacity
  /\ f.queue = w..(e - 1)
  /\ f.gap <=> e < n

Rests(f, w, n, e) ==
  /\ Reaches(f, w, n, e)
  /\ f.gap => f.seen >= FeedCapacity \/ e - w = OutboxCapacity

LEMMA IntervalSize ==
  ASSUME NEW a \in Nat, NEW b \in Nat, a =< b
  PROVE  IsFiniteSet(a..(b - 1)) /\ Cardinality(a..(b - 1)) = b - a
<1>1. /\ IsFiniteSet(a..(b - 1))
      /\ Cardinality(a..(b - 1)) = IF a > b - 1 THEN 0 ELSE (b - 1) - a + 1
  BY FS_Interval
<1> QED BY <1>1

\* The size of a queue that reaches e, and what room it leaves.
LEMMA ReachSize ==
  ASSUME NEW f, NEW w \in Nat, NEW n \in Nat, NEW e \in Nat, Reaches(f, w, n, e)
  PROVE  /\ Cardinality(f.queue) = e - w
         /\ HasRoom(f) <=> e - w < OutboxCapacity
         /\ IsFull(f) <=> f.seen >= FeedCapacity \/ e - w = OutboxCapacity
<1> USE OutboxCapacityAssumption, FeedCapacityAssumption
<1>1. Cardinality(f.queue) = e - w
  BY IntervalSize DEF Reaches
<1> QED BY <1>1 DEF Reaches, HasRoom, IsFull

LEMMA AdmittedRests ==
  ASSUME NEW f, NEW w \in Nat, NEW n \in Nat, NEW e \in Nat, Rests(f, w, n, e)
  PROVE  \E d \in Nat : e =< d /\ Rests(FeedAdmitted(f), w, n + 1, d)
<1> USE OutboxCapacityAssumption, FeedCapacityAssumption
<1>1. Reaches(f, w, n, e) /\ f \in Feeds
  BY DEF Rests, Reaches
<1>2. /\ Cardinality(f.queue) = e - w
      /\ IsFull(f) <=> f.seen >= FeedCapacity \/ e - w = OutboxCapacity
  BY <1>1, ReachSize
<1> DEFINE g == FeedAdmitted(f)
<1>3. f.next = n /\ f.acknowledged = w /\ n + 1 \in Nat /\ f.seen \in Nat
      /\ f.queue \in SUBSET Nat /\ f.gap \in BOOLEAN
  BY <1>1 DEF Reaches, Feeds
<1>4. CASE IsFull(f)
  <2> DEFINE seen == IF f.seen < FeedCapacity THEN f.seen + 1 ELSE f.seen
  <2>1. seen \in Nat /\ (f.seen >= FeedCapacity => seen >= FeedCapacity)
    BY <1>3
  <2>2. g = [f EXCEPT !.next = n + 1, !.gap = TRUE, !.seen = seen]
    BY <1>3, <1>4 DEF FeedAdmitted
  <2> HIDE DEF seen, g
  <2>3. /\ g \in Feeds /\ g.next = n + 1 /\ g.seen = seen /\ g.queue = f.queue
        /\ g.gap = TRUE /\ g.acknowledged = w
    BY <1>1, <1>3, <2>1, <2>2 DEF Feeds
  <2>4. g.queue = w..(e - 1)
    BY <1>1, <2>3 DEF Reaches
  <2>5. g.seen >= FeedCapacity \/ e - w = OutboxCapacity
    BY <1>2, <1>4, <2>1, <2>3
  <2>6. w =< e /\ e =< n + 1 /\ e - w =< OutboxCapacity /\ e < n + 1
    BY <1>1 DEF Reaches
  <2>7. Reaches(g, w, n + 1, e)
    BY <2>4, <2>6, <2>3 DEF Reaches
  <2>8. Rests(g, w, n + 1, e)
    BY <2>5, <2>7 DEF Rests
  <2> QED BY <2>8 DEF g
<1>5. CASE ~IsFull(f)
  <2>1. e = n /\ ~f.gap /\ e - w < OutboxCapacity
    BY <1>1, <1>2, <1>5 DEF Rests, Reaches
  <2>2. g = [f EXCEPT !.next = n + 1, !.seen = f.seen + 1, !.queue = f.queue \union {n}]
    BY <1>3, <1>5 DEF FeedAdmitted
  <2>3. f.seen + 1 \in Nat /\ f.queue \union {n} \in SUBSET Nat
    BY <1>3
  <2> HIDE DEF g
  <2>4. /\ g \in Feeds /\ g.next = n + 1 /\ g.queue = f.queue \union {n}
        /\ g.gap = f.gap /\ g.acknowledged = w
    BY <1>1, <1>3, <2>2, <2>3 DEF Feeds
  <2>5. g.queue = w..((n + 1) - 1)
    BY <1>1, <2>1, <2>4 DEF Reaches
  <2>6. ~g.gap
    BY <2>1, <2>4
  <2>7. w =< n + 1 /\ (n + 1) - w =< OutboxCapacity /\ n + 1 \in Nat /\ ~(n + 1 < n + 1)
    BY <1>1, <2>1 DEF Reaches
  <2>8. Reaches(g, w, n + 1, n + 1)
    BY <2>5, <2>6, <2>7, <2>4 DEF Reaches
  <2>9. Rests(g, w, n + 1, n + 1)
    BY <2>6, <2>8 DEF Rests
  <2> QED BY <2>1, <2>7, <2>9 DEF g
<1> QED BY <1>4, <1>5

LEMMA HealedRests ==
  ASSUME NEW f, NEW w \in Nat, NEW n \in Nat, NEW e \in Nat, Reaches(f, w, n, e)
  PROVE  \E d \in Nat : e =< d /\ Rests(FeedHealed(f), w, n, d)
<1> USE OutboxCapacityAssumption, FeedCapacityAssumption
<1>1. /\ f \in Feeds /\ f.next = n /\ f.acknowledged = w
      /\ w =< e /\ e =< n /\ e - w =< OutboxCapacity
      /\ f.queue = w..(e - 1) /\ (f.gap <=> e < n)
  BY DEF Reaches
<1>2. Cardinality(f.queue) = e - w /\ (HasRoom(f) <=> e - w < OutboxCapacity)
  BY ReachSize
<1>3. CASE ~f.gap \/ ~HasRoom(f)
  <2>1. FeedHealed(f) = f
    BY <1>3 DEF FeedHealed
  <2>2. Rests(f, w, n, e)
    BY <1>1, <1>2, <1>3 DEF Rests
  <2> QED BY <2>1, <2>2
<1>4. CASE f.gap /\ HasRoom(f)
  <2> DEFINE room == OutboxCapacity - Cardinality(f.queue)
             rank(k) == Cardinality({m \in Missing(f) : m < k})
             taken == {k \in Missing(f) : rank(k) < room}
             d == IF n < w + OutboxCapacity THEN n ELSE w + OutboxCapacity
  <2>1. Missing(f) = e..(n - 1) /\ room = OutboxCapacity - (e - w) /\ e < n
    BY <1>1, <1>2, <1>4 DEF Missing
  <2>2. \A k \in e..(n - 1) : rank(k) = k - e
    <3> TAKE k \in e..(n - 1)
    <3>1. {m \in Missing(f) : m < k} = e..(k - 1)
      BY <2>1
    <3>2. k \in Nat /\ e =< k
      OBVIOUS
    <3>3. Cardinality(e..(k - 1)) = k - e
      BY <3>2, IntervalSize
    <3> QED BY <3>1, <3>3
  <2>3. d \in Nat /\ e =< d /\ d =< n /\ d - w =< OutboxCapacity
    BY <1>1, <1>2, <1>4, <2>1
  <2>4. taken = e..(d - 1)
    <3> HIDE DEF rank, room
    <3> QED BY <1>1, <2>1, <2>2, <2>3
  <2>5. FeedHealed(f) = [f EXCEPT !.queue = @ \union taken, !.gap = (taken # Missing(f))]
    BY <1>4 DEF FeedHealed
  <2> HIDE DEF taken, room
  <2>6. (taken # Missing(f)) <=> d < n
    BY <2>1, <2>3, <2>4
  <2> HIDE DEF d
  <2>7. /\ FeedHealed(f) \in Feeds
        /\ FeedHealed(f).next = n /\ FeedHealed(f).acknowledged = w
        /\ FeedHealed(f).queue = f.queue \union taken
        /\ FeedHealed(f).gap <=> taken # Missing(f)
    <3>1. f.queue \union taken \in SUBSET Nat
      BY <1>1, <2>3, <2>4 DEF Feeds
    <3>3. CASE taken # Missing(f)
      <4>1. FeedHealed(f) = [f EXCEPT !.queue = f.queue \union taken, !.gap = TRUE]
        BY <2>5, <3>3
      <4> QED BY <1>1, <3>1, <3>3, <4>1 DEF Feeds
    <3>4. CASE taken = Missing(f)
      <4>1. FeedHealed(f) = [f EXCEPT !.queue = f.queue \union taken, !.gap = FALSE]
        BY <2>5, <3>4
      <4> QED BY <1>1, <3>1, <3>4, <4>1 DEF Feeds
    <3> QED BY <3>3, <3>4
  <2>8. f.queue \union taken = w..(d - 1)
    BY <1>1, <2>1, <2>3, <2>4
  <2>9. Reaches(FeedHealed(f), w, n, d)
    <3>1. w =< d
      BY <1>1, <2>3
    <3>2. FeedHealed(f).gap <=> d < n
      BY <2>6, <2>7, Zenon
    <3> QED BY <2>3, <2>7, <2>8, <3>1, <3>2, Zenon DEF Reaches
  <2>10. d < n => d - w = OutboxCapacity
    BY <2>3 DEF d
  <2> QED BY <2>3, <2>6, <2>7, <2>9, <2>10 DEF Rests
<1> QED BY <1>3, <1>4

LEMMA AcknowledgedRests ==
  ASSUME NEW f, NEW w \in Nat, NEW n \in Nat, NEW e \in Nat, Rests(f, w, n, e),
         NEW to \in Nat, w =< to, to =< e
  PROVE  \E d \in Nat : Rests(FeedAcknowledged(f, to), to, n, d)
<1> DEFINE g == [f EXCEPT !.queue = {k \in @ : k >= to}, !.acknowledged = to]
<1>1. /\ f \in Feeds /\ f.next = n /\ f.acknowledged = w
      /\ w =< e /\ e =< n /\ e - w =< OutboxCapacity
      /\ f.queue = w..(e - 1) /\ (f.gap <=> e < n)
  BY DEF Rests, Reaches
<1>2. /\ g \in Feeds /\ g.next = n /\ g.acknowledged = to /\ g.gap = f.gap
      /\ g.queue = {k \in f.queue : k >= to}
  BY <1>1 DEF Feeds
<1> HIDE DEF g
<1>3. g.queue = to..(e - 1)
  BY <1>1, <1>2
<1>4. Reaches(g, to, n, e)
  BY <1>1, <1>2, <1>3, OutboxCapacityAssumption DEF Reaches
<1>5. FeedAcknowledged(f, to) = FeedHealed(g)
  BY DEF FeedAcknowledged, g
<1> QED BY <1>4, <1>5, HealedRests

LEMMA ResumedRests ==
  ASSUME NEW w \in Nat, NEW n \in Nat, w =< n
  PROVE  \E e \in Nat : Rests(FeedResumed(n, w), w, n, e)
<1> USE OutboxCapacityAssumption
<1> DEFINE e == IF n < w + OutboxCapacity THEN n ELSE w + OutboxCapacity
<1>1. /\ FeedResumed(n, w) \in Feeds
      /\ FeedResumed(n, w).next = n /\ FeedResumed(n, w).acknowledged = w
      /\ FeedResumed(n, w).gap <=> n > w + OutboxCapacity
      /\ FeedResumed(n, w).queue = {k \in 0..(n - 1) : w =< k /\ k < w + OutboxCapacity}
  <2> DEFINE q == {k \in 0..(n - 1) : w =< k /\ k < w + OutboxCapacity}
             h == n > w + OutboxCapacity
  <2>1. q \in SUBSET Nat /\ h \in BOOLEAN
    OBVIOUS
  <2>2. FeedResumed(n, w) = [next |-> n, seen |-> 0, acknowledged |-> w, queue |-> q, gap |-> h]
    BY DEF FeedResumed
  <2> HIDE DEF q, h
  <2>3. /\ FeedResumed(n, w) \in Feeds /\ FeedResumed(n, w).queue = q
        /\ FeedResumed(n, w).gap = h /\ FeedResumed(n, w).next = n
        /\ FeedResumed(n, w).acknowledged = w
    BY <2>1, <2>2 DEF Feeds
  <2> QED BY <2>3 DEF q, h
<1>2. e \in Nat /\ w =< e /\ e =< n /\ e - w =< OutboxCapacity
      /\ (e < n <=> n > w + OutboxCapacity) /\ (e < n => e - w = OutboxCapacity)
  OBVIOUS
<1>3. {k \in 0..(n - 1) : w =< k /\ k < w + OutboxCapacity} = w..(e - 1)
  OBVIOUS
<1> HIDE DEF e
<1>4. Rests(FeedResumed(n, w), w, n, e)
  BY <1>1, <1>2, <1>3 DEF Rests, Reaches
<1> QED BY <1>2, <1>4

\* A batch of fills starts at the watermark and ends within the queue.
LEMMA RunFits ==
  ASSUME NEW f, NEW w \in Nat, NEW n \in Nat, NEW e \in Nat, Reaches(f, w, n, e),
         f.queue # {}
  PROVE  \E to \in Nat : Run(f) = <<"fills", w, to>> /\ w < to /\ to =< e
<1> USE BatchRecordsAssumption
<1>1. f.queue = w..(e - 1) /\ w < e
  BY DEF Reaches
<1> DEFINE head == CHOOSE k \in f.queue : \A m \in f.queue : k =< m
           fits == {k \in 1..BatchRecords : head..(head + k - 1) \subseteq f.queue}
           k0 == CHOOSE k \in fits : \A j \in fits : j =< k
           least == IF BatchRecords < e - w THEN BatchRecords ELSE e - w
<1>2. head = w
  BY <1>1
<1>3. least \in fits /\ \A j \in fits : j =< least
  <2>1. least \in 1..BatchRecords /\ w..(w + least - 1) \subseteq w..(e - 1)
    BY <1>1
  <2>2. least \in fits
    BY <1>1, <1>2, <2>1
  <2>3. ASSUME NEW j \in fits PROVE j =< least
    <3>1. j \in 1..BatchRecords /\ w..(w + j - 1) \subseteq w..(e - 1)
      BY <1>1, <1>2, <2>3
    <3>2. w + j - 1 \in w..(w + j - 1)
      BY <3>1
    <3> QED BY <3>1, <3>2, <1>1
  <2> QED BY <2>2, <2>3
<1>4. k0 \in fits /\ \A j \in fits : j =< k0
  BY <1>3
<1>5. k0 = least
  BY <1>3, <1>4
<1>6. Run(f) = <<"fills", w, w + least>>
  BY <1>2, <1>5 DEF Run
<1> QED BY <1>1, <1>6

--------------------------------------------------------------------------------
(* Types: the broker's table, the batches, the worker.                      *)

Workers ==
  [state : {"idle", "given", "sent", "delivered", "deferred", "fenced"}, epoch : Nat, next : Nat]

BrokerTypes ==
  /\ known \in Producers /\ replay \in Producers
  /\ log \in Seq(Batches) /\ appending \subseteq Batches /\ wire \subseteq Batches

LEMMA BatchFacts ==
  ASSUME NEW batch \in Batches
  PROVE  batch.epoch \in Nat /\ batch.base \in Nat /\ batch.count \in Nat
BY DEF Batches, Batch

LEMMA ProducerTypes ==
  ASSUME NEW s \in Producers, NEW batch \in Batches
  PROVE  /\ Admitted(s, batch) \in Producers
         /\ Restored(s, batch) \in Producers
<1>1. s.epoch \in Nat /\ s.next \in Nat /\ s.window \in Seq(Batches)
  BY DEF Producers
<1>2. batch.epoch \in Nat /\ batch.base + batch.count \in Nat
  BY BatchFacts
<1>3. Remembering(s.window, batch) \in Seq(Batches)
  <2>1. CASE Len(s.window) < WindowSize
    BY <1>1, <2>1 DEF Remembering
  <2>2. CASE ~(Len(s.window) < WindowSize)
    <3>1. s.window # <<>>
      BY <1>1, <2>2, WindowSizeAssumption
    <3>2. Tail(s.window) \in Seq(Batches)
      BY <1>1, <3>1
    <3> QED BY <2>2, <3>2 DEF Remembering
  <2> QED BY <2>1, <2>2
<1>4. MaxEpoch(s.epoch, batch.epoch) \in Nat
  BY <1>1, <1>2 DEF MaxEpoch
<1>5. Admitted(s, batch) \in Producers
  BY <1>2, <1>3 DEF Admitted, Producers
<1>6. Restored(s, batch) \in Producers
  BY <1>2, <1>3, <1>4 DEF Restored, Producers
<1> QED BY <1>5, <1>6

LEMMA InitialisedType ==
  ASSUME NEW s \in Producers
  PROVE  Initialised(s) \in Producers
BY DEF Initialised, Producers

LEMMA UnheardType == Unheard \in Producers
BY DEF Unheard, Producers

LEMMA EndedType ==
  ASSUME worker \in Workers,
         NEW state \in {"idle", "given", "sent", "delivered", "deferred", "fenced"}
  PROVE  Ended(state) \in Workers /\ Ended(state).state = state
BY DEF Ended, Workers

\* An answer leaves a worker that the batch is not for as it was.
LEMMA AnsweredType ==
  ASSUME worker \in Workers, NEW batch \in Batches,
         NEW state \in {"delivered", "deferred"}
  PROVE  /\ Answered(batch, state) \in Workers
         /\ worker.state = "idle" => Answered(batch, state) = worker
<1>1. worker.next + batch.count \in Nat
  BY BatchFacts DEF Workers
<1>2. Answered(batch, state) \in Workers
  BY <1>1 DEF Answered, Workers
<1> QED BY <1>2 DEF Answered, Awaits

LEMMA ToldType ==
  ASSUME worker \in Workers, NEW batch \in Batches, Told(batch), faults \in Nat
  PROVE  /\ worker' \in Workers /\ faults' \in Nat
         /\ worker.state = "idle" => worker' = worker
BY AnsweredType DEF Told, Fault

--------------------------------------------------------------------------------
(* The inductive invariant of the desk process: its feed rests on the event *)
(* log, and what the worker has fits the feed.                              *)

Fits(o, f, operationsDone, operations) ==
  \/ \E to \in Nat : /\ o = <<"fills", f.acknowledged, to>> /\ f.acknowledged < to
                     /\ to - 1 \in f.queue
  \/ \E to \in Nat : /\ o = <<"operations", operationsDone, to>>
                     /\ operationsDone < to /\ to =< operations

FeedInv ==
  \E e \in Nat : IF up THEN Rests(feed, watermark, booked, e) ELSE Rests(feed, 0, 0, e)

OutInv ==
  /\ worker.state # "idle" => out # None
  /\ out # None => up /\ Fits(out, feed, done, recorded)

DeskTypes ==
  /\ booked \in Nat /\ watermark \in Nat /\ recorded \in Nat
  /\ up \in BOOLEAN /\ working \in Nat /\ done \in Nat
  /\ expected \in Nat /\ fenced \in BOOLEAN /\ worker \in Workers /\ faults \in Nat

DeskInv == DeskTypes /\ BrokerTypes /\ FeedInv /\ OutInv

LEMMA FitsTypes ==
  ASSUME DeskInv, out # None
  PROVE  /\ out \in Payloads /\ out[3] - out[2] \in Nat \ {0}
         /\ out[2] \in Nat /\ out[3] \in Nat
<1>1. Fits(out, feed, done, recorded)
  BY DEF DeskInv, OutInv
<1>2. feed.acknowledged \in Nat /\ done \in Nat
  BY DEF DeskInv, DeskTypes, FeedInv, Rests, Reaches, Feeds
<1>3. PICK k \in {"fills", "operations"}, a \in Nat, to \in Nat : out = <<k, a, to>> /\ a < to
  BY <1>1, <1>2 DEF Fits
<1> QED BY <1>3 DEF Payloads

LEMMA StampedType ==
  ASSUME DeskInv, worker.state # "idle", worker.epoch # 0
  PROVE  Stamped \in Batches
<1>1. out # None
  BY DEF DeskInv, OutInv
<1>2. out \in Payloads /\ out[3] - out[2] \in Nat \ {0}
  BY <1>1, FitsTypes
<1>3. worker.epoch \in Nat \ {0} /\ worker.next \in Nat
  BY DEF DeskInv, DeskTypes, Workers
<1> QED BY <1>2, <1>3 DEF Stamped, Batches, Batch

\* What a hand-over leaves with the worker fits the feed as it then is.
LEMMA HandOverFits ==
  ASSUME NEW waits \in BOOLEAN, NEW latched \in BOOLEAN, HandOver(waits, latched),
         worker \in Workers, done' \in Nat, recorded \in Nat,
         NEW w \in Nat, NEW n \in Nat, NEW e \in Nat, Reaches(feed', w, n, e)
  PROVE  /\ out' # None => Fits(out', feed', done', recorded)
         /\ worker'.state # "idle" => out' # None
         /\ worker' \in Workers /\ fenced' \in BOOLEAN
<1>1. out' = IF waits \/ latched THEN None ELSE NextBatch(feed', done', expected')
  BY DEF HandOver
<1>2. /\ worker' = [worker EXCEPT !.state = IF out' = None THEN "idle" ELSE "given"]
      /\ fenced' = latched
  BY DEF HandOver
<1>3. /\ worker' \in Workers /\ fenced' \in BOOLEAN
      /\ worker'.state # "idle" => out' # None
  <2>1. CASE out' = None
    <3>1. worker' = [worker EXCEPT !.state = "idle"]
      BY <1>2, <2>1
    <3> QED BY <1>2, <2>1, <3>1 DEF Workers
  <2>2. CASE out' # None
    <3>1. worker' = [worker EXCEPT !.state = "given"]
      BY <1>2, <2>2
    <3> QED BY <1>2, <2>2, <3>1 DEF Workers
  <2> QED BY <2>1, <2>2
<1>4. ASSUME out' # None PROVE Fits(out', feed', done', recorded)
  <2>1. out' = NextBatch(feed', done', expected')
    BY <1>1, <1>4
  <2>2. CASE done' < recorded
    <3>1. out' = <<"operations", done', recorded>>
      BY <2>1, <2>2 DEF NextBatch
    <3> QED BY <2>2, <3>1 DEF Fits
  <2>3. CASE done' = recorded /\ feed'.queue # {} /\ expected' \in {0, Run(feed')[2]}
    <3>1. out' = Run(feed')
      BY <2>1, <2>3 DEF NextBatch
    <3>2. PICK to \in Nat : Run(feed') = <<"fills", w, to>> /\ w < to /\ to =< e
      BY <2>3, RunFits
    <3>3. feed'.acknowledged = w /\ to - 1 \in feed'.queue
      BY <3>2 DEF Reaches
    <3> QED BY <3>1, <3>2, <3>3 DEF Fits
  <2>4. CASE /\ ~(done' < recorded)
             /\ ~(done' = recorded /\ feed'.queue # {} /\ expected' \in {0, Run(feed')[2]})
    BY <1>4, <2>1, <2>4 DEF NextBatch
  <2> QED BY <2>2, <2>3, <2>4
<1> QED BY <1>3, <1>4

\* The broker's and the network's steps, and the worker's, leave the desk's feed
\* and its batch alone, and only a worker that has a batch moves on.
LEMMA BatchStays ==
  ASSUME DeskInv, UNCHANGED <<eventLog, up, working, feed, done, shipper>>,
         worker' \in Workers, worker.state = "idle" => worker' = worker,
         faults' \in Nat, BrokerTypes'
  PROVE  DeskInv'
<1>1. UNCHANGED <<booked, watermark, recorded, up, working, feed, done, out, expected, fenced>>
  BY DEF eventLog, shipper
<1>2. DeskTypes'
  BY <1>1 DEF DeskInv, DeskTypes
<1>3. FeedInv'
  BY <1>1 DEF DeskInv, FeedInv
<1>4. OutInv'
  BY <1>1 DEF DeskInv, OutInv
<1> QED BY <1>2, <1>3, <1>4 DEF DeskInv

LEMMA BrokerTypesStay ==
  ASSUME BrokerTypes, UNCHANGED broker, UNCHANGED wire
  PROVE  BrokerTypes'
BY DEF BrokerTypes, broker

\* A settled step hands over what comes next of the feed it leaves.
LEMMA SettledStays ==
  ASSUME DeskInv, up, NEW waits \in BOOLEAN, NEW latched \in BOOLEAN, HandOver(waits, latched),
         UNCHANGED <<booked, recorded, up, working, broker, wire>>,
         watermark' \in Nat, done' \in Nat, expected' \in Nat, faults' \in Nat,
         NEW e \in Nat, Rests(feed', watermark', booked, e)
  PROVE  DeskInv'
<1>1. worker \in Workers /\ recorded \in Nat /\ booked \in Nat
  BY DEF DeskInv, DeskTypes
<1>2. Reaches(feed', watermark', booked, e)
  BY DEF Rests
<1>3. /\ out' # None => Fits(out', feed', done', recorded)
      /\ worker'.state # "idle" => out' # None
      /\ worker' \in Workers /\ fenced' \in BOOLEAN
  BY <1>1, <1>2, HandOverFits
<1>4. DeskTypes'
  BY <1>3 DEF DeskInv, DeskTypes
<1>5. BrokerTypes'
  BY BrokerTypesStay DEF DeskInv
<1>6. FeedInv'
  BY DEF FeedInv
<1>7. OutInv'
  BY <1>3 DEF OutInv
<1> QED BY <1>4, <1>5, <1>6, <1>7 DEF DeskInv

LEMMA StepKeeps ==
  ASSUME DeskInv, Step
  PROVE  DeskInv'
<1> USE DEF eventLog
<1>1. /\ booked \in Nat /\ watermark \in Nat /\ recorded \in Nat /\ done \in Nat
      /\ expected \in Nat /\ fenced \in BOOLEAN /\ faults \in Nat
  BY DEF DeskInv, DeskTypes
<1>2. ASSUME worker.state # "idle"
      PROVE  out # None /\ up /\ Fits(out, feed, done, recorded)
  BY <1>2 DEF DeskInv, OutInv
<1>3. ASSUME up
      PROVE  \E e \in Nat : Rests(feed, watermark, booked, e)
  BY <1>3 DEF DeskInv, FeedInv
<1>4. CASE SettleFills
  <2>1. up /\ Fits(out, feed, done, recorded) /\ out[1] = "fills"
    BY <1>2, <1>4 DEF SettleFills
  <2>2. PICK e \in Nat : Rests(feed, watermark, booked, e)
    BY <1>3, <2>1
  <2>3. PICK to \in Nat : /\ out = <<"fills", feed.acknowledged, to>>
                          /\ feed.acknowledged < to /\ to - 1 \in feed.queue
    BY <2>1 DEF Fits
  <2>4. watermark =< to /\ to =< e
    BY <1>1, <2>2, <2>3 DEF Rests, Reaches
  <2>5. /\ watermark' = to /\ feed' = FeedAcknowledged(feed, to) /\ expected' = to
        /\ HandOver(FALSE, fenced) /\ done' = done /\ faults' = faults
        /\ UNCHANGED <<booked, recorded, up, working, broker, wire>>
    BY <1>4, <2>3 DEF SettleFills
  <2>6. PICK d \in Nat : Rests(FeedAcknowledged(feed, to), to, booked, d)
    BY <1>1, <2>2, <2>4, AcknowledgedRests
  <2> QED BY <1>1, <2>1, <2>5, <2>6, SettledStays
<1>5. CASE SettleUnlogged
  <2>1. /\ HandOver(TRUE, fenced) /\ UNCHANGED <<feed, watermark, done, expected>>
        /\ UNCHANGED <<booked, recorded, up, working, broker, wire>>
        /\ worker.state = "delivered" /\ Fault("journal")
    BY <1>5 DEF SettleUnlogged
  <2>2. up /\ faults' \in Nat
    BY <1>1, <1>2, <2>1 DEF Fault
  <2>3. PICK e \in Nat : Rests(feed, watermark, booked, e)
    BY <1>3, <2>2
  <2> QED BY <1>1, <2>1, <2>2, <2>3, SettledStays
<1>6. CASE SettleOperations
  <2>1. up /\ Fits(out, feed, done, recorded) /\ out[1] = "operations"
    BY <1>2, <1>6 DEF SettleOperations
  <2>2. out[3] \in Nat
    BY <2>1 DEF Fits
  <2>3. PICK e \in Nat : Rests(feed, watermark, booked, e)
    BY <1>3, <2>1
  <2>4. /\ HandOver(FALSE, fenced) /\ done' \in Nat
        /\ UNCHANGED <<feed, watermark, expected, faults>>
        /\ UNCHANGED <<booked, recorded, up, working, broker, wire>>
    BY <1>6, <2>2 DEF SettleOperations
  <2> QED BY <1>1, <2>1, <2>3, <2>4, SettledStays
<1>7. CASE SettleFailed
  <2>1. /\ up /\ HandOver(worker.state = "deferred", worker.state = "fenced")
        /\ UNCHANGED <<feed, watermark, done, expected, faults>>
        /\ UNCHANGED <<booked, recorded, up, working, broker, wire>>
    BY <1>2, <1>7 DEF SettleFailed
  <2>2. PICK e \in Nat : Rests(feed, watermark, booked, e)
    BY <1>3, <2>1
  <2>3. (worker.state = "deferred") \in BOOLEAN /\ (worker.state = "fenced") \in BOOLEAN
    OBVIOUS
  <2> QED BY <1>1, <2>1, <2>2, <2>3, SettledStays
<1>8. CASE StepIdle
  <2>1. /\ up /\ HandOver(FALSE, FALSE)
        /\ UNCHANGED <<feed, watermark, done, expected, faults>>
        /\ UNCHANGED <<booked, recorded, up, working, broker, wire>>
    BY <1>8 DEF StepIdle
  <2>2. PICK e \in Nat : Rests(feed, watermark, booked, e)
    BY <1>3, <2>1
  <2> QED BY <1>1, <2>1, <2>2, SettledStays
<1> QED BY <1>4, <1>5, <1>6, <1>7, <1>8 DEF Step

\* The steps of the platform: signing, booking, recording.
LEMMA PlatformKeeps ==
  ASSUME DeskInv, Sign \/ Book \/ RecordOperation
  PROVE  DeskInv'
<1>1. DeskTypes /\ BrokerTypes /\ FeedInv /\ OutInv
  BY DEF DeskInv
<1>2. CASE Sign
  <2>1. /\ UNCHANGED <<eventLog, up, feed, done, shipper, worker, broker, wire, faults>>
        /\ working' = working + 1
    BY <1>2 DEF Sign
  <2>2. DeskTypes'
    BY <1>1, <2>1 DEF DeskTypes, eventLog, shipper
  <2>3. FeedInv' /\ OutInv'
    BY <1>1, <2>1 DEF FeedInv, OutInv, eventLog, shipper
  <2> QED BY <1>1, <2>1, <2>2, <2>3, BrokerTypesStay DEF DeskInv
<1>3. CASE Book
  <2>1. /\ up /\ working > 0 /\ working' = working - 1
        /\ feed' = FeedAdmitted(feed) /\ booked' = booked + 1
        /\ UNCHANGED <<watermark, recorded, up, done, out, expected, fenced, worker, faults>>
        /\ UNCHANGED broker /\ UNCHANGED wire
    BY <1>3 DEF Book, shipper
  <2>2. PICK e \in Nat : Rests(feed, watermark, booked, e)
    BY <1>1, <2>1 DEF FeedInv
  <2>3. PICK d \in Nat : e =< d /\ Rests(feed', watermark, booked + 1, d)
    BY <1>1, <2>1, <2>2, AdmittedRests DEF DeskTypes
  <2>4. DeskTypes'
    BY <1>1, <2>1 DEF DeskTypes
  <2>5. FeedInv'
    BY <2>1, <2>3 DEF FeedInv
  <2>6. feed'.acknowledged = feed.acknowledged /\ feed.queue \subseteq feed'.queue
    BY <1>1, <2>2, <2>3 DEF Rests, Reaches, DeskTypes
  <2>7. ASSUME out # None PROVE Fits(out, feed', done, recorded)
    BY <1>1, <2>6, <2>7 DEF OutInv, Fits
  <2>8. OutInv'
    BY <1>1, <2>1, <2>7 DEF OutInv
  <2> QED BY <1>1, <2>1, <2>4, <2>5, <2>8, BrokerTypesStay DEF DeskInv
<1>4. CASE RecordOperation
  <2>1. /\ recorded' = recorded + 1
        /\ UNCHANGED <<booked, watermark, up, working, feed, done, out, expected, fenced>>
        /\ UNCHANGED <<worker, faults>> /\ UNCHANGED broker /\ UNCHANGED wire
    BY <1>4 DEF RecordOperation, desk, shipper
  <2>2. DeskTypes' /\ FeedInv'
    BY <1>1, <2>1 DEF DeskTypes, FeedInv
  <2>3. ASSUME out # None PROVE Fits(out, feed, done, recorded + 1)
    BY <1>1, <2>3 DEF OutInv, Fits, DeskTypes
  <2>4. OutInv'
    BY <1>1, <2>1, <2>3 DEF OutInv
  <2> QED BY <1>1, <2>1, <2>2, <2>4, BrokerTypesStay DEF DeskInv
<1> QED BY <1>2, <1>3, <1>4

\* The worker's own steps.
LEMMA WorkerKeeps ==
  ASSUME DeskInv, InitProducer \/ Send \/ GiveUp \/ RetriesExhausted
  PROVE  DeskInv'
<1>1. worker \in Workers /\ faults \in Nat /\ BrokerTypes /\ known \in Producers
  BY DEF DeskInv, DeskTypes, BrokerTypes
<1>2. /\ Ended("deferred") \in Workers /\ Ended("sent") \in Workers
  BY <1>1, EndedType
<1>3. CASE InitProducer
  <2>1. /\ worker.state = "given" /\ known' = Initialised(known)
        /\ UNCHANGED <<eventLog, up, working, feed, done, shipper>>
        /\ UNCHANGED <<log, replay, appending, wire>>
    BY <1>3 DEF InitProducer
  <2>2. known' \in Producers
    BY <1>1, <2>1, InitialisedType
  <2>3. worker' \in Workers /\ faults' \in Nat
    <3>1. CASE /\ worker' = [worker EXCEPT !.epoch = known'.epoch, !.next = known'.next]
               /\ UNCHANGED faults
      <4>1. known'.epoch \in Nat /\ known'.next \in Nat
        BY <2>2 DEF Producers
      <4> QED BY <1>1, <3>1, <4>1 DEF Workers
    <3>2. CASE Fault("timeout") /\ worker' = Ended("deferred")
      BY <1>1, <1>2, <3>2 DEF Fault
    <3> QED BY <1>3, <3>1, <3>2 DEF InitProducer
  <2>4. BrokerTypes'
    BY <1>1, <2>1, <2>2 DEF BrokerTypes
  <2> QED BY <2>1, <2>3, <2>4, BatchStays
<1>4. CASE Send
  <2>1. /\ worker.state = "given" /\ worker.epoch # 0 /\ worker' = Ended("sent")
        /\ wire' = wire \union {Stamped}
        /\ UNCHANGED <<eventLog, up, working, feed, done, shipper>>
        /\ UNCHANGED broker /\ UNCHANGED faults
    BY <1>4 DEF Send
  <2>2. Stamped \in Batches
    BY <2>1, StampedType
  <2>3. BrokerTypes'
    BY <1>1, <2>1, <2>2 DEF BrokerTypes, broker
  <2> QED BY <1>1, <1>2, <2>1, <2>3, BatchStays
<1>5. CASE GiveUp \/ RetriesExhausted
  <2>1. /\ worker.state = "sent" /\ worker' = Ended("deferred")
        /\ UNCHANGED <<eventLog, up, working, feed, done, shipper>>
        /\ UNCHANGED broker /\ UNCHANGED wire
    BY <1>5 DEF GiveUp, RetriesExhausted
  <2>2. faults' \in Nat
    BY <1>1, <1>5 DEF GiveUp, RetriesExhausted, Fault
  <2>3. BrokerTypes'
    BY <1>1, <2>1, BrokerTypesStay
  <2> QED BY <1>2, <2>1, <2>2, <2>3, BatchStays
<1> QED BY <1>3, <1>4, <1>5

\* The broker's answers to a batch, from the wire or from its own queue.
LEMMA BrokerKeeps ==
  ASSUME DeskInv, NEW batch \in Batches,
         Offer(batch) \/ AppendBatch(batch) \/ LoseAppend(batch)
  PROVE  DeskInv'
<1>1. worker \in Workers /\ faults \in Nat /\ BrokerTypes /\ known \in Producers
      /\ replay \in Producers /\ log \in Seq(Batches)
  BY DEF DeskInv, DeskTypes, BrokerTypes
<1>2. CASE Admit(batch)
  <2>1. /\ known' = Admitted(known, batch) /\ appending' = appending \union {batch}
        /\ UNCHANGED <<eventLog, up, working, feed, done, shipper>> /\ UNCHANGED worker
        /\ UNCHANGED <<log, replay, wire, faults>>
    BY <1>2 DEF Admit, desk
  <2>2. BrokerTypes'
    BY <1>1, <2>1, ProducerTypes DEF BrokerTypes
  <2> QED BY <1>1, <2>1, <2>2, BatchStays
<1>3. CASE AppendBatch(batch)
  <2>1. /\ log' = Append(log, batch) /\ replay' = Restored(replay, batch)
        /\ appending' = appending \ {batch}
        /\ UNCHANGED <<eventLog, up, working, feed, done, shipper>> /\ UNCHANGED <<known, wire>>
    BY <1>3 DEF AppendBatch
  <2>2. BrokerTypes'
    BY <1>1, <2>1, ProducerTypes DEF BrokerTypes
  <2>3. CASE Overtakes(batch)
    <3>1. worker' = Answered(batch, "delivered") /\ faults' \in Nat
      BY <1>1, <1>3, <2>3 DEF AppendBatch, Fault
    <3> QED BY <1>1, <2>1, <2>2, <3>1, AnsweredType, BatchStays
  <2>4. CASE ~Overtakes(batch)
    <3>1. Told(batch)
      BY <1>3, <2>4 DEF AppendBatch
    <3> QED BY <1>1, <2>1, <2>2, <3>1, ToldType, BatchStays
  <2> QED BY <2>3, <2>4
<1>4. CASE LoseAppend(batch)
  <2>1. /\ appending' = appending \ {batch} /\ faults' \in Nat
        /\ UNCHANGED <<eventLog, up, working, feed, done, shipper>> /\ UNCHANGED worker
        /\ UNCHANGED <<known, log, replay, wire>>
    BY <1>1, <1>4 DEF LoseAppend, Fault, desk
  <2>2. BrokerTypes'
    BY <1>1, <2>1 DEF BrokerTypes
  <2> QED BY <1>1, <2>1, <2>2, BatchStays
<1>5. CASE AnswerDuplicate(batch)
  <2>1. /\ Told(batch) /\ UNCHANGED <<eventLog, up, working, feed, done, shipper>>
        /\ UNCHANGED broker /\ UNCHANGED wire
    BY <1>5 DEF AnswerDuplicate
  <2>2. BrokerTypes'
    BY <1>1, <2>1, BrokerTypesStay
  <2> QED BY <1>1, <2>1, <2>2, ToldType, BatchStays
<1>6. CASE Refuse(batch)
  <2>1. /\ UNCHANGED <<eventLog, up, working, feed, done, shipper>>
        /\ UNCHANGED broker /\ UNCHANGED wire /\ UNCHANGED faults
    BY <1>6 DEF Refuse
  <2>2. BrokerTypes'
    BY <1>1, <2>1, BrokerTypesStay
  <2>3. RefusedAt(known.next) \in Workers
    BY <1>1 DEF RefusedAt, Workers, Producers
  <2>4. Ended("fenced") \in Workers /\ Ended("deferred") \in Workers
    BY <1>1, EndedType
  <2>5. worker' \in Workers /\ (worker.state = "idle" => worker' = worker)
    BY <1>1, <1>6, <2>3, <2>4 DEF Refuse, Failed, Awaits
  <2> QED BY <1>1, <2>1, <2>2, <2>5, BatchStays
<1> QED BY <1>2, <1>3, <1>4, <1>5, <1>6 DEF Offer

\* Faults of the broker and of a rival, a crash of the desk and its resumption.
LEMMA RestartsKeep ==
  ASSUME DeskInv, RivalInit \/ RestartBroker \/ Crash \/ Resume
  PROVE  DeskInv'
<1>1. DeskTypes /\ BrokerTypes /\ FeedInv /\ OutInv /\ worker \in Workers /\ faults \in Nat
  BY DEF DeskInv, DeskTypes
<1>2. CASE RivalInit \/ RestartBroker
  <2>1. /\ faults' \in Nat /\ UNCHANGED worker
        /\ UNCHANGED <<eventLog, up, working, feed, done, shipper>>
    BY <1>1, <1>2 DEF RivalInit, RestartBroker, Fault, desk
  <2>2. BrokerTypes'
    BY <1>1, <1>2, InitialisedType DEF BrokerTypes, RivalInit, RestartBroker
  <2> QED BY <1>1, <2>1, <2>2, BatchStays
<1>3. CASE Crash
  <2>1. /\ up' = FALSE /\ working' = 0 /\ feed' = FeedResumed(0, 0) /\ done' = 0
        /\ out' = None /\ expected' = 0 /\ fenced' = FALSE /\ worker' = Idle
        /\ UNCHANGED <<booked, watermark, recorded>> /\ UNCHANGED broker /\ UNCHANGED wire
        /\ faults' \in Nat
    BY <1>1, <1>3 DEF Crash, Fault, eventLog
  <2>2. Idle \in Workers /\ Idle.state = "idle"
    BY DEF Idle, Workers
  <2>3. DeskTypes'
    BY <1>1, <2>1, <2>2 DEF DeskTypes
  <2>4. FeedInv'
    <3>1. PICK e \in Nat : Rests(FeedResumed(0, 0), 0, 0, e)
      BY ResumedRests
    <3> QED BY <2>1, <3>1 DEF FeedInv
  <2>5. OutInv'
    BY <2>1, <2>2 DEF OutInv
  <2> QED BY <1>1, <2>1, <2>3, <2>4, <2>5, BrokerTypesStay DEF DeskInv
<1>4. CASE Resume
  <2>1. /\ ~up /\ watermark =< booked /\ up' = TRUE
        /\ feed' = FeedResumed(booked, watermark)
        /\ UNCHANGED <<booked, watermark, recorded, working, done, out, expected, fenced>>
        /\ UNCHANGED <<worker, faults>> /\ UNCHANGED broker /\ UNCHANGED wire
    BY <1>4 DEF Resume, eventLog, shipper
  <2>2. DeskTypes'
    BY <1>1, <2>1 DEF DeskTypes
  <2>3. FeedInv'
    <3>1. PICK e \in Nat : Rests(FeedResumed(booked, watermark), watermark, booked, e)
      BY <1>1, <2>1, ResumedRests DEF DeskTypes
    <3> QED BY <2>1, <3>1 DEF FeedInv
  <2>4. out = None /\ worker.state = "idle"
    BY <1>1, <2>1 DEF OutInv
  <2>5. OutInv'
    BY <2>1, <2>4 DEF OutInv
  <2> QED BY <1>1, <2>1, <2>2, <2>3, <2>5, BrokerTypesStay DEF DeskInv
<1> QED BY <1>2, <1>3, <1>4

--------------------------------------------------------------------------------

LEMMA DeskInvInit == Init => DeskInv
<1> SUFFICES ASSUME Init PROVE DeskInv
  OBVIOUS
<1>1. /\ booked = 0 /\ watermark = 0 /\ recorded = 0
      /\ up = TRUE /\ working = 0 /\ feed = FeedResumed(0, 0) /\ done = 0
      /\ out = None /\ expected = 0 /\ fenced = FALSE /\ worker = Idle
      /\ known = Unheard /\ log = <<>> /\ replay = Unheard /\ appending = {}
      /\ wire = {} /\ faults = 0
  BY DEF Init
<1>2. Idle \in Workers /\ Idle.state = "idle"
  BY DEF Idle, Workers
<1>3. DeskTypes
  BY <1>1, <1>2 DEF DeskTypes
<1>4. BrokerTypes
  BY <1>1, UnheardType DEF BrokerTypes
<1>5. FeedInv
  <2>1. PICK e \in Nat : Rests(FeedResumed(0, 0), 0, 0, e)
    BY ResumedRests
  <2> QED BY <1>1, <2>1 DEF FeedInv
<1>6. OutInv
  BY <1>1, <1>2 DEF OutInv
<1> QED BY <1>3, <1>4, <1>5, <1>6 DEF DeskInv

LEMMA DeskInvStep == DeskInv /\ [Next]_vars => DeskInv'
<1> SUFFICES ASSUME DeskInv, [Next]_vars PROVE DeskInv'
  OBVIOUS
<1>1. wire \subseteq Batches /\ appending \subseteq Batches
  BY DEF DeskInv, BrokerTypes
<1>2. CASE Sign \/ Book \/ RecordOperation
  BY <1>2, PlatformKeeps
<1>3. CASE Step
  BY <1>3, StepKeeps
<1>4. CASE InitProducer \/ Send \/ GiveUp \/ RetriesExhausted
  BY <1>4, WorkerKeeps
<1>5. ASSUME NEW batch \in wire, Offer(batch) PROVE DeskInv'
  BY <1>1, <1>5, BrokerKeeps
<1>6. ASSUME NEW batch \in appending, AppendBatch(batch) \/ LoseAppend(batch) PROVE DeskInv'
  BY <1>1, <1>6, BrokerKeeps
<1>7. CASE RivalInit \/ RestartBroker \/ Crash \/ Resume
  BY <1>7, RestartsKeep
<1>8. CASE UNCHANGED vars
  BY <1>8 DEF vars, desk, broker, shipper, eventLog, DeskInv, DeskTypes, BrokerTypes,
              FeedInv, OutInv
<1> QED BY <1>2, <1>3, <1>4, <1>5, <1>6, <1>7, <1>8 DEF Next

LEMMA DeskAlways == Spec => []DeskInv
<1>1. Init => DeskInv
  BY DeskInvInit
<1>2. DeskInv /\ [Next]_vars => DeskInv'
  BY DeskInvStep
<1> QED BY <1>1, <1>2, PTL DEF Spec

\* Types, and the queue within its bound, for any capacities and faults
\* (OutboxEvents::admit, fold_booked, fill_gap).
THEOREM TypeCorrect == Spec => []TypeOK
<1>1. DeskInv => TypeOK
  <2> SUFFICES ASSUME DeskInv PROVE TypeOK
    OBVIOUS
  <2>1. PICK e \in Nat, w \in Nat, n \in Nat : Rests(feed, w, n, e)
    BY DEF DeskInv, FeedInv, DeskTypes
  <2>2. feed \in Feeds /\ Cardinality(feed.queue) =< OutboxCapacity
    <3>1. Reaches(feed, w, n, e)
      BY <2>1 DEF Rests
    <3>2. Cardinality(feed.queue) = e - w
      BY <3>1, ReachSize
    <3>3. feed \in Feeds /\ e - w =< OutboxCapacity
      BY <3>1 DEF Reaches
    <3> QED BY <3>2, <3>3
  <2>3. out \in Payloads \union {None}
    BY FitsTypes
  <2> QED BY <2>2, <2>3 DEF DeskInv, DeskTypes, BrokerTypes, Workers, TypeOK
<1> QED BY <1>1, DeskAlways, PTL

\* No fill of the event log leaves the feed before the fabric has it, whatever
\* the queue's bound, the batches and the restarts (desk_ledger.rs, platform.rs).
THEOREM NothingForgotten == Spec => []NothingIsForgotten
<1>1. DeskInv => NothingIsForgotten
  <2> SUFFICES ASSUME DeskInv, up PROVE NothingIsForgotten
    BY DEF NothingIsForgotten
  <2>1. booked \in Nat /\ watermark \in Nat
    BY DEF DeskInv, DeskTypes
  <2>2. PICK e \in Nat : Rests(feed, watermark, booked, e)
    BY DEF DeskInv, FeedInv
  <2>3. Reaches(feed, watermark, booked, e)
    BY <2>2 DEF Rests
  <2>4. /\ Cardinality(feed.queue) = e - watermark
        /\ IsFull(feed) <=> feed.seen >= FeedCapacity \/ e - watermark = OutboxCapacity
    BY <2>1, <2>3, ReachSize
  <2>5. watermark + Cardinality(feed.queue) = e
    BY <2>1, <2>4
  <2> HIDE DEF IsFull
  <2> QED BY <2>1, <2>2, <2>3, <2>4, <2>5 DEF Rests, Reaches, NothingIsForgotten
<1> QED BY <1>1, DeskAlways, PTL

\* What the worker has is always the head of what is pending, so the feed takes
\* its acknowledgement (qip-desk-ship, settle; desk_ledger.rs, check_acknowledge).
THEOREM HeadIsOut == Spec => []OutIsTheHead
<1>1. DeskInv => OutIsTheHead
  <2> SUFFICES ASSUME DeskInv, out # None PROVE OutIsTheHead
    BY DEF OutIsTheHead
  <2>1. Fits(out, feed, done, recorded) /\ feed.queue \subseteq Nat
    BY DEF DeskInv, OutInv, FeedInv, Rests, Reaches, Feeds
  <2>2. CASE \E to \in Nat : /\ out = <<"fills", feed.acknowledged, to>>
                             /\ feed.acknowledged < to /\ to - 1 \in feed.queue
    BY <2>1, <2>2 DEF OutIsTheHead, Acknowledgeable
  <2>3. CASE \E to \in Nat : /\ out = <<"operations", done, to>>
                             /\ done < to /\ to =< recorded
    BY <2>3 DEF OutIsTheHead
  <2> QED BY <2>1, <2>2, <2>3 DEF Fits
<1> QED BY <1>1, DeskAlways, PTL
--------------------------------------------------------------------------------
(* The promise.  A restart of the broker takes the producer's next sequence *)
(* from the last batch of its partition, and when that one was overtaken on *)
(* its way there the sequence goes back and a slot is given out twice.      *)

Logged   == {log[i] : i \in 1..Len(log)}
Windowed(s) == {s.window[i] : i \in 1..Len(s.window)}

\* A slot the broker knows of belongs to one batch, and lies before the next;
\* reading the partition back tells of no other.
OneBatchPerSlot ==
  \A a, b \in Windowed(known) \cup appending \cup Logged :
     /\ a.base = b.base => a = b
     /\ a.base < known.next
LogIsReplayed == Windowed(replay) \subseteq Logged

SlotInv == OneBatchPerSlot /\ LogIsReplayed

\* What the partition reads back continues after every batch that is on it; and
\* a restart finds it so.
ReadsBackInOrder == \A b \in Logged : b.base < replay.next
RestartsInOrder == RestartBroker => ReadsBackInOrder

\* No restart, or no append that overtakes another, and so the batches reach the
\* partition in the order they were admitted in.
NoSlotComesBack == "overtake" \notin FaultKinds \/ "restart" \notin FaultKinds
AppendsInOrder ==
  "overtake" \notin FaultKinds =>
     /\ \A a \in appending, b \in Logged : b.base < a.base
     /\ ReadsBackInOrder

\* The fills on the partition are a chain, a batch that was sent continues it
\* or repeats it, and what the worker calls delivered is on it.
FillsAreAChain ==
  \E n \in Nat : watermark =< n /\ n =< booked /\ Positions("fills") = 0..(n - 1)
SentContinues ==
  \A batch \in wire : batch.payload[1] = "fills" =>
     /\ 0..(batch.payload[2] - 1) \subseteq Positions("fills")
     /\ batch.payload[3] =< booked
DeliveredIsThere ==
  worker.state = "delivered" /\ out[1] = "fills" => 0..(out[3] - 1) \subseteq Positions("fills")

ChainInv == FillsAreAChain /\ SentContinues /\ DeliveredIsThere /\ appending \subseteq wire

LEMMA WindowAfter ==
  ASSUME NEW window \in Seq(Batches), NEW batch \in Batches
  PROVE  \A i \in 1..Len(Remembering(window, batch)) :
            \/ Remembering(window, batch)[i] = batch
            \/ \E j \in 1..Len(window) : Remembering(window, batch)[i] = window[j]
<1> DEFINE kept == IF Len(window) < WindowSize THEN window ELSE Tail(window)
<1>1. /\ kept \in Seq(Batches)
      /\ \A i \in 1..Len(kept) : \E j \in 1..Len(window) : kept[i] = window[j]
  <2>1. CASE Len(window) < WindowSize
    BY <2>1
  <2>2. CASE ~(Len(window) < WindowSize)
    <3>1. window # <<>> /\ Len(window) >= 1
      BY <2>2, WindowSizeAssumption
    <3>2. Tail(window) \in Seq(Batches) /\ Len(Tail(window)) = Len(window) - 1
          /\ \A i \in 1..Len(Tail(window)) : Tail(window)[i] = window[i + 1]
      BY <3>1
    <3>3. \A i \in 1..Len(Tail(window)) : i + 1 \in 1..Len(window)
      BY <3>1, <3>2
    <3> QED BY <2>2, <3>2, <3>3
  <2> QED BY <2>1, <2>2
<1>2. Remembering(window, batch) = Append(kept, batch)
  BY DEF Remembering
<1> HIDE DEF kept
<1> QED BY <1>1, <1>2

LEMMA WindowedAfter ==
  ASSUME NEW s \in Producers, NEW batch \in Batches
  PROVE  /\ Windowed(Admitted(s, batch)) \subseteq Windowed(s) \cup {batch}
         /\ Windowed(Restored(s, batch)) \subseteq Windowed(s) \cup {batch}
<1>1. s.window \in Seq(Batches)
  BY DEF Producers
<1>2. \A i \in 1..Len(Remembering(s.window, batch)) :
         \/ Remembering(s.window, batch)[i] = batch
         \/ \E j \in 1..Len(s.window) : Remembering(s.window, batch)[i] = s.window[j]
  BY <1>1, WindowAfter
<1>3. Admitted(s, batch).window = Remembering(s.window, batch)
      /\ Restored(s, batch).window = Remembering(s.window, batch)
  BY DEF Admitted, Restored
<1> QED BY <1>2, <1>3 DEF Windowed

LEMMA LoggedAfter ==
  ASSUME log \in Seq(Batches), NEW batch \in Batches, log' = Append(log, batch)
  PROVE  /\ Logged' = Logged \cup {batch}
         /\ \A k : k \in Positions("fills")' <=>
               \/ k \in Positions("fills")
               \/ batch.payload[1] = "fills" /\ k \in batch.payload[2]..(batch.payload[3] - 1)
<1>1. Len(log') = Len(log) + 1 /\ Len(log) \in Nat /\ log'[Len(log) + 1] = batch
      /\ \A i \in 1..Len(log) : log'[i] = log[i]
  OBVIOUS
<1>2. 1..Len(log') = (1..Len(log)) \cup {Len(log) + 1}
  BY <1>1
<1>3. Logged' = Logged \cup {batch}
  BY <1>1, <1>2 DEF Logged
<1>4. ASSUME NEW k
      PROVE  k \in Positions("fills")' <=>
               \/ k \in Positions("fills")
               \/ batch.payload[1] = "fills" /\ k \in batch.payload[2]..(batch.payload[3] - 1)
  <2>1. k \in Positions("fills") <=>
          \E i \in 1..Len(log) : /\ log[i].payload[1] = "fills"
                                 /\ k \in log[i].payload[2]..(log[i].payload[3] - 1)
    BY DEF Positions
  <2>2. k \in Positions("fills")' <=>
          \E i \in 1..Len(log') : /\ log'[i].payload[1] = "fills"
                                  /\ k \in log'[i].payload[2]..(log'[i].payload[3] - 1)
    BY DEF Positions
  <2> QED BY <1>1, <1>2, <2>1, <2>2
<1> QED BY <1>3, <1>4

LEMMA LoggedArrived ==
  ASSUME NEW i \in 1..Len(log), log[i].payload[1] = "fills"
  PROVE  log[i].payload[2]..(log[i].payload[3] - 1) \subseteq Positions("fills")
BY DEF Positions

LEMMA SentTypes ==
  ASSUME NEW batch \in Batches
  PROVE  /\ batch.payload[2] \in Nat /\ batch.payload[3] \in Nat
         /\ batch.base \in Nat /\ batch.count \in Nat \ {0}
BY DEF Batches, Batch, Payloads
--------------------------------------------------------------------------------
(* Slots.                                                                  *)

\* Whatever only forgets a batch, or lends the producer an epoch.
LEMMA SlotsStay ==
  ASSUME SlotInv, known'.next = known.next, known'.window = known.window,
         UNCHANGED <<log, replay>>, appending' \subseteq appending
  PROVE  SlotInv'
<1>1. /\ Windowed(known)' = Windowed(known) /\ Logged' = Logged
      /\ Windowed(replay)' = Windowed(replay)
  BY DEF Windowed, Logged
<1>2. OneBatchPerSlot'
  BY <1>1 DEF SlotInv, OneBatchPerSlot
<1>3. LogIsReplayed'
  BY <1>1 DEF SlotInv, LogIsReplayed
<1> QED BY <1>2, <1>3 DEF SlotInv

LEMMA SlotsAdmit ==
  ASSUME BrokerTypes, SlotInv, NEW batch \in Batches, Admit(batch)
  PROVE  SlotInv'
<1> DEFINE old == Windowed(known) \cup appending \cup Logged
           new == Windowed(known)' \cup appending' \cup Logged'
<1>1. /\ known \in Producers /\ known.next \in Nat /\ batch.base = known.next
      /\ batch.base \in Nat /\ batch.count \in Nat \ {0}
      /\ known' = Admitted(known, batch) /\ appending' = appending \union {batch}
      /\ UNCHANGED <<log, replay>>
  BY SentTypes DEF Admit, Fresh, BrokerTypes, Producers
<1>2. known'.next = batch.base + batch.count
  BY <1>1 DEF Admitted
<1>3. /\ Windowed(known)' \subseteq Windowed(known) \cup {batch} /\ Logged' = Logged
      /\ Windowed(replay)' = Windowed(replay)
  <2>1. Windowed(known)' = Windowed(Admitted(known, batch))
    BY <1>1 DEF Windowed
  <2>2. Windowed(Admitted(known, batch)) \subseteq Windowed(known) \cup {batch}
    BY <1>1, WindowedAfter
  <2>3. Logged' = Logged /\ Windowed(replay)' = Windowed(replay)
    BY <1>1 DEF Windowed, Logged
  <2> QED BY <2>1, <2>2, <2>3
<1>4. new \subseteq old \cup {batch}
  BY <1>1, <1>3
<1>5. old \subseteq Batches
  BY DEF BrokerTypes, Producers, Windowed, Logged
<1>6. \A a, b \in old : (a.base = b.base => a = b) /\ a.base < known.next /\ a.base \in Nat
  BY <1>5, BatchFacts DEF SlotInv, OneBatchPerSlot
<1> HIDE DEF old, new
<1>7. \A a, b \in new : (a.base = b.base => a = b) /\ a.base < known'.next
  BY <1>1, <1>2, <1>4, <1>6
<1>8. OneBatchPerSlot'
  BY <1>7 DEF new, OneBatchPerSlot
<1>9. LogIsReplayed'
  BY <1>3 DEF SlotInv, LogIsReplayed
<1> QED BY <1>8, <1>9 DEF SlotInv

LEMMA SlotsAppend ==
  ASSUME BrokerTypes, SlotInv, NEW batch \in appending, AppendBatch(batch)
  PROVE  SlotInv'
<1>1. /\ batch \in Batches /\ log \in Seq(Batches) /\ replay \in Producers
      /\ log' = Append(log, batch) /\ replay' = Restored(replay, batch)
      /\ appending' = appending \ {batch} /\ UNCHANGED known
  BY DEF AppendBatch, BrokerTypes
<1>2. Logged' = Logged \cup {batch} /\ Windowed(known)' = Windowed(known)
  BY <1>1, LoggedAfter DEF Windowed
<1>3. Windowed(replay)' \subseteq Windowed(replay) \cup {batch}
  <2>1. Windowed(replay)' = Windowed(Restored(replay, batch))
    BY <1>1 DEF Windowed
  <2>2. Windowed(Restored(replay, batch)) \subseteq Windowed(replay) \cup {batch}
    BY <1>1, WindowedAfter
  <2> QED BY <2>1, <2>2
<1>4. OneBatchPerSlot'
  BY <1>1, <1>2 DEF SlotInv, OneBatchPerSlot
<1>5. LogIsReplayed'
  BY <1>2, <1>3 DEF SlotInv, LogIsReplayed
<1> QED BY <1>4, <1>5 DEF SlotInv

LEMMA SlotsRestart ==
  ASSUME SlotInv, RestartBroker, ReadsBackInOrder
  PROVE  SlotInv'
<1>1. known' = replay /\ appending' = {} /\ UNCHANGED <<log, replay>>
  BY DEF RestartBroker
<1>2. Windowed(known)' = Windowed(replay) /\ Windowed(replay)' = Windowed(replay)
      /\ Logged' = Logged
  BY <1>1 DEF Windowed, Logged
<1>3. Windowed(known)' \cup appending' \cup Logged' = Logged
  BY <1>1, <1>2 DEF SlotInv, LogIsReplayed
<1>4. \A b \in Logged : b.base < known'.next
  BY <1>1 DEF ReadsBackInOrder
<1>5. \A a, b \in Logged : a.base = b.base => a = b
  BY DEF SlotInv, OneBatchPerSlot
<1>6. OneBatchPerSlot'
  BY <1>3, <1>4, <1>5 DEF OneBatchPerSlot
<1>7. LogIsReplayed'
  BY <1>2 DEF SlotInv, LogIsReplayed
<1> QED BY <1>6, <1>7 DEF SlotInv

LEMMA SlotInvStep ==
  ASSUME DeskInv, SlotInv, [Next]_vars, RestartsInOrder \/ UNCHANGED vars
  PROVE  SlotInv'
<1>1. BrokerTypes /\ wire \subseteq Batches /\ appending \subseteq Batches
  BY DEF DeskInv, BrokerTypes
<1>2. CASE UNCHANGED broker
  BY <1>2, SlotsStay DEF broker
<1>3. CASE InitProducer \/ RivalInit
  <2>1. known' = Initialised(known) /\ UNCHANGED <<log, replay, appending>>
    BY <1>3 DEF InitProducer, RivalInit
  <2>2. known'.next = known.next /\ known'.window = known.window
    BY <1>1, <2>1 DEF Initialised, BrokerTypes, Producers
  <2> QED BY <2>1, <2>2, SlotsStay
<1>4. ASSUME NEW batch \in wire, Offer(batch)
      PROVE  SlotInv'
  <2>1. Admit(batch) \/ UNCHANGED broker
    BY <1>4 DEF Offer, AnswerDuplicate, Refuse
  <2> QED BY <1>1, <1>2, <2>1, SlotsAdmit
<1>5. ASSUME NEW batch \in appending, AppendBatch(batch)
      PROVE  SlotInv'
  BY <1>1, <1>5, SlotsAppend
<1>6. ASSUME NEW batch \in appending, LoseAppend(batch)
      PROVE  SlotInv'
  <2>1. UNCHANGED <<known, log, replay>> /\ appending' \subseteq appending
    BY <1>6 DEF LoseAppend
  <2> QED BY <2>1, SlotsStay
<1>7. CASE RestartBroker
  <2>1. CASE RestartsInOrder
    BY <1>7, <2>1, SlotsRestart DEF RestartsInOrder
  <2>2. CASE UNCHANGED vars
    BY <1>2, <2>2 DEF vars
  <2> QED BY <2>1, <2>2
<1>8. CASE Sign \/ Book \/ RecordOperation \/ Send \/ GiveUp \/ RetriesExhausted
           \/ Crash \/ Resume \/ UNCHANGED vars
  BY <1>2, <1>8 DEF Sign, Book, RecordOperation, Send, GiveUp, RetriesExhausted, Crash,
                    Resume, vars
<1>9. CASE Step
  BY <1>2, <1>9 DEF Step, SettleFills, SettleUnlogged, SettleOperations, SettleFailed, StepIdle
<1> QED BY <1>3, <1>4, <1>5, <1>6, <1>7, <1>8, <1>9 DEF Next
--------------------------------------------------------------------------------
(* The order on the partition.                                             *)

LEMMA OrderStays ==
  ASSUME AppendsInOrder, UNCHANGED <<log, replay>>, appending' \subseteq appending
  PROVE  AppendsInOrder'
<1>1. Logged' = Logged /\ replay' = replay
  BY DEF Logged
<1> QED BY <1>1 DEF AppendsInOrder, ReadsBackInOrder

LEMMA OrderAdmit ==
  ASSUME SlotInv, AppendsInOrder, NEW batch, Admit(batch)
  PROVE  AppendsInOrder'
<1>1. /\ batch.base = known.next /\ appending' = appending \union {batch}
      /\ UNCHANGED <<log, replay>>
  BY DEF Admit, Fresh
<1>2. Logged' = Logged /\ replay' = replay
  BY <1>1 DEF Logged
<1>3. \A b \in Logged : b.base < batch.base
  BY <1>1 DEF SlotInv, OneBatchPerSlot
<1> QED BY <1>1, <1>2, <1>3 DEF AppendsInOrder, ReadsBackInOrder

LEMMA OrderAppend ==
  ASSUME BrokerTypes, SlotInv, AppendsInOrder, NEW batch \in appending, AppendBatch(batch)
  PROVE  AppendsInOrder'
<1> SUFFICES ASSUME "overtake" \notin FaultKinds
             PROVE  /\ \A a \in appending', b \in Logged' : b.base < a.base
                    /\ ReadsBackInOrder'
  BY DEF AppendsInOrder
<1>1. /\ batch \in Batches /\ log \in Seq(Batches)
      /\ log' = Append(log, batch) /\ replay' = Restored(replay, batch)
      /\ appending' = appending \ {batch}
  BY DEF AppendBatch, BrokerTypes
<1>2. Logged' = Logged \cup {batch}
  BY <1>1, LoggedAfter
<1>3. \A a \in appending : ~(a.base < batch.base)
  BY DEF AppendBatch, Fault, Overtakes
<1>4. \A a \in appending : a.base \in Nat /\ (a.base = batch.base => a = batch)
  BY BatchFacts DEF BrokerTypes, SlotInv, OneBatchPerSlot
<1>5. \A a \in appending' : batch.base < a.base
  BY <1>1, <1>3, <1>4
<1>6. \A a \in appending, b \in Logged : b.base < a.base
  BY DEF AppendsInOrder
<1>7. replay'.next = batch.base + batch.count /\ batch.base \in Nat /\ batch.count \in Nat \ {0}
  BY <1>1, SentTypes DEF Restored
<1>8. \A b \in Logged : b.base < batch.base /\ b.base \in Nat
  BY <1>6, BatchFacts DEF BrokerTypes, Logged
<1>9. \A b \in Logged' : b.base < replay'.next
  BY <1>2, <1>7, <1>8
<1>10. \A a \in appending', b \in Logged' : b.base < a.base
  BY <1>1, <1>2, <1>5, <1>6
<1> QED BY <1>9, <1>10 DEF ReadsBackInOrder

LEMMA OrderStep ==
  ASSUME DeskInv, SlotInv, AppendsInOrder, [Next]_vars
  PROVE  AppendsInOrder'
<1>1. BrokerTypes
  BY DEF DeskInv
<1>2. CASE UNCHANGED broker
  BY <1>2, OrderStays DEF broker
<1>3. ASSUME NEW batch \in wire, Offer(batch)
      PROVE  AppendsInOrder'
  <2>1. Admit(batch) \/ UNCHANGED broker
    BY <1>3 DEF Offer, AnswerDuplicate, Refuse
  <2> QED BY <1>2, <2>1, OrderAdmit
<1>4. ASSUME NEW batch \in appending, AppendBatch(batch)
      PROVE  AppendsInOrder'
  BY <1>1, <1>4, OrderAppend
<1>5. ASSUME NEW batch \in appending, LoseAppend(batch)
      PROVE  AppendsInOrder'
  <2>1. UNCHANGED <<log, replay>> /\ appending' \subseteq appending
    BY <1>5 DEF LoseAppend
  <2> QED BY <2>1, OrderStays
<1>6. CASE InitProducer \/ RivalInit \/ RestartBroker
  <2>1. UNCHANGED <<log, replay>> /\ appending' \subseteq appending
    BY <1>6 DEF InitProducer, RivalInit, RestartBroker
  <2> QED BY <2>1, OrderStays
<1>7. CASE Sign \/ Book \/ RecordOperation \/ Send \/ GiveUp \/ RetriesExhausted
           \/ Crash \/ Resume \/ UNCHANGED vars
  BY <1>2, <1>7 DEF Sign, Book, RecordOperation, Send, GiveUp, RetriesExhausted, Crash,
                    Resume, vars
<1>8. CASE Step
  BY <1>2, <1>8 DEF Step, SettleFills, SettleUnlogged, SettleOperations, SettleFailed, StepIdle
<1> QED BY <1>3, <1>4, <1>5, <1>6, <1>7, <1>8 DEF Next

LEMMA RestartsAreInOrder ==
  ASSUME NoSlotComesBack, AppendsInOrder, RestartBroker
  PROVE  ReadsBackInOrder
BY DEF NoSlotComesBack, AppendsInOrder, RestartBroker, Fault
--------------------------------------------------------------------------------
(* Chains.                                                                 *)

\* A batch the worker has is of what the event log holds, and follows the chain.
LEMMA OutContinues ==
  ASSUME DeskInv, ChainInv, out # None, out[1] = "fills"
  PROVE  /\ out[2] \in Nat /\ out[3] \in Nat /\ out[2] < out[3] /\ out[3] =< booked
         /\ out[2] = watermark /\ up
         /\ 0..(out[2] - 1) \subseteq Positions("fills")
<1>1. up /\ Fits(out, feed, done, recorded)
  BY DEF DeskInv, OutInv
<1>2. booked \in Nat /\ watermark \in Nat
  BY DEF DeskInv, DeskTypes
<1>3. PICK e \in Nat : Rests(feed, watermark, booked, e)
  BY <1>1 DEF DeskInv, FeedInv
<1>4. feed.acknowledged = watermark /\ feed.queue = watermark..(e - 1) /\ e =< booked
  BY <1>3 DEF Rests, Reaches
<1>5. PICK to \in Nat : /\ out = <<"fills", feed.acknowledged, to>>
                        /\ feed.acknowledged < to /\ to - 1 \in feed.queue
  BY <1>1 DEF Fits
<1>6. PICK n \in Nat : watermark =< n /\ n =< booked /\ Positions("fills") = 0..(n - 1)
  BY DEF ChainInv, FillsAreAChain
<1>7. 0..(watermark - 1) \subseteq 0..(n - 1)
  BY <1>2, <1>6
<1>8. out[2] = watermark /\ out[3] = to /\ watermark < to /\ to =< booked
  BY <1>2, <1>3, <1>4, <1>5
<1> QED BY <1>1, <1>2, <1>5, <1>6, <1>7, <1>8

\* A duplicate the broker vouches for is on the partition.
LEMMA DuplicateArrived ==
  ASSUME DeskInv, SlotInv, NEW batch \in Batches,
         Duplicate(known, batch), batch.base \in Remembered, batch.payload[1] = "fills"
  PROVE  batch.payload[2]..(batch.payload[3] - 1) \subseteq Positions("fills")
<1>1. PICK i \in 1..Len(log) : log[i].base = batch.base
  BY DEF Remembered
<1>2. PICK j \in 1..Len(known.window) : /\ known.window[j].base = batch.base
                                        /\ known.window[j].payload = batch.payload
  BY DEF Duplicate, Matches
<1>3. log[i] \in Logged /\ known.window[j] \in Windowed(known)
  BY DEF Logged, Windowed
<1>4. log[i] = known.window[j]
  BY <1>1, <1>2, <1>3 DEF SlotInv, OneBatchPerSlot
<1> QED BY <1>2, <1>4, LoggedArrived

\* Steps that leave the partition and the wire alone, and deliver nothing.
LEMMA ChainStays ==
  ASSUME DeskInv, ChainInv, UNCHANGED <<log, wire, watermark>>, appending' \subseteq wire,
         booked' = booked \/ booked' = booked + 1,
         worker'.state = "delivered" => worker.state = "delivered" /\ out' = out
  PROVE  ChainInv'
<1>1. Positions("fills")' = Positions("fills")
  BY DEF Positions
<1>2. booked \in Nat /\ watermark \in Nat /\ booked' \in Nat /\ booked =< booked'
  BY DEF DeskInv, DeskTypes
<1>3. FillsAreAChain'
  BY <1>1, <1>2 DEF ChainInv, FillsAreAChain
<1>4. SentContinues'
  <2>1. \A batch \in wire : batch.payload[3] \in Nat
    BY SentTypes DEF DeskInv, BrokerTypes
  <2> QED BY <1>1, <1>2, <2>1 DEF ChainInv, SentContinues
<1>5. DeliveredIsThere'
  BY <1>1 DEF ChainInv, DeliveredIsThere
<1>6. (appending \subseteq wire)'
  OBVIOUS
<1> QED BY <1>3, <1>4, <1>5, <1>6 DEF ChainInv

LEMMA HandOverEnds ==
  ASSUME NEW waits, NEW latched, HandOver(waits, latched), worker \in Workers
  PROVE  worker'.state # "delivered"
BY DEF HandOver, Workers

LEMMA ChainSettles ==
  ASSUME DeskInv, ChainInv, Step
  PROVE  ChainInv'
<1>1. worker \in Workers /\ booked \in Nat /\ watermark \in Nat
  BY DEF DeskInv, DeskTypes
<1>2. worker'.state # "delivered"
  BY <1>1, HandOverEnds
     DEF Step, SettleFills, SettleUnlogged, SettleOperations, SettleFailed, StepIdle
<1>3. UNCHANGED <<log, wire, appending, booked>>
  BY DEF Step, SettleFills, SettleUnlogged, SettleOperations, SettleFailed, StepIdle,
         broker, eventLog
<1>4. CASE SettleFills
  <2>1. out # None /\ worker.state = "delivered" /\ out[1] = "fills" /\ watermark' = out[3]
    BY <1>4 DEF SettleFills, DeskInv, OutInv
  <2>2. out[3] \in Nat /\ out[2] \in Nat /\ out[2] < out[3]
    BY <2>1, OutContinues
  <2>3. 0..(out[3] - 1) \subseteq Positions("fills")
    BY <2>1 DEF ChainInv, DeliveredIsThere
  <2>4. PICK n \in Nat : n =< booked /\ Positions("fills") = 0..(n - 1)
    BY DEF ChainInv, FillsAreAChain
  <2>5. out[3] =< n
    <3>1. out[3] - 1 \in 0..(n - 1)
      <4>1. out[3] - 1 \in 0..(out[3] - 1)
        BY <2>2
      <4> QED BY <2>3, <2>4, <4>1
    <3> QED BY <2>2, <3>1
  <2>6. Positions("fills")' = Positions("fills")
    BY <1>3 DEF Positions
  <2>7. FillsAreAChain'
    BY <1>3, <2>1, <2>4, <2>5, <2>6 DEF FillsAreAChain
  <2>8. SentContinues' /\ (appending \subseteq wire)'
    BY <1>3, <2>6 DEF ChainInv, SentContinues
  <2>9. DeliveredIsThere'
    BY <1>2 DEF DeliveredIsThere
  <2> QED BY <2>7, <2>8, <2>9 DEF ChainInv
<1>5. CASE ~SettleFills
  <2>1. UNCHANGED watermark
    BY <1>5 DEF Step, SettleUnlogged, SettleOperations, SettleFailed, StepIdle, eventLog
  <2> QED BY <1>2, <1>3, <2>1, ChainStays DEF ChainInv
<1> QED BY <1>4, <1>5

LEMMA ChainSends ==
  ASSUME DeskInv, ChainInv, Send
  PROVE  ChainInv'
<1>1. /\ worker.state = "given" /\ worker.epoch # 0 /\ worker' = Ended("sent")
      /\ wire' = wire \union {Stamped}
      /\ UNCHANGED <<log, appending, booked, watermark>>
  BY DEF Send, eventLog, broker
<1>2. worker \in Workers /\ out # None
  BY <1>1 DEF DeskInv, DeskTypes, OutInv
<1>3. worker'.state = "sent"
  BY <1>1, <1>2, EndedType
<1>4. Positions("fills")' = Positions("fills")
  BY <1>1 DEF Positions
<1>5. FillsAreAChain' /\ (appending \subseteq wire)'
  BY <1>1, <1>4 DEF ChainInv, FillsAreAChain
<1>6. Stamped.payload = out
  BY DEF Stamped
<1>7. out[1] = "fills" => 0..(out[2] - 1) \subseteq Positions("fills") /\ out[3] =< booked
  BY <1>2, OutContinues
<1>8. SentContinues'
  BY <1>1, <1>4, <1>6, <1>7 DEF ChainInv, SentContinues
<1>9. DeliveredIsThere'
  BY <1>3 DEF DeliveredIsThere
<1> QED BY <1>5, <1>8, <1>9 DEF ChainInv

\* The worker after an answer is delivered only if the answer was for it.
LEMMA DeliveredBy ==
  ASSUME worker \in Workers, NEW batch \in Batches,
         Told(batch) \/ worker' = Answered(batch, "delivered"),
         worker'.state = "delivered"
  PROVE  worker.state = "delivered" \/ batch.payload = out
<1>1. worker' = worker \/ Awaits(batch)
  BY DEF Told, Answered
<1> QED BY <1>1 DEF Awaits, Stamped

LEMMA ChainAppends ==
  ASSUME DeskInv, ChainInv, NEW batch \in appending, AppendBatch(batch)
  PROVE  ChainInv'
<1>1. /\ batch \in wire /\ batch \in Batches /\ log \in Seq(Batches) /\ worker \in Workers
      /\ log' = Append(log, batch) /\ appending' = appending \ {batch}
      /\ UNCHANGED <<booked, watermark, wire, out>>
      /\ booked \in Nat /\ watermark \in Nat
  BY DEF AppendBatch, eventLog, shipper, ChainInv, DeskInv, DeskTypes, BrokerTypes
<1> DEFINE from == batch.payload[2]
           to == batch.payload[3]
           before == Positions("fills")
           after == Positions("fills")'
<1>2. from \in Nat /\ to \in Nat
  BY <1>1, SentTypes
<1>3. \A k : k \in after <=> k \in before \/ (batch.payload[1] = "fills" /\ k \in from..(to - 1))
  BY <1>1, LoggedAfter
<1>4. batch.payload[1] = "fills" => 0..(from - 1) \subseteq before /\ to =< booked
  BY <1>1 DEF ChainInv, SentContinues
<1>5. PICK n \in Nat : watermark =< n /\ n =< booked /\ before = 0..(n - 1)
  BY DEF ChainInv, FillsAreAChain
<1> HIDE DEF from, to, before, after
<1>6. before \subseteq after
  BY <1>3
<1>7. \E m \in Nat : watermark =< m /\ m =< booked /\ after = 0..(m - 1)
  <2>1. CASE batch.payload[1] = "fills" /\ n < to
    <3>1. from =< n
      <4>1. CASE from = 0
        BY <4>1
      <4>2. CASE from # 0
        <5>1. from - 1 \in 0..(n - 1)
          BY <1>2, <1>4, <1>5, <2>1, <4>2
        <5> QED BY <1>2, <5>1
      <4> QED BY <4>1, <4>2
    <3>2. (0..(n - 1)) \cup (from..(to - 1)) = 0..(to - 1)
      BY <1>2, <2>1, <3>1
    <3>3. after = 0..(to - 1)
      BY <1>3, <1>5, <2>1, <3>2
    <3>4. watermark =< to /\ to =< booked
      BY <1>1, <1>2, <1>4, <1>5, <2>1
    <3> QED BY <1>2, <3>3, <3>4
  <2>2. CASE batch.payload[1] = "fills" /\ ~(n < to)
    <3>1. from..(to - 1) \subseteq 0..(n - 1)
      BY <1>2, <2>2
    <3>2. after = 0..(n - 1)
      BY <1>3, <1>5, <2>2, <3>1
    <3> QED BY <1>5, <3>2
  <2>3. CASE batch.payload[1] # "fills"
    <3>1. after = 0..(n - 1)
      BY <1>3, <1>5, <2>3
    <3> QED BY <1>5, <3>1
  <2> QED BY <2>1, <2>2, <2>3
<1>8. FillsAreAChain'
  BY <1>1, <1>7 DEF FillsAreAChain, after
<1>9. SentContinues' /\ (appending \subseteq wire)'
  BY <1>1, <1>6 DEF ChainInv, SentContinues, before, after
<1>10. DeliveredIsThere'
  <2> SUFFICES ASSUME worker'.state = "delivered", out[1] = "fills"
               PROVE  0..(out[3] - 1) \subseteq after
    BY <1>1 DEF DeliveredIsThere, after
  <2>1. worker.state = "delivered" \/ batch.payload = out
    BY <1>1, DeliveredBy DEF AppendBatch
  <2>2. CASE worker.state = "delivered"
    BY <1>6, <2>2 DEF ChainInv, DeliveredIsThere, before
  <2>3. CASE batch.payload = out
    <3>1. 0..(from - 1) \subseteq after /\ from..(to - 1) \subseteq after
      BY <1>3, <1>4, <1>6, <2>3
    <3>2. 0..(to - 1) \subseteq (0..(from - 1)) \cup (from..(to - 1))
      BY <1>2
    <3> QED BY <2>3, <3>1, <3>2 DEF to
  <2> QED BY <2>1, <2>2, <2>3
<1> QED BY <1>8, <1>9, <1>10 DEF ChainInv

LEMMA ChainOffers ==
  ASSUME DeskInv, SlotInv, ChainInv, NEW batch \in wire, Offer(batch)
  PROVE  ChainInv'
<1>1. batch \in Batches /\ worker \in Workers
  BY DEF DeskInv, DeskTypes, BrokerTypes
<1>2. UNCHANGED <<log, wire, booked, watermark, out>> /\ appending' \subseteq wire
  BY DEF Offer, Admit, AnswerDuplicate, Refuse, eventLog, desk, shipper, broker, ChainInv
<1>3. CASE Admit(batch)
  BY <1>2, <1>3, ChainStays DEF Admit, desk
<1>4. CASE Refuse(batch)
  <2>1. worker'.state = "delivered" => worker.state = "delivered"
    BY <1>1, <1>4 DEF Refuse, Failed, Ended, RefusedAt, Workers
  <2> QED BY <1>2, <2>1, ChainStays
<1>5. CASE AnswerDuplicate(batch)
  <2>1. CASE worker'.state = "delivered" => worker.state = "delivered"
    BY <1>2, <2>1, ChainStays
  <2>2. CASE worker'.state = "delivered" /\ worker.state # "delivered"
    <3>1. batch.payload = out
      BY <1>1, <1>5, <2>2, DeliveredBy DEF AnswerDuplicate
    <3>2. Positions("fills")' = Positions("fills")
      BY <1>2 DEF Positions
    <3>3. FillsAreAChain' /\ SentContinues' /\ (appending \subseteq wire)'
      BY <1>2, <3>2 DEF ChainInv, FillsAreAChain, SentContinues
    <3>4. out[1] = "fills" => 0..(out[3] - 1) \subseteq Positions("fills")
      <4> SUFFICES ASSUME out[1] = "fills" PROVE 0..(out[3] - 1) \subseteq Positions("fills")
        OBVIOUS
      <4>1. out[2]..(out[3] - 1) \subseteq Positions("fills")
        BY <1>1, <1>5, <3>1, DuplicateArrived DEF AnswerDuplicate
      <4>2. 0..(out[2] - 1) \subseteq Positions("fills")
        BY <3>1 DEF ChainInv, SentContinues
      <4>3. out[2] \in Nat /\ out[3] \in Nat
        BY <1>1, <3>1, SentTypes
      <4>4. 0..(out[3] - 1) \subseteq (0..(out[2] - 1)) \cup (out[2]..(out[3] - 1))
        BY <4>3
      <4> QED BY <4>1, <4>2, <4>4
    <3>5. DeliveredIsThere'
      BY <1>2, <3>2, <3>4 DEF DeliveredIsThere
    <3> QED BY <3>3, <3>5 DEF ChainInv
  <2> QED BY <2>1, <2>2
<1> QED BY <1>3, <1>4, <1>5 DEF Offer

LEMMA ChainInvStep ==
  ASSUME DeskInv, SlotInv, ChainInv, [Next]_vars
  PROVE  ChainInv'
<1>1. worker \in Workers /\ appending \subseteq wire
  BY DEF DeskInv, DeskTypes, ChainInv
<1>2. CASE Step
  BY <1>2, ChainSettles
<1>3. CASE Send
  BY <1>3, ChainSends
<1>4. ASSUME NEW batch \in wire, Offer(batch)
      PROVE  ChainInv'
  BY <1>4, ChainOffers
<1>5. ASSUME NEW batch \in appending, AppendBatch(batch)
      PROVE  ChainInv'
  BY <1>5, ChainAppends
<1>6. CASE Sign \/ Book \/ RecordOperation
  <2>1. /\ UNCHANGED <<log, wire, watermark, appending, worker, out>>
        /\ booked' = booked \/ booked' = booked + 1
    BY <1>6 DEF Sign, Book, RecordOperation, eventLog, desk, shipper, broker
  <2> QED BY <1>1, <2>1, ChainStays
<1>7. CASE InitProducer \/ GiveUp \/ RetriesExhausted \/ RivalInit \/ Crash
  <2>1. UNCHANGED <<log, wire, watermark, appending, booked>>
    BY <1>7 DEF InitProducer, GiveUp, RetriesExhausted, RivalInit, Crash, eventLog, broker
  <2>2. worker'.state = "delivered" => worker.state = "delivered" /\ out' = out
    <3>1. Ended("deferred").state = "deferred" /\ Idle.state = "idle"
      BY <1>1, EndedType DEF Idle
    <3>2. CASE InitProducer
      <4>1. worker.state = "given"
            /\ \/ worker' = [worker EXCEPT !.epoch = known'.epoch, !.next = known'.next]
               \/ worker' = Ended("deferred")
        BY <3>2 DEF InitProducer
      <4>2. worker'.state # "delivered"
        BY <1>1, <3>1, <4>1 DEF Workers
      <4> QED BY <4>2
    <3>3. CASE GiveUp \/ RetriesExhausted \/ Crash
      <4>1. worker' = Ended("deferred") \/ worker' = Idle
        BY <3>3 DEF GiveUp, RetriesExhausted, Crash
      <4> QED BY <3>1, <4>1
    <3>4. CASE RivalInit
      BY <3>4 DEF RivalInit, desk, shipper
    <3> QED BY <1>7, <3>2, <3>3, <3>4
  <2> QED BY <1>1, <2>1, <2>2, ChainStays
<1>8. ASSUME NEW batch \in appending, LoseAppend(batch)
      PROVE  ChainInv'
  <2>1. UNCHANGED <<log, wire, watermark, booked, worker, out>> /\ appending' \subseteq wire
    BY <1>1, <1>8 DEF LoseAppend, eventLog, desk, shipper
  <2> QED BY <2>1, ChainStays
<1>9. CASE RestartBroker \/ Resume \/ UNCHANGED vars
  <2>1. UNCHANGED <<log, wire, watermark, booked, worker, out>> /\ appending' \subseteq wire
    BY <1>1, <1>9 DEF RestartBroker, Resume, vars, eventLog, desk, shipper, broker
  <2> QED BY <2>1, ChainStays
<1> QED BY <1>2, <1>3, <1>4, <1>5, <1>6, <1>7, <1>8, <1>9 DEF Next

LEMMA PromiseInvInit == Init => SlotInv /\ AppendsInOrder /\ ChainInv
<1> SUFFICES ASSUME Init PROVE SlotInv /\ AppendsInOrder /\ ChainInv
  OBVIOUS
<1>1. /\ known = Unheard /\ replay = Unheard /\ log = <<>> /\ appending = {} /\ wire = {}
      /\ booked = 0 /\ watermark = 0 /\ worker.state = "idle"
  BY DEF Init, Idle
<1>2. Windowed(known) = {} /\ Windowed(replay) = {} /\ Logged = {}
  BY <1>1 DEF Unheard, Windowed, Logged
<1>3. Positions("fills") = {}
  BY <1>1 DEF Positions
<1>4. SlotInv /\ AppendsInOrder
  BY <1>1, <1>2 DEF SlotInv, OneBatchPerSlot, LogIsReplayed, AppendsInOrder, ReadsBackInOrder
<1>5. Positions("fills") = 0..(0 - 1)
  BY <1>3
<1>6. FillsAreAChain
  <2> DEFINE z == 0
  <2>1. z \in Nat /\ watermark =< z /\ z =< booked /\ Positions("fills") = 0..(z - 1)
    BY <1>1, <1>5
  <2> HIDE DEF z
  <2> QED BY <2>1 DEF FillsAreAChain
<1>7. SentContinues /\ DeliveredIsThere /\ appending \subseteq wire
  BY <1>1 DEF SentContinues, DeliveredIsThere
<1>8. ChainInv
  BY <1>6, <1>7 DEF ChainInv
<1> QED BY <1>4, <1>8
--------------------------------------------------------------------------------
(* The steps of the promise.                                               *)

LEMMA PromiseStep ==
  ASSUME DeskInv, ChainInv, ChainInv', [Next]_vars
  PROVE  [Promise!Next]_(Promise!vars)
<1> DEFINE same == Positions("fills")' = Positions("fills")
<1>1. UNCHANGED log => same
  BY DEF Positions
<1>2. UNCHANGED <<log, booked, watermark>> => [Promise!Next]_(Promise!vars)
  BY <1>1 DEF Promise!vars
<1>3. CASE Book
  <2>1. booked' = booked + 1 /\ UNCHANGED <<log, watermark>>
    BY <1>3 DEF Book, broker
  <2>2. Promise!Book
    BY <1>1, <2>1 DEF Promise!Book
  <2> QED BY <2>2 DEF Promise!Next
<1>4. CASE SettleFills
  <2>1. /\ out # None /\ worker.state = "delivered" /\ out[1] = "fills" /\ watermark' = out[3]
        /\ UNCHANGED <<log, booked>>
    BY <1>4 DEF SettleFills, DeskInv, OutInv, broker
  <2>2. watermark \in Nat /\ out[3] \in Nat /\ watermark < out[3]
    BY <2>1, OutContinues DEF DeskInv, DeskTypes
  <2>3. 0..(watermark' - 1) \subseteq Positions("fills")
    BY <2>1 DEF ChainInv, DeliveredIsThere
  <2>4. Promise!Acknowledge
    BY <1>1, <2>1, <2>2, <2>3 DEF Promise!Acknowledge
  <2> QED BY <2>4 DEF Promise!Next
<1>5. ASSUME NEW batch \in appending, AppendBatch(batch)
      PROVE  [Promise!Next]_(Promise!vars)
  <2>1. UNCHANGED <<booked, watermark>> /\ log' = Append(log, batch) /\ log \in Seq(Batches)
        /\ batch \in Batches /\ booked \in Nat
    BY <1>5 DEF AppendBatch, eventLog, DeskInv, DeskTypes, BrokerTypes
  <2>2. Positions("fills") \subseteq Positions("fills")'
    BY <2>1, LoggedAfter
  <2>3. PICK n \in Nat : n =< booked' /\ Positions("fills")' = 0..(n - 1)
    BY DEF ChainInv, FillsAreAChain
  <2>4. n \in 0..booked
    BY <2>1, <2>3
  <2>5. Promise!Arrive
    BY <2>1, <2>2, <2>3, <2>4 DEF Promise!Arrive
  <2> QED BY <2>5 DEF Promise!Next
<1>6. CASE Sign \/ RecordOperation \/ InitProducer \/ Send \/ GiveUp \/ RetriesExhausted
           \/ RivalInit \/ RestartBroker \/ Crash \/ Resume \/ UNCHANGED vars
  BY <1>2, <1>6 DEF Sign, RecordOperation, InitProducer, Send, GiveUp, RetriesExhausted,
     RivalInit, RestartBroker, Crash, Resume, vars, eventLog, broker
<1>7. CASE SettleUnlogged \/ SettleOperations \/ SettleFailed \/ StepIdle
  BY <1>2, <1>7 DEF SettleUnlogged, SettleOperations, SettleFailed, StepIdle, eventLog, broker
<1>8. ASSUME NEW batch \in wire, Offer(batch)
      PROVE  [Promise!Next]_(Promise!vars)
  BY <1>2, <1>8 DEF Offer, Admit, AnswerDuplicate, Refuse, eventLog, broker
<1>9. ASSUME NEW batch \in appending, LoseAppend(batch)
      PROVE  [Promise!Next]_(Promise!vars)
  BY <1>2, <1>9 DEF LoseAppend, eventLog
<1> QED BY <1>3, <1>4, <1>5, <1>6, <1>7, <1>8, <1>9 DEF Next, Step

\* A slot of the producer's sequence is given to one batch, and the partition
\* holds no other under it (admit of producer.rs under the lock of broker.rs), for
\* any retries, rivals, failed appends, overtaking appends and crashes, as long as
\* each restart of the broker finds its partition in order.
THEOREM SlotsAreGivenOnce == Spec /\ [][RestartsInOrder]_vars => []SlotInv
<1>1. DeskInv /\ SlotInv /\ [Next]_vars /\ [RestartsInOrder]_vars => SlotInv'
  BY SlotInvStep
<1> QED BY <1>1, PromiseInvInit, DeskAlways, PTL DEF Spec

\* The fills reach the ledger's partition as one chain that the watermark never
\* runs ahead of (produce_from and recover_producers of broker.rs, settle of
\* qip-desk-ship), for any retries, resends, rivals, failed and overtaking appends,
\* crashes of the desk and restarts of the broker, as long as each restart reads
\* back a partition whose last batch is the one that was admitted last of those on
\* it.  When it does not, a slot is given out twice and a duplicate vouched for that
\* was never appended: the promise is then broken.
THEOREM PromiseNeedsOrderAtRestart == Spec /\ [][RestartsInOrder]_vars => KeepsThePromise
<1>1. Init => Promise!Init
  BY DEF Init, Promise!Init, Positions
<1>2. DeskInv /\ SlotInv /\ ChainInv /\ [Next]_vars => ChainInv'
  BY ChainInvStep
<1>3. DeskInv /\ ChainInv /\ ChainInv' /\ [Next]_vars => [Promise!Next]_(Promise!vars)
  BY PromiseStep
<1> QED BY <1>1, <1>2, <1>3, PromiseInvInit, DeskAlways, SlotsAreGivenOnce, PTL
        DEF Spec, KeepsThePromise, Promise!Spec

\* So the promise is kept wherever appends do not overtake each other, or the
\* broker does not restart: either alone takes no slot back.
THEOREM DeskKeepsThePromise ==
  ASSUME NoSlotComesBack
  PROVE  Spec => KeepsThePromise
<1>1. AppendsInOrder => [RestartsInOrder]_vars
  BY RestartsAreInOrder DEF RestartsInOrder
<1>2. DeskInv /\ SlotInv /\ [Next]_vars /\ [RestartsInOrder]_vars => SlotInv'
  BY SlotInvStep
<1>3. DeskInv /\ SlotInv /\ AppendsInOrder /\ [Next]_vars => AppendsInOrder'
  BY OrderStep
<1>4. Spec => [][RestartsInOrder]_vars
  BY <1>1, <1>2, <1>3, PromiseInvInit, DeskAlways, PTL DEF Spec
<1> QED BY <1>4, PromiseNeedsOrderAtRestart, PTL
================================================================================
