----------------------------- MODULE DeskLedgerFeed -----------------------------
(***************************************************************************)
(* The desk's ledger feed (qip-kernel, desk_ledger.rs): the chain of        *)
(* positions its booked fills take, the bounded queue of those the fabric   *)
(* does not have yet, and the gap the chain leaves when the queue is full.  *)
(*                                                                         *)
(* A record is its chain position, counted from 0; what it says is fixed by *)
(* the fill the event log holds at that position.  The queue is the set of  *)
(* positions in it, which the code keeps in chain order.  acknowledged is   *)
(* the first position not acknowledged, one past the code's                 *)
(* acknowledged_through and 0 for its None.                                 *)
(***************************************************************************)
EXTENDS Integers, FiniteSets

CONSTANTS
  OutboxCapacity,   \* records the queue holds; 10 000 in the code
  FeedCapacity      \* fills one process remembers; 100 000 in the code

ASSUME OutboxCapacityAssumption == OutboxCapacity \in Nat \ {0}
ASSUME FeedCapacityAssumption == FeedCapacity \in Nat \ {0}

HasRoom(feed) == Cardinality(feed.queue) < OutboxCapacity
IsFull(feed)  == feed.seen >= FeedCapacity \/ ~HasRoom(feed)

\* Mutant: one more than the bound.
FeedAdmittedPastTheBound(feed) ==
  IF Cardinality(feed.queue) > OutboxCapacity
  THEN [feed EXCEPT !.next = @ + 1, !.gap = TRUE]
  ELSE [feed EXCEPT !.next = @ + 1, !.seen = @ + 1, !.queue = @ \union {feed.next}]

\* A new fill: the chain advances whether or not its record finds room.
FeedAdmitted(feed) ==
  IF IsFull(feed)
  THEN [feed EXCEPT !.next = @ + 1, !.gap = TRUE,
                    !.seen = IF @ < FeedCapacity THEN @ + 1 ELSE @]
  ELSE [feed EXCEPT !.next = @ + 1, !.seen = @ + 1, !.queue = @ \union {feed.next}]

\* Acknowledging through position `to' - 1 is a no-op repeat, or moves within
\* what is queued; anything else is refused.
Acknowledgeable(feed, to) ==
  \/ to = feed.acknowledged
  \/ /\ to > feed.acknowledged
     /\ \E newest \in feed.queue : to =< newest + 1

\* The positions a full queue made the chain pass over.
Missing(feed) == (feed.acknowledged..(feed.next - 1)) \ feed.queue

\* Mutant: the gap is left to the next restart.
FeedHealedNever(feed) == feed

\* The missing positions, re-derived from the event log, fill the room there is
\* from the oldest on.
FeedHealed(feed) ==
  IF ~feed.gap \/ ~HasRoom(feed) THEN feed
  ELSE LET room == OutboxCapacity - Cardinality(feed.queue)
           taken == {n \in Missing(feed) :
                       Cardinality({m \in Missing(feed) : m < n}) < room}
       IN [feed EXCEPT !.queue = @ \union taken, !.gap = taken # Missing(feed)]

\* The fabric holds everything before `to': dropped from the queue, and the
\* room it leaves is healed into at once.
FeedAcknowledged(feed, to) ==
  FeedHealed([feed EXCEPT !.queue = {n \in @ : n >= to}, !.acknowledged = to])

\* Mutant: the first record after the watermark is taken for delivered.
FeedResumedPastOne(booked, watermark) ==
  [next |-> booked, seen |-> 0, acknowledged |-> watermark,
   queue |-> {n \in 0..(booked - 1) : watermark < n /\ n =< watermark + OutboxCapacity},
   gap |-> booked > watermark + 1 + OutboxCapacity]

\* A restart: what the log's watermark covers is folded, the rest is queued
\* while there is room, and no id is remembered.
FeedResumed(booked, watermark) ==
  [next |-> booked, seen |-> 0, acknowledged |-> watermark,
   queue |-> {n \in 0..(booked - 1) : watermark =< n /\ n < watermark + OutboxCapacity},
   gap |-> booked > watermark + OutboxCapacity]
================================================================================
