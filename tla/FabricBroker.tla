------------------------------ MODULE FabricBroker ------------------------------
(***************************************************************************)
(* A managed partition of the event fabric: brokers that share one lease   *)
(* and one log in a database, and producers that retry (qip-streaming,     *)
(* event_fabric/broker.rs and managed.rs; qip-fabricd, spanner.rs and the  *)
(* lease thread of lib.rs).                                                *)
(*                                                                         *)
(* A broker works in sections the code delimits by its locks: a produce    *)
(* holds the partition's cursor lock from its admission to its answer      *)
(* (call # NoCall), the lease thread takes that lock to store a lease or   *)
(* to catch up, and an init takes the producer table's lock alone.  A      *)
(* statement of the database is one step; its answer may be lost, and a    *)
(* commit whose answer is lost may still land later (late).                *)
(***************************************************************************)
EXTENDS FabricProducers

CONSTANTS
  Brokers,       \* instances of fabricd
  Clients,       \* incarnations of producers
  Pids,          \* producer ids
  Owner,         \* the id each incarnation speaks for
  NoOne,         \* the lease row before any acquire
  MaxBatches,    \* batches an incarnation sends
  MaxRows,       \* rows of the managed log
  MaxTerms,      \* lease epochs
  MaxFaults,     \* faults spent, all kinds together
  FaultKinds     \* of answer (one is lost), append (one fails), lapse (under a
                 \* live holder), crash and drain

ASSUME OwnerAssumption == Owner \in [Clients -> Pids]
ASSUME NoOneAssumption == NoOne \notin Brokers \X Nat

VARIABLES
  rows,       \* database: the managed log
  leaseRow,   \* database: the lease, and whether it still runs
  late,       \* commits whose broker stopped waiting, not yet decided
  up,         \* the process runs
  incarnation,\* its persisted leader epoch, part of its lease-holder name
  lease,      \* the lease epoch it believes it holds, 0 for none
  caughtUp,   \* the lease epoch its log was last brought level under, 0 for none
  log,        \* its own disk
  replay,     \* the producer table that reading that disk back yields
  table,      \* the producer table in its memory
  call,       \* the produce it has in progress
  pass,       \* what its lease thread has in hand
  draining,   \* it was told to drain
  client,     \* each incarnation's own epoch, next sequence and batch count
  wire,       \* batches sent; the network may deliver each any number of times
  acked,      \* acknowledgements given: batch and offset
  issued,     \* the highest epoch an init has given out for an id
  faults      \* faults spent

database == <<rows, leaseRow, late>>
disk     == <<log, replay>>
memory   == <<lease, caughtUp, table, call>>
process  == <<up, incarnation, pass, draining>>
producer == <<client, wire, issued>>
vars == <<database, disk, memory, process, producer, acked, faults>>

Holder(b) == <<b, incarnation[b]>>

NoCall == [state |-> "none"]
AtRest == [doing |-> "nothing", epoch |-> 0]

FreshTable == [p \in Pids |-> Unheard]

Init ==
  /\ rows = <<>> /\ leaseRow = [holder |-> NoOne, epoch |-> 0, live |-> FALSE] /\ late = {}
  /\ up = [b \in Brokers |-> TRUE] /\ incarnation = [b \in Brokers |-> 1]
  /\ lease = [b \in Brokers |-> 0] /\ caughtUp = [b \in Brokers |-> 0]
  /\ log = [b \in Brokers |-> <<>>]
  /\ replay = [b \in Brokers |-> FreshTable] /\ table = [b \in Brokers |-> FreshTable]
  /\ call = [b \in Brokers |-> NoCall] /\ pass = [b \in Brokers |-> AtRest]
  /\ draining = [b \in Brokers |-> FALSE]
  /\ client = [c \in Clients |-> [state |-> "new", epoch |-> 0, next |-> 0, sent |-> 0]]
  /\ wire = {} /\ acked = {} /\ issued = [p \in Pids |-> 0] /\ faults = 0

Fault(kind) == kind \in FaultKinds /\ faults < MaxFaults /\ faults' = faults + 1

--------------------------------------------------------------------------------
(* The database: one statement, one step.                                  *)

\* Mutant: a lapsed lease is taken over at its epoch.
LeaseAfterUnbumped(holder) ==
  IF leaseRow.holder = NoOne \/ leaseRow.holder = holder \/ ~leaseRow.live
  THEN [holder |-> holder, live |-> TRUE,
        epoch |-> IF leaseRow.holder = NoOne THEN 1 ELSE leaseRow.epoch]
  ELSE leaseRow

\* acquire_after_expiry: a vacant row is taken, the holder's own is renewed at
\* its epoch, another's only once it has lapsed, at the next epoch.
LeaseAfter(holder) ==
  IF leaseRow.holder = NoOne \/ leaseRow.holder = holder \/ ~leaseRow.live
  THEN [holder |-> holder, live |-> TRUE,
        epoch |-> IF leaseRow.holder = holder THEN leaseRow.epoch ELSE leaseRow.epoch + 1]
  ELSE leaseRow

\* Mutant: the lease alone decides.
VerdictByLease(request) ==
  IF leaseRow.holder = request.holder /\ leaseRow.epoch = request.epoch
  THEN "committed" ELSE "fenced"

\* commit: the lease decides first, then the offset.
Verdict(request) ==
  CASE \/ leaseRow.holder # request.holder
       \/ leaseRow.epoch # request.epoch        -> "fenced"
    [] /\ leaseRow.holder = request.holder
       /\ leaseRow.epoch = request.epoch
       /\ request.offset # Len(rows)            -> "conflict"
    [] OTHER                                    -> "committed"

RowsAfter(request) ==
  IF Verdict(request) = "committed" THEN Append(rows, request) ELSE rows

\* The bound on the log stops what would pass it and nothing else.
RoomFor(request) == Verdict(request) = "committed" => Len(rows) < MaxRows

\* The time to live runs out.  Under a live holder it is a fault (the lease
\* thread renews three times in every TTL); under any other it is due.
Lapse ==
  /\ leaseRow.live
  /\ leaseRow' = [leaseRow EXCEPT !.live = FALSE]
  /\ IF \E b \in Brokers : up[b] /\ ~draining[b] /\ Holder(b) = leaseRow.holder
     THEN Fault("lapse") ELSE UNCHANGED faults
  /\ UNCHANGED <<rows, late, disk, memory, process, producer, acked>>

\* A commit nobody waits for is decided after all.
LandLate(request) ==
  /\ request \in late /\ RoomFor(request)
  /\ rows' = RowsAfter(request)
  /\ late' = late \ {request}
  /\ UNCHANGED <<leaseRow, disk, memory, process, producer, acked, faults>>

--------------------------------------------------------------------------------
(* The lease thread: tend_leases, or relinquish and follow while draining. *)

\* The database grants or refuses; the broker hears of it in SettleLease, or
\* never if the answer is lost, and then keeps what it believed.
AcquireLease(b) ==
  /\ up[b] /\ ~draining[b] /\ pass[b] = AtRest
  /\ LET after == LeaseAfter(Holder(b)) IN
     /\ after.epoch =< MaxTerms
     /\ leaseRow' = after
     /\ \/ /\ pass' = [pass EXCEPT ![b] =
                [doing |-> IF after.holder = Holder(b) THEN "held" ELSE "other",
                 epoch |-> after.epoch]]
           /\ UNCHANGED faults
        \/ Fault("answer") /\ UNCHANGED pass
  /\ UNCHANGED <<rows, late, disk, memory, up, incarnation, draining, producer, acked>>

\* Under the cursor lock: the answer becomes what the produce path acts on.
SettleLease(b) ==
  /\ up[b] /\ call[b] = NoCall
  /\ pass[b].doing \in {"held", "other"}
  /\ IF pass[b].doing = "held"
     THEN /\ lease' = [lease EXCEPT ![b] = pass[b].epoch]
          /\ UNCHANGED caughtUp
     ELSE /\ lease' = [lease EXCEPT ![b] = 0]
          /\ caughtUp' = [caughtUp EXCEPT ![b] = 0]
  /\ pass' = [pass EXCEPT ![b] = AtRest]
  /\ UNCHANGED <<database, disk, table, call, up, incarnation, draining, producer, acked, faults>>

\* Told to drain, by the DRAIN file or the running handle, one broker at a time.
Drain(b) ==
  /\ up[b] /\ (\A d \in Brokers : ~draining[d]) /\ Fault("drain")
  /\ draining' = [draining EXCEPT ![b] = TRUE]
  /\ UNCHANGED <<database, disk, memory, up, incarnation, pass, producer, acked>>

\* relinquish_leases forgets the lease before it asks the database, and
\* without the cursor lock: a produce in progress keeps the lease it read.
Relinquish(b) ==
  /\ up[b] /\ draining[b] /\ pass[b] = AtRest /\ lease[b] # 0
  /\ lease' = [lease EXCEPT ![b] = 0]
  /\ pass' = [pass EXCEPT ![b] = [doing |-> "releasing", epoch |-> lease[b]]]
  /\ UNCHANGED <<database, disk, caughtUp, table, call, up, incarnation, draining, producer,
                 acked, faults>>

\* release lapses the row for its holder at its epoch and for no one else.
ReleaseLease(b) ==
  /\ up[b] /\ pass[b].doing = "releasing"
  /\ leaseRow' = [leaseRow EXCEPT !.live =
                    @ /\ ~(leaseRow.holder = Holder(b) /\ leaseRow.epoch = pass[b].epoch)]
  /\ pass' = [pass EXCEPT ![b] = AtRest]
  /\ UNCHANGED <<rows, late, disk, memory, up, incarnation, draining, producer, acked, faults>>

--------------------------------------------------------------------------------
(* Catching up: catch_up, called under the cursor lock by a lease pass, by *)
(* a follower's pass and by a produce whose log is not level.  It appends  *)
(* row after row and may end after any of them, when a read fails; so one  *)
(* row is one step, and CaughtUp is the pass that found nothing left.      *)

Lagging(b) == lease[b] = 0 \/ caughtUp[b] # lease[b]

CatchUpRow(b) ==
  /\ up[b] /\ call[b] = NoCall /\ Lagging(b)
  /\ Len(log[b]) < Len(rows)
  /\ LET batch == rows[Len(log[b]) + 1].batch IN
     /\ log' = [log EXCEPT ![b] = Append(@, batch)]
     /\ replay' = [replay EXCEPT ![b][batch.pid] = Restored(@, batch)]
     /\ table' = [table EXCEPT ![b][batch.pid] = Restored(@, batch)]
  /\ caughtUp' = [caughtUp EXCEPT ![b] = IF lease[b] = 0 THEN 0 ELSE @]
  /\ UNCHANGED <<database, lease, call, process, producer, acked, faults>>

\* A log ahead of the database is refused: it can only be the wrong disk.
CaughtUp(b) ==
  /\ up[b] /\ call[b] = NoCall /\ Lagging(b)
  /\ Len(log[b]) = Len(rows)
  /\ caughtUp[b] # lease[b]
  /\ caughtUp' = [caughtUp EXCEPT ![b] = lease[b]]
  /\ UNCHANGED <<database, disk, lease, table, call, process, producer, acked, faults>>

--------------------------------------------------------------------------------
(* What an incarnation of a producer knows.                                *)

\* The batch it is sending: one record, at its next sequence.
Current(c) ==
  [pid |-> Owner[c], epoch |-> client[c].epoch, base |-> client[c].next, count |-> 1,
   payload |-> <<c, client[c].sent>>]

Awaits(c, batch) == client[c].state = "open" /\ Current(c) = batch

\* An answer reaches whoever still waits for it, or is lost; after an
\* acknowledgement the producer moves to its next record.
Told(batch, what) ==
  \/ /\ client' = [c \in Clients |-> IF Awaits(c, batch) THEN what[c] ELSE client[c]]
     /\ UNCHANGED faults
  \/ Fault("answer") /\ UNCHANGED client

Moved == [c \in Clients |-> [client[c] EXCEPT !.next = @ + 1, !.sent = @ + 1]]

\* init_producer and next_sequence, answered together.  Only the producer
\* table's lock is taken, so a produce may be in progress.
InitProducer(b, c) ==
  LET p == Owner[c]
      after == Initialised(table[b][p]) IN
  /\ up[b] /\ client[c].state = "new"
  /\ table' = [table EXCEPT ![b][p] = after]
  /\ client' = [client EXCEPT ![c] = [state |-> "open", epoch |-> after.epoch,
                                      next |-> after.next, sent |-> 0]]
  /\ issued' = [issued EXCEPT ![p] = MaxEpoch(@, after.epoch)]
  /\ UNCHANGED <<database, disk, lease, caughtUp, call, process, wire, acked, faults>>

Send(c) ==
  /\ client[c].state = "open" /\ client[c].sent < MaxBatches
  /\ Current(c) \notin wire
  /\ wire' = wire \union {Current(c)}
  /\ UNCHANGED <<database, disk, memory, process, client, issued, acked, faults>>

--------------------------------------------------------------------------------
(* The produce path: produce_managed, for any batch the network delivers.  *)

\* A lease in hand and a level log: admission is what comes next.
Serving(b) == up[b] /\ call[b] = NoCall /\ lease[b] # 0 /\ caughtUp[b] = lease[b]

\* A fresh batch is admitted, and its row is on its way to the database; the
\* producer's state from before the admission is kept to go back to.
StartCommit(b, batch) ==
  LET before == table[b][batch.pid] IN
  /\ Serving(b) /\ Fresh(before, batch)
  /\ table' = [table EXCEPT ![b][batch.pid] = Admitted(before, batch)]
  /\ call' = [call EXCEPT ![b] =
       [state |-> "asking", before |-> before,
        request |-> [holder |-> Holder(b), epoch |-> lease[b], offset |-> Len(log[b]),
                     batch |-> batch]]]
  /\ UNCHANGED <<database, disk, lease, caughtUp, process, producer, acked, faults>>

\* A verified duplicate is acknowledged at the offset its slot was given.
AnswerDuplicate(b, batch) ==
  /\ Serving(b) /\ Duplicate(table[b][batch.pid], batch)
  /\ \E i \in 1..Len(log[b]) :
        /\ log[b][i].pid = batch.pid /\ log[b][i].base = batch.base
        /\ acked' = acked \union {[batch |-> batch, offset |-> i - 1]}
  /\ Told(batch, Moved)
  /\ UNCHANGED <<database, disk, memory, process, wire, issued>>

\* Refused: an older epoch latches, a hole tells the sequence to continue at,
\* a conflict or a forgotten slot leaves the producer where it was.
Refuse(b, batch) ==
  LET known == table[b][batch.pid] IN
  /\ Serving(b)
  /\ \/ /\ Fenced(known, batch)
        /\ Told(batch, [c \in Clients |-> [client[c] EXCEPT !.state = "fenced"]])
     \/ /\ OutOfOrder(known, batch)
        /\ Told(batch, [c \in Clients |-> [client[c] EXCEPT !.next = known.next]])
  /\ UNCHANGED <<database, disk, memory, process, wire, issued, acked>>

\* The database decides the commit of a broker that waits for it.
DecideCommit(b) ==
  /\ call[b].state = "asking" /\ RoomFor(call[b].request)
  /\ rows' = RowsAfter(call[b].request)
  /\ call' = [call EXCEPT ![b].state = Verdict(call[b].request)]
  /\ UNCHANGED <<leaseRow, late, disk, lease, caughtUp, table, process, producer, acked, faults>>

\* Committed: appended to this disk at the offset that was committed, and only
\* then acknowledged.
FinishCommitted(b) ==
  LET batch == call[b].request.batch IN
  /\ call[b].state = "committed"
  /\ log' = [log EXCEPT ![b] = Append(@, batch)]
  /\ replay' = [replay EXCEPT ![b][batch.pid] = Restored(@, batch)]
  /\ call' = [call EXCEPT ![b] = NoCall]
  /\ acked' = acked \union {[batch |-> batch, offset |-> call[b].request.offset]}
  /\ Told(batch, Moved)
  /\ UNCHANGED <<database, lease, caughtUp, table, process, wire, issued>>

\* Committed, and the append to this disk fails: nothing is acknowledged, the
\* table keeps a batch that is real, and the log must catch up.
LoseAppend(b) ==
  /\ call[b].state = "committed" /\ Fault("append")
  /\ caughtUp' = [caughtUp EXCEPT ![b] = 0]
  /\ call' = [call EXCEPT ![b] = NoCall]
  /\ UNCHANGED <<database, disk, lease, table, process, producer, acked>>

\* Mutant: the table keeps the batch.
RewoundNot(b) == UNCHANGED table

\* The table goes back to what it held before the admission.
Rewound(b) ==
  table' = [table EXCEPT ![b][call[b].request.batch.pid] = call[b].before]

\* Fenced or in conflict: the batch exists nowhere.  A fenced broker also
\* stops leading.
FinishRefused(b) ==
  /\ call[b].state \in {"fenced", "conflict"}
  /\ Rewound(b)
  /\ lease' = [lease EXCEPT ![b] = IF call[b].state = "fenced" THEN 0 ELSE @]
  /\ caughtUp' = [caughtUp EXCEPT ![b] = 0]
  /\ call' = [call EXCEPT ![b] = NoCall]
  /\ UNCHANGED <<database, disk, process, producer, acked, faults>>

\* No answer: the commit may have been decided, may be decided later, or never.
LoseAnswer(b) ==
  /\ call[b] # NoCall /\ Fault("answer")
  /\ late' = IF call[b].state = "asking" THEN late \union {call[b].request} ELSE late
  /\ Rewound(b)
  /\ caughtUp' = [caughtUp EXCEPT ![b] = 0]
  /\ call' = [call EXCEPT ![b] = NoCall]
  /\ UNCHANGED <<rows, leaseRow, disk, lease, process, producer, acked>>

--------------------------------------------------------------------------------
(* Crashes.                                                                *)

\* The process dies, with everything in memory; a commit on its way may land.
Crash(b) ==
  /\ up[b] /\ Fault("crash")
  /\ up' = [up EXCEPT ![b] = FALSE]
  /\ late' = IF call[b].state = "asking" THEN late \union {call[b].request} ELSE late
  /\ lease' = [lease EXCEPT ![b] = 0]
  /\ caughtUp' = [caughtUp EXCEPT ![b] = 0]
  /\ table' = [table EXCEPT ![b] = FreshTable]
  /\ call' = [call EXCEPT ![b] = NoCall]
  /\ pass' = [pass EXCEPT ![b] = AtRest]
  /\ draining' = [draining EXCEPT ![b] = FALSE]
  /\ UNCHANGED <<rows, leaseRow, disk, incarnation, producer, acked>>

\* Open: the next leader epoch, so another lease holder's name, and the
\* producer table read back from the log.
Restart(b) ==
  /\ ~up[b]
  /\ up' = [up EXCEPT ![b] = TRUE]
  /\ incarnation' = [incarnation EXCEPT ![b] = @ + 1]
  /\ table' = [table EXCEPT ![b] = replay[b]]
  /\ UNCHANGED <<database, disk, lease, caughtUp, call, pass, draining, producer, acked, faults>>

--------------------------------------------------------------------------------
LeaseThread(b) == \/ AcquireLease(b) \/ SettleLease(b)
                  \/ Relinquish(b) \/ ReleaseLease(b)

CatchUp(b) == CatchUpRow(b) \/ CaughtUp(b)

Committing(b) == \/ DecideCommit(b) \/ FinishCommitted(b) \/ FinishRefused(b)

Offer(b, batch) == \/ StartCommit(b, batch) \/ AnswerDuplicate(b, batch) \/ Refuse(b, batch)

Next ==
  \/ Lapse
  \/ \E request \in late : LandLate(request)
  \/ \E b \in Brokers : \/ LeaseThread(b) \/ CatchUp(b) \/ Committing(b)
                        \/ Drain(b) \/ LoseAppend(b) \/ LoseAnswer(b)
                        \/ Crash(b) \/ Restart(b)
  \/ \E b \in Brokers : \E batch \in wire : Offer(b, batch)
  \/ \E b \in Brokers : \E c \in Clients : InitProducer(b, c)
  \/ \E c \in Clients : Send(c)

Spec == Init /\ [][Next]_vars

(* The lease thread runs every third of a TTL and the database answers; a  *)
(* restart policy brings a dead process back; producers retry what is not  *)
(* acknowledged until a broker that leads takes it up.                     *)
Fairness ==
  /\ WF_vars(Lapse)
  /\ \A b \in Brokers : /\ WF_vars(Restart(b))
                        /\ WF_vars(LeaseThread(b)) /\ WF_vars(CatchUp(b))
                        /\ WF_vars(Committing(b))
  /\ \A c \in Clients :
        SF_vars(Current(c) \in wire /\ \E b \in Brokers : Offer(b, Current(c)))

FairSpec == Spec /\ Fairness

--------------------------------------------------------------------------------
(* Properties.                                                             *)

BatchesSent == Batch(Pids, Clients \X Nat)
Requests == [holder : Brokers \X Nat, epoch : Nat, offset : Nat, batch : BatchesSent]
States == [epoch : Nat, next : Nat, window : Seq(BatchesSent)]
Calls == [state : {"asking", "committed", "fenced", "conflict"}, before : States,
          request : Requests]

\* The kinds of values the state holds; the window stays within its size.
TypeOK ==
  /\ rows \in Seq(Requests) /\ late \subseteq Requests
  /\ leaseRow \in [holder : (Brokers \X Nat) \union {NoOne}, epoch : Nat, live : BOOLEAN]
  /\ up \in [Brokers -> BOOLEAN] /\ draining \in [Brokers -> BOOLEAN]
  /\ incarnation \in [Brokers -> Nat]
  /\ lease \in [Brokers -> Nat] /\ caughtUp \in [Brokers -> Nat]
  /\ log \in [Brokers -> Seq(BatchesSent)]
  /\ replay \in [Brokers -> [Pids -> States]] /\ table \in [Brokers -> [Pids -> States]]
  /\ \A b \in Brokers : \A p \in Pids : Len(table[b][p].window) =< WindowSize
  /\ call \in [Brokers -> Calls \union {NoCall}]
  /\ pass \in [Brokers -> [doing : {"nothing", "held", "other", "releasing"}, epoch : Nat]]
  /\ client \in [Clients -> [state : {"new", "open", "fenced"}, epoch : Nat, next : Nat,
                             sent : Nat]]
  /\ wire \subseteq BatchesSent
  /\ acked \subseteq [batch : BatchesSent, offset : Nat]
  /\ issued \in [Pids -> Nat] /\ faults \in Nat

\* Whatever a broker has on its disk, leading or not, before and after a crash,
\* is the beginning of the managed log: a fetch never shows a batch the
\* database did not commit, nor one in another place (commit-first, the doc of
\* produce_managed).
ReplicaIsPrefix ==
  \A b \in Brokers : /\ Len(log[b]) =< Len(rows)
                     /\ \A i \in 1..Len(log[b]) : log[b][i] = rows[i].batch

\* No two holders commit under one lease epoch, and epochs never go back along
\* the log: a deposed leader's delayed commit lands nowhere behind its
\* successor's first row (what committed_epochs of managed.rs is read for).
OneHolderPerEpoch ==
  \A i, j \in 1..Len(rows) :
     /\ i =< j => rows[i].epoch =< rows[j].epoch
     /\ rows[i].epoch = rows[j].epoch => rows[i].holder = rows[j].holder

\* The brokers together are one log that takes each producer's slots in order
\* and once, whatever answers are lost, and acknowledges what is in it.
Promise == INSTANCE FabricPromise
             WITH log <- [i \in 1..Len(rows) |-> rows[i].batch]
KeepsThePromise == Promise!Spec

\* The doc of init (producer.rs): every older epoch is fenced from the moment a
\* new incarnation is given its epoch, so no broker admits one after it.
FencedFromInit ==
  [][\A b \in Brokers :
       call[b] = NoCall /\ call'[b] # NoCall =>
         LET batch == call'[b].request.batch IN batch.epoch >= issued[batch.pid]]_vars

\* Another incarnation of the same id wrote at the slot or after it.
Overtaken(c) ==
  \E i \in 1..Len(rows) : /\ rows[i].batch.pid = Owner[c]
                          /\ rows[i].batch.payload[1] # c
                          /\ rows[i].batch.base >= client[c].next

\* A producer that keeps trying gets through: what it sent is acknowledged
\* unless another incarnation of its id took over, through lost answers, lapsed
\* leases, drains and crashes.
SentIsAnswered ==
  \A c \in Clients :
    \A k \in 0..(MaxBatches - 1) :
      client[c].state = "open" /\ client[c].sent = k /\ Current(c) \in wire
        ~> client[c].sent > k \/ client[c].state = "fenced" \/ Overtaken(c)
================================================================================
