--------------------------- MODULE FabricPromise_proofs ---------------------------
(***************************************************************************)
(* The managed partition is the one log FabricPromise describes, for any   *)
(* brokers, producers and faults.  The invariant ties every producer table *)
(* to the log it was built from: what a table holds fits the batches of    *)
(* its broker's disk, so a batch it admits may follow them, and the        *)
(* database's comparison of offsets makes that the whole managed log.      *)
(***************************************************************************)
EXTENDS FabricBroker, TLAPS

(* Values. *)

LEMMA NoCallIsNone == NoCall \notin Calls
<1>1. \A c \in Calls : c.state \in {"asking", "committed", "fenced", "conflict"}
  BY DEF Calls
<1>2. NoCall.state = "none"
  BY DEF NoCall
<1> QED BY <1>1, <1>2

\* A producer's state stays one, whatever is admitted, restored or initialised.
LEMMA RememberingType ==
  ASSUME NEW window \in Seq(BatchesSent), NEW batch \in BatchesSent,
         Len(window) =< WindowSize
  PROVE  /\ Remembering(window, batch) \in Seq(BatchesSent)
         /\ Len(Remembering(window, batch)) =< WindowSize
         /\ \A w \in 1..Len(Remembering(window, batch)) :
              \/ Remembering(window, batch)[w] = batch
              \/ \E v \in 1..Len(window) : Remembering(window, batch)[w] = window[v]
<1> USE WindowSizeAssumption
<1> DEFINE kept == IF Len(window) < WindowSize THEN window ELSE Tail(window)
<1>1. /\ kept \in Seq(BatchesSent) /\ Len(kept) < WindowSize
      /\ \A w \in 1..Len(kept) : \E v \in 1..Len(window) : kept[w] = window[v]
  <2>1. CASE Len(window) < WindowSize
    BY <2>1
  <2>2. CASE ~(Len(window) < WindowSize)
    <3>1. window # <<>> /\ Len(window) = WindowSize
      BY <2>2
    <3>2. /\ Tail(window) \in Seq(BatchesSent) /\ Len(Tail(window)) = Len(window) - 1
          /\ \A w \in 1..Len(Tail(window)) : Tail(window)[w] = window[w + 1]
      BY <3>1
    <3> QED BY <2>2, <3>1, <3>2
  <2> QED BY <2>1, <2>2
<1>2. Remembering(window, batch) = Append(kept, batch)
  BY DEF Remembering
<1> HIDE DEF kept
<1> QED BY <1>1, <1>2

LEMMA BatchFacts ==
  ASSUME NEW batch \in BatchesSent
  PROVE  /\ batch.pid \in Pids /\ batch.epoch \in Nat \ {0} /\ batch.base \in Nat
         /\ batch.count \in Nat \ {0} /\ batch.payload \in Clients \X Nat
BY DEF BatchesSent, Batch

LEMMA StateFacts ==
  ASSUME NEW s \in States
  PROVE  s.epoch \in Nat /\ s.next \in Nat /\ s.window \in Seq(BatchesSent)
BY DEF States

LEMMA ProducerTypes ==
  ASSUME NEW s \in States, NEW batch \in BatchesSent, Len(s.window) =< WindowSize
  PROVE  /\ Admitted(s, batch) \in States /\ Len(Admitted(s, batch).window) =< WindowSize
         /\ Restored(s, batch) \in States /\ Len(Restored(s, batch).window) =< WindowSize
         /\ Initialised(s) \in States /\ Initialised(s).window = s.window
         /\ Initialised(s).epoch = s.epoch + 1 /\ Initialised(s).next = s.next
<1>1. s.epoch \in Nat /\ s.next \in Nat /\ s.window \in Seq(BatchesSent)
  BY StateFacts
<1>2. batch.epoch \in Nat /\ batch.base \in Nat /\ batch.count \in Nat
  BY BatchFacts
<1>3. /\ Remembering(s.window, batch) \in Seq(BatchesSent)
      /\ Len(Remembering(s.window, batch)) =< WindowSize
  BY <1>1, RememberingType
<1>4. MaxEpoch(s.epoch, batch.epoch) \in Nat
  BY <1>1, <1>2 DEF MaxEpoch
<1>5. Admitted(s, batch) \in States /\ Admitted(s, batch).window = Remembering(s.window, batch)
  BY <1>2, <1>3 DEF Admitted, States
<1>6. Restored(s, batch) \in States /\ Restored(s, batch).window = Remembering(s.window, batch)
  BY <1>2, <1>3, <1>4 DEF Restored, States
<1>7. Initialised(s) = [epoch |-> s.epoch + 1, next |-> s.next, window |-> s.window]
  BY DEF Initialised, States
<1>8. Initialised(s) \in States
  BY <1>1, <1>7 DEF States
<1> QED BY <1>3, <1>5, <1>6, <1>7, <1>8

--------------------------------------------------------------------------------
(* Types. *)

\* An incarnation that has an epoch has one above 0, and no window, in memory,
\* on disk or set aside by a call, outgrows its size.
TypeInv ==
  /\ TypeOK
  /\ \A c \in Clients : client[c].state = "open" => client[c].epoch # 0
  /\ \A b \in Brokers : \A p \in Pids : Len(replay[b][p].window) =< WindowSize
  /\ \A b \in Brokers : call[b] # NoCall => Len(call[b].before.window) =< WindowSize

LEMMA CallFacts ==
  ASSUME TypeInv, NEW b \in Brokers, call[b] # NoCall
  PROVE  /\ call[b] \in Calls /\ call[b].request \in Requests
         /\ call[b].before \in States /\ call[b].request.batch \in BatchesSent
         /\ call[b].request.batch.pid \in Pids
         /\ Len(call[b].before.window) =< WindowSize
         /\ call[b].request.offset \in Nat
<1>1. call[b] \in Calls /\ Len(call[b].before.window) =< WindowSize
  BY DEF TypeInv, TypeOK
<1>2. call[b].request \in Requests /\ call[b].before \in States
  BY <1>1 DEF Calls
<1>3. call[b].request.batch \in BatchesSent /\ call[b].request.offset \in Nat
  BY <1>2 DEF Requests
<1> QED BY <1>1, <1>2, <1>3, BatchFacts

\* A call in one of its states is a call.
LEMMA InCall ==
  ASSUME NEW b, call[b].state \in {"asking", "committed", "fenced", "conflict"}
  PROVE  call[b] # NoCall
BY DEF NoCall

LEMMA CurrentType ==
  ASSUME TypeInv, NEW c \in Clients, client[c].state = "open"
  PROVE  Current(c) \in BatchesSent
<1>1. client[c].epoch \in Nat \ {0} /\ client[c].next \in Nat /\ client[c].sent \in Nat
  BY DEF TypeInv, TypeOK
<1>2. Owner[c] \in Pids
  BY OwnerAssumption
<1>3. <<c, client[c].sent>> \in Clients \X Nat
  BY <1>1
<1> QED BY <1>1, <1>2, <1>3 DEF Current, BatchesSent, Batch

LEMMA RowsType ==
  ASSUME TypeInv, NEW request \in Requests
  PROVE  /\ RowsAfter(request) \in Seq(Requests)
         /\ Verdict(request) \in {"committed", "fenced", "conflict"}
<1>1. rows \in Seq(Requests)
  BY DEF TypeInv, TypeOK
<1>2. Verdict(request) \in {"committed", "fenced", "conflict"}
  BY DEF Verdict
<1> QED BY <1>1, <1>2 DEF RowsAfter

LEMMA ToldType ==
  ASSUME TypeInv, NEW batch, NEW what, Told(batch, what),
         \A c \in Clients : client[c].state = "open" =>
            /\ what[c] \in [state : {"new", "open", "fenced"}, epoch : Nat, next : Nat, sent : Nat]
            /\ what[c].epoch = client[c].epoch
  PROVE  /\ client' \in [Clients -> [state : {"new", "open", "fenced"}, epoch : Nat,
                                     next : Nat, sent : Nat]]
         /\ \A c \in Clients : client'[c].state = "open" => client'[c].epoch # 0
         /\ faults' \in Nat
<1>1. faults' \in Nat
  BY DEF TypeInv, TypeOK, Told, Fault
<1>2. CASE client' = [c \in Clients |-> IF Awaits(c, batch) THEN what[c] ELSE client[c]]
  <2>1. \A c \in Clients : Awaits(c, batch) => client[c].state = "open" /\ client[c].epoch # 0
    BY DEF Awaits, TypeInv
  <2>2. \A c \in Clients : client[c] \in [state : {"new", "open", "fenced"}, epoch : Nat,
                                          next : Nat, sent : Nat]
    BY DEF TypeInv, TypeOK
  <2>3. \A c \in Clients : client[c].state = "open" => client[c].epoch # 0
    BY DEF TypeInv
  <2> QED BY <1>1, <1>2, <2>1, <2>2, <2>3
<1>3. CASE UNCHANGED client
  BY <1>1, <1>3 DEF TypeInv, TypeOK
<1> QED BY <1>1, <1>2, <1>3 DEF Told

LEMMA MovedType ==
  ASSUME TypeInv, NEW c \in Clients
  PROVE  /\ Moved[c] \in [state : {"new", "open", "fenced"}, epoch : Nat, next : Nat, sent : Nat]
         /\ Moved[c].epoch = client[c].epoch
<1>1. client[c] \in [state : {"new", "open", "fenced"}, epoch : Nat, next : Nat, sent : Nat]
  BY DEF TypeInv, TypeOK
<1>2. Moved[c] = [client[c] EXCEPT !.next = @ + 1, !.sent = @ + 1]
  BY DEF Moved
<1>3. Moved[c] = [state |-> client[c].state, epoch |-> client[c].epoch,
                  next |-> client[c].next + 1, sent |-> client[c].sent + 1]
  BY <1>1, <1>2, Zenon
<1>4. client[c].next + 1 \in Nat /\ client[c].sent + 1 \in Nat
  BY <1>1
<1> QED BY <1>1, <1>3, <1>4

\* A table entry replaced by another state of a producer.
LEMMA TableType ==
  ASSUME NEW t \in [Brokers -> [Pids -> States]],
         \A b \in Brokers : \A p \in Pids : Len(t[b][p].window) =< WindowSize,
         NEW b \in Brokers, NEW p \in Pids, NEW s \in States, Len(s.window) =< WindowSize,
         NEW u, u = [t EXCEPT ![b][p] = s]
  PROVE  /\ u \in [Brokers -> [Pids -> States]]
         /\ \A d \in Brokers : \A q \in Pids : Len(u[d][q].window) =< WindowSize
         /\ u[b][p] = s
         /\ \A d \in Brokers : \A q \in Pids : d # b \/ q # p => u[d][q] = t[d][q]
<1>1. \A d \in Brokers : \A q \in Pids :
        u[d][q] = IF d = b /\ q = p THEN s ELSE t[d][q]
  OBVIOUS
<1> QED BY <1>1

LEMMA TypeInit == Init => TypeInv
<1> SUFFICES ASSUME Init PROVE TypeInv
  OBVIOUS
<1>1. Unheard \in States /\ Len(Unheard.window) = 0
  BY DEF Unheard, States
<1>2. 0 =< WindowSize
  BY WindowSizeAssumption
<1>3. \A b \in Brokers : \A p \in Pids : replay[b][p] = Unheard /\ table[b][p] = Unheard
  BY DEF Init, FreshTable
<1>4. replay \in [Brokers -> [Pids -> States]] /\ table \in [Brokers -> [Pids -> States]]
  BY <1>1 DEF Init, FreshTable
<1> QED BY <1>1, <1>2, <1>3, <1>4 DEF Init, TypeInv, TypeOK, AtRest

\* The parts of the state no step of a group touches keep their types.
DatabaseTypes ==
  /\ rows \in Seq(Requests) /\ late \subseteq Requests
  /\ leaseRow \in [holder : (Brokers \X Nat) \union {NoOne}, epoch : Nat, live : BOOLEAN]
DiskTypes ==
  /\ log \in [Brokers -> Seq(BatchesSent)]
  /\ replay \in [Brokers -> [Pids -> States]]
  /\ \A b \in Brokers : \A p \in Pids : Len(replay[b][p].window) =< WindowSize
TableTypes ==
  /\ table \in [Brokers -> [Pids -> States]]
  /\ \A b \in Brokers : \A p \in Pids : Len(table[b][p].window) =< WindowSize
CallTypes ==
  /\ call \in [Brokers -> Calls \union {NoCall}]
  /\ \A b \in Brokers : call[b] # NoCall => Len(call[b].before.window) =< WindowSize
LeaseTypes == lease \in [Brokers -> Nat] /\ caughtUp \in [Brokers -> Nat]
ProcessTypes ==
  /\ up \in [Brokers -> BOOLEAN] /\ draining \in [Brokers -> BOOLEAN]
  /\ incarnation \in [Brokers -> Nat]
  /\ pass \in [Brokers -> [doing : {"nothing", "held", "other", "releasing"}, epoch : Nat]]
ProducerTypesHold ==
  /\ client \in [Clients -> [state : {"new", "open", "fenced"}, epoch : Nat, next : Nat,
                             sent : Nat]]
  /\ \A c \in Clients : client[c].state = "open" => client[c].epoch # 0
  /\ wire \subseteq BatchesSent /\ issued \in [Pids -> Nat]
AnswerTypes == acked \subseteq [batch : BatchesSent, offset : Nat] /\ faults \in Nat

LEMMA TypeParts ==
  TypeInv <=> /\ DatabaseTypes /\ DiskTypes /\ TableTypes /\ CallTypes /\ LeaseTypes
              /\ ProcessTypes /\ ProducerTypesHold /\ AnswerTypes
BY DEF TypeInv, TypeOK, DatabaseTypes, DiskTypes, TableTypes, CallTypes, LeaseTypes,
       ProcessTypes, ProducerTypesHold, AnswerTypes

LEMMA TypePartsStay ==
  /\ DatabaseTypes /\ UNCHANGED database => DatabaseTypes'
  /\ DiskTypes /\ UNCHANGED disk => DiskTypes'
  /\ TableTypes /\ UNCHANGED table => TableTypes'
  /\ CallTypes /\ UNCHANGED call => CallTypes'
  /\ LeaseTypes /\ UNCHANGED <<lease, caughtUp>> => LeaseTypes'
  /\ ProcessTypes /\ UNCHANGED process => ProcessTypes'
  /\ ProducerTypesHold /\ UNCHANGED producer => ProducerTypesHold'
  /\ AnswerTypes /\ UNCHANGED <<acked, faults>> => AnswerTypes'
BY DEF DatabaseTypes, DiskTypes, TableTypes, CallTypes, LeaseTypes, ProcessTypes,
       ProducerTypesHold, AnswerTypes, database, disk, process, producer

LEMMA TypeNext == TypeInv /\ [Next]_vars => TypeInv'
<1> SUFFICES ASSUME TypeInv, [Next]_vars PROVE TypeInv'
  OBVIOUS
<1> DEFINE Parts == /\ DatabaseTypes /\ DiskTypes /\ TableTypes /\ CallTypes /\ LeaseTypes
                    /\ ProcessTypes /\ ProducerTypesHold /\ AnswerTypes
<1>p. DatabaseTypes /\ DiskTypes /\ TableTypes /\ CallTypes /\ LeaseTypes /\ ProcessTypes
      /\ ProducerTypesHold /\ AnswerTypes
  BY TypeParts
<1>q. SUFFICES Parts'
  BY DEF TypeInv, TypeOK, DatabaseTypes, DiskTypes, TableTypes, CallTypes, LeaseTypes,
         ProcessTypes, ProducerTypesHold, AnswerTypes
<1>s. /\ UNCHANGED database => DatabaseTypes'
      /\ UNCHANGED disk => DiskTypes'
      /\ UNCHANGED table => TableTypes'
      /\ UNCHANGED call => CallTypes'
      /\ UNCHANGED <<lease, caughtUp>> => LeaseTypes'
      /\ UNCHANGED process => ProcessTypes'
      /\ UNCHANGED producer => ProducerTypesHold'
      /\ UNCHANGED <<acked, faults>> => AnswerTypes'
  BY <1>p, TypePartsStay
<1>1. CASE Lapse
  <2>1. DatabaseTypes'
    BY <1>p, <1>1 DEF Lapse, DatabaseTypes
  <2>2. AnswerTypes'
    BY <1>p, <1>1 DEF Lapse, AnswerTypes, Fault
  <2> QED BY <1>1, <1>s, <2>1, <2>2 DEF Lapse, memory
<1>2. ASSUME NEW request \in late, LandLate(request) PROVE Parts'
  <2>1. request \in Requests
    BY <1>p DEF DatabaseTypes
  <2>2. DatabaseTypes'
    BY <1>p, <1>2, <2>1, RowsType DEF LandLate, DatabaseTypes
  <2> QED BY <1>2, <1>s, <2>2 DEF LandLate, memory
<1>3. ASSUME NEW b \in Brokers, AcquireLease(b) PROVE Parts'
  <2> DEFINE after == LeaseAfter(Holder(b))
  <2>1. Holder(b) \in Brokers \X Nat
    BY <1>p DEF Holder, ProcessTypes
  <2>2. after \in [holder : (Brokers \X Nat) \union {NoOne}, epoch : Nat, live : BOOLEAN]
    BY <1>p, <2>1 DEF LeaseAfter, DatabaseTypes
  <2>3. DatabaseTypes'
    BY <1>p, <1>3, <2>2 DEF AcquireLease, DatabaseTypes
  <2>4. after.epoch \in Nat
    BY <2>2
  <2>5. ProcessTypes'
    BY <1>p, <1>3, <2>4 DEF AcquireLease, ProcessTypes
  <2>6. AnswerTypes'
    BY <1>p, <1>3 DEF AcquireLease, AnswerTypes, Fault
  <2> QED BY <1>3, <1>s, <2>3, <2>5, <2>6 DEF AcquireLease, memory
<1>4. ASSUME NEW b \in Brokers, SettleLease(b) PROVE Parts'
  <2>1. pass[b].epoch \in Nat
    BY <1>p DEF ProcessTypes
  <2>2. LeaseTypes'
    BY <1>p, <1>4, <2>1 DEF SettleLease, LeaseTypes
  <2>3. ProcessTypes'
    BY <1>p, <1>4 DEF SettleLease, ProcessTypes, AtRest
  <2> QED BY <1>4, <1>s, <2>2, <2>3 DEF SettleLease
<1>5. ASSUME NEW b \in Brokers, Drain(b) PROVE Parts'
  <2>1. ProcessTypes'
    BY <1>p, <1>5 DEF Drain, ProcessTypes
  <2>2. AnswerTypes'
    BY <1>p, <1>5 DEF Drain, AnswerTypes, Fault
  <2> QED BY <1>5, <1>s, <2>1, <2>2 DEF Drain, memory
<1>6. ASSUME NEW b \in Brokers, Relinquish(b) PROVE Parts'
  <2>1. lease[b] \in Nat
    BY <1>p DEF LeaseTypes
  <2>2. LeaseTypes' /\ ProcessTypes'
    BY <1>p, <1>6, <2>1 DEF Relinquish, LeaseTypes, ProcessTypes
  <2> QED BY <1>6, <1>s, <2>2 DEF Relinquish
<1>7. ASSUME NEW b \in Brokers, ReleaseLease(b) PROVE Parts'
  <2> DEFINE holds == leaseRow.holder = Holder(b) /\ leaseRow.epoch = pass[b].epoch
  <2>1. leaseRow' = [leaseRow EXCEPT !.live = leaseRow.live /\ ~holds]
    BY <1>7 DEF ReleaseLease
  <2>2. (leaseRow.live /\ ~holds) \in BOOLEAN
    OBVIOUS
  <2> HIDE DEF holds
  <2>3. DatabaseTypes'
    BY <1>p, <1>7, <2>1, <2>2 DEF ReleaseLease, DatabaseTypes
  <2>4. ProcessTypes'
    BY <1>p, <1>7 DEF ReleaseLease, ProcessTypes, AtRest
  <2> QED BY <1>7, <1>s, <2>3, <2>4 DEF ReleaseLease, memory
<1>8. ASSUME NEW b \in Brokers, CatchUpRow(b) PROVE Parts'
  <2> DEFINE batch == rows[Len(log[b]) + 1].batch
  <2>1. batch \in BatchesSent
    <3>1. Len(log[b]) + 1 \in 1..Len(rows)
      BY <1>p, <1>8 DEF CatchUpRow, DiskTypes, DatabaseTypes
    <3>2. rows[Len(log[b]) + 1] \in Requests
      BY <1>p, <3>1 DEF DatabaseTypes
    <3> QED BY <3>2 DEF Requests
  <2>2. batch.pid \in Pids
    BY <2>1, BatchFacts
  <2> HIDE DEF batch
  <2>3. /\ log' = [log EXCEPT ![b] = Append(log[b], batch)]
        /\ replay' = [replay EXCEPT ![b][batch.pid] = Restored(replay[b][batch.pid], batch)]
        /\ table' = [table EXCEPT ![b][batch.pid] = Restored(table[b][batch.pid], batch)]
    BY <1>8 DEF CatchUpRow, batch
  <2>4. TableTypes'
    <3>1. table[b][batch.pid] \in States /\ Len(table[b][batch.pid].window) =< WindowSize
      BY <1>p, <2>2 DEF TableTypes
    <3>2. /\ Restored(table[b][batch.pid], batch) \in States
          /\ Len(Restored(table[b][batch.pid], batch).window) =< WindowSize
      BY <2>1, <3>1, ProducerTypes
    <3> QED BY <1>p, <2>2, <2>3, <3>2, TableType DEF TableTypes
  <2>5. DiskTypes'
    <3>1. replay[b][batch.pid] \in States /\ Len(replay[b][batch.pid].window) =< WindowSize
      BY <1>p, <2>2 DEF DiskTypes
    <3>2. /\ Restored(replay[b][batch.pid], batch) \in States
          /\ Len(Restored(replay[b][batch.pid], batch).window) =< WindowSize
      BY <2>1, <3>1, ProducerTypes
    <3>3. /\ replay' \in [Brokers -> [Pids -> States]]
          /\ \A d \in Brokers : \A q \in Pids : Len(replay'[d][q].window) =< WindowSize
      BY <1>p, <2>2, <2>3, <3>2, TableType DEF DiskTypes
    <3>4. log' \in [Brokers -> Seq(BatchesSent)]
      BY <1>p, <2>1, <2>3 DEF DiskTypes
    <3> QED BY <3>3, <3>4 DEF DiskTypes
  <2>6. LeaseTypes'
    BY <1>p, <1>8 DEF CatchUpRow, LeaseTypes
  <2> QED BY <1>8, <1>s, <2>4, <2>5, <2>6 DEF CatchUpRow
<1>9. ASSUME NEW b \in Brokers, CaughtUp(b) PROVE Parts'
  <2>1. LeaseTypes'
    BY <1>p, <1>9 DEF CaughtUp, LeaseTypes
  <2> QED BY <1>9, <1>s, <2>1 DEF CaughtUp
<1>10. ASSUME NEW b \in Brokers, NEW c \in Clients, InitProducer(b, c) PROVE Parts'
  <2> DEFINE p == Owner[c]  old == table[b][p]
  <2>1. p \in Pids
    BY OwnerAssumption
  <2>2. old \in States /\ Len(old.window) =< WindowSize
    BY <1>p, <2>1 DEF TableTypes
  <2>3. /\ Initialised(old) \in States /\ Len(Initialised(old).window) =< WindowSize
        /\ Initialised(old).epoch \in Nat \ {0} /\ Initialised(old).next \in Nat
    <3>1. old.epoch \in Nat /\ old.next \in Nat
      BY <2>2, StateFacts
    <3>2. WindowSize \in Nat \ {0}
      BY WindowSizeAssumption
    <3>3. \E batch \in BatchesSent : TRUE
      <4>1. [pid |-> p, epoch |-> 1, base |-> 0, count |-> 1, payload |-> <<c, 0>>] \in BatchesSent
        BY <2>1 DEF BatchesSent, Batch
      <4> QED BY <4>1
    <3> HIDE DEF old
    <3> QED BY <2>2, <3>1, <3>3, ProducerTypes
  <2> HIDE DEF old
  <2>4. TableTypes'
    <3>1. table' = [table EXCEPT ![b][p] = Initialised(old)]
      BY <1>10 DEF InitProducer, old
    <3> QED BY <1>p, <2>1, <2>3, <3>1, TableType DEF TableTypes
  <2>5. client' = [client EXCEPT ![c] = [state |-> "open", epoch |-> Initialised(old).epoch,
                                         next |-> Initialised(old).next, sent |-> 0]]
    BY <1>10 DEF InitProducer, old
  <2>6. issued' = [issued EXCEPT ![p] = MaxEpoch(issued[p], Initialised(old).epoch)]
    BY <1>10 DEF InitProducer, old
  <2>7. wire' = wire
    BY <1>10 DEF InitProducer
  <2>8. MaxEpoch(issued[p], Initialised(old).epoch) \in Nat
    BY <1>p, <2>1, <2>3 DEF MaxEpoch, ProducerTypesHold
  <2>9. ProducerTypesHold'
    BY <1>p, <2>1, <2>3, <2>5, <2>6, <2>7, <2>8 DEF ProducerTypesHold
  <2> QED BY <1>10, <1>s, <2>4, <2>9 DEF InitProducer
<1>11. ASSUME NEW c \in Clients, Send(c) PROVE Parts'
  <2>1. Current(c) \in BatchesSent
    BY <1>11, CurrentType DEF Send
  <2>2. ProducerTypesHold'
    BY <1>p, <1>11, <2>1 DEF Send, ProducerTypesHold
  <2> QED BY <1>11, <1>s, <2>2 DEF Send, memory
<1>12. ASSUME NEW b \in Brokers, NEW batch \in wire, StartCommit(b, batch) PROVE Parts'
  <2> DEFINE before == table[b][batch.pid]
             request == [holder |-> Holder(b), epoch |-> lease[b], offset |-> Len(log[b]),
                         batch |-> batch]
  <2>1. batch \in BatchesSent /\ batch.pid \in Pids
    BY <1>p, BatchFacts DEF ProducerTypesHold
  <2>2. before \in States /\ Len(before.window) =< WindowSize
    BY <1>p, <2>1 DEF TableTypes
  <2>3. Admitted(before, batch) \in States /\ Len(Admitted(before, batch).window) =< WindowSize
    BY <2>1, <2>2, ProducerTypes
  <2>4. request \in Requests
    BY <1>p, <2>1 DEF Holder, Requests, ProcessTypes, LeaseTypes, DiskTypes
  <2> HIDE DEF before, request
  <2>5. TableTypes'
    <3>1. table' = [table EXCEPT ![b][batch.pid] = Admitted(before, batch)]
      BY <1>12 DEF StartCommit, before
    <3> QED BY <1>p, <2>1, <2>3, <3>1, TableType DEF TableTypes
  <2>6. CallTypes'
    <3>1. call' = [call EXCEPT ![b] = [state |-> "asking", before |-> before,
                                       request |-> request]]
      BY <1>12 DEF StartCommit, before, request
    <3>2. [state |-> "asking", before |-> before, request |-> request] \in Calls
      BY <2>2, <2>4 DEF Calls
    <3> QED BY <1>p, <2>2, <3>1, <3>2 DEF CallTypes
  <2> QED BY <1>12, <1>s, <2>5, <2>6 DEF StartCommit
<1>13. ASSUME NEW b \in Brokers, NEW batch \in wire, AnswerDuplicate(b, batch) PROVE Parts'
  <2>1. batch \in BatchesSent
    BY <1>p DEF ProducerTypesHold
  <2>2. PICK i \in 1..Len(log[b]) : acked' = acked \union {[batch |-> batch, offset |-> i - 1]}
    BY <1>13 DEF AnswerDuplicate
  <2>3. i - 1 \in Nat
    BY <1>p DEF DiskTypes
  <2>4. Told(batch, Moved) /\ wire' = wire /\ issued' = issued
    BY <1>13 DEF AnswerDuplicate
  <2>5. ProducerTypesHold' /\ faults' \in Nat
    BY <1>p, <2>4, ToldType, MovedType DEF ProducerTypesHold
  <2>6. AnswerTypes'
    BY <1>p, <2>1, <2>2, <2>3, <2>5 DEF AnswerTypes
  <2> QED BY <1>13, <1>s, <2>5, <2>6 DEF AnswerDuplicate, memory
<1>14. ASSUME NEW b \in Brokers, NEW batch \in wire, Refuse(b, batch) PROVE Parts'
  <2> DEFINE known == table[b][batch.pid]
             latched == [c \in Clients |-> [client[c] EXCEPT !.state = "fenced"]]
             adopted == [c \in Clients |-> [client[c] EXCEPT !.next = known.next]]
  <2>1. batch \in BatchesSent /\ batch.pid \in Pids
    BY <1>p, BatchFacts DEF ProducerTypesHold
  <2>2. known.next \in Nat
    BY <1>p, <2>1, StateFacts DEF TableTypes
  <2>3. \A c \in Clients : client[c] \in [state : {"new", "open", "fenced"}, epoch : Nat,
                                          next : Nat, sent : Nat]
    BY <1>p DEF ProducerTypesHold
  <2>4. \A c \in Clients :
          /\ latched[c] \in [state : {"new", "open", "fenced"}, epoch : Nat, next : Nat, sent : Nat]
          /\ latched[c].epoch = client[c].epoch
          /\ adopted[c] \in [state : {"new", "open", "fenced"}, epoch : Nat, next : Nat, sent : Nat]
          /\ adopted[c].epoch = client[c].epoch
    BY <2>2, <2>3
  <2>5. Told(batch, latched) \/ Told(batch, adopted)
    BY <1>14 DEF Refuse
  <2>6. wire' = wire /\ issued' = issued /\ acked' = acked
    BY <1>14 DEF Refuse
  <2> HIDE DEF latched, adopted
  <2>7. ProducerTypesHold' /\ faults' \in Nat
    BY <1>p, <2>4, <2>5, <2>6, ToldType DEF ProducerTypesHold
  <2>8. AnswerTypes'
    BY <1>p, <2>6, <2>7 DEF AnswerTypes
  <2> QED BY <1>14, <1>s, <2>7, <2>8 DEF Refuse, memory
<1>15. ASSUME NEW b \in Brokers, DecideCommit(b) PROVE Parts'
  <2>1. call[b] # NoCall
    BY <1>15, InCall DEF DecideCommit
  <2>2. call[b] \in Calls /\ call[b].request \in Requests /\ Len(call[b].before.window) =< WindowSize
    BY <2>1, CallFacts
  <2>3. DatabaseTypes'
    BY <1>p, <1>15, <2>2, RowsType DEF DecideCommit, DatabaseTypes
  <2>4. Verdict(call[b].request) \in {"committed", "fenced", "conflict"}
    BY <2>2, RowsType
  <2>5. [call[b] EXCEPT !.state = Verdict(call[b].request)] \in Calls
    BY <2>2, <2>4 DEF Calls
  <2>6. call' = [call EXCEPT ![b] = [call[b] EXCEPT !.state = Verdict(call[b].request)]]
    BY <1>15 DEF DecideCommit
  <2>7. [call[b] EXCEPT !.state = Verdict(call[b].request)].before = call[b].before
    BY <2>2 DEF Calls
  <2>8. CallTypes'
    BY <1>p, <2>2, <2>5, <2>6, <2>7 DEF CallTypes
  <2> QED BY <1>15, <1>s, <2>3, <2>8 DEF DecideCommit
<1>16. ASSUME NEW b \in Brokers, FinishCommitted(b) PROVE Parts'
  <2> DEFINE batch == call[b].request.batch
  <2>1. call[b] # NoCall
    BY <1>16, InCall DEF FinishCommitted
  <2>2. batch \in BatchesSent /\ batch.pid \in Pids /\ call[b].request.offset \in Nat
    BY <2>1, CallFacts
  <2> HIDE DEF batch
  <2>3. /\ log' = [log EXCEPT ![b] = Append(log[b], batch)]
        /\ replay' = [replay EXCEPT ![b][batch.pid] = Restored(replay[b][batch.pid], batch)]
        /\ call' = [call EXCEPT ![b] = NoCall]
        /\ acked' = acked \union {[batch |-> batch, offset |-> call[b].request.offset]}
        /\ Told(batch, Moved) /\ wire' = wire /\ issued' = issued
    BY <1>16 DEF FinishCommitted, batch
  <2>4. DiskTypes'
    <3>1. replay[b][batch.pid] \in States /\ Len(replay[b][batch.pid].window) =< WindowSize
      BY <1>p, <2>2 DEF DiskTypes
    <3>2. /\ Restored(replay[b][batch.pid], batch) \in States
          /\ Len(Restored(replay[b][batch.pid], batch).window) =< WindowSize
      BY <2>2, <3>1, ProducerTypes
    <3>3. /\ replay' \in [Brokers -> [Pids -> States]]
          /\ \A d \in Brokers : \A q \in Pids : Len(replay'[d][q].window) =< WindowSize
      BY <1>p, <2>2, <2>3, <3>2, TableType DEF DiskTypes
    <3>4. log' \in [Brokers -> Seq(BatchesSent)]
      BY <1>p, <2>2, <2>3 DEF DiskTypes
    <3> QED BY <3>3, <3>4 DEF DiskTypes
  <2>5. CallTypes'
    BY <1>p, <2>3 DEF CallTypes
  <2>6. ProducerTypesHold' /\ faults' \in Nat
    BY <1>p, <2>3, ToldType, MovedType DEF ProducerTypesHold
  <2>7. AnswerTypes'
    BY <1>p, <2>2, <2>3, <2>6 DEF AnswerTypes
  <2> QED BY <1>16, <1>s, <2>4, <2>5, <2>6, <2>7 DEF FinishCommitted
<1>17. ASSUME NEW b \in Brokers, LoseAppend(b) PROVE Parts'
  <2>1. LeaseTypes' /\ CallTypes' /\ AnswerTypes'
    BY <1>p, <1>17 DEF LoseAppend, LeaseTypes, CallTypes, AnswerTypes, Fault
  <2> QED BY <1>17, <1>s, <2>1 DEF LoseAppend
<1>18. ASSUME NEW b \in Brokers, FinishRefused(b) PROVE Parts'
  <2>1. call[b] # NoCall
    BY <1>18, InCall DEF FinishRefused
  <2>2. /\ call[b].before \in States /\ Len(call[b].before.window) =< WindowSize
        /\ call[b].request.batch.pid \in Pids
    BY <2>1, CallFacts
  <2>3. TableTypes'
    BY <1>p, <1>18, <2>2, TableType DEF FinishRefused, Rewound, TableTypes
  <2>4. LeaseTypes' /\ CallTypes'
    BY <1>p, <1>18 DEF FinishRefused, LeaseTypes, CallTypes
  <2> QED BY <1>18, <1>s, <2>3, <2>4 DEF FinishRefused
<1>19. ASSUME NEW b \in Brokers, LoseAnswer(b) PROVE Parts'
  <2>1. /\ call[b].before \in States /\ Len(call[b].before.window) =< WindowSize
        /\ call[b].request.batch.pid \in Pids /\ call[b].request \in Requests
    BY <1>19, CallFacts DEF LoseAnswer
  <2>2. TableTypes'
    BY <1>p, <1>19, <2>1, TableType DEF LoseAnswer, Rewound, TableTypes
  <2>3. LeaseTypes' /\ CallTypes' /\ AnswerTypes'
    BY <1>p, <1>19 DEF LoseAnswer, LeaseTypes, CallTypes, AnswerTypes, Fault
  <2>4. DatabaseTypes'
    BY <1>p, <1>19, <2>1 DEF LoseAnswer, DatabaseTypes
  <2> QED BY <1>19, <1>s, <2>2, <2>3, <2>4 DEF LoseAnswer
<1>20. ASSUME NEW b \in Brokers, Crash(b) PROVE Parts'
  <2>1. call[b].state = "asking" => call[b].request \in Requests
    BY InCall, CallFacts
  <2>2. DatabaseTypes'
    BY <1>p, <1>20, <2>1 DEF Crash, DatabaseTypes
  <2>3. Unheard \in States /\ Len(Unheard.window) = 0 /\ 0 =< WindowSize
    BY WindowSizeAssumption DEF Unheard, States
  <2>4. TableTypes'
    <3>1. FreshTable \in [Pids -> States]
      BY <2>3 DEF FreshTable
    <3>2. \A p \in Pids : Len(FreshTable[p].window) =< WindowSize
      BY <2>3 DEF FreshTable
    <3>3. table' = [table EXCEPT ![b] = FreshTable]
      BY <1>20 DEF Crash
    <3> QED BY <1>p, <3>1, <3>2, <3>3 DEF TableTypes
  <2>5. LeaseTypes' /\ CallTypes' /\ AnswerTypes'
    BY <1>p, <1>20 DEF Crash, LeaseTypes, CallTypes, AnswerTypes, Fault
  <2>6. ProcessTypes'
    BY <1>p, <1>20 DEF Crash, ProcessTypes, AtRest
  <2> QED BY <1>20, <1>s, <2>2, <2>4, <2>5, <2>6 DEF Crash
<1>21. ASSUME NEW b \in Brokers, Restart(b) PROVE Parts'
  <2>1. TableTypes'
    BY <1>p, <1>21 DEF Restart, TableTypes, DiskTypes
  <2>2. ProcessTypes'
    BY <1>p, <1>21 DEF Restart, ProcessTypes
  <2> QED BY <1>21, <1>s, <2>1, <2>2 DEF Restart
<1>22. CASE UNCHANGED vars
  BY <1>22, <1>s DEF vars, memory
<1> QED BY <1>1, <1>2, <1>3, <1>4, <1>5, <1>6, <1>7, <1>8, <1>9, <1>10, <1>11, <1>12, <1>13,
           <1>14, <1>15, <1>16, <1>17, <1>18, <1>19, <1>20, <1>21, <1>22
        DEF Next, LeaseThread, CatchUp, Committing, Offer

\* The state stays of its types, for any brokers, producers and faults
\* (TypeOK of FabricBroker).
THEOREM TypeCorrect == Spec => []TypeOK
<1>1. TypeInv => TypeOK
  BY DEF TypeInv
<1> QED BY <1>1, TypeInit, TypeNext, PTL DEF Spec

LEMMA TypeInvHolds == Spec => []TypeInv
BY TypeInit, TypeNext, PTL DEF Spec

--------------------------------------------------------------------------------
(* One holder per lease epoch.                                             *)

\* The lease row is at or beyond every row committed under it, and still names
\* the holder of the rows of its own epoch.
LeaseAgrees ==
  \A i \in 1..Len(rows) :
     /\ rows[i].epoch =< leaseRow.epoch
     /\ rows[i].epoch = leaseRow.epoch => rows[i].holder = leaseRow.holder

LeaseInv == OneHolderPerEpoch /\ LeaseAgrees

\* A commit the database takes is stamped by the lease of that moment.
LEMMA CommittedByLease ==
  ASSUME NEW request, Verdict(request) = "committed"
  PROVE  /\ request.holder = leaseRow.holder /\ request.epoch = leaseRow.epoch
         /\ request.offset = Len(rows)
BY DEF Verdict

LEMMA RequestFacts ==
  ASSUME NEW request \in Requests
  PROVE  request.epoch \in Nat /\ request.offset \in Nat /\ request.batch \in BatchesSent
BY DEF Requests

LEMMA RowsFacts ==
  ASSUME TypeInv
  PROVE  /\ rows \in Seq(Requests) /\ Len(rows) \in Nat
         /\ \A i \in 1..Len(rows) : rows[i] \in Requests /\ rows[i].epoch \in Nat
         /\ leaseRow.epoch \in Nat
<1>1. rows \in Seq(Requests) /\ leaseRow.epoch \in Nat
  BY DEF TypeInv, TypeOK
<1>2. \A i \in 1..Len(rows) : rows[i] \in Requests
  BY <1>1
<1> QED BY <1>1, <1>2, RequestFacts

LEMMA LeaseCommits ==
  ASSUME TypeInv, LeaseInv, NEW request \in Requests, rows' = RowsAfter(request),
         UNCHANGED leaseRow
  PROVE  LeaseInv'
<1>1. rows \in Seq(Requests) /\ leaseRow.epoch \in Nat
  BY RowsFacts
<1>2. CASE Verdict(request) = "committed"
  <2>1. rows' = Append(rows, request)
    BY <1>2 DEF RowsAfter
  <2>2. request.holder = leaseRow.holder /\ request.epoch = leaseRow.epoch
    BY <1>2, CommittedByLease
  <2>3. /\ Len(rows') = Len(rows) + 1 /\ rows'[Len(rows) + 1] = request
        /\ \A i \in 1..Len(rows) : rows'[i] = rows[i]
    BY <1>1, <2>1
  <2>4. \A i \in 1..Len(rows') : i = Len(rows) + 1 \/ i \in 1..Len(rows)
    BY <1>1, <2>3
  <2>5. \A i \in 1..Len(rows) : rows[i].epoch \in Nat
    BY RowsFacts
  <2>6. LeaseAgrees'
    BY <1>1, <2>2, <2>3, <2>4 DEF LeaseInv, LeaseAgrees
  <2>7. ASSUME NEW i \in 1..Len(rows'), NEW j \in 1..Len(rows')
        PROVE  /\ i =< j => rows'[i].epoch =< rows'[j].epoch
               /\ rows'[i].epoch = rows'[j].epoch => rows'[i].holder = rows'[j].holder
    <3>1. CASE i \in 1..Len(rows) /\ j \in 1..Len(rows)
      BY <2>3, <3>1 DEF LeaseInv, OneHolderPerEpoch
    <3>2. CASE i \in 1..Len(rows) /\ j = Len(rows) + 1
      BY <2>2, <2>3, <3>2 DEF LeaseInv, LeaseAgrees
    <3>3. CASE i = Len(rows) + 1 /\ j \in 1..Len(rows)
      <4>1. ~(i =< j)
        BY <1>1, <3>3
      <4> QED BY <2>2, <2>3, <3>3, <4>1 DEF LeaseInv, LeaseAgrees
    <3>4. CASE i = Len(rows) + 1 /\ j = Len(rows) + 1
      BY <1>1, <2>2, <2>3, <3>4
    <3> QED BY <2>4, <3>1, <3>2, <3>3, <3>4
  <2> QED BY <2>6, <2>7 DEF LeaseInv, OneHolderPerEpoch
<1>3. CASE Verdict(request) # "committed"
  BY <1>3 DEF RowsAfter, LeaseInv, OneHolderPerEpoch, LeaseAgrees
<1> QED BY <1>2, <1>3

\* Taking, renewing, lapsing or releasing the lease leaves the rows behind it.
LEMMA LeaseMoves ==
  ASSUME TypeInv, LeaseInv, UNCHANGED rows,
         \/ leaseRow'.epoch = leaseRow.epoch /\ leaseRow'.holder = leaseRow.holder
         \/ leaseRow'.epoch = leaseRow.epoch + 1
  PROVE  LeaseInv'
<1>1. leaseRow.epoch \in Nat /\ \A i \in 1..Len(rows) : rows[i].epoch \in Nat
  BY RowsFacts
<1> QED BY <1>1 DEF LeaseInv, OneHolderPerEpoch, LeaseAgrees

LEMMA LeaseNext == TypeInv /\ LeaseInv /\ [Next]_vars => LeaseInv'
<1> SUFFICES ASSUME TypeInv, LeaseInv, [Next]_vars PROVE LeaseInv'
  OBVIOUS
<1>1. CASE UNCHANGED <<rows, leaseRow>>
  BY <1>1 DEF LeaseInv, OneHolderPerEpoch, LeaseAgrees
<1>2. CASE Lapse
  <2>1. /\ leaseRow \in [holder : (Brokers \X Nat) \union {NoOne}, epoch : Nat, live : BOOLEAN]
        /\ leaseRow' = [leaseRow EXCEPT !.live = FALSE] /\ UNCHANGED rows
    BY <1>2 DEF Lapse, TypeInv, TypeOK
  <2>2. leaseRow'.epoch = leaseRow.epoch /\ leaseRow'.holder = leaseRow.holder
    BY <2>1
  <2> QED BY <2>1, <2>2, LeaseMoves
<1>3. ASSUME NEW request \in late, LandLate(request) PROVE LeaseInv'
  <2>1. request \in Requests
    BY DEF TypeInv, TypeOK
  <2> QED BY <1>3, <2>1, LeaseCommits DEF LandLate
<1>4. ASSUME NEW b \in Brokers, AcquireLease(b) PROVE LeaseInv'
  <2>1. leaseRow' = LeaseAfter(Holder(b)) /\ UNCHANGED rows
    BY <1>4 DEF AcquireLease
  <2>2. \/ leaseRow'.epoch = leaseRow.epoch /\ leaseRow'.holder = leaseRow.holder
        \/ leaseRow'.epoch = leaseRow.epoch + 1
    BY <2>1 DEF LeaseAfter
  <2> QED BY <2>1, <2>2, LeaseMoves
<1>5. ASSUME NEW b \in Brokers, ReleaseLease(b) PROVE LeaseInv'
  <2>1. /\ leaseRow \in [holder : (Brokers \X Nat) \union {NoOne}, epoch : Nat, live : BOOLEAN]
        /\ UNCHANGED rows /\ \E l : leaseRow' = [leaseRow EXCEPT !.live = l]
    BY <1>5 DEF ReleaseLease, TypeInv, TypeOK
  <2>2. leaseRow'.epoch = leaseRow.epoch /\ leaseRow'.holder = leaseRow.holder
    BY <2>1
  <2> QED BY <2>1, <2>2, LeaseMoves
<1>6. ASSUME NEW b \in Brokers, DecideCommit(b) PROVE LeaseInv'
  <2>1. call[b].request \in Requests
    BY <1>6, InCall, CallFacts DEF DecideCommit
  <2> QED BY <1>6, <2>1, LeaseCommits DEF DecideCommit
<1>7. CASE UNCHANGED vars
  BY <1>1, <1>7 DEF vars, database
<1>8. ASSUME NEW b \in Brokers,
             \/ SettleLease(b) \/ Relinquish(b) \/ CatchUp(b) \/ FinishCommitted(b)
             \/ FinishRefused(b) \/ Drain(b) \/ LoseAppend(b) \/ LoseAnswer(b)
             \/ Crash(b) \/ Restart(b)
      PROVE LeaseInv'
  BY <1>1, <1>8 DEF SettleLease, Relinquish, CatchUp, CatchUpRow, CaughtUp, FinishCommitted,
     FinishRefused, Drain, LoseAppend, LoseAnswer, Crash, Restart, database
<1>9. ASSUME NEW b \in Brokers, NEW batch \in wire, Offer(b, batch) PROVE LeaseInv'
  BY <1>1, <1>9 DEF Offer, StartCommit, AnswerDuplicate, Refuse, database
<1>10. ASSUME NEW c \in Clients, Send(c) \/ \E b \in Brokers : InitProducer(b, c)
       PROVE LeaseInv'
  BY <1>1, <1>10 DEF Send, InitProducer, database
<1> QED BY <1>2, <1>3, <1>4, <1>5, <1>6, <1>7, <1>8, <1>9, <1>10
        DEF Next, LeaseThread, Committing

\* Along the managed log lease epochs never go back and each has one holder,
\* however the lease moves and however late a commit is decided
\* (OneHolderPerEpoch of FabricBroker).
THEOREM CommitsAreOrderedByLease == Spec => []OneHolderPerEpoch
<1>1. Init => LeaseInv
  BY DEF Init, LeaseInv, OneHolderPerEpoch, LeaseAgrees
<1>2. LeaseInv => OneHolderPerEpoch
  BY DEF LeaseInv
<1> QED BY <1>1, <1>2, LeaseNext, TypeInvHolds, PTL DEF Spec
--------------------------------------------------------------------------------
(* What a producer table knows of the batches it was built from.           *)

\* The state fits the producer's batches: all of them are behind its sequence
\* and its epoch, its sequence is where one of them ends, and its window holds
\* none but them.
Fits(batches, p, state) ==
  /\ \A i \in 1..Len(batches) : batches[i].pid = p =>
        /\ batches[i].base + batches[i].count =< state.next
        /\ batches[i].epoch =< state.epoch
  /\ \/ state.next = 0
     \/ \E i \in 1..Len(batches) : /\ batches[i].pid = p
                                   /\ batches[i].base + batches[i].count = state.next
  /\ \A w \in 1..Len(state.window) :
        \E i \in 1..Len(batches) : batches[i].pid = p /\ batches[i] = state.window[w]

FitsAll(batches, known) == \A p \in Pids : Fits(batches, p, known[p])

LEMMA FollowsMeans ==
  ASSUME NEW batch, NEW batches
  PROVE  Promise!Follows(batch, batches) <=>
           /\ \A i \in 1..Len(batches) : batches[i].pid = batch.pid =>
                 /\ batches[i].base + batches[i].count =< batch.base
                 /\ batches[i].epoch =< batch.epoch
           /\ \/ batch.base = 0
              \/ \E i \in 1..Len(batches) : /\ batches[i].pid = batch.pid
                                            /\ batches[i].base + batches[i].count = batch.base
BY DEF Promise!Follows

LEMMA AppendFacts ==
  ASSUME NEW batches \in Seq(BatchesSent), NEW batch \in BatchesSent
  PROVE  /\ Append(batches, batch) \in Seq(BatchesSent)
         /\ Len(Append(batches, batch)) = Len(batches) + 1
         /\ Append(batches, batch)[Len(batches) + 1] = batch
         /\ \A i \in 1..Len(batches) : Append(batches, batch)[i] = batches[i]
         /\ \A i \in 1..Len(Append(batches, batch)) : i \in 1..Len(batches) \/ i = Len(batches) + 1
         /\ \A i \in 1..Len(batches) : i \in 1..Len(Append(batches, batch))
         /\ Len(batches) + 1 \in 1..Len(Append(batches, batch))
OBVIOUS

\* What a table that fits admits may follow.
LEMMA FreshFollows ==
  ASSUME NEW batches \in Seq(BatchesSent), NEW batch \in BatchesSent, NEW state \in States,
         Fits(batches, batch.pid, state), Fresh(state, batch)
  PROVE  Promise!Follows(batch, batches)
<1>1. batch.base = state.next /\ ~(batch.epoch < state.epoch)
  BY DEF Fresh, Fenced
<1>2. /\ state.epoch \in Nat /\ state.next \in Nat /\ batch.epoch \in Nat
      /\ \A i \in 1..Len(batches) : batches[i] \in BatchesSent
  BY StateFacts, BatchFacts
<1>3. \A i \in 1..Len(batches) : batches[i].epoch \in Nat
  BY <1>2, BatchFacts
<1>4. state.epoch =< batch.epoch
  BY <1>1, <1>2
<1>5. \A i \in 1..Len(batches) : batches[i].epoch =< state.epoch => batches[i].epoch =< batch.epoch
  BY <1>2, <1>3, <1>4
<1> QED BY <1>1, <1>5, FollowsMeans DEF Fits

\* Admitting or restoring a batch that follows leaves a state that fits it too,
\* as long as the window held nothing else.
LEMMA FitsAfter ==
  ASSUME NEW batches \in Seq(BatchesSent), NEW batch \in BatchesSent, NEW state \in States,
         Len(state.window) =< WindowSize, Promise!Follows(batch, batches),
         \/ Fits(batches, batch.pid, state)
         \/ Fits(Append(batches, batch), batch.pid, state)
  PROVE  /\ Fits(Append(batches, batch), batch.pid, Admitted(state, batch))
         /\ Fits(Append(batches, batch), batch.pid, Restored(state, batch))
<1> DEFINE longer == Append(batches, batch)
<1>a. /\ longer \in Seq(BatchesSent) /\ Len(longer) = Len(batches) + 1
      /\ longer[Len(batches) + 1] = batch
      /\ \A i \in 1..Len(batches) : longer[i] = batches[i]
      /\ \A i \in 1..Len(longer) : i \in 1..Len(batches) \/ i = Len(batches) + 1
      /\ \A i \in 1..Len(batches) : i \in 1..Len(longer)
      /\ Len(batches) + 1 \in 1..Len(longer)
  BY AppendFacts
<1>b. /\ batch.base \in Nat /\ batch.count \in Nat \ {0} /\ batch.epoch \in Nat
      /\ state.epoch \in Nat /\ state.window \in Seq(BatchesSent)
  BY BatchFacts, StateFacts
<1>c. \A i \in 1..Len(batches) : /\ batches[i].base \in Nat /\ batches[i].count \in Nat
                                 /\ batches[i].epoch \in Nat
  <2>1. \A i \in 1..Len(batches) : batches[i] \in BatchesSent
    OBVIOUS
  <2> QED BY <2>1, BatchFacts
<1> HIDE DEF longer
<1>1. \A i \in 1..Len(longer) : longer[i].pid = batch.pid =>
         /\ longer[i].base + longer[i].count =< batch.base + batch.count
         /\ longer[i].epoch =< batch.epoch
  <2> TAKE i \in 1..Len(longer)
  <2>1. CASE i \in 1..Len(batches)
    <3>1. batches[i].pid = batch.pid => /\ batches[i].base + batches[i].count =< batch.base
                                        /\ batches[i].epoch =< batch.epoch
      BY <2>1, FollowsMeans
    <3>2. batches[i].base + batches[i].count =< batch.base
             => batches[i].base + batches[i].count =< batch.base + batch.count
      BY <1>b, <1>c, <2>1
    <3> QED BY <1>a, <2>1, <3>1, <3>2
  <2>2. CASE i = Len(batches) + 1
    BY <1>a, <1>b, <2>2
  <2> QED BY <1>a, <2>1, <2>2
<1>2. \E i \in 1..Len(longer) : /\ longer[i].pid = batch.pid
                                /\ longer[i].base + longer[i].count = batch.base + batch.count
  BY <1>a
<1>3. \A w \in 1..Len(state.window) :
         \E i \in 1..Len(longer) : longer[i].pid = batch.pid /\ longer[i] = state.window[w]
  <2>1. CASE Fits(batches, batch.pid, state)
    BY <1>a, <2>1 DEF Fits
  <2>2. CASE Fits(longer, batch.pid, state)
    BY <2>2 DEF Fits
  <2> QED BY <2>1, <2>2 DEF longer
<1>4. \A w \in 1..Len(Remembering(state.window, batch)) :
         \E i \in 1..Len(longer) :
            longer[i].pid = batch.pid /\ longer[i] = Remembering(state.window, batch)[w]
  <2>1. \A w \in 1..Len(Remembering(state.window, batch)) :
              \/ Remembering(state.window, batch)[w] = batch
              \/ \E v \in 1..Len(state.window) : Remembering(state.window, batch)[w] = state.window[v]
    BY <1>b, RememberingType
  <2> QED BY <1>3, <1>a, <2>1
<1>5. \A i \in 1..Len(longer) : longer[i].epoch \in Nat
  BY <1>a, <1>b, <1>c
<1>6. /\ Admitted(state, batch).next = batch.base + batch.count
      /\ Admitted(state, batch).epoch = batch.epoch
      /\ Admitted(state, batch).window = Remembering(state.window, batch)
  BY DEF Admitted
<1>7. /\ Restored(state, batch).next = batch.base + batch.count
      /\ Restored(state, batch).epoch = MaxEpoch(state.epoch, batch.epoch)
      /\ Restored(state, batch).window = Remembering(state.window, batch)
  BY DEF Restored
<1>8. batch.epoch =< MaxEpoch(state.epoch, batch.epoch) /\ MaxEpoch(state.epoch, batch.epoch) \in Nat
  BY <1>b DEF MaxEpoch
<1>9. \A i \in 1..Len(longer) : longer[i].epoch =< batch.epoch
                                  => longer[i].epoch =< MaxEpoch(state.epoch, batch.epoch)
  BY <1>5, <1>8, <1>b
<1>10. Fits(longer, batch.pid, Admitted(state, batch))
  BY <1>1, <1>2, <1>4, <1>6 DEF Fits
<1>11. Fits(longer, batch.pid, Restored(state, batch))
  BY <1>1, <1>2, <1>4, <1>7, <1>9 DEF Fits
<1> QED BY <1>10, <1>11 DEF longer

\* Another producer's batch is nothing to a state.
LEMMA FitsOthers ==
  ASSUME NEW batches \in Seq(BatchesSent), NEW batch \in BatchesSent, NEW state,
         NEW p, batch.pid # p
  PROVE  Fits(Append(batches, batch), p, state) <=> Fits(batches, p, state)
<1> DEFINE longer == Append(batches, batch)
<1>a. /\ Len(longer) = Len(batches) + 1 /\ longer[Len(batches) + 1].pid # p
      /\ \A i \in 1..Len(batches) : longer[i] = batches[i]
      /\ \A i \in 1..Len(longer) : i \in 1..Len(batches) \/ i = Len(batches) + 1
      /\ \A i \in 1..Len(batches) : i \in 1..Len(longer)
  BY AppendFacts
<1> HIDE DEF longer
<1>1. ASSUME Fits(longer, p, state) PROVE Fits(batches, p, state)
  BY <1>1, <1>a DEF Fits
<1>2. ASSUME Fits(batches, p, state) PROVE Fits(longer, p, state)
  BY <1>2, <1>a DEF Fits
<1> QED BY <1>1, <1>2 DEF longer

\* An entry replaced by a state that fits leaves a table that fits.
LEMMA FitsAllExcept ==
  ASSUME NEW batches \in Seq(BatchesSent), NEW batch \in BatchesSent,
         NEW known \in [Pids -> States], NEW state,
         FitsAll(batches, known) \/ FitsAll(Append(batches, batch), known),
         Fits(Append(batches, batch), batch.pid, state)
  PROVE  FitsAll(Append(batches, batch), [known EXCEPT ![batch.pid] = state])
<1> SUFFICES ASSUME NEW p \in Pids
             PROVE  Fits(Append(batches, batch), p, [known EXCEPT ![batch.pid] = state][p])
  BY DEF FitsAll
<1>1. CASE p = batch.pid
  <2>1. [known EXCEPT ![batch.pid] = state][p] = state
    BY <1>1
  <2> QED BY <1>1, <2>1
<1>2. CASE p # batch.pid
  <2>1. [known EXCEPT ![batch.pid] = state][p] = known[p]
    BY <1>2
  <2>2. Fits(batches, p, known[p]) \/ Fits(Append(batches, batch), p, known[p])
    BY DEF FitsAll
  <2> QED BY <1>2, <2>1, <2>2, FitsOthers
<1> QED BY <1>1, <1>2

\* Rewinding the admission of a batch leaves a table that fits what was there.
LEMMA FitsAllRewound ==
  ASSUME NEW batches \in Seq(BatchesSent), NEW batch \in BatchesSent,
         NEW known \in [Pids -> States], NEW before,
         FitsAll(Append(batches, batch), known), Fits(batches, batch.pid, before)
  PROVE  FitsAll(batches, [known EXCEPT ![batch.pid] = before])
<1> SUFFICES ASSUME NEW p \in Pids
             PROVE  Fits(batches, p, [known EXCEPT ![batch.pid] = before][p])
  BY DEF FitsAll
<1>1. CASE p = batch.pid
  <2>1. [known EXCEPT ![batch.pid] = before][p] = before
    BY <1>1
  <2> QED BY <1>1, <2>1
<1>2. CASE p # batch.pid
  <2>1. [known EXCEPT ![batch.pid] = before][p] = known[p]
    BY <1>2
  <2>2. Fits(Append(batches, batch), p, known[p])
    BY DEF FitsAll
  <2> QED BY <1>2, <2>1, <2>2, FitsOthers
<1> QED BY <1>1, <1>2

LEMMA InitialisedFields ==
  ASSUME NEW state \in States
  PROVE  Initialised(state) = [epoch |-> state.epoch + 1, next |-> state.next,
                               window |-> state.window]
BY DEF Initialised, States

\* A new incarnation changes nothing but the fence.
LEMMA FitsInitialised ==
  ASSUME NEW batches \in Seq(BatchesSent), NEW known \in [Pids -> States], NEW p \in Pids,
         FitsAll(batches, known)
  PROVE  FitsAll(batches, [known EXCEPT ![p] = Initialised(known[p])])
<1> SUFFICES ASSUME NEW q \in Pids
             PROVE  Fits(batches, q, [known EXCEPT ![p] = Initialised(known[p])][q])
  BY DEF FitsAll
<1>1. CASE q # p
  <2>1. [known EXCEPT ![p] = Initialised(known[p])][q] = known[q]
    BY <1>1
  <2> QED BY <2>1 DEF FitsAll
<1>2. CASE q = p
  <2>1. [known EXCEPT ![p] = Initialised(known[p])][q] = Initialised(known[p])
    BY <1>2
  <2>2. known[p] \in States /\ known[p].epoch \in Nat
    BY StateFacts
  <2>3. Initialised(known[p]) = [epoch |-> known[p].epoch + 1, next |-> known[p].next,
                                 window |-> known[p].window]
    BY <2>2, InitialisedFields
  <2>4. \A i \in 1..Len(batches) : batches[i].epoch \in Nat
    <3>1. \A i \in 1..Len(batches) : batches[i] \in BatchesSent
      OBVIOUS
    <3> QED BY <3>1, BatchFacts
  <2>5. Fits(batches, p, known[p])
    BY DEF FitsAll
  <2> DEFINE raised == Initialised(known[p])
  <2>6. /\ raised.next = known[p].next /\ raised.window = known[p].window
        /\ \A i \in 1..Len(batches) :
              batches[i].epoch =< known[p].epoch => batches[i].epoch =< raised.epoch
    BY <2>2, <2>3, <2>4
  <2> HIDE DEF raised
  <2>7. Fits(batches, p, raised)
    BY <2>5, <2>6 DEF Fits
  <2> QED BY <1>2, <2>1, <2>7 DEF raised
<1> QED BY <1>1, <1>2

LEMMA SameBatch ==
  ASSUME NEW batch \in BatchesSent, NEW other \in BatchesSent,
         batch.pid = other.pid, batch.epoch = other.epoch, batch.base = other.base,
         batch.count = other.count, batch.payload = other.payload
  PROVE  batch = other
BY DEF BatchesSent, Batch

\* A verified duplicate is one of the batches the table was built from.
LEMMA DuplicateIsThere ==
  ASSUME NEW batches \in Seq(BatchesSent), NEW batch \in BatchesSent, NEW state \in States,
         Fits(batches, batch.pid, state), Duplicate(state, batch)
  PROVE  \E j \in 1..Len(batches) : batches[j] = batch
<1>1. PICK w \in 1..Len(state.window) :
         /\ state.window[w].epoch = batch.epoch /\ state.window[w].base = batch.base
         /\ state.window[w].count = batch.count /\ state.window[w].payload = batch.payload
  BY DEF Duplicate, Matches
<1>2. PICK j \in 1..Len(batches) : batches[j].pid = batch.pid /\ batches[j] = state.window[w]
  BY DEF Fits
<1>3. batches[j] \in BatchesSent
  OBVIOUS
<1>4. batches[j] = batch
  BY <1>1, <1>2, <1>3, SameBatch
<1> QED BY <1>4
--------------------------------------------------------------------------------
(* The invariant, by the parts of the state, over the rows a step leaves.  *)

\* The batches of the first n rows.
First(r, n) == [i \in 1..n |-> r[i].batch]

\* Every row follows the rows before it.
RowsFollow(r) == \A k \in 0..(Len(r) - 1) : Promise!Follows(r[k + 1].batch, First(r, k))

\* So does every commit that may still land, at the offset it asks for.
LateFollow(r) ==
  \A request \in late : /\ request.offset =< Len(r)
                        /\ Promise!Follows(request.batch, First(r, request.offset))

\* A disk is the beginning of the managed log, and what it reads back as fits it.
DisksFit(r) ==
  \A b \in Brokers : /\ Len(log[b]) =< Len(r) /\ log[b] = First(r, Len(log[b]))
                     /\ FitsAll(log[b], replay[b])

\* What a call asks for is the batch after its broker's disk, which its table
\* already counts; once committed, it is the row after that disk.
CallFits(r, b) ==
  LET request == call[b].request IN
  /\ request.offset = Len(log[b])
  /\ Promise!Follows(request.batch, log[b])
  /\ Fits(log[b], request.batch.pid, call[b].before)
  /\ FitsAll(Append(log[b], request.batch), table[b])
  /\ call[b].state = "committed" =>
        Len(log[b]) < Len(r) /\ r[Len(log[b]) + 1].batch = request.batch

CallsFit(r) == \A b \in Brokers : call[b] # NoCall => CallFits(r, b)

\* Between calls a table fits its broker's disk, or is one row ahead of it
\* after an append that failed, and then the broker does not serve.
Ahead(r, b) == /\ caughtUp[b] = 0 /\ Len(log[b]) < Len(r)
               /\ FitsAll(Append(log[b], r[Len(log[b]) + 1].batch), table[b])

TablesFit(r) ==
  \A b \in Brokers : up[b] /\ call[b] = NoCall => FitsAll(log[b], table[b]) \/ Ahead(r, b)

LogInv(r) == /\ RowsFollow(r) /\ LateFollow(r) /\ DisksFit(r)
             /\ CallsFit(r) /\ TablesFit(r)

LEMMA FirstFacts ==
  ASSUME NEW r \in Seq(Requests), NEW n \in 0..Len(r)
  PROVE  /\ First(r, n) \in Seq(BatchesSent) /\ Len(First(r, n)) = n
         /\ \A i \in 1..n : First(r, n)[i] = r[i].batch
<1>1. \A i \in 1..n : r[i] \in Requests
  OBVIOUS
<1>2. \A i \in 1..n : r[i].batch \in BatchesSent
  BY <1>1, RequestFacts
<1>3. n \in Nat
  OBVIOUS
<1>4. First(r, n) \in [1..n -> BatchesSent]
  BY <1>2 DEF First
<1> QED BY <1>3, <1>4 DEF First

\* A log that grows by one row keeps the beginnings it had.
LEMMA FirstStays ==
  ASSUME NEW r \in Seq(Requests), NEW request \in Requests, NEW n \in 0..Len(r)
  PROVE  First(Append(r, request), n) = First(r, n)
<1>1. \A i \in 1..n : Append(r, request)[i] = r[i]
  OBVIOUS
<1> QED BY <1>1 DEF First

LEMMA SameSeq ==
  ASSUME NEW S, NEW s \in Seq(S), NEW t \in Seq(S), Len(s) = Len(t),
         \A i \in 1..Len(s) : s[i] = t[i]
  PROVE  s = t
OBVIOUS

LEMMA LogTypes ==
  ASSUME TypeInv, NEW b \in Brokers
  PROVE  /\ log[b] \in Seq(BatchesSent) /\ Len(log[b]) \in Nat
         /\ table[b] \in [Pids -> States] /\ replay[b] \in [Pids -> States]
         /\ \A p \in Pids : /\ table[b][p] \in States /\ Len(table[b][p].window) =< WindowSize
                            /\ replay[b][p] \in States /\ Len(replay[b][p].window) =< WindowSize
<1>1. log[b] \in Seq(BatchesSent) /\ table[b] \in [Pids -> States] /\ replay[b] \in [Pids -> States]
  BY DEF TypeInv, TypeOK
<1>2. \A p \in Pids : /\ table[b][p] \in States /\ replay[b][p] \in States
  BY <1>1
<1>3. \A p \in Pids : Len(table[b][p].window) =< WindowSize /\ Len(replay[b][p].window) =< WindowSize
  BY DEF TypeInv, TypeOK
<1> QED BY <1>1, <1>2, <1>3

\* A committed row leaves everything else in place: the other calls, the disks
\* and the commits still on their way.
LEMMA RowsGrow ==
  ASSUME TypeInv, LogInv(rows), NEW request \in Requests,
         Promise!Follows(request.batch, First(rows, Len(rows)))
  PROVE  LogInv(Append(rows, request))
<1> DEFINE longer == Append(rows, request)
<1>a. /\ rows \in Seq(Requests) /\ Len(rows) \in Nat
      /\ longer \in Seq(Requests) /\ Len(longer) = Len(rows) + 1
      /\ longer[Len(rows) + 1] = request
      /\ \A i \in 1..Len(rows) : longer[i] = rows[i]
  BY RowsFacts
<1>b. \A n \in 0..Len(rows) : First(longer, n) = First(rows, n)
  BY <1>a, FirstStays
<1> HIDE DEF longer
<1>1. RowsFollow(longer)
  <2> SUFFICES ASSUME NEW k \in 0..(Len(longer) - 1)
               PROVE  Promise!Follows(longer[k + 1].batch, First(longer, k))
    BY DEF RowsFollow
  <2>1. CASE k = Len(rows)
    BY <1>a, <1>b, <2>1
  <2>2. CASE k # Len(rows)
    <3>1. k \in 0..(Len(rows) - 1) /\ k + 1 \in 1..Len(rows) /\ k \in 0..Len(rows)
      BY <1>a, <2>2
    <3> QED BY <1>a, <1>b, <3>1 DEF LogInv, RowsFollow
  <2> QED BY <2>1, <2>2
<1>2. LateFollow(longer)
  <2> SUFFICES ASSUME NEW r \in late
               PROVE  /\ r.offset =< Len(longer)
                      /\ Promise!Follows(r.batch, First(longer, r.offset))
    BY DEF LateFollow
  <2>1. r \in Requests
    BY DEF TypeInv, TypeOK
  <2>2. r.offset \in Nat /\ r.offset =< Len(rows)
    BY <2>1, RequestFacts DEF LogInv, LateFollow
  <2>3. r.offset \in 0..Len(rows)
    BY <1>a, <2>2
  <2> QED BY <1>a, <1>b, <2>2, <2>3 DEF LogInv, LateFollow
<1>3. DisksFit(longer)
  <2> SUFFICES ASSUME NEW b \in Brokers
               PROVE  /\ Len(log[b]) =< Len(longer) /\ log[b] = First(longer, Len(log[b]))
                      /\ FitsAll(log[b], replay[b])
    BY DEF DisksFit
  <2>1. /\ Len(log[b]) =< Len(rows) /\ log[b] = First(rows, Len(log[b]))
        /\ FitsAll(log[b], replay[b]) /\ Len(log[b]) \in Nat
    BY LogTypes DEF LogInv, DisksFit
  <2>2. Len(log[b]) \in 0..Len(rows)
    BY <1>a, <2>1
  <2> QED BY <1>a, <1>b, <2>1, <2>2
<1>c. \A b \in Brokers : Len(log[b]) < Len(rows) =>
         /\ Len(log[b]) < Len(longer) /\ longer[Len(log[b]) + 1] = rows[Len(log[b]) + 1]
  <2> TAKE b \in Brokers
  <2>1. Len(log[b]) \in Nat
    BY LogTypes
  <2> QED BY <1>a, <2>1
<1>4. CallsFit(longer)
  BY <1>c DEF LogInv, CallsFit, CallFits
<1>5. TablesFit(longer)
  BY <1>c DEF LogInv, TablesFit, Ahead
<1> QED BY <1>1, <1>2, <1>3, <1>4, <1>5 DEF LogInv, longer

\* The database takes a commit only at the end of its log, where it follows.
LEMMA CommitGrows ==
  ASSUME TypeInv, LogInv(rows), NEW request \in Requests, rows' = RowsAfter(request),
         request.offset =< Len(rows),
         Promise!Follows(request.batch, First(rows, request.offset))
  PROVE  /\ LogInv(rows')
         /\ Verdict(request) = "committed" => rows' = Append(rows, request)
         /\ Verdict(request) # "committed" => rows' = rows
<1>1. CASE Verdict(request) = "committed"
  <2>1. rows' = Append(rows, request) /\ request.offset = Len(rows)
    BY <1>1, CommittedByLease DEF RowsAfter
  <2> QED BY <1>1, <2>1, RowsGrow
<1>2. CASE Verdict(request) # "committed"
  BY <1>2 DEF RowsAfter
<1> QED BY <1>1, <1>2
--------------------------------------------------------------------------------
(* Every step keeps the invariant.                                         *)

\* What the invariant says of one broker.
BrokerFits(r, b) ==
  /\ Len(log[b]) =< Len(r) /\ log[b] = First(r, Len(log[b])) /\ FitsAll(log[b], replay[b])
  /\ call[b] # NoCall => CallFits(r, b)
  /\ up[b] /\ call[b] = NoCall => FitsAll(log[b], table[b]) \/ Ahead(r, b)

LEMMA ByBroker ==
  ASSUME NEW r
  PROVE  LogInv(r) <=> /\ RowsFollow(r) /\ LateFollow(r)
                       /\ \A b \in Brokers : BrokerFits(r, b)
BY DEF LogInv, DisksFit, CallsFit, TablesFit, BrokerFits

LEMMA BrokerDomains ==
  ASSUME TypeInv
  PROVE  /\ DOMAIN log = Brokers /\ DOMAIN replay = Brokers /\ DOMAIN table = Brokers
         /\ DOMAIN call = Brokers /\ DOMAIN caughtUp = Brokers /\ DOMAIN up = Brokers
         /\ log = [b \in Brokers |-> log[b]] /\ replay = [b \in Brokers |-> replay[b]]
         /\ table = [b \in Brokers |-> table[b]] /\ call = [b \in Brokers |-> call[b]]
         /\ caughtUp = [b \in Brokers |-> caughtUp[b]] /\ up = [b \in Brokers |-> up[b]]
BY DEF TypeInv, TypeOK

\* A step of one broker disturbs nothing of another.
OthersStay(b) ==
  \A d \in Brokers : d # b =>
     /\ log'[d] = log[d] /\ replay'[d] = replay[d] /\ table'[d] = table[d]
     /\ call'[d] = call[d] /\ caughtUp'[d] = caughtUp[d] /\ up'[d] = up[d]

LEMMA OneBroker ==
  ASSUME LogInv(rows), UNCHANGED rows, NEW b \in Brokers, OthersStay(b),
         LateFollow(rows)', BrokerFits(rows, b)'
  PROVE  LogInv(rows)'
<1>1. RowsFollow(rows)'
  BY DEF LogInv, RowsFollow, First
<1>2. ASSUME NEW d \in Brokers PROVE BrokerFits(rows, d)'
  <2>1. CASE d = b
    BY <2>1
  <2>2. CASE d # b
    <3>1. BrokerFits(rows, d)
      BY ByBroker
    <3>2. /\ log'[d] = log[d] /\ replay'[d] = replay[d] /\ table'[d] = table[d]
          /\ call'[d] = call[d] /\ caughtUp'[d] = caughtUp[d] /\ up'[d] = up[d]
      BY <2>2 DEF OthersStay
    <3> QED BY <3>1, <3>2 DEF BrokerFits, CallFits, Ahead
  <2> QED BY <2>1, <2>2
<1> QED BY <1>1, <1>2 DEF LogInv, DisksFit, CallsFit, TablesFit, BrokerFits

\* Nothing the invariant reads of the brokers moves.
LEMMA LateStays ==
  ASSUME LogInv(rows), UNCHANGED <<rows, late>>
  PROVE  LateFollow(rows)'
BY DEF LogInv, LateFollow, First

LEMMA NothingMoves ==
  ASSUME LogInv(rows), UNCHANGED <<rows, late, log, replay, table, call, up>>,
         \A b \in Brokers : caughtUp[b] = 0 => caughtUp'[b] = 0
  PROVE  LogInv(rows)'
<1>1. RowsFollow(rows)' /\ LateFollow(rows)' /\ DisksFit(rows)' /\ CallsFit(rows)'
  BY DEF LogInv, RowsFollow, LateFollow, DisksFit, CallsFit, CallFits, First
<1>2. TablesFit(rows)'
  BY DEF LogInv, TablesFit, Ahead
<1> QED BY <1>1, <1>2 DEF LogInv

\* A request of a call may follow the rows up to its offset.
LEMMA CallRequest ==
  ASSUME TypeInv, LogInv(rows), NEW b \in Brokers, call[b] # NoCall
  PROVE  /\ call[b].request \in Requests /\ call[b].request.offset =< Len(rows)
         /\ Promise!Follows(call[b].request.batch, First(rows, call[b].request.offset))
         /\ CallFits(rows, b)
         /\ log[b] = First(rows, Len(log[b]))
<1>1. call[b].request \in Requests
  BY CallFacts
<1>2. CallFits(rows, b) /\ Len(log[b]) =< Len(rows) /\ log[b] = First(rows, Len(log[b]))
  BY DEF LogInv, CallsFit, DisksFit
<1> QED BY <1>1, <1>2 DEF CallFits

\* What a broker whose answer is lost, or that dies, leaves on its way.
LEMMA LateAdds ==
  ASSUME TypeInv, LogInv(rows), NEW b \in Brokers, UNCHANGED rows,
         late' = IF call[b].state = "asking" THEN late \union {call[b].request} ELSE late
  PROVE  LateFollow(rows)'
<1> SUFFICES ASSUME NEW request \in late'
             PROVE  /\ request.offset =< Len(rows)
                    /\ Promise!Follows(request.batch, First(rows, request.offset))
  BY DEF LateFollow, First
<1>1. CASE request \in late
  BY <1>1 DEF LogInv, LateFollow
<1>2. CASE request \notin late
  <2>1. call[b].state = "asking" /\ request = call[b].request
    BY <1>2
  <2> QED BY <2>1, InCall, CallRequest
<1> QED BY <1>1, <1>2
LEMMA LogLandLate ==
  ASSUME TypeInv, LogInv(rows), NEW request \in late, LandLate(request)
  PROVE  LogInv(rows)'
<1>1. /\ request \in Requests /\ request.offset =< Len(rows)
      /\ Promise!Follows(request.batch, First(rows, request.offset))
  BY DEF TypeInv, TypeOK, LogInv, LateFollow
<1>2. rows' = RowsAfter(request) /\ late' = late \ {request}
      /\ UNCHANGED <<log, replay, table, call, caughtUp, up>>
  BY DEF LandLate, disk, memory, process
<1>3. LogInv(rows')
  BY <1>1, <1>2, CommitGrows
<1>4. RowsFollow(rows)' /\ DisksFit(rows)' /\ CallsFit(rows)' /\ TablesFit(rows)'
  BY <1>2, <1>3 DEF LogInv, RowsFollow, DisksFit, CallsFit, CallFits, TablesFit, Ahead, First
<1>5. LateFollow(rows)'
  BY <1>2, <1>3 DEF LogInv, LateFollow, First
<1> QED BY <1>4, <1>5 DEF LogInv

LEMMA LogDecideCommit ==
  ASSUME TypeInv, LogInv(rows), NEW b \in Brokers, DecideCommit(b)
  PROVE  LogInv(rows)'
<1> DEFINE request == call[b].request
<1>1. call[b].state = "asking" /\ call[b] # NoCall
  BY InCall DEF DecideCommit
<1>2. /\ request \in Requests /\ request.offset =< Len(rows)
      /\ Promise!Follows(request.batch, First(rows, request.offset))
      /\ CallFits(rows, b) /\ call[b] \in Calls
  BY <1>1, CallRequest, CallFacts
<1>3. /\ rows' = RowsAfter(request) /\ call' = [call EXCEPT ![b].state = Verdict(request)]
      /\ UNCHANGED <<late, log, replay, table, caughtUp, up>>
  BY DEF DecideCommit, disk, process
<1>4. /\ LogInv(rows')
      /\ Verdict(request) = "committed" => rows' = Append(rows, request)
  BY <1>2, <1>3, CommitGrows
<1>5. /\ call'[b].request = request /\ call'[b].before = call[b].before
      /\ call'[b].state = Verdict(request) /\ call'[b] # NoCall
      /\ \A d \in Brokers : d # b => call'[d] = call[d]
  <2>1. call'[b] = [call[b] EXCEPT !.state = Verdict(request)]
    BY <1>3, BrokerDomains
  <2>2. /\ call'[b].request = request /\ call'[b].before = call[b].before
        /\ call'[b].state = Verdict(request)
    BY <1>2, <2>1 DEF Calls
  <2>3. Verdict(request) # "none"
    BY DEF Verdict
  <2>4. call'[b] # NoCall
    BY <2>2, <2>3 DEF NoCall
  <2> QED BY <1>3, <2>2, <2>4, BrokerDomains
<1>6. RowsFollow(rows)' /\ LateFollow(rows)' /\ DisksFit(rows)'
  BY <1>3, <1>4 DEF LogInv, RowsFollow, LateFollow, DisksFit, First
<1>7. CallsFit(rows)'
  <2> SUFFICES ASSUME NEW d \in Brokers, call'[d] # NoCall PROVE CallFits(rows, d)'
    BY DEF CallsFit
  <2>1. CASE d # b
    BY <1>3, <1>4, <1>5, <2>1 DEF LogInv, CallsFit, CallFits
  <2>2. CASE d = b
    <3>1. /\ request.offset = Len(log[b]) /\ Promise!Follows(request.batch, log[b])
          /\ Fits(log[b], request.batch.pid, call[b].before)
          /\ FitsAll(Append(log[b], request.batch), table[b])
      BY <1>2 DEF CallFits
    <3>2. Verdict(request) = "committed" =>
            Len(log[b]) < Len(rows') /\ rows'[Len(log[b]) + 1].batch = request.batch
      <4> SUFFICES ASSUME Verdict(request) = "committed"
                   PROVE  Len(log[b]) < Len(rows') /\ rows'[Len(log[b]) + 1].batch = request.batch
        OBVIOUS
      <4>1. request.offset = Len(rows) /\ rows' = Append(rows, request)
        BY <1>4, CommittedByLease
      <4>2. /\ Len(rows') = Len(rows) + 1 /\ rows'[Len(rows) + 1] = request
            /\ Len(rows) \in Nat
        BY <1>2, <4>1, RowsFacts
      <4> QED BY <3>1, <4>1, <4>2
    <3> QED BY <1>3, <1>5, <2>2, <3>1, <3>2 DEF CallFits
  <2> QED BY <2>1, <2>2
<1>8. TablesFit(rows)'
  <2> SUFFICES ASSUME NEW d \in Brokers, up'[d], call'[d] = NoCall
               PROVE  (FitsAll(log[d], table[d]) \/ Ahead(rows, d))'
    BY DEF TablesFit
  <2>1. d # b /\ call[d] = NoCall /\ up[d]
    BY <1>3, <1>5
  <2>2. FitsAll(log[d], table[d]) \/ Ahead(rows', d)
    BY <1>4, <2>1 DEF LogInv, TablesFit
  <2> QED BY <1>3, <2>2 DEF Ahead
<1> QED BY <1>6, <1>7, <1>8 DEF LogInv

\* The row after a broker's disk follows that disk, and extends it to the next
\* beginning of the managed log.
LEMMA NextRow ==
  ASSUME TypeInv, LogInv(rows), NEW b \in Brokers, Len(log[b]) < Len(rows),
         NEW batch, batch = rows[Len(log[b]) + 1].batch
  PROVE  /\ batch \in BatchesSent /\ batch.pid \in Pids
         /\ Promise!Follows(batch, log[b])
         /\ Len(Append(log[b], batch)) = Len(log[b]) + 1
         /\ Append(log[b], batch) = First(rows, Len(log[b]) + 1)
         /\ FitsAll(Append(log[b], batch),
                    [replay[b] EXCEPT ![batch.pid] = Restored(replay[b][batch.pid], batch)])
<1>1. /\ log[b] \in Seq(BatchesSent) /\ Len(log[b]) \in Nat
      /\ rows \in Seq(Requests) /\ Len(rows) \in Nat
  BY LogTypes, RowsFacts
<1>2. Len(log[b]) + 1 \in 1..Len(rows) /\ Len(log[b]) \in 0..(Len(rows) - 1)
  BY <1>1
<1>3. batch \in BatchesSent /\ batch.pid \in Pids
  BY <1>2, RowsFacts, RequestFacts, BatchFacts
<1>4. log[b] = First(rows, Len(log[b])) /\ Promise!Follows(batch, log[b])
  BY <1>2 DEF LogInv, RowsFollow, DisksFit
<1>5. /\ First(rows, Len(log[b]) + 1) \in Seq(BatchesSent)
      /\ Len(First(rows, Len(log[b]) + 1)) = Len(log[b]) + 1
      /\ \A i \in 1..(Len(log[b]) + 1) : First(rows, Len(log[b]) + 1)[i] = rows[i].batch
  BY <1>1, <1>2, FirstFacts
<1>6. \A i \in 1..Len(log[b]) : log[b][i] = rows[i].batch
  BY <1>4 DEF First
<1> DEFINE longer == Append(log[b], batch)
<1>7. /\ longer \in Seq(BatchesSent) /\ Len(longer) = Len(log[b]) + 1
      /\ longer[Len(log[b]) + 1] = batch
      /\ \A i \in 1..Len(log[b]) : longer[i] = log[b][i]
  BY <1>1, <1>3, AppendFacts
<1> HIDE DEF longer
<1>8. \A i \in 1..(Len(log[b]) + 1) : longer[i] = rows[i].batch
  BY <1>1, <1>6, <1>7
<1>9. \A i \in 1..Len(longer) : longer[i] = First(rows, Len(log[b]) + 1)[i]
  BY <1>5, <1>7, <1>8
<1>10. longer = First(rows, Len(log[b]) + 1)
  BY <1>5, <1>7, <1>9, SameSeq
<1>11. FitsAll(longer, [replay[b] EXCEPT ![batch.pid] = Restored(replay[b][batch.pid], batch)])
  <2>1. replay[b] \in [Pids -> States] /\ replay[b][batch.pid] \in States
        /\ Len(replay[b][batch.pid].window) =< WindowSize
    BY <1>3, LogTypes
  <2>2. FitsAll(log[b], replay[b])
    BY DEF LogInv, DisksFit
  <2>3. Fits(Append(log[b], batch), batch.pid, Restored(replay[b][batch.pid], batch))
    BY <1>1, <1>3, <1>4, <2>1, <2>2, FitsAfter DEF FitsAll
  <2> QED BY <1>1, <1>3, <2>1, <2>2, <2>3, FitsAllExcept DEF longer
<1> QED BY <1>3, <1>4, <1>7, <1>10, <1>11 DEF longer

LEMMA LogCatchUpRow ==
  ASSUME TypeInv, LogInv(rows), NEW b \in Brokers, CatchUpRow(b)
  PROVE  LogInv(rows)'
<1> DEFINE batch == rows[Len(log[b]) + 1].batch
<1>1. /\ up[b] /\ call[b] = NoCall /\ Len(log[b]) < Len(rows)
      /\ log' = [log EXCEPT ![b] = Append(log[b], batch)]
      /\ replay' = [replay EXCEPT ![b][batch.pid] = Restored(replay[b][batch.pid], batch)]
      /\ table' = [table EXCEPT ![b][batch.pid] = Restored(table[b][batch.pid], batch)]
      /\ UNCHANGED <<rows, late, call, up>>
      /\ caughtUp' = [caughtUp EXCEPT ![b] = IF lease[b] = 0 THEN 0 ELSE caughtUp[b]]
  BY DEF CatchUpRow, database, process
<1>2. FitsAll(log[b], table[b]) \/ FitsAll(Append(log[b], batch), table[b])
  BY <1>1 DEF LogInv, TablesFit, Ahead
<1> HIDE DEF batch
<1>3. /\ log'[b] = Append(log[b], batch)
      /\ replay'[b] = [replay[b] EXCEPT ![batch.pid] = Restored(replay[b][batch.pid], batch)]
      /\ table'[b] = [table[b] EXCEPT ![batch.pid] = Restored(table[b][batch.pid], batch)]
      /\ OthersStay(b)
  BY <1>1, BrokerDomains DEF OthersStay
<1>4. /\ batch \in BatchesSent /\ batch.pid \in Pids /\ Promise!Follows(batch, log[b])
      /\ Len(log'[b]) = Len(log[b]) + 1 /\ log'[b] = First(rows, Len(log[b]) + 1)
      /\ FitsAll(log'[b], replay'[b])
  <2>1. batch = rows[Len(log[b]) + 1].batch
    BY DEF batch
  <2>2. /\ batch \in BatchesSent /\ batch.pid \in Pids
        /\ Promise!Follows(batch, log[b])
        /\ Len(Append(log[b], batch)) = Len(log[b]) + 1
        /\ Append(log[b], batch) = First(rows, Len(log[b]) + 1)
        /\ FitsAll(Append(log[b], batch),
                   [replay[b] EXCEPT ![batch.pid] = Restored(replay[b][batch.pid], batch)])
    BY <1>1, <2>1, NextRow
  <2> QED BY <1>3, <2>2, Zenon
<1>5. FitsAll(log'[b], table'[b])
  <2>1. /\ table[b] \in [Pids -> States] /\ table[b][batch.pid] \in States
        /\ Len(table[b][batch.pid].window) =< WindowSize /\ log[b] \in Seq(BatchesSent)
    BY <1>4, LogTypes
  <2>2. \/ Fits(log[b], batch.pid, table[b][batch.pid])
        \/ Fits(Append(log[b], batch), batch.pid, table[b][batch.pid])
    BY <1>2, <1>4 DEF FitsAll
  <2>3. Fits(Append(log[b], batch), batch.pid, Restored(table[b][batch.pid], batch))
    BY <1>4, <2>1, <2>2, FitsAfter
  <2>4. FitsAll(Append(log[b], batch),
                [table[b] EXCEPT ![batch.pid] = Restored(table[b][batch.pid], batch)])
    BY <1>2, <1>4, <2>1, <2>3, FitsAllExcept
  <2> QED BY <1>3, <2>4, Zenon
<1>6. BrokerFits(rows, b)'
  <2>1. Len(log[b]) \in Nat /\ Len(rows) \in Nat
    BY LogTypes, RowsFacts
  <2>2. Len(log'[b]) =< Len(rows') /\ log'[b] = First(rows, Len(log'[b]))
    BY <1>1, <1>4, <2>1
  <2>3. call'[b] = NoCall
    BY <1>1
  <2> QED BY <1>1, <1>4, <1>5, <2>2, <2>3 DEF BrokerFits, First
<1>7. LateFollow(rows)'
  BY <1>1, LateStays
<1> QED BY <1>1, <1>3, <1>6, <1>7, OneBroker

LEMMA LogCaughtUp ==
  ASSUME TypeInv, LogInv(rows), NEW b \in Brokers, CaughtUp(b)
  PROVE  LogInv(rows)'
<1>1. /\ up[b] /\ call[b] = NoCall /\ Len(log[b]) = Len(rows)
      /\ UNCHANGED <<rows, late, log, replay, table, call, up>>
      /\ caughtUp' = [caughtUp EXCEPT ![b] = lease[b]]
  BY DEF CaughtUp, database, disk, process
<1>2. Len(log[b]) \in Nat /\ Len(rows) \in Nat
  BY LogTypes, RowsFacts
<1>3. BrokerFits(rows, b) /\ ~(Len(log[b]) < Len(rows))
  BY <1>1, <1>2, ByBroker
<1>4. BrokerFits(rows, b)'
  BY <1>1, <1>3 DEF BrokerFits, Ahead, First
<1>5. OthersStay(b) /\ LateFollow(rows)'
  BY <1>1, BrokerDomains, LateStays DEF OthersStay
<1> QED BY <1>1, <1>4, <1>5, OneBroker

LEMMA LogInitProducer ==
  ASSUME TypeInv, LogInv(rows), NEW b \in Brokers, NEW c \in Clients, InitProducer(b, c)
  PROVE  LogInv(rows)'
<1> DEFINE p == Owner[c]  raised == [table[b] EXCEPT ![p] = Initialised(table[b][p])]
<1>1. /\ table' = [table EXCEPT ![b][p] = Initialised(table[b][p])]
      /\ UNCHANGED <<rows, late, log, replay, call, up, caughtUp>>
  BY DEF InitProducer, database, disk, process
<1>2. p \in Pids /\ table[b] \in [Pids -> States] /\ log[b] \in Seq(BatchesSent)
  BY OwnerAssumption, LogTypes
<1>3. table'[b] = raised /\ OthersStay(b)
  BY <1>1, BrokerDomains DEF OthersStay
<1>4. \A batches \in Seq(BatchesSent) : FitsAll(batches, table[b]) => FitsAll(batches, raised)
  BY <1>2, FitsInitialised
<1> HIDE DEF raised
<1>5. call[b] # NoCall => Append(log[b], call[b].request.batch) \in Seq(BatchesSent)
  BY <1>2, CallFacts, AppendFacts
<1>6. Len(log[b]) < Len(rows) => Append(log[b], rows[Len(log[b]) + 1].batch) \in Seq(BatchesSent)
  <2> SUFFICES ASSUME Len(log[b]) < Len(rows)
               PROVE  Append(log[b], rows[Len(log[b]) + 1].batch) \in Seq(BatchesSent)
    OBVIOUS
  <2>1. rows[Len(log[b]) + 1].batch \in BatchesSent
    BY NextRow
  <2> QED BY <1>2, <2>1, AppendFacts
<1>7. BrokerFits(rows, b)
  BY ByBroker
<1>8. BrokerFits(rows, b)'
  <2>1. (call[b] # NoCall => CallFits(rows, b))'
    BY <1>1, <1>3, <1>4, <1>5, <1>7 DEF BrokerFits, CallFits
  <2>2. (up[b] /\ call[b] = NoCall => FitsAll(log[b], table[b]) \/ Ahead(rows, b))'
    BY <1>1, <1>2, <1>3, <1>4, <1>6, <1>7 DEF BrokerFits, Ahead
  <2> QED BY <1>1, <1>7, <2>1, <2>2 DEF BrokerFits, First
<1>9. LateFollow(rows)'
  BY <1>1, LateStays
<1> QED BY <1>1, <1>3, <1>8, <1>9, OneBroker
LEMMA LogStartCommit ==
  ASSUME TypeInv, LogInv(rows), NEW b \in Brokers, NEW batch \in wire, StartCommit(b, batch)
  PROVE  LogInv(rows)'
<1> DEFINE before == table[b][batch.pid]
           request == [holder |-> Holder(b), epoch |-> lease[b], offset |-> Len(log[b]),
                       batch |-> batch]
           started == [state |-> "asking", before |-> before, request |-> request]
<1>1. /\ up[b] /\ call[b] = NoCall /\ lease[b] # 0 /\ caughtUp[b] = lease[b]
      /\ Fresh(before, batch)
      /\ table' = [table EXCEPT ![b][batch.pid] = Admitted(before, batch)]
      /\ call' = [call EXCEPT ![b] = started]
      /\ UNCHANGED <<rows, late, log, replay, up, caughtUp>>
  BY DEF StartCommit, Serving, database, disk, process
<1>2. /\ batch \in BatchesSent /\ batch.pid \in Pids
      /\ log[b] \in Seq(BatchesSent) /\ table[b] \in [Pids -> States]
      /\ before \in States /\ Len(before.window) =< WindowSize
  BY LogTypes, BatchFacts DEF TypeInv, TypeOK
<1>3. BrokerFits(rows, b) /\ FitsAll(log[b], table[b])
  BY <1>1, ByBroker DEF BrokerFits, Ahead
<1>4. Fits(log[b], batch.pid, before) /\ Promise!Follows(batch, log[b])
  <2>1. Fits(log[b], batch.pid, before)
    BY <1>2, <1>3 DEF FitsAll
  <2> QED BY <1>1, <1>2, <2>1, FreshFollows
<1>5. /\ call'[b] = started
      /\ table'[b] = [table[b] EXCEPT ![batch.pid] = Admitted(before, batch)]
      /\ OthersStay(b)
  BY <1>1, BrokerDomains DEF OthersStay
<1>6. /\ started.state = "asking" /\ started.before = before
      /\ started.request.offset = Len(log[b]) /\ started.request.batch = batch
  OBVIOUS
<1> HIDE DEF before, started
<1>7. FitsAll(Append(log[b], batch), table'[b])
  <2>1. Fits(Append(log[b], batch), batch.pid, Admitted(before, batch))
    BY <1>2, <1>4, FitsAfter
  <2>2. FitsAll(Append(log[b], batch),
                [table[b] EXCEPT ![batch.pid] = Admitted(before, batch)])
    BY <1>2, <1>3, <2>1, FitsAllExcept
  <2> QED BY <1>5, <2>2, Zenon
<1>8. CallFits(rows, b)'
  BY <1>1, <1>4, <1>5, <1>6, <1>7 DEF CallFits
<1>9. call'[b] # NoCall
  BY <1>5, <1>6 DEF NoCall
<1>10. BrokerFits(rows, b)'
  BY <1>1, <1>3, <1>8, <1>9 DEF BrokerFits, First
<1>11. LateFollow(rows)'
  BY <1>1, LateStays
<1> QED BY <1>1, <1>5, <1>10, <1>11, OneBroker

LEMMA LogFinishCommitted ==
  ASSUME TypeInv, LogInv(rows), NEW b \in Brokers, FinishCommitted(b)
  PROVE  LogInv(rows)'
<1> DEFINE batch == call[b].request.batch
<1>1. call[b] # NoCall /\ call[b].state = "committed"
  BY InCall DEF FinishCommitted
<1>2. CallFits(rows, b) /\ Len(log[b]) < Len(rows) /\ batch = rows[Len(log[b]) + 1].batch
  BY <1>1, CallRequest DEF CallFits
<1>3. FitsAll(Append(log[b], batch), table[b])
  BY <1>2 DEF CallFits
<1>4. /\ log' = [log EXCEPT ![b] = Append(log[b], batch)]
      /\ replay' = [replay EXCEPT ![b][batch.pid] = Restored(replay[b][batch.pid], batch)]
      /\ call' = [call EXCEPT ![b] = NoCall]
      /\ UNCHANGED <<rows, late, table, up, caughtUp>>
  BY DEF FinishCommitted, database, process
<1> HIDE DEF batch
<1>5. /\ Len(Append(log[b], batch)) = Len(log[b]) + 1
      /\ Append(log[b], batch) = First(rows, Len(log[b]) + 1)
      /\ FitsAll(Append(log[b], batch),
                 [replay[b] EXCEPT ![batch.pid] = Restored(replay[b][batch.pid], batch)])
  BY <1>2, NextRow
<1>6. /\ log'[b] = Append(log[b], batch) /\ call'[b] = NoCall
      /\ replay'[b] = [replay[b] EXCEPT ![batch.pid] = Restored(replay[b][batch.pid], batch)]
      /\ table'[b] = table[b] /\ OthersStay(b)
  BY <1>4, BrokerDomains DEF OthersStay
<1>7. FitsAll(log'[b], replay'[b])
  BY <1>5, <1>6, Zenon
<1>8. BrokerFits(rows, b)'
  <2>1. Len(log[b]) \in Nat /\ Len(rows) \in Nat
    BY LogTypes, RowsFacts
  <2>2. Len(log'[b]) =< Len(rows') /\ log'[b] = First(rows, Len(log'[b]))
    <3>1. Len(log'[b]) = Len(log[b]) + 1 /\ log'[b] = First(rows, Len(log[b]) + 1)
      BY <1>5, <1>6
    <3>2. rows' = rows
      BY <1>4
    <3>3. Len(log[b]) + 1 =< Len(rows)
      BY <1>2, <2>1
    <3> QED BY <3>1, <3>2, <3>3
  <2>3. FitsAll(log'[b], table'[b])
    BY <1>3, <1>6
  <2> QED BY <1>4, <1>6, <1>7, <2>2, <2>3 DEF BrokerFits, First
<1>9. LateFollow(rows)'
  BY <1>4, LateStays
<1> QED BY <1>4, <1>6, <1>8, <1>9, OneBroker

LEMMA LogLoseAppend ==
  ASSUME TypeInv, LogInv(rows), NEW b \in Brokers, LoseAppend(b)
  PROVE  LogInv(rows)'
<1>1. call[b] # NoCall /\ call[b].state = "committed"
  BY InCall DEF LoseAppend
<1>2. CallFits(rows, b)
  BY <1>1, CallRequest
<1>3. /\ Len(log[b]) < Len(rows)
      /\ FitsAll(Append(log[b], rows[Len(log[b]) + 1].batch), table[b])
  BY <1>1, <1>2 DEF CallFits
<1>4. /\ caughtUp' = [caughtUp EXCEPT ![b] = 0] /\ call' = [call EXCEPT ![b] = NoCall]
      /\ UNCHANGED <<rows, late, log, replay, table, up>>
  BY DEF LoseAppend, database, disk, process
<1>5. caughtUp'[b] = 0 /\ call'[b] = NoCall /\ OthersStay(b)
  BY <1>4, BrokerDomains DEF OthersStay
<1>6. BrokerFits(rows, b) /\ Ahead(rows, b)'
  BY <1>3, <1>4, <1>5, ByBroker DEF Ahead
<1>7. BrokerFits(rows, b)'
  BY <1>4, <1>5, <1>6 DEF BrokerFits, First
<1>8. LateFollow(rows)'
  BY <1>4, LateStays
<1> QED BY <1>4, <1>5, <1>7, <1>8, OneBroker

\* A call given up with its admission rewound.
LEMMA LogRewound ==
  ASSUME TypeInv, LogInv(rows), NEW b \in Brokers, call[b] # NoCall, Rewound(b),
         UNCHANGED <<rows, log, replay, up>>,
         caughtUp' = [caughtUp EXCEPT ![b] = 0], call' = [call EXCEPT ![b] = NoCall],
         LateFollow(rows)'
  PROVE  LogInv(rows)'
<1> DEFINE batch == call[b].request.batch  before == call[b].before
<1>1. CallFits(rows, b) /\ BrokerFits(rows, b)
  BY CallRequest, ByBroker
<1>2. /\ batch \in BatchesSent /\ batch.pid \in Pids /\ log[b] \in Seq(BatchesSent)
      /\ table[b] \in [Pids -> States]
  BY CallFacts, LogTypes
<1>3. Fits(log[b], batch.pid, before) /\ FitsAll(Append(log[b], batch), table[b])
  BY <1>1 DEF CallFits
<1>4. table' = [table EXCEPT ![b][batch.pid] = before]
  BY DEF Rewound
<1> HIDE DEF batch, before
<1>5. /\ table'[b] = [table[b] EXCEPT ![batch.pid] = before]
      /\ call'[b] = NoCall /\ OthersStay(b)
  BY <1>4, BrokerDomains DEF OthersStay
<1>6. FitsAll(log[b], [table[b] EXCEPT ![batch.pid] = before])
  BY <1>2, <1>3, FitsAllRewound
<1>7. FitsAll(log'[b], table'[b])
  BY <1>5, <1>6, Zenon
<1>8. BrokerFits(rows, b)'
  BY <1>1, <1>5, <1>7 DEF BrokerFits, First
<1> QED BY <1>5, <1>8, OneBroker

LEMMA LogFinishRefused ==
  ASSUME TypeInv, LogInv(rows), NEW b \in Brokers, FinishRefused(b)
  PROVE  LogInv(rows)'
<1>1. call[b] # NoCall
  BY InCall DEF FinishRefused
<1>2. /\ Rewound(b) /\ caughtUp' = [caughtUp EXCEPT ![b] = 0]
      /\ call' = [call EXCEPT ![b] = NoCall] /\ UNCHANGED <<rows, late, log, replay, up>>
  BY DEF FinishRefused, database, disk, process
<1> QED BY <1>1, <1>2, LogRewound, LateStays

LEMMA LogLoseAnswer ==
  ASSUME TypeInv, LogInv(rows), NEW b \in Brokers, LoseAnswer(b)
  PROVE  LogInv(rows)'
<1>1. /\ call[b] # NoCall /\ Rewound(b) /\ caughtUp' = [caughtUp EXCEPT ![b] = 0]
      /\ call' = [call EXCEPT ![b] = NoCall] /\ UNCHANGED <<rows, log, replay, up>>
      /\ late' = IF call[b].state = "asking" THEN late \union {call[b].request} ELSE late
  BY DEF LoseAnswer, disk, process
<1> QED BY <1>1, LogRewound, LateAdds

LEMMA LogCrash ==
  ASSUME TypeInv, LogInv(rows), NEW b \in Brokers, Crash(b)
  PROVE  LogInv(rows)'
<1>1. /\ up' = [up EXCEPT ![b] = FALSE] /\ call' = [call EXCEPT ![b] = NoCall]
      /\ caughtUp' = [caughtUp EXCEPT ![b] = 0] /\ table' = [table EXCEPT ![b] = FreshTable]
      /\ late' = IF call[b].state = "asking" THEN late \union {call[b].request} ELSE late
      /\ UNCHANGED <<rows, log, replay>>
  BY DEF Crash, disk
<1>2. ~up'[b] /\ call'[b] = NoCall /\ OthersStay(b)
  BY <1>1, BrokerDomains DEF OthersStay
<1>3. BrokerFits(rows, b)
  BY ByBroker
<1>4. BrokerFits(rows, b)'
  BY <1>1, <1>2, <1>3 DEF BrokerFits, First
<1>5. LateFollow(rows)'
  BY <1>1, LateAdds
<1> QED BY <1>1, <1>2, <1>4, <1>5, OneBroker

\* A process that is down has nothing in progress.
DownIsIdle == \A b \in Brokers : call[b] # NoCall => up[b]

LEMMA DownIsIdleNext == TypeInv /\ DownIsIdle /\ [Next]_vars => DownIsIdle'
<1> SUFFICES ASSUME TypeInv, DownIsIdle, [Next]_vars PROVE DownIsIdle'
  OBVIOUS
<1>1. CASE UNCHANGED <<call, up>>
  BY <1>1 DEF DownIsIdle
<1>2. ASSUME NEW b \in Brokers, FinishCommitted(b) \/ LoseAppend(b) \/ FinishRefused(b)
                                \/ LoseAnswer(b)
      PROVE DownIsIdle'
  <2>1. call' = [call EXCEPT ![b] = NoCall] /\ UNCHANGED up
    BY <1>2 DEF FinishCommitted, LoseAppend, FinishRefused, LoseAnswer, process
  <2> QED BY <2>1, BrokerDomains DEF DownIsIdle
<1>3. ASSUME NEW b \in Brokers, NEW batch \in wire, StartCommit(b, batch) PROVE DownIsIdle'
  <2>1. /\ up[b] /\ UNCHANGED up /\ \E x : call' = [call EXCEPT ![b] = x]
    BY <1>3 DEF StartCommit, Serving, process
  <2> QED BY <2>1, BrokerDomains DEF DownIsIdle
<1>4. ASSUME NEW b \in Brokers, DecideCommit(b) PROVE DownIsIdle'
  <2>1. call[b] # NoCall
    BY <1>4, InCall DEF DecideCommit
  <2>2. UNCHANGED up /\ call' = [call EXCEPT ![b].state = Verdict(call[b].request)]
    BY <1>4 DEF DecideCommit, process
  <2>3. \A d \in Brokers : d # b => call'[d] = call[d]
    BY <2>2, BrokerDomains
  <2> QED BY <2>1, <2>2, <2>3 DEF DownIsIdle
<1>5. ASSUME NEW b \in Brokers, Crash(b) PROVE DownIsIdle'
  <2>1. call' = [call EXCEPT ![b] = NoCall] /\ up' = [up EXCEPT ![b] = FALSE]
    BY <1>5 DEF Crash
  <2> QED BY <2>1, BrokerDomains DEF DownIsIdle
<1>6. ASSUME NEW b \in Brokers, Restart(b) PROVE DownIsIdle'
  <2>1. UNCHANGED call /\ up' = [up EXCEPT ![b] = TRUE]
    BY <1>6 DEF Restart
  <2> QED BY <2>1, BrokerDomains DEF DownIsIdle
<1>7. CASE Lapse \/ \E request \in late : LandLate(request)
  BY <1>1, <1>7 DEF Lapse, LandLate, memory, process
<1>8. ASSUME NEW b \in Brokers, LeaseThread(b) \/ CatchUp(b) \/ Drain(b) PROVE DownIsIdle'
  BY <1>1, <1>8 DEF LeaseThread, AcquireLease, SettleLease, Relinquish, ReleaseLease, CatchUp,
     CatchUpRow, CaughtUp, Drain, memory, process
<1>9. ASSUME NEW b \in Brokers, NEW batch \in wire,
             AnswerDuplicate(b, batch) \/ Refuse(b, batch)
      PROVE DownIsIdle'
  BY <1>1, <1>9 DEF AnswerDuplicate, Refuse, memory, process
<1>10. ASSUME NEW c \in Clients, Send(c) \/ \E b \in Brokers : InitProducer(b, c)
       PROVE DownIsIdle'
  BY <1>1, <1>10 DEF Send, InitProducer, memory, process
<1>11. CASE UNCHANGED vars
  BY <1>1, <1>11 DEF vars, memory, process
<1> QED BY <1>2, <1>3, <1>4, <1>5, <1>6, <1>7, <1>8, <1>9, <1>10, <1>11
        DEF Next, Committing, Offer

\* Open reads the disk back: the table is what the disk fits.
LEMMA LogRestart ==
  ASSUME TypeInv, LogInv(rows), DownIsIdle, NEW b \in Brokers, Restart(b)
  PROVE  LogInv(rows)'
<1>1. /\ ~up[b] /\ up' = [up EXCEPT ![b] = TRUE] /\ table' = [table EXCEPT ![b] = replay[b]]
      /\ UNCHANGED <<rows, late, log, replay, call, caughtUp>>
  BY DEF Restart, database, disk
<1>2. table'[b] = replay[b] /\ OthersStay(b) /\ call'[b] = NoCall
  BY <1>1, BrokerDomains DEF OthersStay, DownIsIdle
<1>3. BrokerFits(rows, b)
  BY ByBroker
<1>4. BrokerFits(rows, b)'
  BY <1>1, <1>2, <1>3 DEF BrokerFits, First
<1>5. LateFollow(rows)'
  BY <1>1, LateStays
<1> QED BY <1>1, <1>2, <1>4, <1>5, OneBroker

PromiseInv == LogInv(rows) /\ DownIsIdle

LEMMA PromiseInit == Init => PromiseInv
<1> SUFFICES ASSUME Init PROVE PromiseInv
  OBVIOUS
<1>1. Len(rows) = 0 /\ late = {} /\ rows = <<>>
  BY DEF Init
<1>2. \A b \in Brokers : /\ log[b] = <<>> /\ call[b] = NoCall
                         /\ replay[b] = FreshTable /\ table[b] = FreshTable
  BY DEF Init
<1>3. FitsAll(<<>>, FreshTable)
  BY DEF FitsAll, Fits, FreshTable, Unheard
<1>4. First(rows, 0) = <<>>
  BY DEF First
<1>5. \A b \in Brokers : BrokerFits(rows, b)
  BY <1>1, <1>2, <1>3, <1>4 DEF BrokerFits
<1>6. RowsFollow(rows) /\ LateFollow(rows)
  BY <1>1 DEF RowsFollow, LateFollow
<1> QED BY <1>2, <1>5, <1>6, ByBroker DEF PromiseInv, DownIsIdle

LEMMA PromiseNext == TypeInv /\ PromiseInv /\ [Next]_vars => PromiseInv'
<1> SUFFICES ASSUME TypeInv, PromiseInv, [Next]_vars PROVE LogInv(rows)'
  BY DownIsIdleNext DEF PromiseInv
<1>i. LogInv(rows) /\ DownIsIdle
  BY DEF PromiseInv
<1>1. CASE Lapse \/ UNCHANGED vars \/ \E c \in Clients : Send(c)
  <2>1. UNCHANGED <<rows, late, log, replay, table, call, up, caughtUp>>
    BY <1>1 DEF Lapse, Send, vars, database, disk, memory, process
  <2> QED BY <1>i, <2>1, NothingMoves
<1>2. ASSUME NEW request \in late, LandLate(request) PROVE LogInv(rows)'
  BY <1>i, <1>2, LogLandLate
<1>3. ASSUME NEW b \in Brokers, LeaseThread(b) \/ Drain(b) PROVE LogInv(rows)'
  <2>1. /\ UNCHANGED <<rows, late, log, replay, table, call, up>>
        /\ caughtUp' = caughtUp \/ caughtUp' = [caughtUp EXCEPT ![b] = 0]
    BY <1>3 DEF LeaseThread, AcquireLease, SettleLease, Relinquish, ReleaseLease, Drain,
       database, disk, memory, process
  <2>2. \A d \in Brokers : caughtUp[d] = 0 => caughtUp'[d] = 0
    BY <2>1, BrokerDomains
  <2> QED BY <1>i, <2>1, <2>2, NothingMoves
<1>4. ASSUME NEW b \in Brokers, CatchUp(b) PROVE LogInv(rows)'
  BY <1>i, <1>4, LogCatchUpRow, LogCaughtUp DEF CatchUp
<1>5. ASSUME NEW b \in Brokers, Committing(b) PROVE LogInv(rows)'
  BY <1>i, <1>5, LogDecideCommit, LogFinishCommitted, LogFinishRefused DEF Committing
<1>6. ASSUME NEW b \in Brokers, LoseAppend(b) \/ LoseAnswer(b) \/ Crash(b) \/ Restart(b)
      PROVE LogInv(rows)'
  BY <1>i, <1>6, LogLoseAppend, LogLoseAnswer, LogCrash, LogRestart
<1>7. ASSUME NEW b \in Brokers, NEW batch \in wire, Offer(b, batch) PROVE LogInv(rows)'
  <2>1. CASE StartCommit(b, batch)
    BY <1>i, <2>1, LogStartCommit
  <2>2. CASE AnswerDuplicate(b, batch) \/ Refuse(b, batch)
    <3>1. UNCHANGED <<rows, late, log, replay, table, call, up, caughtUp>>
      BY <2>2 DEF AnswerDuplicate, Refuse, database, disk, memory, process
    <3> QED BY <1>i, <3>1, NothingMoves
  <2> QED BY <1>7, <2>1, <2>2 DEF Offer
<1>8. ASSUME NEW b \in Brokers, NEW c \in Clients, InitProducer(b, c) PROVE LogInv(rows)'
  BY <1>i, <1>8, LogInitProducer
<1> QED BY <1>1, <1>2, <1>3, <1>4, <1>5, <1>6, <1>7, <1>8 DEF Next

--------------------------------------------------------------------------------
(* What follows from it.                                                   *)

\* Whatever any broker has on its disk is the beginning of the managed log,
\* with any brokers, producers and faults (ReplicaIsPrefix of FabricBroker).
THEOREM ReplicasArePrefixes == Spec => []ReplicaIsPrefix
<1>1. LogInv(rows) => ReplicaIsPrefix
  <2> SUFFICES ASSUME LogInv(rows), NEW b \in Brokers
               PROVE  /\ Len(log[b]) =< Len(rows)
                      /\ \A i \in 1..Len(log[b]) : log[b][i] = rows[i].batch
    BY DEF ReplicaIsPrefix
  <2>1. Len(log[b]) =< Len(rows) /\ log[b] = First(rows, Len(log[b]))
    BY DEF LogInv, DisksFit
  <2> QED BY <2>1 DEF First
<1>2. PromiseInv => LogInv(rows)
  BY DEF PromiseInv
<1> QED BY <1>1, <1>2, PromiseInit, PromiseNext, TypeInvHolds, PTL DEF Spec
\* A producer's slot is taken once along the managed log.
LEMMA SlotsOnce ==
  ASSUME TypeInv, RowsFollow(rows), NEW i \in 1..Len(rows), NEW j \in 1..Len(rows),
         rows[i].batch.pid = rows[j].batch.pid, rows[i].batch.base = rows[j].batch.base
  PROVE  i = j
<1>1. ASSUME NEW m \in 1..Len(rows), NEW n \in 1..Len(rows), m < n,
             rows[m].batch.pid = rows[n].batch.pid
      PROVE  rows[m].batch.base # rows[n].batch.base
  <2>1. Len(rows) \in Nat /\ rows \in Seq(Requests)
    BY RowsFacts
  <2>2. n - 1 \in 0..(Len(rows) - 1) /\ n - 1 \in 0..Len(rows) /\ m \in 1..(n - 1)
        /\ (n - 1) + 1 = n
    BY <1>1, <2>1
  <2>3. Promise!Follows(rows[n].batch, First(rows, n - 1))
    BY <2>2 DEF RowsFollow
  <2>4. /\ Len(First(rows, n - 1)) = n - 1
        /\ First(rows, n - 1)[m] = rows[m].batch
    BY <2>1, <2>2, FirstFacts
  <2>5. rows[m].batch.base + rows[m].batch.count =< rows[n].batch.base
    BY <1>1, <2>2, <2>3, <2>4, FollowsMeans
  <2>6. rows[m].batch \in BatchesSent /\ rows[n].batch \in BatchesSent
    BY RowsFacts, RequestFacts
  <2>7. /\ rows[m].batch.base \in Nat /\ rows[m].batch.count \in Nat \ {0}
        /\ rows[n].batch.base \in Nat
    BY <2>6, BatchFacts
  <2> QED BY <2>5, <2>7
<1>2. Len(rows) \in Nat
  BY RowsFacts
<1>3. i < j \/ j < i \/ i = j
  BY <1>2
<1> QED BY <1>1, <1>3

Whole(r) == First(r, Len(r))

LEMMA PromiseCommit ==
  ASSUME TypeInv, NEW request \in Requests, rows' = Append(rows, request), UNCHANGED acked,
         Promise!Follows(request.batch, Whole(rows))
  PROVE  Promise!Commit
<1>1. /\ rows \in Seq(Requests) /\ Len(rows) \in Nat /\ rows' \in Seq(Requests)
      /\ Len(rows') = Len(rows) + 1 /\ rows'[Len(rows) + 1] = request
      /\ \A i \in 1..Len(rows) : rows'[i] = rows[i]
  BY RowsFacts
<1>2. /\ Whole(rows) \in Seq(BatchesSent) /\ Len(Whole(rows)) = Len(rows)
      /\ \A i \in 1..Len(rows) : Whole(rows)[i] = rows[i].batch
  BY <1>1, FirstFacts DEF Whole
<1>3. /\ Whole(rows') \in Seq(BatchesSent) /\ Len(Whole(rows')) = Len(rows')
      /\ \A i \in 1..Len(rows') : Whole(rows')[i] = rows'[i].batch
  <2>1. Len(rows') \in 0..Len(rows')
    BY <1>1
  <2> QED BY <1>1, <2>1, FirstFacts DEF Whole
<1>4. request.batch \in BatchesSent
  BY RequestFacts
<1>5. /\ Append(Whole(rows), request.batch) \in Seq(BatchesSent)
      /\ Len(Append(Whole(rows), request.batch)) = Len(rows) + 1
      /\ Append(Whole(rows), request.batch)[Len(rows) + 1] = request.batch
      /\ \A i \in 1..Len(rows) : Append(Whole(rows), request.batch)[i] = rows[i].batch
  BY <1>2, <1>4, AppendFacts
<1>6. Whole(rows')[Len(rows) + 1] = request.batch
  BY <1>1, <1>3
<1>7. Whole(rows') = Append(Whole(rows), request.batch)
  <2>1. \A i \in 1..Len(Whole(rows')) :
           Whole(rows')[i] = Append(Whole(rows), request.batch)[i]
    <3> TAKE i \in 1..Len(Whole(rows'))
    <3>1. i \in 1..Len(rows) \/ i = Len(rows) + 1
      BY <1>1, <1>3
    <3>2. CASE i = Len(rows) + 1
      BY <1>5, <1>6, <3>2
    <3>3. CASE i \in 1..Len(rows)
      <4>1. i \in 1..Len(rows')
        BY <1>1, <3>3
      <4> QED BY <1>1, <1>3, <1>5, <3>3, <4>1
    <3> QED BY <3>1, <3>2, <3>3
  <2> QED BY <1>1, <1>3, <1>5, <2>1, SameSeq
<1>8. Whole(rows')[Len(Whole(rows'))] = request.batch
  BY <1>1, <1>3, <1>6
<1> QED BY <1>1, <1>2, <1>3, <1>7, <1>8 DEF Promise!Commit, Whole, First

LEMMA PromiseAcknowledge ==
  ASSUME TypeInv, UNCHANGED rows, NEW batch, NEW offset \in 0..(Len(rows) - 1),
         rows[offset + 1].batch = batch,
         acked' = acked \union {[batch |-> batch, offset |-> offset]}
  PROVE  Promise!Acknowledge
<1>1. rows \in Seq(Requests) /\ Len(rows) \in Nat
  BY RowsFacts
<1>2. /\ Len(Whole(rows)) = Len(rows)
      /\ \A i \in 1..Len(rows) : Whole(rows)[i] = rows[i].batch
  BY <1>1, FirstFacts DEF Whole
<1>3. offset + 1 \in 1..Len(rows)
  BY <1>1
<1>4. \A ack \in acked' \ acked : ack.offset = offset /\ ack.batch = batch
  OBVIOUS
<1>5. Whole(rows)' = Whole(rows)
  BY DEF Whole, First
<1>6. /\ acked \subseteq acked'
      /\ \A ack \in acked' \ acked : /\ ack.offset \in 0..(Len(Whole(rows)) - 1)
                                     /\ Whole(rows)[ack.offset + 1] = ack.batch
  BY <1>2, <1>3, <1>4
<1> QED BY <1>5, <1>6 DEF Promise!Acknowledge, Whole, First

LEMMA PromiseStep ==
  TypeInv /\ PromiseInv /\ [Next]_vars => [Promise!Next]_(Promise!vars)
<1> SUFFICES ASSUME TypeInv, PromiseInv, [Next]_vars PROVE [Promise!Next]_(Promise!vars)
  OBVIOUS
<1>i. LogInv(rows)
  BY DEF PromiseInv
<1>1. CASE UNCHANGED <<rows, acked>>
  BY <1>1 DEF Promise!vars
<1>d. ASSUME NEW request \in Requests, rows' = RowsAfter(request), UNCHANGED acked,
             request.offset =< Len(rows),
             Promise!Follows(request.batch, First(rows, request.offset))
      PROVE  [Promise!Next]_(Promise!vars)
  <2>1. CASE Verdict(request) = "committed"
    <3>1. rows' = Append(rows, request) /\ request.offset = Len(rows)
      BY <1>d, <2>1, CommittedByLease DEF RowsAfter
    <3>2. Promise!Commit
      BY <1>d, <3>1, PromiseCommit DEF Whole
    <3> QED BY <3>2 DEF Promise!Next
  <2>2. CASE Verdict(request) # "committed"
    BY <1>1, <1>d, <2>2 DEF RowsAfter
  <2> QED BY <2>1, <2>2
<1>2. ASSUME NEW request \in late, LandLate(request) PROVE [Promise!Next]_(Promise!vars)
  <2>1. /\ request \in Requests /\ request.offset =< Len(rows)
        /\ Promise!Follows(request.batch, First(rows, request.offset))
    BY <1>i DEF TypeInv, TypeOK, LogInv, LateFollow
  <2>2. rows' = RowsAfter(request) /\ UNCHANGED acked
    BY <1>2 DEF LandLate
  <2> QED BY <1>d, <2>1, <2>2
<1>3. ASSUME NEW b \in Brokers, DecideCommit(b) PROVE [Promise!Next]_(Promise!vars)
  <2>1. call[b] # NoCall
    BY <1>3, InCall DEF DecideCommit
  <2>2. rows' = RowsAfter(call[b].request) /\ UNCHANGED acked
    BY <1>3 DEF DecideCommit
  <2> QED BY <1>i, <1>d, <2>1, <2>2, CallRequest
<1>4. ASSUME NEW b \in Brokers, FinishCommitted(b) PROVE [Promise!Next]_(Promise!vars)
  <2>1. call[b] # NoCall /\ call[b].state = "committed"
    BY <1>4, InCall DEF FinishCommitted
  <2>2. /\ call[b].request.offset = Len(log[b]) /\ Len(log[b]) < Len(rows)
        /\ rows[Len(log[b]) + 1].batch = call[b].request.batch
    BY <1>i, <2>1, CallRequest DEF CallFits
  <2>3. Len(log[b]) \in 0..(Len(rows) - 1)
    BY <2>2, LogTypes, RowsFacts
  <2>4. /\ UNCHANGED rows
        /\ acked' = acked \union {[batch |-> call[b].request.batch,
                                   offset |-> call[b].request.offset]}
    BY <1>4 DEF FinishCommitted, database
  <2>5. Promise!Acknowledge
    BY <2>2, <2>3, <2>4, PromiseAcknowledge
  <2> QED BY <2>5 DEF Promise!Next
<1>5. ASSUME NEW b \in Brokers, NEW batch \in wire, AnswerDuplicate(b, batch)
      PROVE [Promise!Next]_(Promise!vars)
  <2>1. PICK i \in 1..Len(log[b]) :
           /\ log[b][i].pid = batch.pid /\ log[b][i].base = batch.base
           /\ acked' = acked \union {[batch |-> batch, offset |-> i - 1]}
    BY <1>5 DEF AnswerDuplicate
  <2>2. /\ Serving(b) /\ Duplicate(table[b][batch.pid], batch) /\ UNCHANGED rows
    BY <1>5 DEF AnswerDuplicate, database
  <2>3. FitsAll(log[b], table[b])
    BY <1>i, <2>2 DEF Serving, LogInv, TablesFit, Ahead
  <2>4. /\ batch \in BatchesSent /\ batch.pid \in Pids
        /\ log[b] \in Seq(BatchesSent) /\ Len(log[b]) \in Nat /\ table[b][batch.pid] \in States
    BY LogTypes, BatchFacts DEF TypeInv, TypeOK
  <2>5. PICK j \in 1..Len(log[b]) : log[b][j] = batch
    BY <2>2, <2>3, <2>4, DuplicateIsThere DEF FitsAll
  <2>6. /\ Len(log[b]) =< Len(rows) /\ Len(rows) \in Nat
        /\ \A k \in 1..Len(log[b]) : log[b][k] = rows[k].batch
    <3>1. Len(log[b]) =< Len(rows) /\ log[b] = First(rows, Len(log[b])) /\ Len(rows) \in Nat
      BY <1>i, RowsFacts DEF LogInv, DisksFit
    <3>2. \A k \in 1..Len(log[b]) : First(rows, Len(log[b]))[k] = rows[k].batch
      BY DEF First
    <3> QED BY <3>1, <3>2
  <2>7. i \in 1..Len(rows) /\ j \in 1..Len(rows)
    BY <2>4, <2>6
  <2>8. i = j
    BY <1>i, <2>1, <2>5, <2>6, <2>7, SlotsOnce DEF LogInv
  <2>9. i - 1 \in 0..(Len(rows) - 1) /\ rows[(i - 1) + 1].batch = batch
    BY <2>5, <2>6, <2>7, <2>8
  <2>10. Promise!Acknowledge
    BY <2>1, <2>2, <2>9, PromiseAcknowledge
  <2> QED BY <2>10 DEF Promise!Next
<1>6. CASE Lapse \/ UNCHANGED vars \/ \E c \in Clients : Send(c)
  BY <1>1, <1>6 DEF Lapse, Send, vars, database
<1>7. ASSUME NEW b \in Brokers,
             \/ LeaseThread(b) \/ Drain(b) \/ CatchUp(b) \/ FinishRefused(b) \/ LoseAppend(b)
             \/ LoseAnswer(b) \/ Crash(b) \/ Restart(b)
             \/ \E c \in Clients : InitProducer(b, c)
      PROVE [Promise!Next]_(Promise!vars)
  BY <1>1, <1>7 DEF LeaseThread, AcquireLease, SettleLease, Relinquish, ReleaseLease, Drain,
     CatchUp, CatchUpRow, CaughtUp, FinishRefused, LoseAppend, LoseAnswer, Crash, Restart,
     InitProducer, database
<1>8. ASSUME NEW b \in Brokers, NEW batch \in wire, StartCommit(b, batch) \/ Refuse(b, batch)
      PROVE [Promise!Next]_(Promise!vars)
  BY <1>1, <1>8 DEF StartCommit, Refuse, database
<1> QED BY <1>2, <1>3, <1>4, <1>5, <1>6, <1>7, <1>8 DEF Next, Committing, Offer

\* Whatever answers are lost, leases lapse, commits land late and brokers die,
\* the brokers together are the one log of FabricPromise (KeepsThePromise of
\* FabricBroker).
THEOREM BrokersKeepThePromise == Spec => KeepsThePromise
<1>1. Init => Promise!Init
  BY DEF Init, Promise!Init
<1> QED BY <1>1, PromiseInit, PromiseNext, PromiseStep, TypeInvHolds, PTL
        DEF Spec, KeepsThePromise, Promise!Spec

--------------------------------------------------------------------------------
(* The fence.  An init is forgotten by the two ways back to an older table *)
(* and by no other step of a broker that is alone.                         *)

\* No rewind of the table and no restart goes back behind an epoch given out.
RestoresWhatWasIssued ==
  \A b \in Brokers :
     Restart(b) \/ FinishRefused(b) \/ LoseAnswer(b)
        => \A p \in Pids : issued[p] =< table'[b][p].epoch

FenceIsKnown ==
  \A b \in Brokers : up[b] => \A p \in Pids : issued[p] =< table[b][p].epoch

LEMMA EpochTypes ==
  ASSUME TypeInv, NEW b \in Brokers, NEW p \in Pids
  PROVE  table[b][p] \in States /\ table[b][p].epoch \in Nat /\ issued[p] \in Nat
<1>1. table[b][p] \in States
  BY DEF TypeInv, TypeOK
<1> QED BY <1>1, StateFacts DEF TypeInv, TypeOK

\* One entry of the table moves, and its epoch does not fall.
LEMMA EpochRises ==
  ASSUME TypeInv, FenceIsKnown, NEW b \in Brokers, NEW p \in Pids, NEW s,
         table' = [table EXCEPT ![b][p] = s], s.epoch \in Nat, table[b][p].epoch =< s.epoch,
         UNCHANGED <<up, issued>>
  PROVE  FenceIsKnown'
<1>1. ASSUME NEW d \in Brokers, up[d], NEW q \in Pids PROVE issued[q] =< table'[d][q].epoch
  <2>1. table'[d][q] = IF d = b /\ q = p THEN s ELSE table[d][q]
    BY DEF TypeInv, TypeOK
  <2>2. issued[q] =< table[d][q].epoch
    BY <1>1 DEF FenceIsKnown
  <2>3. issued[q] \in Nat /\ table[d][q].epoch \in Nat
    BY EpochTypes
  <2> QED BY <2>1, <2>2, <2>3
<1> QED BY <1>1 DEF FenceIsKnown

LEMMA FenceInitProducer ==
  ASSUME \A b, d \in Brokers : b = d, TypeInv, FenceIsKnown,
         NEW b \in Brokers, NEW c \in Clients, InitProducer(b, c)
  PROVE  FenceIsKnown'
<1> DEFINE p == Owner[c]  after == Initialised(table[b][p])
<1>1. /\ up[b] /\ table' = [table EXCEPT ![b][p] = after]
      /\ issued' = [issued EXCEPT ![p] = MaxEpoch(@, after.epoch)] /\ UNCHANGED up
  BY DEF InitProducer, process
<1>2. p \in Pids
  BY OwnerAssumption
<1>3. table[b][p].epoch \in Nat /\ issued[p] \in Nat /\ after.epoch = table[b][p].epoch + 1
  BY <1>2, EpochTypes, InitialisedFields
<1>4. issued[p] =< table[b][p].epoch
  BY <1>1, <1>2 DEF FenceIsKnown
<1> HIDE DEF after
<1>5. MaxEpoch(issued[p], after.epoch) = after.epoch
  BY <1>3, <1>4 DEF MaxEpoch
<1> HIDE DEF p
<1>6. ASSUME NEW d \in Brokers, up'[d], NEW q \in Pids PROVE issued'[q] =< table'[d][q].epoch
  <2>1. d = b
    OBVIOUS
  <2>2. table'[b][q] = IF q = p THEN after ELSE table[b][q]
    BY <1>1 DEF TypeInv, TypeOK
  <2>3. issued'[q] = IF q = p THEN after.epoch ELSE issued[q]
    BY <1>1, <1>5 DEF TypeInv, TypeOK
  <2>4. issued[q] =< table[b][q].epoch
    BY <1>1 DEF FenceIsKnown
  <2> QED BY <1>3, <2>1, <2>2, <2>3, <2>4
<1> QED BY <1>6 DEF FenceIsKnown

LEMMA FenceNext ==
  ASSUME \A b, d \in Brokers : b = d, TypeInv, FenceIsKnown,
         [Next]_vars, [RestoresWhatWasIssued]_vars
  PROVE  FenceIsKnown'
<1>1. CASE UNCHANGED <<table, up, issued>>
  BY <1>1 DEF FenceIsKnown
<1>2. ASSUME NEW b \in Brokers, Restart(b) \/ FinishRefused(b) \/ LoseAnswer(b)
      PROVE  FenceIsKnown'
  <2>1. UNCHANGED issued
    BY <1>2 DEF Restart, FinishRefused, LoseAnswer, producer
  <2>2. CASE UNCHANGED vars
    BY <1>1, <2>2 DEF vars, memory, process, producer
  <2>3. CASE RestoresWhatWasIssued
    <3>1. \A p \in Pids : issued[p] =< table'[b][p].epoch
      BY <1>2, <2>3 DEF RestoresWhatWasIssued
    <3> QED BY <2>1, <3>1 DEF FenceIsKnown
  <2> QED BY <2>2, <2>3
<1>3. ASSUME NEW b \in Brokers, CatchUpRow(b) PROVE FenceIsKnown'
  <2> DEFINE batch == rows[Len(log[b]) + 1].batch
             after == Restored(table[b][batch.pid], batch)
  <2>1. /\ Len(log[b]) < Len(rows) /\ table' = [table EXCEPT ![b][batch.pid] = after]
        /\ UNCHANGED <<up, issued>>
    BY <1>3 DEF CatchUpRow, process, producer
  <2>2. batch \in BatchesSent
    <3>1. Len(log[b]) \in Nat /\ Len(rows) \in Nat
      BY LogTypes, RowsFacts
    <3>2. Len(log[b]) + 1 \in 1..Len(rows)
      BY <2>1, <3>1
    <3> QED BY <3>2, RowsFacts, RequestFacts
  <2>3. batch.pid \in Pids /\ batch.epoch \in Nat
    BY <2>2, BatchFacts
  <2>4. table[b][batch.pid].epoch \in Nat
    BY <2>3, EpochTypes
  <2>5. after.epoch = MaxEpoch(table[b][batch.pid].epoch, batch.epoch)
    BY DEF Restored
  <2> HIDE DEF batch
  <2>6. after.epoch \in Nat /\ table[b][batch.pid].epoch =< after.epoch
    BY <2>3, <2>4, <2>5 DEF MaxEpoch
  <2> QED BY <2>1, <2>3, <2>6, EpochRises
<1>4. ASSUME NEW b \in Brokers, NEW batch \in wire, StartCommit(b, batch) PROVE FenceIsKnown'
  <2> DEFINE after == Admitted(table[b][batch.pid], batch)
  <2>1. /\ table' = [table EXCEPT ![b][batch.pid] = after] /\ UNCHANGED <<up, issued>>
        /\ Fresh(table[b][batch.pid], batch)
    BY <1>4 DEF StartCommit, process, producer
  <2>2. batch \in BatchesSent
    BY DEF TypeInv, TypeOK
  <2>3. batch.pid \in Pids /\ batch.epoch \in Nat
    BY <2>2, BatchFacts
  <2>4. table[b][batch.pid].epoch \in Nat
    BY <2>3, EpochTypes
  <2>5. after.epoch = batch.epoch /\ table[b][batch.pid].epoch =< batch.epoch
    BY <2>1, <2>3, <2>4 DEF Admitted, Fresh, Fenced
  <2> HIDE DEF after
  <2> QED BY <2>1, <2>3, <2>5, EpochRises
<1>5. ASSUME NEW b \in Brokers, Crash(b) PROVE FenceIsKnown'
  <2>1. /\ up' = [up EXCEPT ![b] = FALSE]
    BY <1>5 DEF Crash
  <2>2. \A d \in Brokers : ~up'[d]
    BY <2>1, BrokerDomains
  <2> QED BY <2>2 DEF FenceIsKnown
<1>6. CASE Lapse \/ UNCHANGED vars \/ (\E request \in late : LandLate(request))
           \/ \E c \in Clients : Send(c)
  BY <1>1, <1>6 DEF Lapse, LandLate, Send, vars, memory, process, producer
<1>7. ASSUME NEW b \in Brokers, LeaseThread(b) \/ Drain(b) \/ CaughtUp(b) PROVE FenceIsKnown'
  BY <1>1, <1>7 DEF LeaseThread, AcquireLease, SettleLease, Relinquish, ReleaseLease, Drain,
     CaughtUp, memory, process, producer
<1>8. ASSUME NEW b \in Brokers, DecideCommit(b) \/ FinishCommitted(b) \/ LoseAppend(b)
      PROVE  FenceIsKnown'
  BY <1>1, <1>8 DEF DecideCommit, FinishCommitted, LoseAppend, process, producer
<1>9. ASSUME NEW b \in Brokers, NEW batch \in wire, AnswerDuplicate(b, batch) \/ Refuse(b, batch)
      PROVE  FenceIsKnown'
  BY <1>1, <1>9 DEF AnswerDuplicate, Refuse, memory, process
<1> QED BY <1>2, <1>3, <1>4, <1>5, <1>6, <1>7, <1>8, <1>9, FenceInitProducer
        DEF Next, CatchUp, Committing, Offer

\* What a broker that knows the fence takes up is at it or above it.
LEMMA FenceStep ==
  ASSUME TypeInv, FenceIsKnown, [Next]_vars, NEW b \in Brokers,
         call[b] = NoCall, call'[b] # NoCall
  PROVE  call'[b].request.batch.epoch >= issued[call'[b].request.batch.pid]
<1>1. CASE call'[b] = call[b]
  BY <1>1
<1>2. ASSUME NEW d \in Brokers, NEW batch \in wire, StartCommit(d, batch)
      PROVE  call'[b].request.batch.epoch >= issued[call'[b].request.batch.pid]
  <2>1. \E x : /\ x.request.batch = batch /\ call' = [call EXCEPT ![d] = x]
    BY <1>2 DEF StartCommit
  <2>2. d = b /\ call'[b].request.batch = batch
    BY <1>1, <2>1, BrokerDomains
  <2>3. up[b] /\ Fresh(table[b][batch.pid], batch)
    BY <1>2, <2>2 DEF StartCommit, Serving
  <2>4. batch \in BatchesSent
    BY DEF TypeInv, TypeOK
  <2>5. batch.pid \in Pids /\ batch.epoch \in Nat
    BY <2>4, BatchFacts
  <2>6. /\ table[b][batch.pid].epoch \in Nat /\ issued[batch.pid] \in Nat
        /\ issued[batch.pid] =< table[b][batch.pid].epoch
    BY <2>3, <2>5, EpochTypes DEF FenceIsKnown
  <2>7. table[b][batch.pid].epoch =< batch.epoch
    BY <2>3, <2>5, <2>6 DEF Fresh, Fenced
  <2> QED BY <2>2, <2>5, <2>6, <2>7
<1>3. ASSUME NEW d \in Brokers, DecideCommit(d) PROVE call'[b] = call[b]
  <2>1. call[d] # NoCall
    BY <1>3, InCall DEF DecideCommit
  <2> QED BY <1>3, <2>1, BrokerDomains DEF DecideCommit
<1>4. ASSUME NEW d \in Brokers, \/ FinishCommitted(d) \/ FinishRefused(d)
                                \/ LoseAppend(d) \/ LoseAnswer(d) \/ Crash(d)
      PROVE  call'[b] = call[b]
  <2>1. call' = [call EXCEPT ![d] = NoCall]
    BY <1>4 DEF FinishCommitted, FinishRefused, LoseAppend, LoseAnswer, Crash
  <2> QED BY <2>1, BrokerDomains
<1>5. CASE Lapse \/ UNCHANGED vars \/ (\E request \in late : LandLate(request))
           \/ (\E c \in Clients : Send(c)) \/ \E d \in Brokers : \E c \in Clients : InitProducer(d, c)
  BY <1>1, <1>5 DEF Lapse, LandLate, Send, InitProducer, vars, memory
<1>6. ASSUME NEW d \in Brokers, LeaseThread(d) \/ Drain(d) \/ CatchUp(d) \/ Restart(d)
      PROVE  call'[b] = call[b]
  BY <1>6 DEF LeaseThread, AcquireLease, SettleLease, Relinquish, ReleaseLease, Drain, CatchUp,
     CatchUpRow, CaughtUp, Restart, memory
<1>7. ASSUME NEW d \in Brokers, NEW batch \in wire, AnswerDuplicate(d, batch) \/ Refuse(d, batch)
      PROVE  call'[b] = call[b]
  BY <1>7 DEF AnswerDuplicate, Refuse, memory
<1> QED BY <1>1, <1>2, <1>3, <1>4, <1>5, <1>6, <1>7 DEF Next, Committing, Offer

\* The fence from init on (FencedFromInit of FabricBroker), where it holds: a
\* broker alone admits nothing below an epoch it gave out, unless a produce it
\* interleaved with is rewound behind the init, or a restart reads back a log
\* that has not seen the new epoch (broker.rs, checkpoint and rewind; open).
THEOREM AloneFencedFromInit ==
  ASSUME \A b, d \in Brokers : b = d
  PROVE  Spec /\ [][RestoresWhatWasIssued]_vars => FencedFromInit
<1>1. Init => FenceIsKnown
  BY DEF Init, FenceIsKnown, FreshTable, Unheard
<1>2. TypeInv /\ FenceIsKnown /\ [Next]_vars /\ [RestoresWhatWasIssued]_vars => FenceIsKnown'
  BY FenceNext
<1>3. TypeInv /\ FenceIsKnown /\ [Next]_vars
        => [\A b \in Brokers :
              call[b] = NoCall /\ call'[b] # NoCall =>
                LET batch == call'[b].request.batch IN batch.epoch >= issued[batch.pid]]_vars
  BY FenceStep
<1> QED BY <1>1, <1>2, <1>3, TypeInvHolds, PTL DEF Spec, FencedFromInit
================================================================================
