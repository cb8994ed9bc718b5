-------------------------- MODULE LedgerLoss_proofs -------------------------
(***************************************************************************)
(* Nothing is lost: while the broker keeps its log and answers are not     *)
(* lost, no worker ever passes a record the ledger neither books nor holds *)
(* its cell for, however often it crashes, rejoins or goes back.           *)
(* And cells are held: a park only gets worse, a live fill keeps its cell, *)
(* and no gap outlives the record it waits for.                            *)
(***************************************************************************)
EXTENDS LedgerDaemon_proofs

\* Record k of batch n of a partition's log.
OnLog(p, n, k) == n \in 1..Len(log[p]) /\ k \in 1..Len(log[p][n])
OffsetOf(n, k) == Base(n - 1) + k - 1

\* Every batch is on the partition its cells' producers write to.
LogIsHomed == \A p \in Partitions : \A n \in 1..Len(log[p]) : Homed(p, log[p][n])

\* A park lies on its cell's own partition, at an offset the log has reached.
ParksAreHome ==
    \A c \in Cells : Parked(c) =>
        /\ park[c].partition = Home[c]
        /\ park[c].offset < Base(Len(log[Home[c]]))

\* Everything of a parked cell before its park is booked: what is re-read
\* from the park on is all that was held.
ParkIsFirstUnbooked ==
    \A c \in Cells : Parked(c) =>
        \A n, k \in Nat :
            /\ OnLog(Home[c], n, k)
            /\ log[Home[c]][n][k] \in Records
            /\ log[Home[c]][n][k].cell = c
            /\ OffsetOf(n, k) < park[c].offset
            => SameEntry(log[Home[c]][n][k])

\* No one reads past the end of the log.
WithinTheLog ==
    \A p \in Partitions :
        /\ cursor[p].next <= Base(Len(log[p]))
        /\ running => worker[p].position <= Base(Len(log[p]))

\* The batch asked for, or in hand, does not start past the position.
ReadsFromThePosition ==
    \A p \in Partitions :
        /\ worker[p].fetched => running /\ Base(worker[p].at - 1) <= worker[p].position
        /\ worker[p].seeked /\ ~worker[p].fetched =>
             running /\ Base(worker[p].at) <= worker[p].position

\* Nothing behind a resume offset or a running worker is unsettled.
NothingPassed ==
    \A p \in Partitions :
        /\ SettledBelow(p, cursor[p].next)
        /\ running => SettledBelow(p, worker[p].position)

LossInv ==
    /\ LogIsHomed
    /\ ParksAreHome
    /\ ParkIsFirstUnbooked
    /\ WithinTheLog
    /\ ReadsFromThePosition
    /\ NothingPassed

\* The faults that lose nothing: the broker keeps its log, nothing is released
\* under a running worker, and an answer that is lost is not the one that tells
\* the worker to go back to where a filled gap began.
LosesGapFill(p) ==
    LostAck(p) /\ NextItem(p) \in Records /\ ReReads(p, NextOffset(p), NextItem(p))
HarmlessFaults ==
    ~LoseBroker /\ (\A c \in Cells : ~ReleaseLive(c)) /\ (\A p \in Partitions : ~LosesGapFill(p))

\* Kinds of faults that are all harmless, with no answer lost at all.
SafeFaults == {"crash", "lapse", "release"}

\* A worker is never behind its store.
WorkersAhead == running => \A p \in Partitions : cursor[p].next <= worker[p].position
----------------------------------------------------------------------------
(* Records and their offsets.                                              *)

LEMMA OnLogFacts ==
    ASSUME TypeOK, NEW p \in Partitions, NEW n, NEW k, OnLog(p, n, k)
    PROVE  /\ n \in Nat /\ n >= 1 /\ n <= Len(log[p]) /\ Len(log[p]) \in Nat
           /\ k \in Nat /\ k >= 1 /\ k <= Stride
           /\ log[p][n] \in Batches
           /\ Len(log[p][n]) \in Nat
           /\ log[p][n][k] \in LogItems
           /\ OffsetOf(n, k) \in Nat
           /\ OffsetOf(n, k) < Base(n)
<1>1. log[p] \in Seq(Batches)
    BY DEF TypeOK
<1>2. Len(log[p]) \in Nat /\ n \in Nat /\ n >= 1 /\ n <= Len(log[p])
    BY <1>1 DEF OnLog
<1>3. log[p][n] \in Batches
    BY <1>1, <1>2
<1>4. log[p][n] \in Seq(LogItems) /\ Len(log[p][n]) \in 1..Stride
    BY <1>3, LogAssumption
<1>5. k \in Nat /\ k >= 1 /\ k <= Stride /\ k <= Len(log[p][n]) /\ Len(log[p][n]) \in Nat
    BY <1>4, StrideAssumption DEF OnLog
<1>6. log[p][n][k] \in LogItems
    BY <1>4, <1>5
<1>7. Base(n - 1) \in Int /\ Base(n - 1) >= 0 /\ Base(n) = Base(n - 1) + Stride
  <2>1. Base(0) <= Base(n - 1)
    BY <1>2, BaseOrder
  <2>2. Base(0) = 0
    BY StrideAssumption DEF Base
  <2> QED
    BY <1>2, <2>1, <2>2, BaseType, BaseNext
<1>8. OffsetOf(n, k) \in Nat /\ OffsetOf(n, k) < Base(n)
    BY <1>5, <1>7, StrideAssumption DEF OffsetOf
<1> QED
    BY <1>2, <1>3, <1>5, <1>6, <1>8

\* No two records of a log share an offset.
LEMMA OffsetsDiffer ==
    ASSUME NEW n \in Nat, NEW m \in Nat, NEW k \in 1..Stride, NEW j \in 1..Stride,
           OffsetOf(n, k) = OffsetOf(m, j)
    PROVE  n = m /\ k = j
<1>1. /\ Base(n - 1) \in Int /\ Base(n) = Base(n - 1) + Stride
      /\ Base(m - 1) \in Int /\ Base(m) = Base(m - 1) + Stride
    BY BaseType, BaseNext
<1>2. ~(n < m)
  <2>1. n < m => Base(n) <= Base(m - 1)
    BY BaseOrder
  <2> QED
    BY <1>1, <2>1, StrideAssumption DEF OffsetOf
<1>3. ~(m < n)
  <2>1. m < n => Base(m) <= Base(n - 1)
    BY BaseOrder
  <2> QED
    BY <1>1, <2>1, StrideAssumption DEF OffsetOf
<1>4. n = m
    BY <1>2, <1>3
<1> QED
    BY <1>1, <1>4, StrideAssumption DEF OffsetOf

\* Order on the naturals, in the form the steps below use it.
LEMMA NotLess == \A x, y \in Nat : ~(y < x) => x <= y
OBVIOUS

LEMMA SmallerIsBelow ==
    \A x, y \in Nat : Smaller(x, y) \in Nat /\ Smaller(x, y) <= x /\ Smaller(x, y) <= y
BY DEF Smaller

\* What SettledBelow says, record by record.
LEMMA SettledBelowMeans ==
    ASSUME TypeOK, NEW p \in Partitions, NEW limit \in Int
    PROVE  SettledBelow(p, limit) <=>
             \A n, k \in Nat : OnLog(p, n, k) /\ OffsetOf(n, k) < limit
               => Settled(p, OffsetOf(n, k), log[p][n][k])
<1>1. ASSUME SettledBelow(p, limit), NEW n \in Nat, NEW k \in Nat, OnLog(p, n, k),
             OffsetOf(n, k) < limit
      PROVE  Settled(p, OffsetOf(n, k), log[p][n][k])
    BY <1>1 DEF SettledBelow, OnLog, OffsetOf
<1>2. ASSUME \A n, k \in Nat : OnLog(p, n, k) /\ OffsetOf(n, k) < limit
               => Settled(p, OffsetOf(n, k), log[p][n][k])
      PROVE  SettledBelow(p, limit)
  <2>1. SUFFICES ASSUME NEW n \in 1..Len(log[p]), NEW k \in 1..Len(log[p][n]),
                        OffsetOf(n, k) < limit
                 PROVE  Settled(p, OffsetOf(n, k), log[p][n][k])
    BY DEF SettledBelow, OffsetOf
  <2>2. OnLog(p, n, k)
    BY DEF OnLog
  <2>3. n \in Nat /\ k \in Nat
    BY <2>2, OnLogFacts
  <2> QED
    BY <1>2, <2>1, <2>2, <2>3
<1> QED
    BY <1>1, <1>2

\* A record in a log is of a cell at home there.
LEMMA LoggedAtHome ==
    ASSUME TypeOK, LogIsHomed, NEW p \in Partitions, NEW n, NEW k, OnLog(p, n, k),
           log[p][n][k] \in Records
    PROVE  log[p][n][k].cell \in Cells /\ Home[log[p][n][k].cell] = p
<1>1. log[p][n][k].cell \in Cells
    BY ItemsAssumption DEF RecordType
<1> QED
    BY <1>1 DEF LogIsHomed, Homed, OnLog

\* The same after a step that leaves the log as it is.
LEMMA SettledBelowNext ==
    ASSUME TypeOK, NEW p \in Partitions, NEW limit \in Int, log'[p] = log[p],
           \A n, k \in Nat, i \in LogItems :
             OnLog(p, n, k) /\ i = log[p][n][k] /\ OffsetOf(n, k) < limit
               => Settled(p, OffsetOf(n, k), i)'
    PROVE  SettledBelow(p, limit)'
<1>1. SUFFICES ASSUME NEW n \in 1..Len(log[p]), NEW k \in 1..Len(log[p][n]),
                      OffsetOf(n, k) < limit
               PROVE  Settled(p, OffsetOf(n, k), log[p][n][k])'
    BY DEF SettledBelow, OffsetOf
<1>2. OnLog(p, n, k)
    BY DEF OnLog
<1>3. n \in Nat /\ k \in Nat /\ log[p][n][k] \in LogItems
    BY <1>2, OnLogFacts
<1>4. PICK i \in LogItems : i = log[p][n][k]
    BY <1>3
<1>5. Settled(p, OffsetOf(n, k), i)'
    BY <1>1, <1>2, <1>3, <1>4
<1> QED
    BY <1>4, <1>5 DEF Settled, SettledRecord, SameEntry, HeldRow

\* A limit that is met stays met while every settled record stays settled.
LEMMA SettledBelowStays ==
    ASSUME TypeOK, LogIsHomed, NEW p \in Partitions, NEW limit \in Int, log'[p] = log[p],
           SettledBelow(p, limit),
           \A o \in Nat, r \in Records :
             Home[r.cell] = p /\ o < limit /\ SettledRecord(p, o, r) => SettledRecord(p, o, r)'
    PROVE  SettledBelow(p, limit)'
<1>1. ASSUME NEW n \in Nat, NEW k \in Nat, NEW i \in LogItems,
             OnLog(p, n, k), i = log[p][n][k], OffsetOf(n, k) < limit
      PROVE  Settled(p, OffsetOf(n, k), i)'
  <2>1. Settled(p, OffsetOf(n, k), i)
    BY <1>1, SettledBelowMeans
  <2>2. OffsetOf(n, k) \in Nat
    BY <1>1, OnLogFacts
  <2>3. i \in Records => Home[i.cell] = p
    BY <1>1, LoggedAtHome
  <2> QED
    BY <1>1, <2>1, <2>2, <2>3 DEF Settled
<1> QED
    BY <1>1, SettledBelowNext
----------------------------------------------------------------------------
(* One delivery.                                                           *)

\* A record booked stays booked.
LEMMA SameEntryStays ==
    ASSUME StoreInv, StoreStep \/ UNCHANGED storeVars, NEW r \in Records, SameEntry(r)
    PROVE  SameEntry(r)'
<1>1. r.cell \in Cells /\ r.session \in Sessions /\ r.first \in Sequences
    BY ItemsAssumption DEF RecordType
<1>2. chain'[r.cell][r.session][r.first] = chain[r.cell][r.session][r.first]
    BY <1>1, HistoryStep DEF SameEntry, HeldRow, Booked
<1> QED
    BY <1>2 DEF SameEntry, HeldRow

\* The next delivery: its record, its offset and its place on the log.
LEMMA NextDelivery ==
    ASSUME TypeOK, HandsAreOnTheLog, ReadsFromThePosition, NEW p \in Partitions, HasNext(p)
    PROVE  /\ NextOffset(p) = worker[p].position /\ NextOffset(p) \in Nat
           /\ OnLog(p, worker[p].at, NextIndex(p))
           /\ NextItem(p) = log[p][worker[p].at][NextIndex(p)]
           /\ OffsetOf(worker[p].at, NextIndex(p)) = NextOffset(p)
           /\ worker[p].at \in Nat /\ NextIndex(p) \in Nat
           /\ NextOffset(p) + 1 <= Base(worker[p].at)
           /\ Base(worker[p].at) <= Base(Len(log[p]))
<1>1. worker[p].fetched /\ NextIndex(p) <= Len(log[p][worker[p].at])
    BY DEF HasNext, Hand
<1>2. worker[p].at \in 1..Len(log[p]) /\ Len(log[p]) \in Nat
    BY <1>1 DEF HandsAreOnTheLog, TypeOK
<1>3. HandBase(p) \in Int /\ HandBase(p) <= worker[p].position /\ worker[p].position \in Nat
    BY <1>1, WorkerFields DEF ReadsFromThePosition, HandBase
<1>4. NextOffset(p) = worker[p].position
    BY <1>3 DEF NextOffset, Larger
<1>5. NextIndex(p) \in Nat /\ NextIndex(p) >= 1
    BY <1>3, <1>4 DEF NextIndex
<1>6. Len(log[p][worker[p].at]) \in Nat
  <2>1. log[p][worker[p].at] \in Batches
    BY <1>2 DEF TypeOK
  <2> QED
    BY <2>1, LogAssumption
<1>7. OnLog(p, worker[p].at, NextIndex(p))
    BY <1>1, <1>2, <1>5, <1>6 DEF OnLog
<1>8. OffsetOf(worker[p].at, NextIndex(p)) = NextOffset(p)
    BY <1>3, <1>4 DEF OffsetOf, NextIndex, HandBase
<1>9. NextOffset(p) < Base(worker[p].at)
    BY <1>7, <1>8, OnLogFacts
<1>10. Base(worker[p].at) <= Base(Len(log[p])) /\ Base(worker[p].at) \in Int
  <2>1. worker[p].at \in Int /\ Len(log[p]) \in Int /\ worker[p].at <= Len(log[p])
    BY <1>2
  <2> QED
    BY <2>1, BaseOrder, BaseType
<1>11. NextItem(p) = log[p][worker[p].at][NextIndex(p)]
    BY DEF NextItem, Hand
<1>12. NextOffset(p) \in Nat
    BY <1>3, <1>4
<1>13. NextOffset(p) + 1 <= Base(worker[p].at)
    BY <1>9, <1>10, <1>12
<1> QED
    BY <1>2, <1>4, <1>5, <1>7, <1>8, <1>10, <1>11, <1>12, <1>13

\* A record that may be posted is not booked already.
LEMMA PostedIsNew ==
    ASSUME StoreInv, NEW p \in Partitions, NEW o \in Nat, NEW r \in Records,
           Judge(p, o, r) = "post"
    PROVE  ~SameEntry(r) /\ ~Booked(r.cell, r.session, r.first)
<1>1. /\ r.cell \in Cells /\ r.session \in Sessions /\ r.first \in Sequences
      /\ r.session \in Int /\ r.first \in Int
    BY ItemsAssumption, BoundsAssumption DEF RecordType, Sessions, Sequences
<1>2. /\ r.first = NextSequence(r)
      /\ tail[r.cell] # NoTail => r.session >= tail[r.cell].session
    BY PostMeansNext DEF StoreInv
<1>3. SUFFICES ASSUME Booked(r.cell, r.session, r.first) PROVE FALSE
    BY DEF SameEntry, HeldRow, Booked
<1> DEFINE last == chain[r.cell][r.session][r.first].last
<1>e. TailEnds(r.cell) /\ StoreTypeOK /\ RowsAreFaithful
    BY <1>1 DEF StoreInv, TailEndsTheChain
<1>4. tail[r.cell] # NoTail
    BY <1>1, <1>3, <1>e DEF TailEnds
<1>5. tail[r.cell].session \in Int /\ tail[r.cell].sequence \in Int
  <2>1. tail \in [Cells -> TailType \cup {NoTail}]
    BY <1>e DEF StoreTypeOK
  <2> QED
    BY <1>1, <1>4, <2>1, BoundsAssumption DEF TailType, Sessions, Sequences
<1>6. last \in Int
  <2>1. chain \in [Cells -> [Sessions -> [Sequences -> RowType \cup {NoRow}]]]
    BY <1>e DEF StoreTypeOK
  <2>2. chain[r.cell][r.session][r.first] \in RowType
    BY <1>1, <1>3, <2>1 DEF Booked
  <2> QED
    BY <2>2, BoundsAssumption DEF RowType, Sequences
<1>7. \/ r.session < tail[r.cell].session
      \/ r.session = tail[r.cell].session /\ last <= tail[r.cell].sequence
    BY <1>1, <1>3, <1>4, <1>e DEF TailEnds
<1>8. r.session = tail[r.cell].session /\ last <= tail[r.cell].sequence
    BY <1>1, <1>2, <1>4, <1>5, <1>7
<1>9. r.first <= last
    BY <1>1, <1>3, <1>e DEF RowsAreFaithful
<1>10. r.first = tail[r.cell].sequence + 1
    BY <1>1, <1>2, <1>4, <1>5, <1>8 DEF NextSequence, FreshSession
<1> HIDE DEF last
<1>11. PICK m \in Int : m = tail[r.cell].sequence
    BY <1>5
<1>12. last <= m /\ r.first = m + 1
    BY <1>8, <1>10, <1>11
<1> QED
    BY <1>1, <1>6, <1>9, <1>12

\* A gap is filled from behind its park, never from before it.
LEMMA GapsFillForward ==
    ASSUME DaemonInv, LossInv, NEW p \in Partitions, HasNext(p), NextItem(p) \in Records,
           ReReads(p, NextOffset(p), NextItem(p))
    PROVE  park[NextItem(p).cell].offset \in Nat
           /\ park[NextItem(p).cell].offset <= NextOffset(p)
<1> DEFINE r == NextItem(p)
           o == NextOffset(p)
           n == worker[p].at
           k == NextIndex(p)
<1>1. /\ OnLog(p, n, k) /\ r = log[p][n][k] /\ OffsetOf(n, k) = o
      /\ n \in Nat /\ k \in Nat /\ o \in Nat
    BY NextDelivery DEF DaemonInv, LossInv
<1>2. r.cell \in Cells /\ Home[r.cell] = p
    BY <1>1, LoggedAtHome DEF DaemonInv, LossInv
<1>3. Parked(r.cell) /\ Judge(p, o, r) = "post"
    BY DEF ReReads, FillsGap
<1>4. park[r.cell].offset \in Nat
    BY <1>2, <1>3 DEF DaemonInv, TypeOK, StoreTypeOK, ParkType, Parked
<1>5. ~SameEntry(r)
    BY <1>1, <1>3, PostedIsNew DEF DaemonInv
<1>6. ~(o < park[r.cell].offset)
  <2>1. SUFFICES ASSUME OffsetOf(n, k) < park[r.cell].offset PROVE FALSE
    BY <1>1
  <2>2. SameEntry(log[Home[r.cell]][n][k])
    BY <1>1, <1>2, <1>3, <2>1 DEF LossInv, ParkIsFirstUnbooked
  <2> QED
    BY <1>1, <1>2, <1>5, <2>2
<1> QED
    BY ZenonT(60), <1>1, <1>4, <1>6, NotLess

\* A step of the store on one record keeps every settled record settled,
\* short of where its worker goes on from.
LEMMA SettledStays ==
    ASSUME DaemonInv, LossInv, NEW p \in Partitions, HasNext(p), NextItem(p) \in Records,
           Apply(p, NextOffset(p), NextItem(p)),
           NEW p2 \in Partitions, NEW o2 \in Nat, NEW r2 \in Records, Home[r2.cell] = p2,
           SettledRecord(p2, o2, r2),
           p2 = p /\ ReReads(p, NextOffset(p), NextItem(p)) =>
             o2 < NextPosition(p, NextOffset(p), NextItem(p))
    PROVE  SettledRecord(p2, o2, r2)'
<1> DEFINE r == NextItem(p)
           o == NextOffset(p)
<1>1. r2.cell \in Cells /\ r.cell \in Cells
    BY ItemsAssumption DEF RecordType
<1>2. /\ o \in Nat
      /\ Home[r.cell] = p
    BY NextDelivery, LoggedAtHome DEF DaemonInv, LossInv
<1>3. CASE SameEntry(r2)
  <2>1. SameEntry(r2)'
    BY <1>2, <1>3, SameEntryStays DEF DaemonInv, StoreStep
  <2> QED
    BY <2>1 DEF SettledRecord
<1>4. CASE ~SameEntry(r2)
  <2>1. Parked(r2.cell) /\ park[r2.cell].partition = p2 /\ park[r2.cell].offset <= o2
    BY <1>4 DEF SettledRecord, Parked
  <2>2. CASE Skip(p, o, r)
    BY <2>1, <2>2 DEF Skip, SettledRecord, Parked
  <2>3. CASE Park(p, o, r)
    <3>1. CASE r2.cell = r.cell
      <4>1. park'[r.cell] = [park[r.cell] EXCEPT !.reason = MoreSevere(@, Judge(p, o, r)),
                                                  !.offset = Smaller(@, o)]
        BY <1>1, <2>1, <2>3, <3>1 DEF Park, ParkAs, DaemonInv, TypeOK, StoreTypeOK
      <4>2. park[r.cell] \in ParkType
        BY <1>1, <2>1, <3>1 DEF Parked, DaemonInv, TypeOK, StoreTypeOK
      <4>3. /\ park'[r.cell].partition = p2
            /\ park'[r.cell].offset <= o2
        BY <1>2, <2>1, <3>1, <4>1, <4>2 DEF ParkType, Smaller
      <4>4. park'[r.cell] # NoPark
        <5>1. park'[r.cell] \in ParkType
          <6>1. /\ park[r.cell].reason \in ParkReasons /\ Judge(p, o, r) \in ParkReasons
                /\ park[r.cell].offset \in Nat /\ o \in Nat
            <7>1. /\ park[r.cell].reason \in ParkReasons /\ park[r.cell].offset \in Nat
              BY <4>2 DEF ParkType
            <7>2. Judge(p, o, r) \in ParkReasons
              BY <2>3 DEF Park
            <7> QED
              BY <1>2, <7>1, <7>2
          <6>2. MoreSevere(park[r.cell].reason, Judge(p, o, r)) \in ParkReasons
            BY <6>1 DEF MoreSevere
          <6>3. Smaller(park[r.cell].offset, o) \in Nat
            BY <6>1 DEF Smaller
          <6> QED
            BY <4>1, <4>2, <6>2, <6>3 DEF ParkType
        <5> QED
          BY <5>1, SentinelAssumption
      <4> QED
        BY <3>1, <4>3, <4>4 DEF SettledRecord
    <3>2. CASE r2.cell # r.cell
      <4>1. park'[r2.cell] = park[r2.cell]
        BY <1>1, <2>3, <3>2 DEF Park, DaemonInv, TypeOK, StoreTypeOK
      <4> QED
        BY <2>1, <4>1 DEF SettledRecord, Parked
    <3> QED
      BY <3>1, <3>2
  <2>4. CASE Post(p, o, r)
    <3>1. CASE r2.cell = r.cell
      <4>1. ReReads(p, o, r)
        BY <2>1, <2>4, <3>1 DEF ReReads, FillsGap, Post
      <4>2. o2 < park[r.cell].offset
        BY <1>2, <3>1, <4>1 DEF NextPosition
      <4>3. park[r.cell].offset \in Nat
        BY <4>1, GapsFillForward
      <4> QED
        BY <2>1, <3>1, <4>2, <4>3
    <3>2. CASE r2.cell # r.cell
      <4>1. park'[r2.cell] = park[r2.cell]
        BY <1>1, <2>4, <3>2 DEF Post, DaemonInv, TypeOK, StoreTypeOK
      <4> QED
        BY <2>1, <4>1 DEF SettledRecord, Parked
    <3> QED
      BY <3>1, <3>2
  <2> QED
    BY <2>2, <2>3, <2>4 DEF Apply
<1> QED
    BY <1>3, <1>4

\* The record just applied is settled, unless its partition is read again.
LEMMA AppliedIsSettled ==
    ASSUME DaemonInv, LossInv, NEW p \in Partitions, HasNext(p), NextItem(p) \in Records,
           Apply(p, NextOffset(p), NextItem(p)),
           ~ReReads(p, NextOffset(p), NextItem(p)),
           NEW r \in Records, r = NextItem(p), NEW o \in Nat, o = NextOffset(p)
    PROVE  SettledRecord(p, o, r)'
<1> DEFINE n == worker[p].at
           k == NextIndex(p)
<1>1. /\ OnLog(p, n, k) /\ r = log[p][n][k] /\ OffsetOf(n, k) = o
      /\ n \in Nat /\ k \in Nat
    BY NextDelivery DEF DaemonInv, LossInv
<1>2. r.cell \in Cells /\ Home[r.cell] = p
    BY <1>1, LoggedAtHome DEF DaemonInv, LossInv
<1>3. StoreStep
    BY DEF StoreStep
<1>4. CASE SameEntry(r)
  <2>1. SameEntry(r)'
    BY <1>3, <1>4, SameEntryStays DEF DaemonInv
  <2> QED
    BY <2>1 DEF SettledRecord
<1>5. CASE Skip(p, o, r) /\ ~SameEntry(r)
  <2>1. Judge(p, o, r) = "hold"
    BY <1>5 DEF Skip, Judge, JudgeBehind, JudgeAhead, JudgeNext
  <2>2. Parked(r.cell)
    BY <2>1 DEF Judge, JudgeBehind, JudgeAhead, JudgeNext, HeldByPark
  <2>3. park[r.cell].partition = p
    BY <1>2, <2>2 DEF LossInv, ParksAreHome
  <2>4. park[r.cell].offset <= o
    <3>1. park[r.cell].offset \in Nat
      BY <1>2, <2>2 DEF DaemonInv, TypeOK, StoreTypeOK, ParkType, Parked
    <3>2. ~(OffsetOf(n, k) < park[r.cell].offset)
      BY <1>1, <1>2, <1>5, <2>2 DEF LossInv, ParkIsFirstUnbooked
    <3> QED
      BY ZenonT(60), <1>1, <3>1, <3>2, NotLess
  <2> QED
    BY <1>5, <2>2, <2>3, <2>4 DEF Skip, SettledRecord, Parked
<1>6. CASE Park(p, o, r)
  <2>1. park'[r.cell] = ParkAs(p, o, r, Judge(p, o, r))
    BY <1>2, <1>6 DEF Park, DaemonInv, TypeOK, StoreTypeOK
  <2>2. ParkAs(p, o, r, Judge(p, o, r)) \in ParkType
    BY <1>6, ParkAsType DEF Park, DaemonInv, TypeOK
  <2>3. park'[r.cell] # NoPark
    BY <2>1, <2>2, SentinelAssumption
  <2>4. CASE Parked(r.cell)
    <3>1. park[r.cell] \in ParkType /\ park[r.cell].partition = p
      BY <1>2, <2>4 DEF LossInv, ParksAreHome, DaemonInv, TypeOK, StoreTypeOK, Parked
    <3>2. park'[r.cell].partition = p /\ park'[r.cell].offset <= o
      BY <2>1, <2>4, <3>1 DEF ParkAs, ParkType, Smaller
    <3> QED
      BY <2>3, <3>2 DEF SettledRecord
  <2>5. CASE ~Parked(r.cell)
    <3>1. park'[r.cell].partition = p /\ park'[r.cell].offset <= o
      BY <2>1, <2>5 DEF ParkAs
    <3> QED
      BY <2>3, <3>1 DEF SettledRecord
  <2> QED
    BY <2>4, <2>5
<1>7. CASE Post(p, o, r)
  <2>1. chain'[r.cell][r.session][r.first] =
          [last |-> r.last, digest |-> r.digest, offset |-> o, record |-> r]
    BY <1>7, RowPosted DEF DaemonInv
  <2>2. Booked(r.cell, r.session, r.first)'
    BY <1>7, PostBooks DEF DaemonInv
  <2>3. SameEntry(r)'
    BY <2>1, <2>2 DEF SameEntry, HeldRow, Booked
  <2> QED
    BY <2>3 DEF SettledRecord
<1> QED
    BY <1>4, <1>5, <1>6, <1>7 DEF Apply
----------------------------------------------------------------------------
(* The invariant.                                                          *)

\* Where the resume offset goes: on, or back with the worker.
LEMMA CursorFollows ==
    ASSUME DaemonInv, LossInv, NEW p \in Partitions, HasNext(p), NextItem(p) \in Records,
           Apply(p, NextOffset(p), NextItem(p))
    PROVE  /\ cursor' = [cursor EXCEPT ![p] = cursor'[p]]
           /\ NextPosition(p, NextOffset(p), NextItem(p)) \in Nat
           /\ NextPosition(p, NextOffset(p), NextItem(p)) <= NextOffset(p) + 1
           /\ ReReads(p, NextOffset(p), NextItem(p)) =>
                /\ NextPosition(p, NextOffset(p), NextItem(p)) <= NextOffset(p)
                /\ cursor'[p].next = NextPosition(p, NextOffset(p), NextItem(p))
           /\ ~ReReads(p, NextOffset(p), NextItem(p)) =>
                /\ NextPosition(p, NextOffset(p), NextItem(p)) = NextOffset(p) + 1
                /\ cursor'[p].next = Larger(cursor[p].next, NextOffset(p) + 1)
<1> DEFINE r == NextItem(p)
           o == NextOffset(p)
<1>1. o \in Nat /\ o = worker[p].position
    BY NextDelivery DEF DaemonInv, LossInv
<1>2. running
    BY DEF HasNext
<1>3. cursor[p] \in CursorType /\ cursor[p].next \in Nat
    BY DEF DaemonInv, TypeOK, StoreTypeOK, CursorType
<1>4. /\ Advanced(p, o, r).next = Larger(cursor[p].next, o + 1)
      /\ Larger(cursor[p].next, o + 1) \in Nat /\ Larger(cursor[p].next, o + 1) >= o + 1
    BY <1>1, <1>3 DEF Advanced, Larger
<1>5. cursor \in [Partitions -> CursorType]
    BY DEF DaemonInv, TypeOK, StoreTypeOK
<1>6. CASE ReReads(p, o, r)
  <2>1. park[r.cell].offset \in Nat /\ park[r.cell].offset <= o
    BY <1>6, GapsFillForward
  <2>2. cursor' = [cursor EXCEPT ![p] = ResumeAfterPost(p, o, r)]
    BY <1>6 DEF Apply, Skip, Park, Post, ReReads, ParkReasons
  <2>3. ResumeAfterPost(p, o, r).next = park[r.cell].offset
    <3>1. ResumeAfterPost(p, o, r) = [Advanced(p, o, r) EXCEPT !.next = Smaller(@, park[r.cell].offset)]
      BY <1>6 DEF ResumeAfterPost, ReReads
    <3>2. ResumeAfterPost(p, o, r).next = Smaller(Larger(cursor[p].next, o + 1), park[r.cell].offset)
      BY <1>4, <3>1 DEF Advanced
    <3>3. ~(Larger(cursor[p].next, o + 1) <= park[r.cell].offset)
      BY <1>1, <1>4, <2>1
    <3> QED
      BY <3>2, <3>3 DEF Smaller
  <2> HIDE DEF r, o
  <2> QED
    BY <1>1, <1>5, <1>6, <2>1, <2>2, <2>3 DEF NextPosition, r, o
<1>7. CASE ~ReReads(p, o, r)
  <2>1. cursor' = [cursor EXCEPT ![p] = Advanced(p, o, r)]
    BY <1>7 DEF Apply, Skip, Park, Post, ReReads, ResumeAfterPost
  <2> QED
    BY <1>1, <1>4, <1>5, <1>7, <2>1 DEF NextPosition
<1> QED
    BY <1>6, <1>7

LEMMA FirstUnbookedAfter ==
    ASSUME \A c \in Cells, n, k \in Nat, r \in Records :
             /\ Parked(c)' /\ OnLog(Home[c], n, k)' /\ r = log'[Home[c]][n][k] /\ r.cell = c
             /\ OffsetOf(n, k) < park'[c].offset
             => SameEntry(r)'
    PROVE  ParkIsFirstUnbooked'
<1>1. SUFFICES ASSUME NEW c \in Cells, Parked(c)', NEW n \in Nat, NEW k \in Nat,
                      OnLog(Home[c], n, k)', log'[Home[c]][n][k] \in Records,
                      log'[Home[c]][n][k].cell = c, OffsetOf(n, k) < park'[c].offset
               PROVE  SameEntry(log[Home[c]][n][k])'
    BY DEF ParkIsFirstUnbooked, OnLog, OffsetOf, Parked
<1>2. PICK r \in Records : r = log'[Home[c]][n][k]
    BY <1>1
<1>3. SameEntry(r)'
    BY <1>1, <1>2
<1> QED
    BY <1>2, <1>3 DEF SameEntry, HeldRow

LEMMA FirstUnbookedNext ==
    ASSUME UNCHANGED log,
           \A c \in Cells, n, k \in Nat, r \in Records :
             /\ Parked(c)' /\ OnLog(Home[c], n, k) /\ r = log[Home[c]][n][k] /\ r.cell = c
             /\ OffsetOf(n, k) < park'[c].offset
             => SameEntry(r)'
    PROVE  ParkIsFirstUnbooked'
    BY FirstUnbookedAfter DEF OnLog

\* Parks that do not move keep everything before them booked.
LEMMA ParksKept ==
    ASSUME DaemonInv, LossInv, StoreStep \/ UNCHANGED storeVars, UNCHANGED log,
           \A c \in Cells : Parked(c)' => Parked(c) /\ park'[c] = park[c]
    PROVE  ParksAreHome' /\ ParkIsFirstUnbooked'
<1>1. ParksAreHome'
    BY DEF LossInv, ParksAreHome, Base
<1>2. ASSUME NEW c \in Cells, NEW n \in Nat, NEW k \in Nat, NEW r \in Records,
             Parked(c)', OnLog(Home[c], n, k), r = log[Home[c]][n][k], r.cell = c,
             OffsetOf(n, k) < park'[c].offset
      PROVE  SameEntry(r)'
  <2>1. SameEntry(r)
    BY <1>2 DEF LossInv, ParkIsFirstUnbooked
  <2> QED
    BY <2>1, SameEntryStays DEF DaemonInv
<1> QED
    BY <1>1, <1>2, FirstUnbookedNext

LEMMA ParksAfterRecord ==
    ASSUME DaemonInv, LossInv, NEW p \in Partitions, HasNext(p), NextItem(p) \in Records,
           Apply(p, NextOffset(p), NextItem(p)), UNCHANGED log
    PROVE  ParksAreHome' /\ ParkIsFirstUnbooked'
<1> DEFINE o == NextOffset(p)
           at == worker[p].at
           j == NextIndex(p)
<1>1. PICK r \in Records : r = NextItem(p)
    OBVIOUS
<1>2. /\ HasNext(p) /\ Apply(p, o, r) /\ UNCHANGED log
    BY <1>1
<1>3. /\ OnLog(p, at, j) /\ r = log[p][at][j] /\ OffsetOf(at, j) = o
      /\ at \in Nat /\ j \in Nat /\ o \in Nat /\ o = worker[p].position
      /\ o + 1 <= Base(at) /\ Base(at) <= Base(Len(log[p]))
    BY <1>1, <1>2, NextDelivery DEF DaemonInv, LossInv
<1>4. r.cell \in Cells /\ Home[r.cell] = p
    BY <1>3, LoggedAtHome DEF DaemonInv, LossInv
<1>5. StoreStep
    BY <1>2, <1>3 DEF StoreStep
<1>6. park \in [Cells -> ParkType \cup {NoPark}]
    BY DEF DaemonInv, TypeOK, StoreTypeOK
<1>7. CASE Skip(p, o, r)
    BY <1>2, <1>5, <1>7, ParksKept DEF Skip, Parked
<1>8. CASE Post(p, o, r)
  <2>1. \A c \in Cells : Parked(c)' => Parked(c) /\ park'[c] = park[c]
    BY <1>4, <1>6, <1>8 DEF Post, Parked
  <2> QED
    BY <1>2, <1>5, <2>1, ParksKept
<1>9. CASE Park(p, o, r)
  <2> DEFINE new == ParkAs(p, o, r, Judge(p, o, r))
  <2>1. park' = [park EXCEPT ![r.cell] = new]
    BY <1>9 DEF Park
  <2>2. new \in ParkType
    BY <1>3, <1>9, ParkAsType DEF Park, DaemonInv, TypeOK
  <2>3. /\ new.partition = Home[r.cell]
        /\ new.offset <= o
        /\ Parked(r.cell) => new.offset <= park[r.cell].offset
    <3>1. CASE Parked(r.cell)
      <4>1. park[r.cell] \in ParkType /\ park[r.cell].partition = Home[r.cell]
        BY <1>4, <1>6, <3>1 DEF LossInv, ParksAreHome, Parked
      <4> QED
        <5>1. new = [park[r.cell] EXCEPT !.reason = MoreSevere(@, Judge(p, o, r)),
                                          !.offset = Smaller(@, o)]
          BY <3>1 DEF ParkAs
        <5>2. new.partition = park[r.cell].partition
              /\ new.offset = Smaller(park[r.cell].offset, o)
          BY <4>1, <5>1 DEF ParkType
        <5>3. park[r.cell].offset \in Nat
          BY <4>1 DEF ParkType
        <5> HIDE DEF new
        <5> QED
          <6>1. new.offset <= o /\ new.offset <= park[r.cell].offset
            BY <1>3, <5>2, <5>3, SmallerIsBelow
          <6>2. new.partition = Home[r.cell]
            BY <4>1, <5>2
          <6> QED
            BY <6>1, <6>2
    <3>2. CASE ~Parked(r.cell)
      <4> DEFINE why == Judge(p, o, r)
                 w == IF why = "gap" THEN r.session ELSE NoSession
      <4>1. new = [partition |-> p, reason |-> why, offset |-> o, awaiting |-> w]
        BY <3>2 DEF ParkAs
      <4> HIDE DEF why, w, new
      <4>2. new.partition = p /\ new.offset = o
        BY <4>1
      <4>3. o \in Nat /\ Home[r.cell] = p
        BY <1>3, <1>4
      <4> QED
        BY <3>2, <4>2, <4>3
    <3> QED
      BY <3>1, <3>2
  <2>4. new.offset \in Nat
    BY <2>2 DEF ParkType
  <2> HIDE DEF new
  <2>5. ParksAreHome'
    <3>1. SUFFICES ASSUME NEW c \in Cells, Parked(c)'
                   PROVE  /\ park'[c].partition = Home[c]
                          /\ park'[c].offset < Base(Len(log[Home[c]]))
      BY <1>2 DEF ParksAreHome, Base
    <3>2. CASE c = r.cell
      <4>1. Base(at) \in Int /\ Base(Len(log[p])) \in Int
        <5>1. at \in Int /\ Len(log[p]) \in Int
          BY <1>3, OnLogFacts DEF DaemonInv
        <5> HIDE DEF at
        <5> QED
          BY <5>1, BaseType
      <4>2. park'[c] = new /\ Home[c] = p
        BY <1>4, <1>6, <2>1, <3>2
      <4>3. new.offset < Base(Len(log[p]))
        <5>1. /\ new.offset <= o /\ o + 1 <= Base(at)
              /\ Base(at) <= Base(Len(log[p]))
          BY <1>3, <2>3
        <5>2. \A x, y \in Nat, u, v \in Int : x <= y /\ y + 1 <= u /\ u <= v => x < v
          OBVIOUS
        <5> QED
          BY ZenonT(60), <1>3, <2>4, <4>1, <5>1, <5>2
      <4> QED
        BY <1>4, <2>3, <3>2, <4>2, <4>3
    <3>3. CASE c # r.cell
      BY <1>6, <2>1, <3>1, <3>3 DEF LossInv, ParksAreHome, Parked
    <3> QED
      BY <3>2, <3>3
  <2>6. ASSUME NEW c \in Cells, NEW n \in Nat, NEW k \in Nat, NEW r2 \in Records,
               Parked(c)', OnLog(Home[c], n, k), r2 = log[Home[c]][n][k], r2.cell = c,
               OffsetOf(n, k) < park'[c].offset
        PROVE  SameEntry(r2)'
    <3>1. OffsetOf(n, k) \in Nat
      BY <2>6, OnLogFacts, HomeAssumption DEF DaemonInv
    <3>2. SameEntry(r2)
      <4>1. CASE c # r.cell
        BY <1>6, <2>1, <2>6, <4>1 DEF LossInv, ParkIsFirstUnbooked, Parked
      <4>2. CASE c = r.cell /\ Parked(c)
        <5>1. OffsetOf(n, k) < park[c].offset
          <6>1. park'[c].offset = new.offset
            BY <1>6, <2>1, <4>2
          <6>2. park[c].offset \in Nat
            BY <1>6, <4>2 DEF Parked, ParkType
          <6> QED
            BY <2>3, <2>4, <2>6, <3>1, <4>2, <6>1, <6>2
        <5> QED
          BY <2>6, <4>2, <5>1 DEF LossInv, ParkIsFirstUnbooked
      <4>3. CASE c = r.cell /\ ~Parked(c)
        <5>1. OffsetOf(n, k) < o
          <6>1. park'[c].offset = new.offset
            BY <1>6, <2>1, <4>3
          <6>2. PICK x \in Nat, y \in Nat : x = new.offset /\ y = OffsetOf(n, k)
            BY <2>4, <3>1
          <6>3. y < x /\ x <= o /\ o \in Nat
            BY <1>3, <2>3, <2>6, <6>1, <6>2
          <6> HIDE DEF o
          <6>4. y < o
            BY <6>3
          <6> QED
            BY <6>2, <6>4
        <5>2. PICK limit \in Int : limit = o
          BY <1>3
        <5>3. SettledBelow(p, limit)
          BY <1>2, <1>3, <5>2 DEF HasNext, LossInv, NothingPassed
        <5>4. OnLog(p, n, k) /\ r2 = log[p][n][k]
          BY <1>4, <2>6, <4>3
        <5>5. Settled(p, OffsetOf(n, k), r2)
          BY <5>1, <5>2, <5>3, <5>4, SettledBelowMeans DEF DaemonInv
        <5> QED
          BY <2>6, <4>3, <5>5 DEF Settled, SettledRecord, Parked
      <4> QED
        BY <4>1, <4>2, <4>3
    <3> QED
      BY <1>5, <3>2, SameEntryStays DEF DaemonInv
  <2> QED
    BY <1>2, <2>5, <2>6, FirstUnbookedNext
<1> QED
    BY <1>2, <1>7, <1>8, <1>9 DEF Apply

LEMMA ParksAfterProduce ==
    ASSUME DaemonInv, LossInv, NEW p \in Partitions, NEW b \in Batches, Produce(p, b)
    PROVE  ParksAreHome' /\ ParkIsFirstUnbooked' /\ LogIsHomed'
<1>1. /\ log' = [log EXCEPT ![p] = Append(@, b)] /\ Homed(p, b)
      /\ UNCHANGED storeVars
    BY DEF Produce
<1>2. log \in [Partitions -> Seq(Batches)]
    BY DEF DaemonInv, TypeOK
<1>3. ASSUME NEW q \in Partitions
      PROVE  /\ Len(log[q]) \in Nat /\ Len(log'[q]) \in Nat /\ Len(log[q]) <= Len(log'[q])
             /\ \A n \in 1..Len(log[q]) : log'[q][n] = log[q][n]
             /\ \A n \in 1..Len(log'[q]) : n > Len(log[q]) =>
                  q = p /\ log'[q][n] = b /\ n = Len(log[q]) + 1
  <2>1. CASE q = p
    <3>1. log'[q] = Append(log[q], b) /\ log[q] \in Seq(Batches)
      BY <1>1, <1>2, <2>1
    <3> QED
      BY <2>1, <3>1
  <2>2. CASE q # p
    BY <1>1, <1>2, <2>2
  <2> QED
    BY <2>1, <2>2
<1>4. LogIsHomed'
  <2>1. SUFFICES ASSUME NEW q \in Partitions, NEW n \in 1..Len(log'[q])
                 PROVE  Homed(q, log'[q][n])
    BY DEF LogIsHomed, Homed
  <2>2. CASE n <= Len(log[q])
    <3>1. n \in 1..Len(log[q]) /\ log'[q][n] = log[q][n]
      BY <1>3, <2>2
    <3> QED
      BY <3>1 DEF LossInv, LogIsHomed
  <2>3. CASE n > Len(log[q])
    BY <1>1, <1>3, <2>3
  <2> QED
    BY <1>3, <2>2, <2>3
<1>5. ASSUME NEW c \in Cells, Parked(c)
      PROVE  /\ park[c].offset \in Nat
             /\ park[c].offset < Base(Len(log[Home[c]]))
             /\ Base(Len(log[Home[c]])) <= Base(Len(log'[Home[c]]))
             /\ Base(Len(log[Home[c]])) \in Int /\ Base(Len(log'[Home[c]])) \in Int
  <2>1. Home[c] \in Partitions
    BY HomeAssumption
  <2>2. park[c].offset \in Nat
    BY <1>5 DEF DaemonInv, TypeOK, StoreTypeOK, ParkType, Parked
  <2>3. park[c].offset < Base(Len(log[Home[c]]))
    BY <1>5 DEF LossInv, ParksAreHome
  <2>4. /\ Len(log[Home[c]]) \in Int /\ Len(log'[Home[c]]) \in Int
        /\ Len(log[Home[c]]) <= Len(log'[Home[c]])
    BY <1>3, <2>1
  <2>5. /\ Base(Len(log[Home[c]])) <= Base(Len(log'[Home[c]]))
        /\ Base(Len(log[Home[c]])) \in Int /\ Base(Len(log'[Home[c]])) \in Int
    BY <2>4, BaseOrder, BaseType
  <2> QED
    BY <2>2, <2>3, <2>5
<1>6. ParksAreHome'
  <2>1. SUFFICES ASSUME NEW c \in Cells, Parked(c)
                 PROVE  /\ park[c].partition = Home[c]
                        /\ park[c].offset < Base(Len(log'[Home[c]]))
    BY <1>1 DEF ParksAreHome, Base, Parked, storeVars
  <2> QED
    BY <1>5, <2>1 DEF LossInv, ParksAreHome
<1>7. ParkIsFirstUnbooked'
  <2>1. ASSUME NEW c \in Cells, NEW n \in Nat, NEW k \in Nat, NEW r \in Records,
               Parked(c)', OnLog(Home[c], n, k)', r = log'[Home[c]][n][k], r.cell = c,
               OffsetOf(n, k) < park'[c].offset
        PROVE  SameEntry(r)'
    <3>1. Home[c] \in Partitions
      BY HomeAssumption
    <3>2. n \in 1..Len(log'[Home[c]]) /\ k \in 1..Len(log'[Home[c]][n])
      BY <2>1 DEF OnLog
    <3>3. Parked(c) /\ park'[c] = park[c]
      BY <1>1, <2>1 DEF Parked, storeVars
    <3>4. n <= Len(log[Home[c]])
      <4>1. SUFFICES ASSUME n > Len(log[Home[c]]) PROVE FALSE
        BY <1>3, <3>1
      <4>2. Base(Len(log[Home[c]])) <= Base(n - 1) /\ Base(n - 1) \in Int
        <5>1. /\ Len(log[Home[c]]) \in Int /\ n - 1 \in Int
              /\ Len(log[Home[c]]) <= n - 1
          BY <1>3, <3>1, <4>1
        <5> QED
          BY <5>1, BaseOrder, BaseType
      <4>3. k >= 1
        <5>1. log'[Home[c]][n] = b
          BY <1>3, <3>1, <3>2, <4>1
        <5> QED
          BY <3>2, <5>1, LogAssumption
      <4> QED
        BY <1>5, <2>1, <3>3, <4>2, <4>3 DEF OffsetOf
    <3>5. log'[Home[c]][n] = log[Home[c]][n] /\ n \in 1..Len(log[Home[c]])
      BY <1>3, <3>1, <3>2, <3>4
    <3>6. OnLog(Home[c], n, k)
      BY <3>2, <3>5 DEF OnLog
    <3>7. SameEntry(r)
      BY <2>1, <3>3, <3>5, <3>6 DEF LossInv, ParkIsFirstUnbooked
    <3> QED
      BY <1>1, <3>7 DEF SameEntry, HeldRow, storeVars
  <2> QED
    BY <2>1, FirstUnbookedAfter
<1> QED
    BY <1>4, <1>6, <1>7
----------------------------------------------------------------------------
(* What a worker and the resume offset of its partition promise, apart.    *)

ReaderInv(p) ==
    /\ cursor[p].next <= Base(Len(log[p]))
    /\ SettledBelow(p, cursor[p].next)
    /\ worker[p].fetched => running /\ Base(worker[p].at - 1) <= worker[p].position
    /\ worker[p].seeked /\ ~worker[p].fetched =>
         running /\ Base(worker[p].at) <= worker[p].position
    /\ running =>
         /\ worker[p].position <= Base(Len(log[p]))
         /\ SettledBelow(p, worker[p].position)

LEMMA ReadersNow ==
    ASSUME TypeOK, LossInv, NEW p \in Partitions
    PROVE  ReaderInv(p) /\ cursor[p].next \in Nat /\ worker[p].position \in Nat
           /\ Base(Len(log[p])) \in Int
<1>1. cursor[p].next \in Nat /\ worker[p].position \in Nat
    BY WorkerFields DEF TypeOK, StoreTypeOK, CursorType
<1>2. Base(Len(log[p])) \in Int
    BY BaseType DEF TypeOK
<1>3. /\ cursor[p].next <= Base(Len(log[p]))
      /\ running => worker[p].position <= Base(Len(log[p]))
    BY DEF LossInv, WithinTheLog
<1>4. SettledBelow(p, cursor[p].next) /\ (running => SettledBelow(p, worker[p].position))
    BY DEF LossInv, NothingPassed
<1>5. /\ worker[p].fetched => running /\ Base(worker[p].at - 1) <= worker[p].position
      /\ worker[p].seeked /\ ~worker[p].fetched =>
           running /\ Base(worker[p].at) <= worker[p].position
    BY DEF LossInv, ReadsFromThePosition
<1> QED
    BY <1>1, <1>2, <1>3, <1>4, <1>5 DEF ReaderInv

LEMMA ReadersNext ==
    ASSUME \A p \in Partitions : ReaderInv(p)',
           \A p \in Partitions : cursor'[p].next \in Nat /\ worker'[p].position \in Nat
    PROVE  WithinTheLog' /\ ReadsFromThePosition' /\ NothingPassed'
    BY DEF ReaderInv, WithinTheLog, ReadsFromThePosition, NothingPassed

\* A reader's promises after a step, from the values the step leaves.
LEMMA ReaderAfter ==
    ASSUME NEW p \in Partitions, NEW next \in Int, NEW position \in Int,
           cursor'[p].next = next, worker'[p].position = position,
           next <= Base(Len(log'[p])),
           SettledBelow(p, next)',
           worker'[p].fetched => running' /\ Base(worker'[p].at - 1) <= position,
           worker'[p].seeked /\ ~worker'[p].fetched =>
             running' /\ Base(worker'[p].at) <= position,
           running' => position <= Base(Len(log'[p])) /\ SettledBelow(p, position)'
    PROVE  ReaderInv(p)'
<1>1. SettledBelow(p, cursor[p].next)'
    BY DEF SettledBelow
<1>2. running' => SettledBelow(p, worker[p].position)'
    BY DEF SettledBelow
<1> QED
    BY <1>1, <1>2 DEF ReaderInv, Base

\* A reader that takes no part keeps its promises while the records of its
\* partition stay settled.
LEMMA ReaderIdle ==
    ASSUME TypeOK, LossInv, NEW q \in Partitions,
           cursor'[q] = cursor[q], worker'[q] = worker[q], log'[q] = log[q],
           UNCHANGED running,
           \A o \in Nat, r \in Records :
             Home[r.cell] = q /\ SettledRecord(q, o, r) => SettledRecord(q, o, r)'
    PROVE  ReaderInv(q)'
<1>1. PICK next \in Int : next = cursor[q].next
    BY ReadersNow
<1>2. PICK position \in Int : position = worker[q].position
    BY ReadersNow
<1>3. ReaderInv(q)
    BY ReadersNow
<1>4. SettledBelow(q, next)'
    BY <1>1, <1>3, SettledBelowStays DEF ReaderInv, LossInv
<1>5. running => SettledBelow(q, position)'
    BY <1>2, <1>3, SettledBelowStays DEF ReaderInv, LossInv
<1> QED
    BY <1>1, <1>2, <1>3, <1>4, <1>5, ReaderAfter DEF ReaderInv

\* One record past: what was settled stays so, and the record passed is.
LEMMA OnePast ==
    ASSUME TypeOK, HandsAreOnTheLog, LossInv, NEW p \in Partitions, HasNext(p),
           log'[p] = log[p], NEW limit \in Int, limit <= NextOffset(p) + 1,
           \A o \in Nat, r \in Records :
             Home[r.cell] = p /\ o < limit /\ SettledRecord(p, o, r)
               => SettledRecord(p, o, r)',
           \A o \in Nat, i \in LogItems :
             limit = NextOffset(p) + 1 /\ o = NextOffset(p) /\ i = NextItem(p)
               => Settled(p, o, i)'
    PROVE  SettledBelow(p, limit)'
<1> DEFINE at == worker[p].at
           j == NextIndex(p)
<1>1. /\ OnLog(p, at, j) /\ NextItem(p) = log[p][at][j] /\ OffsetOf(at, j) = NextOffset(p)
      /\ at \in Nat /\ j \in Nat /\ NextOffset(p) \in Nat
      /\ NextOffset(p) = worker[p].position
    BY NextDelivery DEF LossInv
<1>2. PICK position \in Int : position = NextOffset(p)
    BY <1>1
<1>3. SettledBelow(p, position)
    BY <1>1, <1>2 DEF HasNext, LossInv, NothingPassed
<1>4. ASSUME NEW n \in Nat, NEW k \in Nat, NEW i \in LogItems,
             OnLog(p, n, k), i = log[p][n][k], OffsetOf(n, k) < limit
      PROVE  Settled(p, OffsetOf(n, k), i)'
  <2>1. OffsetOf(n, k) \in Nat /\ k \in 1..Stride /\ j \in 1..Stride
    BY <1>1, <1>4, OnLogFacts, StrideAssumption
  <2>2. CASE OffsetOf(n, k) < position
    <3>1. Settled(p, OffsetOf(n, k), i)
      BY <1>3, <1>4, <2>2, SettledBelowMeans
    <3>2. i \in Records => Home[i.cell] = p
      BY <1>4, LoggedAtHome DEF LossInv
    <3> QED
      BY <1>4, <2>1, <3>1, <3>2 DEF Settled
  <2>3. CASE OffsetOf(n, k) >= position
    <3>1. OffsetOf(n, k) = OffsetOf(at, j) /\ limit = NextOffset(p) + 1
      BY <1>1, <1>2, <1>4, <2>1, <2>3
    <3>2. n = at /\ k = j
      BY <1>1, <1>4, <2>1, <3>1, OffsetsDiffer
    <3>3. i = NextItem(p) /\ OffsetOf(n, k) = NextOffset(p)
      BY <1>1, <1>4, <3>2
    <3> QED
      BY <2>1, <3>1, <3>3
  <2> QED
    BY <1>2, <1>1, <2>1, <2>2, <2>3
<1> QED
    BY <1>4, SettledBelowNext
----------------------------------------------------------------------------
(* The readers, action by action.                                          *)

\* A reader whose record is applied, and who is then where MoveOn takes it, or
\* where it was because the answer is lost.
LEMMA ReadersAfterDelivery ==
    ASSUME DaemonInv, LossInv, NEW p \in Partitions, HasNext(p), NextItem(p) \in Records,
           Apply(p, NextOffset(p), NextItem(p)), UNCHANGED <<log, running>>,
           NEW q \in Partitions, q # p => worker'[q] = worker[q],
           NEW position \in Int, worker'[p].position = position,
           \/ position = NextPosition(p, NextOffset(p), NextItem(p))
           \/ position = NextOffset(p) /\ ~ReReads(p, NextOffset(p), NextItem(p)),
           worker'[p].fetched => Base(worker'[p].at - 1) <= position,
           worker'[p].seeked => worker'[p].fetched
    PROVE  ReaderInv(q)'
<1> DEFINE o == NextOffset(p)
           r == NextItem(p)
<1>1. HasNext(p) /\ r \in Records /\ Apply(p, o, r) /\ UNCHANGED <<log, running>>
    OBVIOUS
<1>2. /\ cursor' = [cursor EXCEPT ![p] = cursor'[p]]
      /\ NextPosition(p, o, r) \in Nat /\ NextPosition(p, o, r) <= o + 1
      /\ ReReads(p, o, r) =>
           NextPosition(p, o, r) <= o /\ cursor'[p].next = NextPosition(p, o, r)
      /\ ~ReReads(p, o, r) =>
           /\ NextPosition(p, o, r) = o + 1
           /\ cursor'[p].next = Larger(cursor[p].next, o + 1)
    BY <1>1, CursorFollows
<1>3. /\ o \in Nat /\ o + 1 <= Base(Len(log[p])) /\ Base(Len(log[p])) \in Int
      /\ running /\ cursor[p].next \in Nat /\ ReaderInv(p)
  <2>1. worker[p].at \in Int /\ Base(Len(log[p])) \in Int /\ cursor[p].next \in Nat
        /\ ReaderInv(p)
    BY ReadersNow, WorkerFields DEF DaemonInv
  <2>2. Base(worker[p].at) \in Int
    BY <2>1, BaseType
  <2>3. /\ o \in Nat
        /\ o + 1 <= Base(worker[p].at) /\ Base(worker[p].at) <= Base(Len(log[p]))
    BY <1>1, NextDelivery DEF DaemonInv, LossInv
  <2>4. running
    BY <1>1 DEF HasNext
  <2> HIDE DEF o
  <2>5. o + 1 <= Base(Len(log[p]))
    BY <2>1, <2>2, <2>3
  <2> QED
    BY <2>1, <2>3, <2>4, <2>5
<1>4. CASE q # p
  <2>1. cursor'[q] = cursor[q] /\ worker'[q] = worker[q]
    BY <1>2, <1>4 DEF DaemonInv, TypeOK, StoreTypeOK
  <2>2. \A o2 \in Nat, r2 \in Records :
          Home[r2.cell] = q /\ SettledRecord(q, o2, r2) => SettledRecord(q, o2, r2)'
    BY <1>1, <1>4, SettledStays
  <2> QED
    BY <1>1, <2>1, <2>2, ReaderIdle DEF DaemonInv
<1>5. CASE q = p
  <2>1. \A o2 \in Nat, r2 \in Records :
          /\ Home[r2.cell] = p /\ SettledRecord(p, o2, r2)
          /\ ReReads(p, o, r) => o2 < NextPosition(p, o, r)
          => SettledRecord(p, o2, r2)'
    BY <1>1, SettledStays
  <2>2. ASSUME NEW limit \in Int, limit <= o + 1,
               ReReads(p, o, r) => limit = NextPosition(p, o, r)
        PROVE  SettledBelow(p, limit)'
    <3>1. \A o2 \in Nat, r2 \in Records :
            Home[r2.cell] = p /\ o2 < limit /\ SettledRecord(p, o2, r2)
              => SettledRecord(p, o2, r2)'
      BY <2>1, <2>2
    <3>2. ASSUME NEW o2 \in Nat, NEW i \in LogItems, limit = o + 1, o2 = o, i = r
          PROVE  Settled(p, o2, i)'
      <4>1. ~ReReads(p, o, r)
        BY <1>2, <1>3, <2>2, <3>2
      <4>2. i \in Records
        BY <1>1, <3>2
      <4>3. SettledRecord(p, o2, i)'
        BY <1>1, <3>2, <4>1, <4>2, AppliedIsSettled
      <4>4. i \notin Garbage
        BY <4>2, LogAssumption DEF Items
      <4> QED
        BY <4>3, <4>4 DEF Settled
    <3> QED
      BY <1>1, <2>2, <3>1, <3>2, OnePast DEF DaemonInv
  <2>3. position <= o + 1 /\ (ReReads(p, o, r) => position = NextPosition(p, o, r))
    BY <1>2, <1>3
  <2>4. SettledBelow(p, position)'
    BY <2>2, <2>3
  <2>5. position <= Base(Len(log[p]))
    BY <1>3, <2>3
  <2>6. \E next \in Int : /\ next = cursor'[p].next /\ next <= Base(Len(log[p]))
                          /\ SettledBelow(p, next)'
    <3>1. CASE ReReads(p, o, r)
      <4>1. PICK next \in Int : next = NextPosition(p, o, r)
        BY <1>2
      <4>2. SettledBelow(p, next)'
        BY <1>2, <2>2, <3>1, <4>1
      <4>3. next = cursor'[p].next /\ next <= o + 1
        BY <1>2, <3>1, <4>1
      <4> QED
        BY <1>3, <4>2, <4>3
    <3>2. CASE ~ReReads(p, o, r) /\ cursor[p].next >= o + 1
      <4>1. PICK next \in Int : next = cursor[p].next
        BY <1>3
      <4>2. SettledBelow(p, next) /\ next <= Base(Len(log[p]))
        BY <1>3, <4>1 DEF ReaderInv
      <4>3. SettledBelow(p, next)'
        BY <1>1, <2>1, <3>2, <4>2, SettledBelowStays DEF DaemonInv, LossInv
      <4>4. next = cursor'[p].next
        BY <1>2, <3>2, <4>1 DEF Larger
      <4> QED
        BY <4>2, <4>3, <4>4
    <3>3. CASE ~ReReads(p, o, r) /\ ~(cursor[p].next >= o + 1)
      <4>1. PICK next \in Int : next = o + 1
        BY <1>3
      <4>2. SettledBelow(p, next)'
        BY <1>3, <2>2, <3>3, <4>1
      <4>3. next = cursor'[p].next
        BY <1>2, <3>3, <4>1 DEF Larger
      <4> QED
        BY <1>3, <4>1, <4>2, <4>3
    <3> QED
      BY <3>1, <3>2, <3>3
  <2>7. PICK next \in Int : /\ next = cursor'[p].next /\ next <= Base(Len(log[p]))
                           /\ SettledBelow(p, next)'
    BY <2>6
  <2> HIDE DEF o, r
  <2> QED
    BY <1>3, <1>5, <2>4, <2>5, <2>7, ReaderAfter
<1> QED
    BY <1>4, <1>5

\* Where MoveOn leaves its worker.
LEMMA MovedOn ==
    ASSUME DaemonInv, LossInv, NEW p \in Partitions, ApplyRecord(p)
    PROVE  /\ worker'[p].position = NextPosition(p, NextOffset(p), NextItem(p))
           /\ \A q \in Partitions : q # p => worker'[q] = worker[q]
           /\ worker'[p].fetched => Base(worker'[p].at - 1) <= worker'[p].position
           /\ worker'[p].seeked => worker'[p].fetched
<1> DEFINE o == NextOffset(p)
           r == NextItem(p)
<1>1. HasNext(p) /\ worker[p].fetched
    BY DEF ApplyRecord, HasNext
<1>2. worker \in [Partitions -> WorkerType]
    BY DEF DaemonInv, TypeOK
<1>3. o = worker[p].position /\ o \in Nat
    BY <1>1, NextDelivery DEF DaemonInv, LossInv
<1>4. CASE ReReads(p, o, r)
  <2>1. PICK position \in Nat : position = NextPosition(p, o, r)
    BY CursorFollows DEF ApplyRecord
  <2>2. worker' = [worker EXCEPT ![p].position = position,
                                 ![p].seeked = FALSE, ![p].fetched = FALSE]
    BY <1>4, <2>1 DEF ApplyRecord, MoveOn
  <2>3. /\ worker'[p].position = position /\ ~worker'[p].fetched /\ ~worker'[p].seeked
        /\ \A q \in Partitions : q # p => worker'[q] = worker[q]
    BY <1>2, <2>2 DEF WorkerType
  <2> QED
    BY <2>1, <2>3
<1>5. CASE ~ReReads(p, o, r)
  <2>1. worker' = [worker EXCEPT ![p].position = o + 1] /\ NextPosition(p, o, r) = o + 1
    BY <1>5 DEF ApplyRecord, MoveOn, NextPosition
  <2>2. /\ worker'[p].position = o + 1 /\ worker'[p].at = worker[p].at
        /\ worker'[p].fetched
        /\ \A q \in Partitions : q # p => worker'[q] = worker[q]
    BY <1>1, <1>2, <2>1 DEF WorkerType
  <2>3. Base(worker[p].at - 1) \in Int /\ Base(worker[p].at - 1) <= o
    BY <1>1, <1>3, WorkerFields, BaseType DEF LossInv, ReadsFromThePosition, DaemonInv
  <2>4. Base(worker[p].at - 1) <= o + 1
    <3> HIDE DEF o
    <3> QED
      BY <1>3, <2>3
  <2> QED
    BY <2>1, <2>2, <2>4
<1> QED
    BY <1>4, <1>5

LEMMA ReadersAfterRecord ==
    ASSUME DaemonInv, LossInv, NEW p \in Partitions, ApplyRecord(p), NEW q \in Partitions
    PROVE  ReaderInv(q)'
<1>1. /\ HasNext(p) /\ NextItem(p) \in Records /\ Apply(p, NextOffset(p), NextItem(p))
      /\ UNCHANGED <<log, running>>
    BY DEF ApplyRecord, brokerVars
<1>2. PICK position \in Int : position = NextPosition(p, NextOffset(p), NextItem(p))
    BY <1>1, CursorFollows
<1>3. /\ worker'[p].position = position
      /\ q # p => worker'[q] = worker[q]
      /\ worker'[p].fetched => Base(worker'[p].at - 1) <= position
      /\ worker'[p].seeked => worker'[p].fetched
    BY <1>2, MovedOn
<1> QED
    BY <1>1, <1>2, <1>3, ReadersAfterDelivery

\* An answer lost leaves the worker where it was, and the store one further.
LEMMA ReadersAfterLostAck ==
    ASSUME DaemonInv, LossInv, NEW p \in Partitions, LostAck(p), NextItem(p) \in Records,
           ~LosesGapFill(p), NEW q \in Partitions
    PROVE  ReaderInv(q)'
<1>1. /\ HasNext(p) /\ Apply(p, NextOffset(p), NextItem(p))
      /\ UNCHANGED <<log, running, worker>>
      /\ ~ReReads(p, NextOffset(p), NextItem(p))
    BY ItemsAssumption DEF LostAck, LosesGapFill, brokerVars
<1>2. PICK position \in Int : position = worker[p].position
    BY WorkerFields DEF DaemonInv
<1>3. position = NextOffset(p) /\ worker[p].fetched
    BY <1>1, <1>2, NextDelivery DEF DaemonInv, LossInv, HasNext
<1>4. Base(worker[p].at - 1) <= position
    BY <1>2, <1>3 DEF LossInv, ReadsFromThePosition
<1>5. /\ worker'[p].position = position
      /\ q # p => worker'[q] = worker[q]
      /\ worker'[p].fetched => Base(worker'[p].at - 1) <= position
      /\ worker'[p].seeked => worker'[p].fetched
    BY <1>1, <1>2, <1>3, <1>4
<1> QED
    BY <1>1, <1>3, <1>5, ReadersAfterDelivery

LEMMA ReadersAfterOther ==
    ASSUME DaemonInv, LossInv, NEW p \in Partitions,
           \/ ApplyNextOperation(p) \/ PassOver(p)
           \/ LostAck(p) /\ NextItem(p) \notin Records,
           NEW q \in Partitions
    PROVE  ReaderInv(q)'
<1> DEFINE o == NextOffset(p)
           i == NextItem(p)
<1>1. /\ HasNext(p) /\ i \notin Records /\ i \notin Garbage /\ UNCHANGED <<log, running>>
      /\ UNCHANGED <<chain, park>>
    BY ItemsAssumption, LogAssumption
       DEF ApplyNextOperation, PassOver, LostAck, ApplyOperation, BookOperation, PassOperation,
           brokerVars, storeVars, rows, Items
<1>2. \A q2 \in Partitions, o2 \in Nat, r2 \in Records :
        SettledRecord(q2, o2, r2) => SettledRecord(q2, o2, r2)'
    BY <1>1 DEF SettledRecord, SameEntry, HeldRow
<1>3. /\ o \in Nat /\ o = worker[p].position /\ o + 1 <= Base(Len(log[p]))
      /\ worker[p].fetched /\ running
  <2>0. worker[p].at \in Int /\ Base(Len(log[p])) \in Int
    BY ReadersNow, WorkerFields DEF DaemonInv
  <2>1. Base(worker[p].at) \in Int /\ Base(Len(log[p])) \in Int
    BY <2>0, BaseType
  <2>2. /\ o \in Nat /\ o = worker[p].position
        /\ o + 1 <= Base(worker[p].at) /\ Base(worker[p].at) <= Base(Len(log[p]))
    BY <1>1, NextDelivery DEF DaemonInv, LossInv
  <2>3. worker[p].fetched /\ running
    BY <1>1 DEF HasNext
  <2> HIDE DEF o
  <2>4. o + 1 <= Base(Len(log[p]))
    BY <2>1, <2>2
  <2> QED
    BY <2>2, <2>3, <2>4
<1>4. worker' = [worker EXCEPT ![p].position = o + 1] \/ worker' = worker
    BY DEF ApplyNextOperation, PassOver, LostAck
<1>5. worker \in [Partitions -> WorkerType]
    BY DEF DaemonInv, TypeOK
<1>6. cursor \in [Partitions -> CursorType] /\ cursor[p].next \in Nat /\ ReaderInv(p)
      /\ Base(Len(log[p])) \in Int
    BY ReadersNow DEF DaemonInv, TypeOK, StoreTypeOK
<1>7. /\ q # p => cursor'[q] = cursor[q]
      /\ cursor'[p].next \in {cursor[p].next, o + 1}
    <2>1. CASE PassOver(p)
      BY <2>1 DEF PassOver, storeVars
    <2>2. CASE ~PassOver(p)
      <3>1. cursor' = [cursor EXCEPT ![p] = Advanced(p, o, i)]
        BY <1>1, <2>2 DEF ApplyNextOperation, LostAck, ApplyOperation, BookOperation, PassOperation
      <3>2. Advanced(p, o, i).next \in {cursor[p].next, o + 1}
        BY DEF Advanced, Larger
      <3> QED
        BY <1>6, <3>1, <3>2
    <2> QED
      BY <2>1, <2>2
<1>8. CASE q # p
  <2>1. cursor'[q] = cursor[q] /\ worker'[q] = worker[q]
    BY <1>4, <1>5, <1>7, <1>8
  <2> QED
    BY <1>1, <1>2, <2>1, ReaderIdle DEF DaemonInv
<1>9. CASE q = p
  <2>1. \A limit \in Int : limit <= o + 1 => SettledBelow(p, limit)'
    <3>1. ASSUME NEW limit \in Int, limit <= o + 1 PROVE SettledBelow(p, limit)'
      <4>1. \A o2 \in Nat, i2 \in LogItems :
              limit = o + 1 /\ o2 = o /\ i2 = i => Settled(p, o2, i2)'
        BY <1>1 DEF Settled
      <4> QED
        BY <1>1, <1>2, <3>1, <4>1, OnePast DEF DaemonInv
    <3> QED
      BY <3>1
  <2>2. PICK next \in Int : next = cursor'[p].next
    BY <1>3, <1>6, <1>7
  <2>3. PICK position \in Int : /\ position = worker'[p].position
                               /\ position \in {o, o + 1}
    BY <1>3, <1>4, <1>5 DEF WorkerType
  <2>4. worker'[p].fetched /\ worker'[p].at = worker[p].at
    BY <1>3, <1>4, <1>5 DEF WorkerType
  <2>5. Base(worker'[p].at - 1) <= position
    <3>1. Base(worker[p].at - 1) \in Int
      BY WorkerFields, BaseType DEF DaemonInv
    <3>2. Base(worker[p].at - 1) <= worker[p].position
      BY <1>3 DEF LossInv, ReadsFromThePosition
    <3> QED
      <4> HIDE DEF o
      <4>1. Base(worker[p].at - 1) <= position
        BY <1>3, <2>3, <3>1, <3>2
      <4> QED
        BY <2>4, <4>1
  <2>6. SettledBelow(p, next)' /\ next <= Base(Len(log[p]))
    <3>1. CASE next = cursor[p].next
      <4>1. SettledBelow(p, next) /\ next <= Base(Len(log[p]))
        BY <1>6, <3>1 DEF ReaderInv
      <4>2. SettledBelow(p, next)'
        BY <1>1, <1>2, <4>1, SettledBelowStays DEF DaemonInv, LossInv
      <4> QED
        BY <4>1, <4>2
    <3>2. CASE next = o + 1
      BY <1>3, <2>1, <3>2
    <3> QED
      BY <1>7, <2>2, <3>1, <3>2
  <2>7. SettledBelow(p, position)' /\ position <= Base(Len(log[p]))
    <3>1. position <= o + 1
      BY <1>3, <2>3
    <3> HIDE DEF o
    <3> QED
      BY <1>3, <1>6, <2>1, <3>1
  <2> QED
    BY <1>1, <1>3, <1>9, <2>2, <2>3, <2>4, <2>5, <2>6, <2>7, ReaderAfter
<1> QED
    BY <1>8, <1>9

\* The end of a batch: what is left before the next one is empty.
LEMMA BatchIsRead ==
    ASSUME DaemonInv, LossInv, NEW p \in Partitions, running, worker[p].fetched, ~HasNext(p)
    PROVE  /\ Larger(worker[p].position, Base(worker[p].at)) \in Nat
           /\ Larger(worker[p].position, Base(worker[p].at)) <= Base(Len(log[p]))
           /\ worker[p].position <= Larger(worker[p].position, Base(worker[p].at))
           /\ Base(worker[p].at) <= Larger(worker[p].position, Base(worker[p].at))
           /\ \A n, k \in Nat :
                OnLog(p, n, k)
                  /\ OffsetOf(n, k) < Larger(worker[p].position, Base(worker[p].at))
                => OffsetOf(n, k) < worker[p].position
<1> DEFINE at == worker[p].at
           position == worker[p].position
<1>1. at \in 1..Len(log[p]) /\ Len(log[p]) \in Nat /\ at \in Nat
    BY DEF DaemonInv, HandsAreOnTheLog, TypeOK
<1>2. position \in Nat /\ Base(at - 1) <= position /\ ReaderInv(p)
  <2>1. position \in Nat /\ ReaderInv(p)
    BY ReadersNow DEF DaemonInv
  <2>2. Base(at - 1) <= position
    BY DEF LossInv, ReadsFromThePosition
  <2> QED
    BY <2>1, <2>2
<1>3. /\ Base(at) \in Int /\ Base(at - 1) \in Int /\ Base(at) = Base(at - 1) + Stride
      /\ Base(at) <= Base(Len(log[p])) /\ Base(Len(log[p])) \in Int
  <2>1. at \in Int /\ at - 1 \in Int /\ Len(log[p]) \in Int /\ at <= Len(log[p])
    BY <1>1
  <2> HIDE DEF at
  <2>2. Base(at) \in Int /\ Base(at - 1) \in Int /\ Base(Len(log[p])) \in Int
    BY <2>1, BaseType
  <2>3. Base(at) = Base(at - 1) + Stride
    BY <2>1, BaseNext
  <2>4. Base(at) <= Base(Len(log[p]))
    BY <2>1, BaseOrder
  <2> QED
    BY <2>2, <2>3, <2>4
<1>4. position <= Base(Len(log[p])) /\ SettledBelow(p, position)
    BY <1>2 DEF ReaderInv
<1>5. /\ Larger(position, Base(at)) \in Int
      /\ Larger(position, Base(at)) \in Nat
      /\ Larger(position, Base(at)) <= Base(Len(log[p]))
      /\ position <= Larger(position, Base(at))
      /\ Base(at) <= Larger(position, Base(at))
    BY <1>2, <1>3, <1>4 DEF Larger
<1>6. Len(log[p][at]) \in Nat
  <2>1. log[p][at] \in Batches
    BY <1>1 DEF DaemonInv, TypeOK
  <2> QED
    BY <2>1, LogAssumption
<1>7. position >= Base(at - 1) + Len(log[p][at])
  <2>1. ~(NextIndex(p) <= Len(log[p][at]))
    BY DEF HasNext, Hand
  <2>2. NextOffset(p) = position
    BY <1>2, <1>3 DEF NextOffset, HandBase, Larger
  <2> HIDE DEF at, position
  <2>3. NextIndex(p) = position - Base(at - 1) + 1
    BY <2>2 DEF NextIndex, HandBase, at
  <2> QED
    BY <1>2, <1>3, <1>6, <2>1, <2>3
<1>8. PICK limit \in Int : limit = Larger(position, Base(at))
    BY <1>5
<1>9. PICK reached \in Int : reached = position
    BY <1>2
<1>10. ASSUME NEW n \in Nat, NEW k \in Nat, OnLog(p, n, k), OffsetOf(n, k) < limit
       PROVE  OffsetOf(n, k) < reached
  <2>1. n >= 1 /\ OffsetOf(n, k) \in Nat /\ OffsetOf(n, k) < Base(n) /\ k >= 1
        /\ k \in Int /\ n \in Int
    BY <1>10, OnLogFacts DEF DaemonInv
  <2>2. Base(n) \in Int /\ Base(n - 1) \in Int
    BY <2>1, BaseType
  <2>3. SUFFICES ASSUME OffsetOf(n, k) >= reached PROVE FALSE
    BY <1>9, <2>1
  <2>4. OffsetOf(n, k) < Base(at)
    BY <1>2, <1>3, <1>8, <1>9, <1>10, <2>1, <2>3 DEF Larger
  <2>5. CASE n < at
    <3>1. Base(n) <= Base(at - 1)
      BY <1>1, <2>1, <2>5, BaseOrder
    <3> QED
      BY <1>2, <1>3, <1>9, <2>1, <2>2, <2>3, <3>1
  <2>6. CASE n > at
    <3>1. Base(at) <= Base(n - 1)
      BY <1>1, <2>1, <2>6, BaseOrder
    <3> QED
      BY <1>3, <2>1, <2>2, <2>4, <3>1 DEF OffsetOf
  <2>7. CASE n = at
    <3>1. k <= Len(log[p][at])
      BY <1>10, <2>7, <1>6 DEF OnLog
    <3>2. OffsetOf(n, k) = Base(at - 1) + k - 1
      BY <2>7 DEF OffsetOf
    <3> HIDE DEF at, position
    <3> QED
      BY <1>2, <1>3, <1>6, <1>7, <1>9, <2>1, <2>3, <3>1, <3>2
  <2> QED
    BY <1>1, <2>1, <2>5, <2>6, <2>7
<1> QED
    BY <1>5, <1>8, <1>9, <1>10

LEMMA BatchEnds ==
    ASSUME DaemonInv, LossInv, NEW p \in Partitions, running, worker[p].fetched, ~HasNext(p)
    PROVE  SettledBelow(p, Larger(worker[p].position, Base(worker[p].at)))
<1>1. PICK limit \in Int : limit = Larger(worker[p].position, Base(worker[p].at))
    BY BatchIsRead
<1>2. PICK reached \in Int : reached = worker[p].position
    BY WorkerFields DEF DaemonInv
<1>3. SettledBelow(p, reached)
    BY <1>2, ReadersNow DEF ReaderInv, DaemonInv
<1>4. ASSUME NEW n \in Nat, NEW k \in Nat, OnLog(p, n, k), OffsetOf(n, k) < limit
      PROVE  Settled(p, OffsetOf(n, k), log[p][n][k])
  <2>1. OffsetOf(n, k) < reached
    BY <1>1, <1>2, <1>4, BatchIsRead
  <2> QED
    BY <1>3, <1>4, <2>1, SettledBelowMeans DEF DaemonInv
<1>5. SettledBelow(p, limit)
    BY <1>4, SettledBelowMeans DEF DaemonInv
<1> QED
    BY <1>1, <1>5

\* Steps that touch neither the rows nor the log: a worker that ends at a
\* position it may be at.
LEMMA ReaderMoves ==
    ASSUME DaemonInv, LossInv, NEW p \in Partitions, NEW q \in Partitions,
           UNCHANGED <<chain, park, cursor, log, running>>, running,
           q # p => worker'[q] = worker[q],
           NEW position \in Int, worker'[p].position = position,
           position <= Base(Len(log[p])),
           SettledBelow(p, position),
           worker'[p].fetched => Base(worker'[p].at - 1) <= position,
           worker'[p].seeked /\ ~worker'[p].fetched => Base(worker'[p].at) <= position
    PROVE  ReaderInv(q)'
<1>1. \A q2 \in Partitions, o2 \in Nat, r2 \in Records :
        SettledRecord(q2, o2, r2) => SettledRecord(q2, o2, r2)'
    BY DEF SettledRecord, SameEntry, HeldRow
<1>2. CASE q # p
    BY <1>1, <1>2, ReaderIdle DEF DaemonInv
<1>3. CASE q = p
  <2>1. /\ ReaderInv(p) /\ cursor[p].next \in Int /\ worker[p].position \in Int
        /\ Base(Len(log[p])) \in Int
    BY ReadersNow DEF DaemonInv
  <2>2. PICK next \in Int : next = cursor[p].next
    BY <2>1
  <2>3. next <= Base(Len(log[p])) /\ SettledBelow(p, next)
    BY <2>1, <2>2 DEF ReaderInv
  <2>4. SettledBelow(p, next)' /\ SettledBelow(p, position)'
    BY <1>1, <2>3, SettledBelowStays DEF DaemonInv, LossInv
  <2> QED
    BY <1>3, <2>2, <2>3, <2>4, ReaderAfter
<1> QED
    BY <1>2, <1>3

\* The worker that Finish leaves has read the batch and has none in hand.
LEMMA WorkerAfterFinish ==
    ASSUME DaemonInv, NEW p \in Partitions, Finish(p)
    PROVE  \E w : /\ worker' = [worker EXCEPT ![p] = w]
                  /\ w.position = Larger(worker[p].position, Base(worker[p].at))
                  /\ ~w.fetched /\ w.at = worker[p].at
<1> DEFINE a == AfterBatch(p)
           read == Larger(worker[p].position, Base(worker[p].at))
           Fields == [position: {read}, seeked: BOOLEAN, at: {worker[p].at}, fetched: {FALSE},
                      joined: BOOLEAN, generation: Nat, deferred: BOOLEAN, last: {worker[p].at - 1}]
<1>1. worker[p] \in WorkerType
    BY DEF DaemonInv, TypeOK
<1>2. a \in Fields
    BY <1>1 DEF AfterBatch, WorkerType
<1>3. \/ worker' = [worker EXCEPT ![p] = a]
      \/ worker' = [worker EXCEPT ![p] = [a EXCEPT !.deferred = FALSE]]
      \/ worker' = [worker EXCEPT ![p] = [a EXCEPT !.deferred = TRUE, !.joined = FALSE]]
    BY DEF Finish, CommitGroup
<1> HIDE DEF a, read
<1>4. [a EXCEPT !.deferred = FALSE] \in Fields
    BY <1>2
<1>5. [a EXCEPT !.deferred = TRUE, !.joined = FALSE] \in Fields
    BY <1>2
<1>6. PICK w \in Fields : worker' = [worker EXCEPT ![p] = w]
  <2> HIDE DEF Fields
  <2> QED
    BY <1>2, <1>3, <1>4, <1>5
<1>7. w.position = read /\ ~w.fetched /\ w.at = worker[p].at
    OBVIOUS
<1> QED
    BY <1>6, <1>7 DEF read

LEMMA ReadersAfterBatch ==
    ASSUME DaemonInv, LossInv, NEW p \in Partitions, Finish(p), NEW q \in Partitions
    PROVE  ReaderInv(q)'
<1>1. /\ UNCHANGED <<chain, park, cursor, log, running>> /\ running
      /\ worker[p].fetched /\ ~HasNext(p)
    BY DEF Finish, storeVars
<1>2. PICK position \in Int : position = Larger(worker[p].position, Base(worker[p].at))
    BY <1>1, BatchIsRead
<1>3. /\ SettledBelow(p, position) /\ position <= Base(Len(log[p]))
      /\ worker[p].position <= position /\ Base(worker[p].at) <= position
    BY <1>1, <1>2, BatchEnds, BatchIsRead
<1>4. worker \in [Partitions -> WorkerType]
    BY DEF DaemonInv, TypeOK
<1>5. \E w : /\ worker' = [worker EXCEPT ![p] = w]
             /\ w.position = position /\ ~w.fetched /\ w.at = worker[p].at
    BY <1>2, WorkerAfterFinish
<1>6. /\ q # p => worker'[q] = worker[q]
      /\ worker'[p].position = position /\ ~worker'[p].fetched
      /\ worker'[p].at = worker[p].at
    BY <1>4, <1>5
<1> QED
    BY <1>1, <1>3, <1>6, ReaderMoves

LEMMA ReadersReading ==
    ASSUME DaemonInv, LossInv, NEW p \in Partitions,
           Join(p) \/ Fetch(p) \/ FailFetch(p) \/ Idle(p), NEW q \in Partitions
    PROVE  ReaderInv(q)'
<1>1. UNCHANGED <<chain, park, cursor, log, running>> /\ running
    BY DEF Join, Fetch, FailFetch, Idle, Ready, storeVars, brokerVars
<1>2. PICK position \in Int : position = worker[p].position
    BY WorkerFields DEF DaemonInv
<1>3. /\ SettledBelow(p, position) /\ position <= Base(Len(log[p]))
      /\ worker[p].position <= position
    BY <1>1, <1>2, ReadersNow DEF ReaderInv, DaemonInv
<1>4. worker \in [Partitions -> WorkerType]
    BY DEF DaemonInv, TypeOK
<1>5. /\ worker[p].fetched => Base(worker[p].at - 1) <= position
      /\ worker[p].seeked /\ ~worker[p].fetched => Base(worker[p].at) <= position
    BY <1>2 DEF LossInv, ReadsFromThePosition
<1>6. FetchOffset(p) \in Nat /\ (~worker[p].fetched => Base(FetchOffset(p)) <= position)
    BY <1>2, <1>5, WorkerFields, BatchOfBelow DEF FetchOffset, DaemonInv
<1>7. CASE Join(p)
  <2>1. worker' = [worker EXCEPT ![p].joined = TRUE, ![p].generation = generation]
    BY <1>7 DEF Join
  <2>2. /\ q # p => worker'[q] = worker[q]
        /\ worker'[p].position = position /\ worker'[p].fetched = worker[p].fetched
        /\ worker'[p].at = worker[p].at /\ worker'[p].seeked = worker[p].seeked
    BY <1>2, <1>4, <2>1 DEF WorkerType
  <2> QED
    BY <1>1, <1>2, <1>3, <1>5, <2>2, ReaderMoves
<1>8. CASE FailFetch(p)
  <2>1. /\ q # p => worker'[q] = worker[q]
        /\ worker'[p].position = position /\ ~worker'[p].fetched /\ ~worker'[p].seeked
    BY <1>2, <1>4, <1>8 DEF FailFetch, Ready, WorkerType
  <2> QED
    BY <1>1, <1>2, <1>3, <2>1, ReaderMoves
<1>9. CASE Fetch(p)
  <2>1. /\ q # p => worker'[q] = worker[q]
        /\ worker'[p].position = position /\ worker'[p].fetched
        /\ worker'[p].at = FetchOffset(p) + 1 /\ ~worker[p].fetched
    BY <1>2, <1>4, <1>9 DEF Fetch, Ready, WorkerType
  <2>2. worker'[p].at - 1 = FetchOffset(p)
    BY <1>6, <2>1
  <2> QED
    BY <1>1, <1>2, <1>3, <1>6, <2>1, <2>2, ReaderMoves
<1>10. CASE Idle(p)
  <2>1. \E w : /\ worker' = [worker EXCEPT ![p] = w]
               /\ w.position = position /\ ~w.fetched /\ w.at = FetchOffset(p)
    <3>1. ~worker[p].fetched
      BY <1>10 DEF Idle, Ready
    <3>2. Idled(p) \in [position: {position}, seeked: BOOLEAN, at: {FetchOffset(p)},
                        fetched: {FALSE}, joined: BOOLEAN, generation: Nat,
                        deferred: BOOLEAN, last: Nat \cup {NoBatch}]
      BY <1>2, <1>4, <3>1 DEF Idled, WorkerType
    <3> DEFINE w == Idled(p)
    <3>3. w.position = position /\ ~w.fetched /\ w.at = FetchOffset(p)
      BY <3>2
    <3>4. \/ worker' = [worker EXCEPT ![p] = w]
          \/ worker' = [worker EXCEPT ![p] = [w EXCEPT !.deferred = FALSE]]
          \/ worker' = [worker EXCEPT ![p] = [w EXCEPT !.deferred = TRUE, !.joined = FALSE]]
      BY <1>10 DEF Idle, CommitGroup
    <3>5. /\ [w EXCEPT !.deferred = FALSE].position = position
          /\ ~[w EXCEPT !.deferred = FALSE].fetched
          /\ [w EXCEPT !.deferred = FALSE].at = FetchOffset(p)
          /\ [w EXCEPT !.deferred = TRUE, !.joined = FALSE].position = position
          /\ ~[w EXCEPT !.deferred = TRUE, !.joined = FALSE].fetched
          /\ [w EXCEPT !.deferred = TRUE, !.joined = FALSE].at = FetchOffset(p)
      BY <3>2
    <3> HIDE DEF w
    <3> QED
      BY <3>3, <3>4, <3>5
  <2>2. /\ q # p => worker'[q] = worker[q]
        /\ worker'[p].position = position /\ ~worker'[p].fetched
        /\ worker'[p].at = FetchOffset(p) /\ ~worker[p].fetched
    BY <1>4, <1>10, <2>1 DEF Idle, Ready
  <2> QED
    BY <1>1, <1>2, <1>3, <1>6, <2>2, ReaderMoves
<1> QED
    BY <1>7, <1>8, <1>9, <1>10

\* No read of the broker moves a position.
LEMMA ReadingStays ==
    ASSUME DaemonInv, NEW p \in Partitions, Join(p) \/ Fetch(p) \/ FailFetch(p) \/ Idle(p)
    PROVE  \A q \in Partitions : worker'[q].position = worker[q].position
<1>1. worker \in [Partitions -> WorkerType]
    BY DEF DaemonInv, TypeOK
<1>2. \A q \in Partitions : worker'[q].position = worker[q].position
  <2>1. CASE Join(p)
    BY <1>1, <2>1 DEF Join, WorkerType
  <2>2. CASE FailFetch(p)
    BY <1>1, <2>2 DEF FailFetch, WorkerType
  <2>3. CASE Fetch(p)
    BY <1>1, <2>3 DEF Fetch, WorkerType
  <2>4. CASE Idle(p)
    <3> DEFINE w == Idled(p)
    <3>1. FetchOffset(p) \in Nat
      BY WorkerFields, BatchOfBelow DEF FetchOffset, DaemonInv
    <3>2. w \in [position: {worker[p].position}, seeked: BOOLEAN, at: Nat,
                 fetched: BOOLEAN, joined: BOOLEAN, generation: Nat,
                 deferred: BOOLEAN, last: Nat \cup {NoBatch}]
      BY <1>1, <3>1 DEF Idled, WorkerType
    <3>3. \/ worker' = [worker EXCEPT ![p] = w]
          \/ worker' = [worker EXCEPT ![p] = [w EXCEPT !.deferred = FALSE]]
          \/ worker' = [worker EXCEPT ![p] = [w EXCEPT !.deferred = TRUE, !.joined = FALSE]]
      BY <2>4 DEF Idle, CommitGroup
    <3>4. /\ w.position = worker[p].position
          /\ [w EXCEPT !.deferred = FALSE].position = worker[p].position
          /\ [w EXCEPT !.deferred = TRUE, !.joined = FALSE].position = worker[p].position
      BY <3>2
    <3> HIDE DEF w
    <3> QED
      BY <1>1, <3>3, <3>4
  <2> QED
    BY <2>1, <2>2, <2>3, <2>4
<1> QED
    BY <1>2

LEMMA ReadersAfterProduce ==
    ASSUME DaemonInv, LossInv, NEW p \in Partitions, NEW b \in Batches, Produce(p, b),
           NEW q \in Partitions
    PROVE  ReaderInv(q)'
<1>1. /\ log' = [log EXCEPT ![p] = Append(@, b)]
      /\ UNCHANGED <<chain, park, cursor, running, worker>>
    BY DEF Produce, storeVars
<1>2. log \in [Partitions -> Seq(Batches)]
    BY DEF DaemonInv, TypeOK
<1>3. /\ Len(log[q]) \in Nat /\ Len(log'[q]) \in Nat /\ Len(log[q]) <= Len(log'[q])
      /\ \A n \in 1..Len(log[q]) : log'[q][n] = log[q][n]
      /\ \A n \in 1..Len(log'[q]) : n > Len(log[q]) => log'[q][n] = b
  <2>1. CASE q = p
    <3>1. log'[q] = Append(log[q], b) /\ log[q] \in Seq(Batches)
      BY <1>1, <1>2, <2>1
    <3> QED
      BY <3>1
  <2>2. CASE q # p
    BY <1>1, <1>2, <2>2
  <2> QED
    BY <2>1, <2>2
<1>4. Base(Len(log[q])) <= Base(Len(log'[q])) /\ Base(Len(log[q])) \in Int
      /\ Base(Len(log'[q])) \in Int
  <2>1. Len(log[q]) \in Int /\ Len(log'[q]) \in Int /\ Len(log[q]) <= Len(log'[q])
    BY <1>3
  <2> QED
    BY <2>1, BaseOrder, BaseType
<1>5. ASSUME NEW limit \in Int, limit <= Base(Len(log[q])), SettledBelow(q, limit)
      PROVE  SettledBelow(q, limit)'
  <2>1. SUFFICES ASSUME NEW n \in 1..Len(log'[q]), NEW k \in 1..Len(log'[q][n]),
                        OffsetOf(n, k) < limit
                 PROVE  Settled(q, OffsetOf(n, k), log[q][n][k])'
    BY DEF SettledBelow, OffsetOf
  <2>2. n <= Len(log[q])
    <3>1. SUFFICES ASSUME n > Len(log[q]) PROVE FALSE
      BY <1>3
    <3>2. Base(Len(log[q])) <= Base(n - 1) /\ Base(n - 1) \in Int
      <4>1. Len(log[q]) \in Int /\ n - 1 \in Int /\ Len(log[q]) <= n - 1
        BY <1>3, <3>1
      <4> QED
        BY <4>1, BaseOrder, BaseType
    <3>3. k >= 1 /\ k \in Int
      <4>1. log'[q][n] = b
        BY <1>3, <3>1
      <4> QED
        BY <4>1, LogAssumption
    <3>4. Base(n - 1) + k - 1 < limit
      BY <2>1 DEF OffsetOf
    <3>5. Base(Len(log[q])) \in Int
      BY <1>4
    <3> QED
      BY <1>5, <3>2, <3>3, <3>4, <3>5
  <2>3. n \in 1..Len(log[q]) /\ log'[q][n] = log[q][n]
    BY <1>3, <2>2
  <2>4. Settled(q, OffsetOf(n, k), log[q][n][k])
    BY <1>5, <2>1, <2>3 DEF SettledBelow, OffsetOf
  <2> QED
    BY <1>1, <2>3, <2>4 DEF Settled, SettledRecord, SameEntry, HeldRow
<1>6. ReaderInv(q) /\ cursor[q].next \in Int /\ worker[q].position \in Int
    BY ReadersNow DEF DaemonInv
<1>7. PICK next \in Int : next = cursor[q].next
    BY <1>6
<1>8. PICK position \in Int : position = worker[q].position
    BY <1>6
<1>9. /\ next <= Base(Len(log[q])) /\ SettledBelow(q, next)
      /\ running => position <= Base(Len(log[q])) /\ SettledBelow(q, position)
    BY <1>6, <1>7, <1>8 DEF ReaderInv
<1>10. SettledBelow(q, next)' /\ (running => SettledBelow(q, position)')
    BY <1>5, <1>9
<1>11. /\ worker[q].fetched => running /\ Base(worker[q].at - 1) <= position
       /\ worker[q].seeked /\ ~worker[q].fetched => running /\ Base(worker[q].at) <= position
    BY <1>8 DEF LossInv, ReadsFromThePosition
<1>12. /\ next <= Base(Len(log'[q]))
       /\ running => position <= Base(Len(log'[q]))
    BY <1>4, <1>9
<1> QED
    BY <1>1, <1>7, <1>8, <1>9, <1>10, <1>11, <1>12, ReaderAfter

LEMMA ReadersRestart ==
    ASSUME DaemonInv, LossInv, Crash \/ Start, NEW q \in Partitions
    PROVE  ReaderInv(q)'
<1>1. UNCHANGED <<chain, park, cursor, log>>
    BY DEF Crash, Start, storeVars, brokerVars
<1>2. \A q2 \in Partitions, o2 \in Nat, r2 \in Records :
        SettledRecord(q2, o2, r2) => SettledRecord(q2, o2, r2)'
    BY <1>1 DEF SettledRecord, SameEntry, HeldRow
<1>3. ReaderInv(q) /\ cursor[q].next \in Int
    BY ReadersNow DEF DaemonInv
<1>4. PICK next \in Int : next = cursor[q].next
    BY <1>3
<1>5. next <= Base(Len(log[q])) /\ SettledBelow(q, next)'
  <2>1. next <= Base(Len(log[q])) /\ SettledBelow(q, next)
    BY <1>3, <1>4 DEF ReaderInv
  <2> QED
    BY <1>1, <1>2, <2>1, SettledBelowStays DEF DaemonInv, LossInv
<1>6. CASE Crash
  <2>1. /\ worker'[q].position = 0 /\ ~worker'[q].fetched /\ ~worker'[q].seeked
        /\ ~running'
    BY <1>6 DEF Crash, FreshWorker
  <2> QED
    BY <1>1, <1>4, <1>5, <2>1, ReaderAfter
<1>7. CASE Start
  <2>1. worker'[q].position = next /\ ~worker'[q].fetched /\ ~worker'[q].seeked
    BY <1>4, <1>7 DEF Start, FreshWorker
  <2> QED
    BY <1>1, <1>4, <1>5, <2>1, ReaderAfter
<1> QED
    BY <1>6, <1>7

LEMMA ReadersAfterRelease ==
    ASSUME DaemonInv, LossInv, NEW c \in Cells, ReleaseStopped(c), NEW q \in Partitions
    PROVE  ReaderInv(q)'
<1>1. /\ UNCHANGED <<chain, log, running, worker>> /\ ~running
      /\ park' = [park EXCEPT ![c] = NoPark]
      /\ cursor' = [cursor EXCEPT ![park[c].partition].next = Smaller(@, park[c].offset)]
      /\ Parked(c)
    BY DEF ReleaseStopped, Release, HoldsUntilRelease, rows, brokerVars
<1>2. /\ park \in [Cells -> ParkType \cup {NoPark}] /\ cursor \in [Partitions -> CursorType]
      /\ park[c].offset \in Nat
      /\ park[c].partition = Home[c]
    BY <1>1 DEF DaemonInv, TypeOK, StoreTypeOK, ParkType, Parked, LossInv, ParksAreHome
<1>3. ReaderInv(q) /\ cursor[q].next \in Nat
    BY ReadersNow DEF DaemonInv
<1>4. /\ cursor'[q].next \in Nat /\ cursor'[q].next <= cursor[q].next
      /\ q = Home[c] => cursor'[q].next <= park[c].offset
    BY <1>1, <1>2, <1>3 DEF CursorType, Smaller
<1>5. PICK next \in Int : next = cursor'[q].next
    BY <1>4
<1>6. PICK old \in Int : old = cursor[q].next
    BY <1>3
<1>7. next <= Base(Len(log[q])) /\ SettledBelow(q, old)
  <2>1. Base(Len(log[q])) \in Int
    BY ReadersNow DEF DaemonInv
  <2> QED
    BY <1>3, <1>4, <1>5, <1>6, <2>1 DEF ReaderInv
<1>8. SettledBelow(q, next)
  <2>1. ASSUME NEW n \in Nat, NEW k \in Nat, OnLog(q, n, k), OffsetOf(n, k) < next
        PROVE  Settled(q, OffsetOf(n, k), log[q][n][k])
    <3>1. OffsetOf(n, k) \in Nat
      BY <2>1, OnLogFacts DEF DaemonInv
    <3>2. OffsetOf(n, k) < old
      BY <1>3, <1>4, <1>5, <1>6, <2>1, <3>1
    <3> QED
      BY <1>7, <2>1, <3>2, SettledBelowMeans DEF DaemonInv
  <2> QED
    BY <2>1, SettledBelowMeans DEF DaemonInv
<1>9. ASSUME NEW o \in Nat, NEW r \in Records, Home[r.cell] = q, o < next,
             SettledRecord(q, o, r)
      PROVE  SettledRecord(q, o, r)'
  <2>1. r.cell \in Cells
    BY ItemsAssumption DEF RecordType
  <2>2. CASE r.cell = c
    <3>1. ~(park[c].offset <= o)
      BY <1>2, <1>4, <1>5, <1>9, <2>2
    <3> QED
      BY <1>1, <1>9, <2>2, <3>1 DEF SettledRecord, SameEntry, HeldRow
  <2>3. CASE r.cell # c
    <3>1. park'[r.cell] = park[r.cell]
      BY <1>1, <1>2, <2>1, <2>3
    <3> QED
      BY <1>1, <1>9, <3>1 DEF SettledRecord, SameEntry, HeldRow
  <2> QED
    BY <2>2, <2>3
<1>10. SettledBelow(q, next)'
    BY <1>1, <1>8, <1>9, SettledBelowStays DEF DaemonInv, LossInv
<1>11. PICK position \in Int : position = worker[q].position
    BY ReadersNow DEF DaemonInv
<1>12. ~worker[q].fetched /\ ~worker[q].seeked
    BY <1>1 DEF LossInv, ReadsFromThePosition
<1> QED
    BY <1>1, <1>5, <1>7, <1>10, <1>11, <1>12, ReaderAfter
----------------------------------------------------------------------------
\* While the log is kept and answers arrive, the invariant is inductive.
LEMMA LossInvStart == Init => LossInv
<1> SUFFICES ASSUME Init PROVE LossInv
    OBVIOUS
<1>1. \A p \in Partitions : /\ log[p] = <<>> /\ Len(log[p]) = 0
                            /\ cursor[p].next = 0 /\ worker[p].position = 0
                            /\ ~worker[p].fetched /\ ~worker[p].seeked
    BY DEF Init, StoreInit, FreshWorker
<1>2. \A c \in Cells : ~Parked(c)
    BY DEF Init, StoreInit, Parked
<1>3. Base(0) = 0
    BY StrideAssumption DEF Base
<1> QED
    BY <1>1, <1>2, <1>3
       DEF LossInv, LogIsHomed, ParksAreHome, ParkIsFirstUnbooked, WithinTheLog,
           ReadsFromThePosition, NothingPassed, SettledBelow

LEMMA LossInvStep ==
    ASSUME DaemonInv, LossInv, [Next]_vars, [HarmlessFaults]_vars
    PROVE  LossInv'
<1>1. StoreStep \/ UNCHANGED storeVars
    BY StepsOfTheStore DEF DaemonInv
<1>2. DaemonInv'
    BY DaemonInvStep
<1>3. \A p \in Partitions : cursor'[p].next \in Nat /\ worker'[p].position \in Nat
    BY <1>2 DEF DaemonInv, TypeOK, StoreTypeOK, CursorType, WorkerType
<1>4. SUFFICES /\ LogIsHomed' /\ ParksAreHome' /\ ParkIsFirstUnbooked'
               /\ \A q \in Partitions : ReaderInv(q)'
    BY <1>3, ReadersNext DEF LossInv
<1>5. ASSUME UNCHANGED log PROVE LogIsHomed'
    BY <1>5 DEF LossInv, LogIsHomed
<1>6. ASSUME UNCHANGED <<log, park>> PROVE ParksAreHome' /\ ParkIsFirstUnbooked'
    BY <1>1, <1>6, ParksKept DEF Parked
<1> DEFINE Goal == /\ LogIsHomed' /\ ParksAreHome' /\ ParkIsFirstUnbooked'
                   /\ \A q \in Partitions : ReaderInv(q)'
<1>7. ASSUME NEW p \in Partitions, NEW b \in Batches, Produce(p, b) PROVE Goal
    BY <1>7, ParksAfterProduce, ReadersAfterProduce
<1>8. ASSUME NEW p \in Partitions, ApplyRecord(p) PROVE Goal
  <2>1. /\ HasNext(p) /\ NextItem(p) \in Records /\ UNCHANGED log
        /\ Apply(p, NextOffset(p), NextItem(p))
    BY <1>8 DEF ApplyRecord, brokerVars
  <2> QED
    BY <1>5, <1>8, <2>1, ParksAfterRecord, ReadersAfterRecord
<1>16. ASSUME NEW p \in Partitions, LostAck(p), NextItem(p) \in Records, ~LosesGapFill(p)
       PROVE  Goal
  <2>1. /\ HasNext(p) /\ UNCHANGED log
        /\ Apply(p, NextOffset(p), NextItem(p))
    BY <1>16, ItemsAssumption DEF LostAck, brokerVars
  <2> QED
    BY <1>5, <1>16, <2>1, ParksAfterRecord, ReadersAfterLostAck
<1>9. ASSUME NEW p \in Partitions,
             \/ ApplyNextOperation(p) \/ PassOver(p)
             \/ LostAck(p) /\ NextItem(p) \notin Records
      PROVE  Goal
  <2>1. UNCHANGED <<log, park>>
    BY <1>9 DEF ApplyNextOperation, PassOver, LostAck, ApplyOperation, BookOperation,
                PassOperation, brokerVars, storeVars, rows
  <2> QED
    BY <1>5, <1>6, <1>9, <2>1, ReadersAfterOther
<1>10. ASSUME NEW p \in Partitions, Finish(p) PROVE Goal
  <2>1. UNCHANGED <<log, park>>
    BY <1>10 DEF Finish, storeVars
  <2> QED
    BY <1>5, <1>6, <1>10, <2>1, ReadersAfterBatch
<1>11. ASSUME NEW p \in Partitions, Join(p) \/ Fetch(p) \/ FailFetch(p) \/ Idle(p)
       PROVE  Goal
  <2>1. UNCHANGED <<log, park>>
    BY <1>11 DEF Join, Fetch, FailFetch, Idle, brokerVars, storeVars
  <2> QED
    BY <1>5, <1>6, <1>11, <2>1, ReadersReading
<1>12. ASSUME Crash \/ Start PROVE Goal
  <2>1. UNCHANGED <<log, park>>
    BY <1>12 DEF Crash, Start, brokerVars, storeVars
  <2> QED
    BY <1>5, <1>6, <1>12, <2>1, ReadersRestart
<1>13. ASSUME NEW c \in Cells, ReleaseStopped(c) PROVE Goal
  <2>1. UNCHANGED log
    BY <1>13 DEF ReleaseStopped, brokerVars
  <2>2. \A d \in Cells : Parked(d)' => Parked(d) /\ park'[d] = park[d]
    BY <1>13 DEF ReleaseStopped, Release, Parked, DaemonInv, TypeOK, StoreTypeOK
  <2>3. ParksAreHome' /\ ParkIsFirstUnbooked'
    BY <1>1, <2>1, <2>2, ParksKept
  <2> QED
    BY <1>5, <1>13, <2>1, <2>3, ReadersAfterRelease
<1>14. ASSUME Lapse \/ UNCHANGED vars PROVE Goal
  <2>1. UNCHANGED <<chain, park, cursor, log, running, worker>>
    BY <1>14 DEF Lapse, vars, storeVars, brokerVars
  <2>2. \A q \in Partitions, o \in Nat, r \in Records :
          SettledRecord(q, o, r) => SettledRecord(q, o, r)'
    BY <2>1 DEF SettledRecord, SameEntry, HeldRow
  <2>3. ASSUME NEW q \in Partitions PROVE ReaderInv(q)'
    BY <2>1, <2>2, ReaderIdle DEF DaemonInv
  <2> QED
    BY <1>5, <1>6, <2>1, <2>3
<1>15. CASE HarmlessFaults /\ Next
  <2>1. /\ ~LoseBroker
        /\ \A p \in Partitions : ~LosesGapFill(p)
        /\ \A c \in Cells : ~ReleaseLive(c)
    BY <1>15 DEF HarmlessFaults
  <2> QED
    BY <1>7, <1>8, <1>9, <1>10, <1>11, <1>12, <1>13, <1>14, <1>15, <1>16, <2>1 DEF Next, Step
<1> QED
    BY <1>14, <1>15

\* No record is lost: whatever the batches, the gaps, the parks, the crashes
\* and the rebalances, what lies behind a resume offset is booked or waits behind
\* its cell's park, and so it is behind a running worker (store.rs, apply; consumer.rs,
\* settle) - even where answers of the store are lost, as long as none of them is the
\* one that sends the worker back to where a filled gap began.
THEOREM OnlyGapFillsNeedAnswers ==
    Spec /\ [][HarmlessFaults]_vars => [](NothingLostBehindTheCursor /\ NothingPassed)
<1>1. Init => LossInv
    BY LossInvStart
<1>2. DaemonInv /\ LossInv /\ [Next]_vars /\ [HarmlessFaults]_vars => LossInv'
    BY LossInvStep
<1>3. LossInv => NothingLostBehindTheCursor /\ NothingPassed
    BY DEF LossInv, NothingPassed, NothingLostBehindTheCursor
<1> QED
    BY <1>1, <1>2, <1>3, DaemonInvHolds, PTL DEF Spec

LEMMA SafeFaultsAreHarmless ==
    ASSUME FaultKinds \subseteq SafeFaults
    PROVE  HarmlessFaults /\ (\A p \in Partitions : ~LostAck(p))
    BY DEF LoseBroker, LostAck, LosesGapFill, ReleaseLive, Fault, SafeFaults, HarmlessFaults

LEMMA WorkersAheadStep ==
    ASSUME FaultKinds \subseteq SafeFaults, DaemonInv, LossInv, WorkersAhead, [Next]_vars
    PROVE  WorkersAhead'
<1>1. SUFFICES ASSUME running', NEW q \in Partitions
               PROVE  cursor'[q].next <= worker'[q].position
    BY DEF WorkersAhead
<1>2. /\ worker \in [Partitions -> WorkerType] /\ cursor \in [Partitions -> CursorType]
      /\ worker[q].position \in Nat /\ cursor[q].next \in Nat
      /\ running => cursor[q].next <= worker[q].position
    BY ReadersNow DEF DaemonInv, TypeOK, StoreTypeOK, WorkersAhead
<1>3. ASSUME UNCHANGED <<cursor, running>>, worker'[q].position = worker[q].position
      PROVE  cursor'[q].next <= worker'[q].position
    BY <1>1, <1>2, <1>3
<1>4. ASSUME NEW p \in Partitions, ApplyRecord(p)
      PROVE  cursor'[q].next <= worker'[q].position
  <2> DEFINE o == NextOffset(p)
             r == NextItem(p)
  <2>1. HasNext(p) /\ r \in Records /\ Apply(p, o, r) /\ running
    BY <1>4 DEF ApplyRecord, HasNext
  <2>2. /\ cursor' = [cursor EXCEPT ![p] = cursor'[p]]
        /\ NextPosition(p, o, r) \in Nat
        /\ ReReads(p, o, r) => cursor'[p].next = NextPosition(p, o, r)
        /\ ~ReReads(p, o, r) => /\ NextPosition(p, o, r) = o + 1
                                /\ cursor'[p].next = Larger(cursor[p].next, o + 1)
    BY <2>1, CursorFollows
  <2>3. /\ worker'[p].position = NextPosition(p, o, r)
        /\ q # p => worker'[q] = worker[q]
    BY <1>4, MovedOn
  <2>4. o \in Nat /\ o = worker[p].position /\ cursor[p].next \in Nat
    BY <2>1, NextDelivery, ReadersNow DEF DaemonInv, LossInv
  <2>5. cursor[p].next <= worker[p].position
    BY <2>1 DEF WorkersAhead
  <2> HIDE DEF o, r
  <2>6. CASE q # p
    BY <1>2, <2>1, <2>2, <2>3, <2>6
  <2>7. CASE q = p /\ ReReads(p, o, r)
    BY <2>2, <2>3, <2>7
  <2>8. CASE q = p /\ ~ReReads(p, o, r)
    <3>1. Larger(cursor[p].next, o + 1) = o + 1
      BY <2>4, <2>5 DEF Larger
    <3> QED
      BY <2>2, <2>3, <2>4, <2>8, <3>1
  <2> QED
    BY <2>6, <2>7, <2>8
<1>5. ASSUME NEW p \in Partitions, ApplyNextOperation(p) \/ PassOver(p)
      PROVE  cursor'[q].next <= worker'[q].position
  <2> DEFINE o == NextOffset(p)
  <2>1. HasNext(p) /\ running /\ worker' = [worker EXCEPT ![p].position = o + 1]
    BY <1>5 DEF ApplyNextOperation, PassOver, HasNext
  <2>2. /\ o \in Nat /\ o = worker[p].position /\ cursor[p].next \in Nat
        /\ cursor[p].next <= worker[p].position
    BY <2>1, NextDelivery, ReadersNow DEF DaemonInv, LossInv, WorkersAhead
  <2>3. /\ q # p => cursor'[q].next = cursor[q].next
        /\ cursor'[p].next \in {cursor[p].next, o + 1}
    <3>1. CASE PassOver(p)
      BY <3>1 DEF PassOver, storeVars
    <3>2. CASE ApplyNextOperation(p)
      <4>1. cursor' = [cursor EXCEPT ![p] = Advanced(p, o, NextItem(p))]
        BY <3>2 DEF ApplyNextOperation, ApplyOperation, BookOperation, PassOperation
      <4>2. Advanced(p, o, NextItem(p)).next \in {cursor[p].next, o + 1}
        BY DEF Advanced, Larger
      <4> QED
        BY <1>2, <4>1, <4>2
    <3> QED
      BY <1>5, <3>1, <3>2
  <2> HIDE DEF o
  <2>4. CASE q # p
    BY <1>2, <2>1, <2>3, <2>4
  <2>5. CASE q = p
    <3>1. worker'[p].position = o + 1
      BY <1>2, <2>1 DEF WorkerType
    <3> QED
      BY <2>2, <2>3, <2>5, <3>1
  <2> QED
    BY <2>4, <2>5
<1>6. ASSUME NEW p \in Partitions, Finish(p)
      PROVE  cursor'[q].next <= worker'[q].position
  <2>1. UNCHANGED cursor /\ running /\ worker[p].fetched /\ ~HasNext(p)
    BY <1>6 DEF Finish, storeVars
  <2>2. PICK position \in Nat : /\ position = Larger(worker[p].position, Base(worker[p].at))
                               /\ worker[p].position <= position
    BY <2>1, BatchIsRead
  <2>3. \E w : worker' = [worker EXCEPT ![p] = w] /\ w.position = position
    BY <1>6, <2>2, WorkerAfterFinish
  <2>4. CASE q = p
    BY <1>2, <2>1, <2>2, <2>3, <2>4
  <2>5. CASE q # p
    BY <1>2, <2>1, <2>3, <2>5
  <2> QED
    BY <2>4, <2>5
<1>7. ASSUME NEW p \in Partitions, Join(p) \/ Fetch(p) \/ FailFetch(p) \/ Idle(p)
      PROVE  cursor'[q].next <= worker'[q].position
  <2>1. UNCHANGED <<cursor, running>>
    BY <1>7 DEF Join, Fetch, FailFetch, Idle, Ready, storeVars, brokerVars
  <2>2. worker'[q].position = worker[q].position
    BY <1>7, ReadingStays
  <2> QED
    BY <1>3, <2>1, <2>2
<1>8. CASE Start
    BY <1>2, <1>8 DEF Start, FreshWorker, storeVars
<1>9. CASE Crash \/ (\E c \in Cells : ReleaseStopped(c))
    BY <1>1, <1>9 DEF Crash, ReleaseStopped
<1>10. CASE Lapse \/ UNCHANGED vars \/ (\E p \in Partitions, b \in Batches : Produce(p, b))
    BY <1>3, <1>10 DEF Lapse, Produce, vars, storeVars
<1>11. HarmlessFaults /\ (\A p \in Partitions : ~LostAck(p))
    BY SafeFaultsAreHarmless
<1> QED
    BY <1>4, <1>5, <1>6, <1>7, <1>8, <1>9, <1>10, <1>11 DEF Next, Step, HarmlessFaults

\* And where no answer is lost at all, a running worker is never behind its store.
THEOREM NothingLost ==
    ASSUME FaultKinds \subseteq SafeFaults
    PROVE  Spec => []NoRecordLost
<1>1. Init => LossInv /\ WorkersAhead
    BY LossInvStart DEF Init, StoreInit, FreshWorker, WorkersAhead
<1>2. DaemonInv /\ LossInv /\ [Next]_vars => LossInv'
    BY LossInvStep, SafeFaultsAreHarmless
<1>3. DaemonInv /\ LossInv /\ WorkersAhead /\ [Next]_vars => WorkersAhead'
    BY WorkersAheadStep
<1>4. DaemonInv /\ LossInv /\ WorkersAhead => NoRecordLost
  <2>1. DaemonInv /\ LossInv => \A p \in Partitions :
          worker[p].position \in Nat /\ cursor[p].next \in Nat
    BY ReadersNow DEF DaemonInv
  <2> QED
    BY <2>1 DEF LossInv, NothingPassed, WorkersAhead, NoRecordLost
<1> QED
    BY <1>1, <1>2, <1>3, <1>4, DaemonInvHolds, PTL DEF Spec
----------------------------------------------------------------------------
(* Cells that are held: why a park ends, and for whom.                     *)

\* A gap waits for a record of the tail's session or of a later one.
AwaitedIsCurrent ==
    \A c \in Cells : Parked(c) /\ park[c].reason = "gap" =>
        /\ park[c].awaiting \in Sessions
        /\ tail[c] # NoTail => park[c].awaiting >= tail[c].session

\* What a record is to its cell's chain and park, with the types that go with it.
LEMMA RecordFacts ==
    ASSUME StoreInv, NEW r \in Records
    PROVE  /\ r \in RecordType /\ r.cell \in Cells
           /\ r.session \in Sessions /\ r.session \in Int
           /\ r.first \in Sequences /\ r.first \in Int
           /\ Parked(r.cell) => park[r.cell] \in ParkType
           /\ tail[r.cell] # NoTail =>
                /\ tail[r.cell].session \in Int /\ tail[r.cell].sequence \in Int
<1>1. r \in RecordType
    BY ItemsAssumption
<1>2. r.cell \in Cells /\ r.session \in Sessions /\ r.first \in Sequences
    BY <1>1 DEF RecordType
<1>3. r.session \in Int /\ r.first \in Int
    BY <1>2, BoundsAssumption DEF Sessions, Sequences
<1>4. Parked(r.cell) => park[r.cell] \in ParkType
    BY <1>2 DEF Parked, StoreInv, StoreTypeOK
<1>5. tail[r.cell] # NoTail =>
        /\ tail[r.cell].session \in Int /\ tail[r.cell].sequence \in Int
    BY <1>2, BoundsAssumption DEF StoreInv, StoreTypeOK, TailType, Sessions, Sequences
<1> QED
    BY <1>1, <1>2, <1>3, <1>4, <1>5

\* A gap is judged only of an unparked cell, and ahead of its tail.
LEMMA GapMeansAhead ==
    ASSUME StoreInv, NEW p \in Partitions, NEW o \in Nat, NEW r \in Records,
           Judge(p, o, r) = "gap"
    PROVE  /\ ~Parked(r.cell) /\ Ahead(r)
           /\ tail[r.cell] # NoTail => r.session >= tail[r.cell].session
<1>1. ~Behind(r) /\ Ahead(r) /\ ~Parked(r.cell)
    BY DEF Judge, JudgeBehind, JudgeAhead, JudgeNext
<1> QED
    BY <1>1, RecordFacts DEF Behind, FreshSession

\* The park a refused record leaves.
LEMMA ParkedAs ==
    ASSUME StoreInv, NEW p \in Partitions, NEW o \in Nat, NEW r \in Records, Park(p, o, r)
    PROVE  /\ \A c \in Cells : c # r.cell => park'[c] = park[c]
           /\ park'[r.cell] = ParkAs(p, o, r, Judge(p, o, r))
           /\ park'[r.cell] \in ParkType /\ park'[r.cell] # NoPark
           /\ Judge(p, o, r) \in ParkReasons
           /\ UNCHANGED <<tail, chain>>
<1>1. r.cell \in Cells
    BY RecordFacts
<1>2. /\ \A c \in Cells : c # r.cell => park'[c] = park[c]
      /\ park'[r.cell] = ParkAs(p, o, r, Judge(p, o, r))
    BY <1>1 DEF Park, StoreInv, StoreTypeOK
<1>3. park'[r.cell] \in ParkType
    BY <1>2, ParkAsType DEF Park, StoreInv
<1> QED
    BY <1>2, <1>3, SentinelAssumption DEF Park, rows

\* On a parked cell: never a better reason, never a later offset, and the
\* session awaited stays.
LEMMA ParkedAgain ==
    ASSUME StoreInv, NEW p \in Partitions, NEW o \in Nat, NEW r \in Records, Park(p, o, r),
           Parked(r.cell)
    PROVE  /\ park'[r.cell].reason = MoreSevere(park[r.cell].reason, Judge(p, o, r))
           /\ park'[r.cell].offset = Smaller(park[r.cell].offset, o)
           /\ park'[r.cell].awaiting = park[r.cell].awaiting
           /\ park[r.cell].reason \in ParkReasons /\ park[r.cell].offset \in Nat
<1>1. park[r.cell] \in ParkType
    BY RecordFacts
<1>2. park'[r.cell] = [park[r.cell] EXCEPT !.reason = MoreSevere(@, Judge(p, o, r)),
                                            !.offset = Smaller(@, o)]
    BY ParkedAs DEF ParkAs
<1> QED
    BY <1>1, <1>2 DEF ParkType

LEMMA Severities ==
    \A x, y \in ParkReasons :
        /\ MoreSevere(x, y) \in ParkReasons
        /\ Severity(MoreSevere(x, y)) >= Severity(x)
        /\ MoreSevere(x, y) = "gap" => x = "gap" /\ y = "gap"
        /\ x = "live_fill" \/ y = "live_fill" => MoreSevere(x, y) = "live_fill"
BY DEF ParkReasons, MoreSevere, Severity

\* What a post does to a cell's park and tail.
LEMMA PostedTo ==
    ASSUME StoreInv, NEW p \in Partitions, NEW o \in Nat, NEW r \in Records, Post(p, o, r)
    PROVE  /\ \A c \in Cells : c # r.cell => park'[c] = park[c] /\ tail'[c] = tail[c]
                                             /\ chain'[c] = chain[c]
           /\ park'[r.cell] = NoPark
           /\ ~HeldByPark(r)
<1>1. r.cell \in Cells
    BY RecordFacts
<1>2. ~HeldByPark(r)
    BY PostMeansNext DEF Post, StoreInv
<1> QED
    BY <1>1, <1>2 DEF Post, RowsPosted, StoreInv, StoreTypeOK

LEMMA AwaitedStep ==
    ASSUME StoreInv, AwaitedIsCurrent, StoreStep \/ UNCHANGED storeVars
    PROVE  AwaitedIsCurrent'
<1> DEFINE Goal(c) ==
        (Parked(c) /\ park[c].reason = "gap" =>
           /\ park[c].awaiting \in Sessions
           /\ tail[c] # NoTail => park[c].awaiting >= tail[c].session)'
<1>1. SUFFICES ASSUME NEW c \in Cells PROVE Goal(c)
    BY DEF AwaitedIsCurrent
<1>2. ASSUME park'[c] = park[c], tail'[c] = tail[c] PROVE Goal(c)
    BY <1>2 DEF AwaitedIsCurrent, Parked
<1>3. ASSUME UNCHANGED <<park, tail>> PROVE Goal(c)
    BY <1>2, <1>3
<1>4. ASSUME NEW p \in Partitions, NEW o \in Nat, NEW r \in Records, Park(p, o, r)
      PROVE  Goal(c)
  <2>1. CASE c # r.cell
    BY <1>2, <1>4, <2>1, ParkedAs
  <2>2. CASE c = r.cell /\ Parked(c)
    <3>1. /\ park'[c].awaiting = park[c].awaiting /\ tail' = tail
          /\ park'[c].reason = "gap" => park[c].reason = "gap"
      BY <1>4, <2>2, ParkedAgain, ParkedAs, Severities
    <3> QED
      BY <2>2, <3>1 DEF AwaitedIsCurrent
  <2>3. CASE c = r.cell /\ ~Parked(c)
    <3>1. /\ park'[c] = [partition |-> p, reason |-> Judge(p, o, r), offset |-> o,
                         awaiting |-> IF Judge(p, o, r) = "gap" THEN r.session
                                      ELSE NoSession]
          /\ tail' = tail
      BY <1>4, <2>3, ParkedAs DEF ParkAs
    <3>2. park'[c].reason = "gap" => Judge(p, o, r) = "gap" /\ park'[c].awaiting = r.session
      BY <3>1
    <3> QED
      BY <2>3, <3>1, <3>2, GapMeansAhead, RecordFacts
  <2> QED
    BY <2>1, <2>2, <2>3
<1>5. ASSUME NEW p \in Partitions, NEW o \in Nat, NEW r \in Records, Post(p, o, r)
      PROVE  Goal(c)
    BY <1>2, <1>5, PostedTo DEF Parked
<1>6. ASSUME NEW p \in Partitions, NEW o \in Nat, NEW r \in Records, Skip(p, o, r)
      PROVE  Goal(c)
    BY <1>3, <1>6 DEF Skip, rows
<1>7. ASSUME NEW p \in Partitions, NEW o \in Nat, NEW i \in Operations, ApplyOperation(p, o, i)
      PROVE  Goal(c)
    BY <1>3, <1>7 DEF ApplyOperation, BookOperation, PassOperation, rows
<1>8. ASSUME NEW d \in Cells, Release(d) PROVE Goal(c)
  <2>1. tail' = tail /\ (c # d => park'[c] = park[c]) /\ park'[d] = NoPark
    BY <1>8 DEF Release, rows, StoreInv, StoreTypeOK
  <2> QED
    BY <1>2, <2>1 DEF Parked
<1>9. UNCHANGED storeVars => Goal(c)
    BY <1>3 DEF storeVars
<1> QED
    BY <1>4, <1>5, <1>6, <1>7, <1>8, <1>9 DEF StoreStep, Apply

\* What a step may do to a cell that is parked.
Escalates(c) ==
    Parked(c) =>
        /\ HoldsUntilRelease(c) => chain'[c] = chain[c]
        /\ park'[c] # NoPark =>
             /\ Severity(park'[c].reason) >= Severity(park[c].reason)
             /\ park'[c].offset <= park[c].offset
             /\ chain'[c] = chain[c]
        /\ park[c].reason = "gap" /\ park'[c] = NoPark =>
             chain'[c][park[c].awaiting] # chain[c][park[c].awaiting]

LEMMA EscalatesStep ==
    ASSUME StoreInv, StoreStep \/ UNCHANGED storeVars, NEW c \in Cells
    PROVE  Escalates(c)
<1>1. ASSUME Parked(c), park'[c] = park[c], chain'[c] = chain[c] PROVE Escalates(c)
  <2>1. park[c] \in ParkType
    BY <1>1 DEF Parked, StoreInv, StoreTypeOK
  <2>2. park[c].offset \in Int /\ Severity(park[c].reason) \in Int
    BY <2>1 DEF ParkType, ParkReasons, Severity
  <2> QED
    BY <1>1, <2>2 DEF Escalates, Parked
<1>2. ASSUME UNCHANGED <<park, chain>> PROVE Escalates(c)
    BY <1>1, <1>2 DEF Escalates
<1>3. ASSUME NEW p \in Partitions, NEW o \in Nat, NEW r \in Records, Park(p, o, r)
      PROVE  Escalates(c)
  <2>1. CASE c # r.cell
    BY <1>1, <1>3, <2>1, ParkedAs DEF Escalates
  <2>2. CASE c = r.cell /\ Parked(c)
    <3>1. /\ park'[c].reason = MoreSevere(park[c].reason, Judge(p, o, r))
          /\ park'[c].offset = Smaller(park[c].offset, o)
          /\ park[c].reason \in ParkReasons /\ park[c].offset \in Nat
          /\ Judge(p, o, r) \in ParkReasons
          /\ chain' = chain /\ park'[c] # NoPark
      BY <1>3, <2>2, ParkedAgain, ParkedAs
    <3>2. Severity(park'[c].reason) >= Severity(park[c].reason)
      BY <3>1, Severities
    <3>3. park'[c].offset <= park[c].offset
      BY <3>1, SmallerIsBelow
    <3> QED
      BY <3>1, <3>2, <3>3 DEF Escalates
  <2> QED
    BY <2>1, <2>2 DEF Escalates
<1>4. ASSUME NEW p \in Partitions, NEW o \in Nat, NEW r \in Records, Post(p, o, r)
      PROVE  Escalates(c)
  <2>1. CASE c # r.cell
    BY <1>1, <1>4, <2>1, PostedTo DEF Escalates
  <2>2. CASE c = r.cell /\ Parked(c)
    <3>1. /\ ~HoldsUntilRelease(c) /\ park[c].awaiting = r.session /\ park'[c] = NoPark
      BY <1>4, <2>2, PostedTo DEF HeldByPark
    <3>2. chain'[c][r.session][r.first] # NoRow
      BY <1>4, <2>2, PostBooks DEF Booked
    <3>3. chain[c][r.session][r.first] = NoRow
      BY <1>4, <2>2, PostedIsNew DEF Booked, Post
    <3> QED
      BY <3>1, <3>2, <3>3 DEF Escalates
  <2> QED
    BY <2>1, <2>2 DEF Escalates
<1>5. ASSUME NEW p \in Partitions, NEW o \in Nat, NEW r \in Records, Skip(p, o, r)
      PROVE  Escalates(c)
    BY <1>2, <1>5 DEF Skip, rows
<1>6. ASSUME NEW p \in Partitions, NEW o \in Nat, NEW i \in Operations, ApplyOperation(p, o, i)
      PROVE  Escalates(c)
    BY <1>2, <1>6 DEF ApplyOperation, BookOperation, PassOperation, rows
<1>7. ASSUME NEW d \in Cells, Release(d) PROVE Escalates(c)
  <2>1. /\ chain' = chain /\ (c # d => park'[c] = park[c]) /\ park'[d] = NoPark
        /\ park[d].reason # "gap"
    BY <1>7 DEF Release, HoldsUntilRelease, rows, StoreInv, StoreTypeOK
  <2> QED
    BY <1>1, <2>1 DEF Escalates
<1>8. UNCHANGED storeVars => Escalates(c)
    BY <1>2 DEF storeVars
<1> QED
    BY <1>3, <1>4, <1>5, <1>6, <1>7, <1>8 DEF StoreStep, Apply

\* A park's reason only gets worse, and a held cell books nothing, until an
\* operator releases it or the session its gap waits for fills it - whatever
\* the faults.
THEOREM ParksEscalate == Spec => ParksOnlyEscalate
<1>1. DaemonInv /\ [Next]_vars
        => [\A c \in Cells : Parked(c) =>
              /\ HoldsUntilRelease(c) => chain'[c] = chain[c]
              /\ park'[c] # NoPark =>
                   /\ Severity(park'[c].reason) >= Severity(park[c].reason)
                   /\ park'[c].offset <= park[c].offset
                   /\ chain'[c] = chain[c]
              /\ park[c].reason = "gap" /\ park'[c] = NoPark =>
                   chain'[c][park[c].awaiting] # chain[c][park[c].awaiting]
           ]_vars
    BY StepsOfTheStore, EscalatesStep DEF DaemonInv, Escalates
<1> QED
    BY <1>1, DaemonInvHolds, PTL DEF Spec, ParksOnlyEscalate
----------------------------------------------------------------------------
(* What has been read is heeded.                                           *)

\* A live fill holds its cell, from its own offset or an earlier one.
LiveHeld(o, r) ==
    r.body = "live" =>
        /\ Parked(r.cell) /\ park[r.cell].reason = "live_fill"
        /\ park[r.cell].offset <= o

\* The record a gap waits for is not one that was read.
GapOpen(r) ==
    Parked(r.cell) /\ ~HeldByPark(r) /\ r.body = "span" =>
        r.first # NextSequence(r) \/ Backwards(r)

Heeded(o, r) == LiveHeld(o, r) /\ GapOpen(r)

\* How far a partition has been read: by its worker, or before a restart, or
\* by a delivery whose answer was lost.
ReadTo(p) ==
    IF running THEN Larger(worker[p].position, cursor[p].next) ELSE cursor[p].next

ReadIsHeeded ==
    \A p \in Partitions : \A n, k \in Nat :
        /\ OnLog(p, n, k) /\ log[p][n][k] \in Records
        /\ OffsetOf(n, k) < ReadTo(p)
        => Heeded(OffsetOf(n, k), log[p][n][k])

\* The last delivery a cursor remembers is the one on the log.
CursorRemembers ==
    \A p \in Partitions : cursor[p].last # NoLast =>
        \E n, k \in Nat :
            /\ OnLog(p, n, k)
            /\ OffsetOf(n, k) = cursor[p].last.offset
            /\ log[p][n][k] = cursor[p].last.item

HeedInv == AwaitedIsCurrent /\ ReadIsHeeded /\ CursorRemembers

\* A record booked is behind its cell's tail.
LEMMA BookedIsBehind ==
    ASSUME StoreInv, NEW r \in Records, SameEntry(r)
    PROVE  /\ tail[r.cell] # NoTail /\ r.session <= tail[r.cell].session
           /\ r.session = tail[r.cell].session => r.first # NextSequence(r)
<1> DEFINE last == chain[r.cell][r.session][r.first].last
<1>1. Booked(r.cell, r.session, r.first)
    BY DEF SameEntry, HeldRow, Booked
<1>2. /\ r.cell \in Cells /\ r.session \in Sessions /\ r.first \in Sequences
      /\ r.session \in Int /\ r.first \in Int
    BY RecordFacts
<1>e. TailEnds(r.cell)
    BY <1>2 DEF StoreInv, TailEndsTheChain
<1>3. tail[r.cell] # NoTail
    BY <1>1, <1>2, <1>e DEF TailEnds
<1>4. tail[r.cell].session \in Int /\ tail[r.cell].sequence \in Int
    BY <1>3, RecordFacts
<1>5. \/ r.session < tail[r.cell].session
      \/ r.session = tail[r.cell].session /\ last <= tail[r.cell].sequence
    BY <1>1, <1>2, <1>3, <1>e DEF TailEnds
<1>6. r.first <= last /\ last \in Int
    BY <1>1, <1>2, BoundsAssumption
       DEF StoreInv, RowsAreFaithful, StoreTypeOK, RowType, Booked, Sequences
<1>7. r.session = tail[r.cell].session => r.first # tail[r.cell].sequence + 1
    BY <1>2, <1>4, <1>5, <1>6
<1>8. r.session = tail[r.cell].session => NextSequence(r) = tail[r.cell].sequence + 1
    BY <1>2, <1>3, <1>4 DEF NextSequence, FreshSession
<1> QED
    BY <1>2, <1>3, <1>4, <1>5, <1>7, <1>8

\* The record about to be applied is not one the cursor remembers otherwise.
LEMMA NotRehashed ==
    ASSUME DaemonInv, LossInv, CursorRemembers, NEW p \in Partitions, HasNext(p)
    PROVE  ~CursorRehashed(p, NextOffset(p), NextItem(p))
<1> DEFINE at == worker[p].at
           j == NextIndex(p)
<1>1. /\ OnLog(p, at, j) /\ NextItem(p) = log[p][at][j] /\ OffsetOf(at, j) = NextOffset(p)
      /\ at \in Nat /\ j \in Nat
    BY NextDelivery DEF DaemonInv, LossInv
<1>2. SUFFICES ASSUME cursor[p].last # NoLast, cursor[p].last.offset = NextOffset(p)
               PROVE  cursor[p].last.item = NextItem(p)
    BY DEF CursorRehashed
<1>3. PICK n \in Nat, k \in Nat : /\ OnLog(p, n, k)
                                  /\ OffsetOf(n, k) = cursor[p].last.offset
                                  /\ log[p][n][k] = cursor[p].last.item
    BY <1>2 DEF CursorRemembers
<1>4. j \in 1..Stride /\ k \in 1..Stride
    BY <1>1, <1>3, OnLogFacts, StrideAssumption DEF DaemonInv
<1>5. OffsetOf(n, k) = OffsetOf(at, j)
    BY <1>1, <1>2, <1>3
<1>6. n = at /\ k = j
    BY <1>1, <1>4, <1>5, OffsetsDiffer
<1> QED
    BY <1>1, <1>3, <1>6

\* The record just applied is heeded, unless its partition is read again.
LEMMA AppliedIsHeeded ==
    ASSUME DaemonInv, LossInv, HeedInv, NEW p \in Partitions, HasNext(p),
           NextItem(p) \in Records, Apply(p, NextOffset(p), NextItem(p)),
           NEW r \in Records, r = NextItem(p), NEW o \in Nat, o = NextOffset(p)
    PROVE  Heeded(o, r)'
<1>1. StoreInv
    BY DEF DaemonInv
<1>2. ~CursorRehashed(p, o, r)
    BY NotRehashed DEF HeedInv
<1>3. /\ r.cell \in Cells /\ r.session \in Int /\ r.first \in Int
    BY <1>1, RecordFacts
<1>4. CASE Skip(p, o, r)
  <2>1. UNCHANGED <<park, tail>>
    BY <1>4 DEF Skip, rows
  <2>2. r.body # "live"
    BY <1>2, <1>4 DEF Skip, Judge
  <2>3. SUFFICES GapOpen(r)
    BY <2>1, <2>2
       DEF Heeded, LiveHeld, GapOpen, Parked, HeldByPark, HoldsUntilRelease,
           NextSequence, FreshSession, Backwards
  <2>4. SUFFICES ASSUME Parked(r.cell), ~HeldByPark(r), ~Backwards(r)
                 PROVE  r.first # NextSequence(r)
    BY DEF GapOpen
  <2>5. ~TailIsFull(r) /\ (Behind(r) \/ Ahead(r))
    BY <1>2, <1>4, <2>2, <2>4 DEF Skip, Judge, JudgeNext
  <2>6. /\ park[r.cell].reason = "gap" /\ park[r.cell].awaiting = r.session
    BY <2>4 DEF HeldByPark, HoldsUntilRelease
  <2>7. ~(~FreshSession(r) /\ r.session < tail[r.cell].session)
    <3>1. tail[r.cell] # NoTail => r.session >= tail[r.cell].session
                                   /\ tail[r.cell].session \in Int
      BY <1>1, <1>3, <2>4, <2>6, RecordFacts DEF HeedInv, AwaitedIsCurrent
    <3> QED
      BY <1>3, <3>1 DEF FreshSession
  <2>8. NextSequence(r) \in Int
    BY <1>1, RecordFacts DEF NextSequence, FreshSession
  <2> QED
    BY <1>3, <2>5, <2>7, <2>8 DEF Behind, Ahead
<1>5. CASE Park(p, o, r)
  <2>1. /\ park'[r.cell] = ParkAs(p, o, r, Judge(p, o, r)) /\ park'[r.cell] # NoPark
        /\ Judge(p, o, r) \in ParkReasons
        /\ tail' = tail
    BY <1>1, <1>5, ParkedAs
  <2>2. CASE Judge(p, o, r) = "gap"
    <3>1. ~Parked(r.cell) /\ Ahead(r)
      BY <1>1, <2>2, GapMeansAhead
    <3>2. r.body # "live"
      BY <1>2, <2>2 DEF Judge
    <3>3. NextSequence(r) \in Int /\ NextSequence(r)' = NextSequence(r)
      BY <1>1, <2>1, RecordFacts DEF NextSequence, FreshSession
    <3>4. r.first # NextSequence(r)
      BY <1>3, <3>1, <3>3 DEF Ahead
    <3> QED
      BY <3>2, <3>3, <3>4 DEF Heeded, LiveHeld, GapOpen
  <2>3. CASE Judge(p, o, r) # "gap"
    <3>1. park'[r.cell].reason # "gap"
      <4>1. CASE Parked(r.cell)
        BY <1>1, <1>5, <2>1, <2>3, <4>1, ParkedAgain, Severities
      <4>2. CASE ~Parked(r.cell)
        BY <2>1, <2>3, <4>2 DEF ParkAs
      <4> QED
        BY <4>1, <4>2
    <3>2. GapOpen(r)'
      BY <2>1, <3>1 DEF GapOpen, HeldByPark, HoldsUntilRelease, Parked
    <3>3. LiveHeld(o, r)'
      <4>1. SUFFICES ASSUME r.body = "live" PROVE LiveHeld(o, r)'
        BY DEF LiveHeld
      <4>2. Judge(p, o, r) = "live_fill"
        BY <1>2, <4>1 DEF Judge
      <4>3. CASE Parked(r.cell)
        <5>1. /\ park'[r.cell].reason = "live_fill"
              /\ park'[r.cell].offset = Smaller(park[r.cell].offset, o)
              /\ park[r.cell].offset \in Nat
          BY <1>1, <1>5, <2>1, <4>2, <4>3, ParkedAgain, Severities
        <5>2. park'[r.cell].offset <= o
          BY <5>1, SmallerIsBelow
        <5> QED
          BY <2>1, <5>1, <5>2 DEF LiveHeld, Parked
      <4>4. CASE ~Parked(r.cell)
        <5>1. park'[r.cell].reason = "live_fill" /\ park'[r.cell].offset = o
          BY <2>1, <4>2, <4>4 DEF ParkAs
        <5> QED
          BY <2>1, <5>1 DEF LiveHeld, Parked
      <4> QED
        BY <4>3, <4>4
    <3> QED
      BY <3>2, <3>3 DEF Heeded
  <2> QED
    BY <2>2, <2>3
<1>6. CASE Post(p, o, r)
  <2>1. park'[r.cell] = NoPark
    BY <1>1, <1>6, PostedTo
  <2>2. r.body # "live"
    BY <1>1, <1>6, PostMeansNext DEF Post, StoreInv
  <2> QED
    BY <2>1, <2>2 DEF Heeded, LiveHeld, GapOpen, Parked
<1> QED
    BY <1>4, <1>5, <1>6 DEF Apply

\* What is heeded depends only on the cell's park and tail.
LEMMA HeededByCell ==
    ASSUME NEW r \in Records, NEW o \in Nat, Heeded(o, r),
           park'[r.cell] = park[r.cell], tail'[r.cell] = tail[r.cell]
    PROVE  Heeded(o, r)'
    BY DEF Heeded, LiveHeld, GapOpen, Parked, HeldByPark, HoldsUntilRelease,
           NextSequence, FreshSession, Backwards

\* A record read before stays heeded when another is applied.
LEMMA HeededStays ==
    ASSUME DaemonInv, LossInv, HeedInv, NEW p \in Partitions,
           NEW o \in Nat, NEW r \in Records, Apply(p, o, r),
           NEW o2 \in Nat, NEW r2 \in Records, Heeded(o2, r2),
           Parked(r2.cell) \/ SameEntry(r2)
    PROVE  Heeded(o2, r2)'
<1>1. StoreInv
    BY DEF DaemonInv
<1>2. r.cell \in Cells /\ r2.cell \in Cells
    BY <1>1, RecordFacts
<1>3. CASE Skip(p, o, r)
    BY <1>3, HeededByCell DEF Skip, rows
<1>4. CASE Park(p, o, r)
  <2>1. CASE r2.cell # r.cell
    BY <1>1, <1>2, <1>4, <2>1, ParkedAs, HeededByCell
  <2>2. CASE r2.cell = r.cell /\ Parked(r.cell)
    <3>1. /\ park'[r.cell].reason = MoreSevere(park[r.cell].reason, Judge(p, o, r))
          /\ park'[r.cell].offset = Smaller(park[r.cell].offset, o)
          /\ park'[r.cell].awaiting = park[r.cell].awaiting
          /\ park[r.cell].reason \in ParkReasons /\ park[r.cell].offset \in Nat
          /\ Judge(p, o, r) \in ParkReasons /\ park'[r.cell] # NoPark /\ tail' = tail
      BY <1>1, <1>4, <2>2, ParkedAgain, ParkedAs
    <3>2. park'[r.cell].reason = "gap" => park[r.cell].reason = "gap"
      BY <3>1, Severities
    <3>3. park[r.cell].reason = "live_fill" => park'[r.cell].reason = "live_fill"
      BY <3>1, Severities
    <3>4. park[r.cell].offset <= o2 => park'[r.cell].offset <= o2
      <4>1. /\ park'[r.cell].offset <= park[r.cell].offset
            /\ park'[r.cell].offset \in Nat /\ park[r.cell].offset \in Nat
        BY <3>1, SmallerIsBelow
      <4> QED
        BY <4>1
    <3>5. LiveHeld(o2, r2)'
      BY <2>2, <3>1, <3>3, <3>4 DEF Heeded, LiveHeld, Parked
    <3>6. GapOpen(r2)'
      BY <2>2, <3>1, <3>2
         DEF Heeded, GapOpen, Parked, HeldByPark, HoldsUntilRelease, NextSequence,
             FreshSession, Backwards
    <3> QED
      BY <3>5, <3>6 DEF Heeded
  <2>3. CASE r2.cell = r.cell /\ ~Parked(r.cell)
    <3>1. SameEntry(r2) /\ r2.body # "live"
      BY <2>3 DEF Heeded, LiveHeld
    <3>2. /\ park'[r.cell] = [partition |-> p, reason |-> Judge(p, o, r), offset |-> o,
                              awaiting |-> IF Judge(p, o, r) = "gap" THEN r.session
                                           ELSE NoSession]
          /\ tail' = tail /\ park'[r.cell] # NoPark
      BY <1>1, <1>4, <2>3, ParkedAs DEF ParkAs
    <3>3. ASSUME ~HeldByPark(r2)' PROVE r2.first # NextSequence(r2)
      <4>1. Judge(p, o, r) = "gap" /\ r2.session = r.session
        BY <2>3, <3>2, <3>3 DEF HeldByPark, HoldsUntilRelease, Parked
      <4>2. tail[r.cell] # NoTail => r.session >= tail[r.cell].session
        BY <1>1, <4>1, GapMeansAhead
      <4>3. /\ tail[r2.cell] # NoTail /\ r2.session <= tail[r2.cell].session
            /\ r2.session = tail[r2.cell].session => r2.first # NextSequence(r2)
        BY <1>1, <3>1, BookedIsBehind
      <4>4. tail[r2.cell].session \in Int /\ r2.session \in Int
        BY <1>1, <4>3, RecordFacts
      <4> QED
        BY <2>3, <4>1, <4>2, <4>3, <4>4
    <3>4. NextSequence(r2)' = NextSequence(r2)
      BY <3>2 DEF NextSequence, FreshSession
    <3> QED
      BY <3>1, <3>3, <3>4 DEF Heeded, LiveHeld, GapOpen
  <2> QED
    BY <2>1, <2>2, <2>3
<1>5. CASE Post(p, o, r)
  <2>1. CASE r2.cell # r.cell
    BY <1>1, <1>2, <1>5, <2>1, PostedTo, HeededByCell
  <2>2. CASE r2.cell = r.cell
    <3>1. park'[r.cell] = NoPark /\ ~HeldByPark(r)
      BY <1>1, <1>5, PostedTo
    <3>2. r2.body # "live"
      BY <2>2, <3>1 DEF Heeded, LiveHeld, HeldByPark, HoldsUntilRelease
    <3> QED
      BY <2>2, <3>1, <3>2 DEF Heeded, LiveHeld, GapOpen, Parked
  <2> QED
    BY <2>1, <2>2
<1> QED
    BY <1>3, <1>4, <1>5 DEF Apply
----------------------------------------------------------------------------
(* How far a step reads.                                                   *)

LEMMA ReadToNow ==
    ASSUME DaemonInv, LossInv, NEW p \in Partitions
    PROVE  /\ ReadTo(p) \in Nat /\ cursor[p].next \in Nat /\ cursor[p].next <= ReadTo(p)
           /\ running => worker[p].position \in Nat /\ worker[p].position <= ReadTo(p)
           /\ Base(Len(log[p])) \in Int /\ ReadTo(p) <= Base(Len(log[p]))
<1>1. /\ cursor[p].next \in Nat /\ worker[p].position \in Nat /\ Base(Len(log[p])) \in Int
      /\ cursor[p].next <= Base(Len(log[p]))
      /\ running => worker[p].position <= Base(Len(log[p]))
    BY ReadersNow, WorkerFields DEF ReaderInv, DaemonInv
<1> QED
    BY <1>1 DEF ReadTo, Larger

\* A record read is booked, or its cell is parked.
LEMMA ReadIsSettled ==
    ASSUME DaemonInv, LossInv, NEW p \in Partitions, NEW n \in Nat, NEW k \in Nat,
           OnLog(p, n, k), log[p][n][k] \in Records, OffsetOf(n, k) < ReadTo(p)
    PROVE  Parked(log[p][n][k].cell) \/ SameEntry(log[p][n][k])
<1>1. PICK limit \in Int : limit = ReadTo(p)
    BY ReadToNow
<1>2. SettledBelow(p, limit)
  <2>1. limit = cursor[p].next \/ (running /\ limit = worker[p].position)
    BY <1>1 DEF ReadTo, Larger
  <2> QED
    BY <2>1 DEF LossInv, NothingPassed
<1>3. Settled(p, OffsetOf(n, k), log[p][n][k])
    BY <1>1, <1>2, SettledBelowMeans DEF DaemonInv
<1> QED
    BY <1>3 DEF Settled, SettledRecord, Parked

LEMMA ReadNext ==
    ASSUME UNCHANGED log,
           \A p \in Partitions, n, k \in Nat, r \in Records :
             OnLog(p, n, k) /\ r = log[p][n][k] /\ OffsetOf(n, k) < ReadTo(p)'
               => Heeded(OffsetOf(n, k), r)'
    PROVE  ReadIsHeeded'
<1>1. SUFFICES ASSUME NEW p \in Partitions, NEW n \in Nat, NEW k \in Nat,
                      OnLog(p, n, k)', log'[p][n][k] \in Records, OffsetOf(n, k) < ReadTo(p)'
               PROVE  Heeded(OffsetOf(n, k), log[p][n][k])'
    BY DEF ReadIsHeeded, OffsetOf, Base
<1>2. PICK r \in Records : r = log[p][n][k]
    BY <1>1
<1>3. OnLog(p, n, k)
    BY <1>1 DEF OnLog
<1>4. Heeded(OffsetOf(n, k), r)'
    BY <1>1, <1>2, <1>3
<1> QED
    BY <1>2, <1>4 DEF Heeded, LiveHeld, GapOpen, Parked, HeldByPark, HoldsUntilRelease,
                      NextSequence, FreshSession, Backwards, OffsetOf, Base

\* A step that reads no record and changes no cell.
LEMMA NothingRead ==
    ASSUME DaemonInv, LossInv, ReadIsHeeded, UNCHANGED <<log, park, tail>>,
           \A p \in Partitions, n, k \in Nat :
             /\ OnLog(p, n, k) /\ log[p][n][k] \in Records
             /\ OffsetOf(n, k) < ReadTo(p)'
             => OffsetOf(n, k) < ReadTo(p)
    PROVE  ReadIsHeeded'
<1>1. ASSUME NEW p \in Partitions, NEW n \in Nat, NEW k \in Nat, NEW r \in Records,
             OnLog(p, n, k), r = log[p][n][k], OffsetOf(n, k) < ReadTo(p)'
      PROVE  Heeded(OffsetOf(n, k), r)'
  <2>1. Heeded(OffsetOf(n, k), r)
    BY <1>1 DEF ReadIsHeeded
  <2>2. OffsetOf(n, k) \in Nat
    BY <1>1, OnLogFacts DEF DaemonInv
  <2>3. PICK o \in Nat : o = OffsetOf(n, k)
    BY <2>2
  <2>4. Heeded(o, r)'
    BY <2>1, <2>3, HeededByCell
  <2> QED
    BY <2>3, <2>4 DEF OffsetOf, Base
<1> QED
    BY <1>1, ReadNext

LEMMA HeedAfterReading ==
    ASSUME DaemonInv, LossInv, ReadIsHeeded, NEW p \in Partitions,
           Join(p) \/ Fetch(p) \/ FailFetch(p) \/ Idle(p)
    PROVE  ReadIsHeeded'
<1>1. UNCHANGED <<log, park, tail, cursor, running>> /\ running
    BY DEF Join, Fetch, FailFetch, Idle, Ready, storeVars, brokerVars
<1>3. \A q \in Partitions : worker'[q].position = worker[q].position
    BY ReadingStays
<1>4. \A q \in Partitions : ReadTo(q)' = ReadTo(q)
    BY <1>1, <1>3 DEF ReadTo
<1> QED
    BY <1>1, <1>4, NothingRead

LEMMA HeedAfterBatch ==
    ASSUME DaemonInv, LossInv, ReadIsHeeded, NEW p \in Partitions, Finish(p)
    PROVE  ReadIsHeeded'
<1>1. /\ UNCHANGED <<log, park, tail, cursor, running>> /\ running
      /\ worker[p].fetched /\ ~HasNext(p)
    BY DEF Finish, storeVars
<1>2. worker \in [Partitions -> WorkerType]
    BY DEF DaemonInv, TypeOK
<1>3. PICK position \in Nat : position = Larger(worker[p].position, Base(worker[p].at))
    BY <1>1, BatchIsRead
<1>4. \A n, k \in Nat :
        OnLog(p, n, k) /\ OffsetOf(n, k) < position => OffsetOf(n, k) < worker[p].position
    BY <1>1, <1>3, BatchIsRead
<1>5. \E w : worker' = [worker EXCEPT ![p] = w] /\ w.position = position
    BY <1>3, WorkerAfterFinish
<1>6. ReadTo(p)' = Larger(position, cursor[p].next)
    BY <1>1, <1>2, <1>5 DEF ReadTo
<1>7. \A q \in Partitions : q # p => ReadTo(q)' = ReadTo(q)
    BY <1>1, <1>2, <1>5 DEF ReadTo
<1>8. ASSUME NEW n \in Nat, NEW k \in Nat, OnLog(p, n, k), OffsetOf(n, k) < ReadTo(p)'
      PROVE  OffsetOf(n, k) < ReadTo(p)
  <2>1. /\ ReadTo(p) \in Nat /\ cursor[p].next \in Nat /\ cursor[p].next <= ReadTo(p)
        /\ worker[p].position \in Nat /\ worker[p].position <= ReadTo(p)
    BY <1>1, ReadToNow
  <2>2. PICK o \in Nat : o = OffsetOf(n, k)
    BY <1>8, OnLogFacts DEF DaemonInv
  <2>3. o < position \/ o < cursor[p].next
    BY <1>6, <1>8, <2>2 DEF Larger
  <2>4. o < position => o < worker[p].position
    BY <1>4, <1>8, <2>2
  <2> QED
    BY <2>1, <2>2, <2>3, <2>4
<1> QED
    BY <1>1, <1>7, <1>8, NothingRead

\* What lies below one past the next delivery: what was read, and the delivery.
LEMMA ReadOneMore ==
    ASSUME DaemonInv, LossInv, NEW p \in Partitions, HasNext(p),
           NEW n \in Nat, NEW k \in Nat, OnLog(p, n, k), OffsetOf(n, k) < NextOffset(p) + 1
    PROVE  \/ OffsetOf(n, k) < ReadTo(p)
           \/ OffsetOf(n, k) = NextOffset(p) /\ log[p][n][k] = NextItem(p)
<1> DEFINE at == worker[p].at
           j == NextIndex(p)
<1>1. /\ OnLog(p, at, j) /\ NextItem(p) = log[p][at][j] /\ OffsetOf(at, j) = NextOffset(p)
      /\ at \in Nat /\ j \in Nat /\ NextOffset(p) \in Nat
      /\ NextOffset(p) = worker[p].position
    BY NextDelivery DEF DaemonInv, LossInv
<1>2. ReadTo(p) \in Nat /\ NextOffset(p) <= ReadTo(p)
    BY <1>1, ReadToNow DEF HasNext
<1>3. OffsetOf(n, k) \in Nat /\ k \in 1..Stride /\ j \in 1..Stride
    BY <1>1, OnLogFacts, StrideAssumption DEF DaemonInv
<1>4. SUFFICES ASSUME OffsetOf(n, k) = OffsetOf(at, j) PROVE log[p][n][k] = NextItem(p)
    BY <1>1, <1>2, <1>3
<1>5. n = at /\ k = j
    BY <1>1, <1>3, <1>4, OffsetsDiffer
<1> QED
    BY <1>1, <1>5

LEMMA HeedAfterOther ==
    ASSUME DaemonInv, LossInv, ReadIsHeeded, NEW p \in Partitions,
           \/ ApplyNextOperation(p) \/ PassOver(p)
           \/ LostAck(p) /\ NextItem(p) \notin Records
    PROVE  ReadIsHeeded'
<1> DEFINE o == NextOffset(p)
<1>1. /\ HasNext(p) /\ NextItem(p) \notin Records
      /\ UNCHANGED <<log, park, tail, running>> /\ running
    BY ItemsAssumption, LogAssumption
       DEF ApplyNextOperation, PassOver, LostAck, ApplyOperation, BookOperation, PassOperation,
           brokerVars, storeVars, rows, Items, HasNext
<1>2. worker' = [worker EXCEPT ![p].position = o + 1] \/ worker' = worker
    BY DEF ApplyNextOperation, PassOver, LostAck
<1>3. \/ cursor' = [cursor EXCEPT ![p] = Advanced(p, o, NextItem(p))]
      \/ cursor' = cursor
    BY <1>1 DEF ApplyNextOperation, PassOver, LostAck, ApplyOperation, BookOperation,
                PassOperation, storeVars
<1>4. worker \in [Partitions -> WorkerType] /\ cursor \in [Partitions -> CursorType]
    BY DEF DaemonInv, TypeOK, StoreTypeOK
<1>5. worker'[p].position \in {worker[p].position, o + 1}
    BY <1>2, <1>4 DEF WorkerType
<1>6. cursor'[p].next \in {cursor[p].next, o + 1}
  <2>1. Advanced(p, o, NextItem(p)).next \in {cursor[p].next, o + 1}
    BY DEF Advanced, Larger
  <2> QED
    BY <1>3, <1>4, <2>1
<1>7. \A q \in Partitions : q # p => worker'[q] = worker[q] /\ cursor'[q] = cursor[q]
    BY <1>2, <1>3, <1>4
<1>8. \A q \in Partitions : q # p => ReadTo(q)' = ReadTo(q)
    BY <1>1, <1>7 DEF ReadTo
<1>9. ASSUME NEW n \in Nat, NEW k \in Nat, OnLog(p, n, k), log[p][n][k] \in Records,
             OffsetOf(n, k) < ReadTo(p)'
      PROVE  OffsetOf(n, k) < ReadTo(p)
  <2>1. /\ ReadTo(p) \in Nat /\ cursor[p].next \in Nat /\ cursor[p].next <= ReadTo(p)
        /\ worker[p].position \in Nat /\ worker[p].position <= ReadTo(p)
    BY <1>1, ReadToNow
  <2>2. PICK o2 \in Nat : o2 = OffsetOf(n, k)
    BY <1>9, OnLogFacts DEF DaemonInv
  <2>3. o2 < worker[p].position \/ o2 < cursor[p].next \/ o2 < o + 1
    BY <1>1, <1>5, <1>6, <1>9, <2>2 DEF ReadTo, Larger
  <2>4. o2 < o + 1 => o2 < ReadTo(p)
    BY <1>1, <1>9, <2>2, ReadOneMore
  <2> HIDE DEF o
  <2> QED
    BY <2>1, <2>2, <2>3, <2>4
<1> QED
    BY <1>1, <1>8, <1>9, NothingRead

\* A record applied, and its worker then no further than one past it.
LEMMA HeedAfterDelivery ==
    ASSUME DaemonInv, LossInv, HeedInv, NEW p \in Partitions, HasNext(p),
           NextItem(p) \in Records, Apply(p, NextOffset(p), NextItem(p)),
           UNCHANGED <<log, running>>,
           \A q \in Partitions : q # p => worker'[q] = worker[q],
           NEW position \in Nat, worker'[p].position = position,
           position <= NextOffset(p) + 1
    PROVE  ReadIsHeeded'
<1>1. PICK r \in Records : r = NextItem(p)
    OBVIOUS
<1>2. PICK o \in Nat : o = NextOffset(p)
    BY NextDelivery DEF DaemonInv, LossInv
<1>3. Apply(p, o, r) /\ running /\ position <= o + 1
    BY <1>1, <1>2 DEF HasNext
<1>4. /\ cursor' = [cursor EXCEPT ![p] = cursor'[p]]
      /\ \/ cursor'[p].next \in Nat /\ cursor'[p].next <= o
         \/ cursor'[p].next = Larger(cursor[p].next, o + 1)
  <2>1. /\ cursor' = [cursor EXCEPT ![p] = cursor'[p]]
        /\ NextPosition(p, o, r) \in Nat
        /\ ReReads(p, o, r) =>
             NextPosition(p, o, r) <= o /\ cursor'[p].next = NextPosition(p, o, r)
        /\ ~ReReads(p, o, r) => cursor'[p].next = Larger(cursor[p].next, o + 1)
    BY <1>1, <1>2, CursorFollows
  <2> HIDE DEF NextPosition
  <2> QED
    BY <2>1
<1>5. \A q \in Partitions : q # p => ReadTo(q)' = ReadTo(q)
  <2>1. cursor \in [Partitions -> CursorType]
    BY DEF DaemonInv, TypeOK, StoreTypeOK
  <2>2. \A q \in Partitions : q # p => cursor'[q] = cursor[q]
    BY <1>4, <2>1
  <2> QED
    BY <2>2 DEF ReadTo
<1>6. ReadTo(p)' = Larger(position, cursor'[p].next)
    BY <1>3 DEF ReadTo
<1>7. Heeded(o, r)'
    BY <1>1, <1>2, AppliedIsHeeded
<1>8. ASSUME NEW q \in Partitions, NEW n \in Nat, NEW k \in Nat, NEW r2 \in Records,
             OnLog(q, n, k), r2 = log[q][n][k], OffsetOf(n, k) < ReadTo(q)'
      PROVE  Heeded(OffsetOf(n, k), r2)'
  <2>1. PICK o2 \in Nat : o2 = OffsetOf(n, k)
    BY <1>8, OnLogFacts DEF DaemonInv
  <2>2. CASE o2 < ReadTo(q)
    <3>1. Heeded(o2, r2)
      BY <1>8, <2>1, <2>2 DEF HeedInv, ReadIsHeeded
    <3>2. Parked(r2.cell) \/ SameEntry(r2)
      BY <1>8, <2>1, <2>2, ReadIsSettled
    <3>3. Heeded(o2, r2)'
      BY <1>3, <3>1, <3>2, HeededStays
    <3> QED
      BY <2>1, <3>3 DEF OffsetOf, Base
  <2>3. CASE ~(o2 < ReadTo(q))
    <3>1. q = p
      BY <1>5, <1>8, <2>1, <2>3
    <3>2. ReadTo(p) \in Nat /\ cursor[p].next \in Nat /\ cursor[p].next <= ReadTo(p)
      BY ReadToNow
    <3>3. o2 < position \/ o2 < cursor'[p].next
      BY <1>6, <1>8, <2>1, <3>1 DEF Larger
    <3>4. o2 < o + 1 \/ o2 < cursor[p].next
      BY <1>3, <1>4, <3>2, <3>3 DEF Larger
    <3>5. o2 < o + 1
      BY <2>3, <3>1, <3>2, <3>4
    <3>6. o2 = o /\ r2 = r
      BY <1>1, <1>2, <1>8, <2>1, <2>3, <3>1, <3>5, ReadOneMore
    <3> QED
      BY <1>7, <2>1, <3>6 DEF OffsetOf, Base
  <2> QED
    BY <2>2, <2>3
<1> QED
    BY <1>8, ReadNext

LEMMA HeedAfterRecord ==
    ASSUME DaemonInv, LossInv, HeedInv, NEW p \in Partitions, ApplyRecord(p)
    PROVE  ReadIsHeeded'
<1>1. /\ HasNext(p) /\ NextItem(p) \in Records /\ Apply(p, NextOffset(p), NextItem(p))
      /\ UNCHANGED <<log, running>>
    BY DEF ApplyRecord, brokerVars
<1>2. PICK position \in Nat :
        /\ position = NextPosition(p, NextOffset(p), NextItem(p))
        /\ position <= NextOffset(p) + 1
    BY <1>1, CursorFollows
<1>3. /\ worker'[p].position = position
      /\ \A q \in Partitions : q # p => worker'[q] = worker[q]
    BY <1>2, MovedOn
<1> QED
    BY <1>1, <1>2, <1>3, HeedAfterDelivery

LEMMA HeedAfterLostAck ==
    ASSUME DaemonInv, LossInv, HeedInv, NEW p \in Partitions, LostAck(p),
           NextItem(p) \in Records
    PROVE  ReadIsHeeded'
<1>1. /\ HasNext(p) /\ Apply(p, NextOffset(p), NextItem(p))
      /\ UNCHANGED <<log, running, worker>>
    BY ItemsAssumption DEF LostAck, brokerVars
<1>2. NextOffset(p) \in Nat /\ worker[p].position = NextOffset(p)
    BY <1>1, NextDelivery DEF DaemonInv, LossInv
<1>3. PICK position \in Nat : position = worker[p].position
    BY <1>2
<1>4. position <= NextOffset(p) + 1
    BY <1>2, <1>3
<1> QED
    BY <1>1, <1>3, <1>4, HeedAfterDelivery

\* A batch appended lies beyond everything read.
LEMMA AppendedBeyond ==
    ASSUME DaemonInv, LossInv, NEW p \in Partitions, NEW b \in Batches, Produce(p, b),
           NEW q \in Partitions
    PROVE  /\ \A n, k : OnLog(q, n, k) => OnLog(q, n, k)' /\ log'[q][n] = log[q][n]
           /\ \A n, k : OnLog(q, n, k)' /\ OffsetOf(n, k) < ReadTo(q) => OnLog(q, n, k)
<1>1. log' = [log EXCEPT ![p] = Append(@, b)]
    BY DEF Produce
<1>2. log \in [Partitions -> Seq(Batches)] /\ log[q] \in Seq(Batches)
    BY DEF DaemonInv, TypeOK
<1>3. /\ Len(log[q]) \in Nat /\ Len(log'[q]) \in Nat /\ Len(log[q]) <= Len(log'[q])
      /\ \A n \in 1..Len(log[q]) : log'[q][n] = log[q][n]
      /\ \A n \in 1..Len(log'[q]) : n > Len(log[q]) => log'[q][n] = b
  <2>1. CASE q = p
    <3>1. log'[q] = Append(log[q], b)
      BY <1>1, <1>2, <2>1
    <3> QED
      BY <1>2, <3>1
  <2>2. CASE q # p
    BY <1>1, <1>2, <2>2
  <2> QED
    BY <2>1, <2>2
<1>4. ASSUME NEW n, NEW k, OnLog(q, n, k)
      PROVE  OnLog(q, n, k)' /\ log'[q][n] = log[q][n]
    BY <1>3, <1>4 DEF OnLog
<1>5. ASSUME NEW n, NEW k, OnLog(q, n, k)', OffsetOf(n, k) < ReadTo(q)
      PROVE  OnLog(q, n, k)
  <2>1. n \in 1..Len(log'[q]) /\ k \in 1..Len(log'[q][n])
    BY <1>5 DEF OnLog
  <2>2. n <= Len(log[q])
    <3>1. SUFFICES ASSUME n > Len(log[q]) PROVE FALSE
      BY <1>3, <2>1
    <3>2. Base(Len(log[q])) <= Base(n - 1) /\ Base(n - 1) \in Int
      <4>1. Len(log[q]) \in Int /\ n - 1 \in Int /\ Len(log[q]) <= n - 1
        BY <1>3, <2>1, <3>1
      <4> QED
        BY <4>1, BaseOrder, BaseType
    <3>3. k >= 1 /\ k \in Int
      <4>1. log'[q][n] = b
        BY <1>3, <2>1, <3>1
      <4> QED
        BY <2>1, <4>1, LogAssumption
    <3>4. ReadTo(q) \in Int /\ ReadTo(q) <= Base(Len(log[q])) /\ Base(Len(log[q])) \in Int
      BY ReadToNow
    <3> QED
      BY <1>5, <3>2, <3>3, <3>4 DEF OffsetOf
  <2> QED
    BY <1>3, <2>1, <2>2 DEF OnLog
<1> QED
    BY <1>4, <1>5

LEMMA HeedAfterProduce ==
    ASSUME DaemonInv, LossInv, ReadIsHeeded, NEW p \in Partitions, NEW b \in Batches,
           Produce(p, b)
    PROVE  ReadIsHeeded'
<1>1. UNCHANGED <<park, tail, cursor, running, worker>>
    BY DEF Produce, storeVars
<1>2. SUFFICES ASSUME NEW q \in Partitions, NEW n \in Nat, NEW k \in Nat,
                      OnLog(q, n, k)', log'[q][n][k] \in Records, OffsetOf(n, k) < ReadTo(q)'
               PROVE  Heeded(OffsetOf(n, k), log[q][n][k])'
    BY DEF ReadIsHeeded, OffsetOf, Base
<1>3. ReadTo(q)' = ReadTo(q)
    BY <1>1 DEF ReadTo
<1>4. OnLog(q, n, k) /\ log'[q][n] = log[q][n]
    BY <1>2, <1>3, AppendedBeyond
<1>5. Heeded(OffsetOf(n, k), log[q][n][k])
    BY <1>2, <1>3, <1>4 DEF ReadIsHeeded
<1>6. PICK r \in Records, o \in Nat : r = log[q][n][k] /\ o = OffsetOf(n, k)
    BY <1>2, <1>4, OnLogFacts DEF DaemonInv
<1>7. Heeded(o, r)'
    BY <1>1, <1>5, <1>6, HeededByCell
<1> QED
    BY <1>4, <1>6, <1>7
       DEF Heeded, LiveHeld, GapOpen, Parked, HeldByPark, HoldsUntilRelease,
           NextSequence, FreshSession, Backwards, OffsetOf, Base

LEMMA HeedAfterRestart ==
    ASSUME DaemonInv, LossInv, ReadIsHeeded, Crash \/ Start \/ Lapse \/ UNCHANGED vars
    PROVE  ReadIsHeeded'
<1>1. UNCHANGED <<log, park, tail, cursor>>
    BY DEF Crash, Start, Lapse, vars, storeVars, brokerVars
<1>2. ASSUME NEW q \in Partitions PROVE ReadTo(q)' \in Nat /\ ReadTo(q)' <= ReadTo(q)
  <2>1. /\ ReadTo(q) \in Nat /\ cursor[q].next \in Nat /\ cursor[q].next <= ReadTo(q)
    BY ReadToNow
  <2>2. ReadTo(q)' = ReadTo(q) \/ ReadTo(q)' = cursor[q].next
    BY <1>1 DEF Crash, Start, Lapse, vars, FreshWorker, ReadTo, Larger
  <2> QED
    BY <2>1, <2>2
<1>3. ASSUME NEW q \in Partitions, NEW n \in Nat, NEW k \in Nat, OnLog(q, n, k),
             OffsetOf(n, k) < ReadTo(q)'
      PROVE  OffsetOf(n, k) < ReadTo(q)
  <2>1. OffsetOf(n, k) \in Nat /\ ReadTo(q) \in Nat
    BY <1>3, OnLogFacts, ReadToNow DEF DaemonInv
  <2> QED
    BY <1>2, <1>3, <2>1
<1> QED
    BY <1>1, <1>3, NothingRead

LEMMA HeedAfterRelease ==
    ASSUME DaemonInv, LossInv, ReadIsHeeded, NEW c \in Cells, ReleaseStopped(c)
    PROVE  ReadIsHeeded'
<1>1. /\ UNCHANGED <<tail, log, running, worker>> /\ ~running
      /\ park' = [park EXCEPT ![c] = NoPark]
      /\ cursor' = [cursor EXCEPT ![park[c].partition].next = Smaller(@, park[c].offset)]
      /\ Parked(c)
    BY DEF ReleaseStopped, Release, HoldsUntilRelease, rows, brokerVars
<1>2. /\ park \in [Cells -> ParkType \cup {NoPark}] /\ cursor \in [Partitions -> CursorType]
      /\ park[c].offset \in Nat
      /\ park[c].partition = Home[c]
    BY <1>1 DEF DaemonInv, TypeOK, StoreTypeOK, ParkType, Parked, LossInv, ParksAreHome
<1>3. ASSUME NEW q \in Partitions
      PROVE  /\ ReadTo(q) \in Nat /\ ReadTo(q)' \in Nat /\ ReadTo(q)' <= ReadTo(q)
             /\ q = Home[c] => ReadTo(q)' <= park[c].offset
    BY <1>1, <1>2, <1>3 DEF ReadTo, CursorType, Smaller
<1>4. ASSUME NEW q \in Partitions, NEW n \in Nat, NEW k \in Nat, NEW r \in Records,
             OnLog(q, n, k), r = log[q][n][k], OffsetOf(n, k) < ReadTo(q)'
      PROVE  Heeded(OffsetOf(n, k), r)'
  <2>1. PICK o \in Nat : o = OffsetOf(n, k)
    BY <1>4, OnLogFacts DEF DaemonInv
  <2>2. o < ReadTo(q)
    BY <1>3, <1>4, <2>1
  <2>3. Heeded(o, r)
    BY <1>4, <2>1, <2>2 DEF ReadIsHeeded
  <2>4. r.cell \in Cells /\ Home[r.cell] = q
    BY <1>4, LoggedAtHome DEF DaemonInv, LossInv
  <2>5. CASE r.cell # c
    <3>1. park'[r.cell] = park[r.cell]
      BY <1>1, <1>2, <2>4, <2>5
    <3>2. Heeded(o, r)'
      BY <1>1, <2>3, <3>1, HeededByCell
    <3> QED
      BY <2>1, <3>2 DEF OffsetOf, Base
  <2>6. CASE r.cell = c
    <3>1. ~(park[c].offset <= o)
      BY <1>2, <1>3, <1>4, <2>1, <2>4, <2>6
    <3>2. r.body # "live"
      BY <2>3, <2>6, <3>1 DEF Heeded, LiveHeld
    <3>3. park'[r.cell] = NoPark
      BY <1>1, <1>2, <2>4, <2>6
    <3> QED
      BY <3>2, <3>3 DEF Heeded, LiveHeld, GapOpen, Parked
  <2> QED
    BY <2>5, <2>6
<1> QED
    BY <1>1, <1>4, ReadNext

LEMMA RemembersStep ==
    ASSUME [HarmlessFaults]_vars, DaemonInv, LossInv, CursorRemembers, [Next]_vars
    PROVE  CursorRemembers'
<1>1. SUFFICES ASSUME NEW q \in Partitions, cursor'[q].last # NoLast
               PROVE  \E n, k \in Nat :
                        /\ OnLog(q, n, k)'
                        /\ OffsetOf(n, k) = cursor'[q].last.offset
                        /\ log'[q][n][k] = cursor'[q].last.item
    BY DEF CursorRemembers, OffsetOf, Base
<1>2. cursor \in [Partitions -> CursorType]
    BY DEF DaemonInv, TypeOK, StoreTypeOK
<1>3. ASSUME cursor'[q].last = cursor[q].last,
             \A n, k : OnLog(q, n, k) => OnLog(q, n, k)' /\ log'[q][n] = log[q][n]
      PROVE  \E n, k \in Nat :
                        /\ OnLog(q, n, k)'
                        /\ OffsetOf(n, k) = cursor'[q].last.offset
                        /\ log'[q][n][k] = cursor'[q].last.item
  <2>1. PICK n \in Nat, k \in Nat : /\ OnLog(q, n, k)
                                    /\ OffsetOf(n, k) = cursor[q].last.offset
                                    /\ log[q][n][k] = cursor[q].last.item
    BY <1>1, <1>3 DEF CursorRemembers
  <2> QED
    BY <1>3, <2>1
<1> DEFINE Remembered == \E n, k \in Nat :
                        /\ OnLog(q, n, k)'
                        /\ OffsetOf(n, k) = cursor'[q].last.offset
                        /\ log'[q][n][k] = cursor'[q].last.item
<1>4. ASSUME cursor'[q].last = cursor[q].last, UNCHANGED log PROVE Remembered
    BY <1>3, <1>4 DEF OnLog
<1>5. ASSUME NEW p \in Partitions, NEW b \in Batches, Produce(p, b) PROVE Remembered
    BY <1>3, <1>5, AppendedBeyond DEF Produce, storeVars
<1>6. ASSUME NEW p \in Partitions, HasNext(p), UNCHANGED log,
             \/ cursor' = [cursor EXCEPT ![p] = Advanced(p, NextOffset(p), NextItem(p))]
             \/ cursor' = [cursor EXCEPT ![p] = ResumeAfterPost(p, NextOffset(p), NextItem(p))]
      PROVE  Remembered
  <2>1. CASE q # p
    BY <1>2, <1>4, <1>6, <2>1
  <2>2. CASE q = p
    <3>1. cursor'[p].last = [offset |-> NextOffset(p), item |-> NextItem(p)]
      BY <1>2, <1>6 DEF Advanced, ResumeAfterPost
    <3>2. /\ OnLog(p, worker[p].at, NextIndex(p))
          /\ NextItem(p) = log[p][worker[p].at][NextIndex(p)]
          /\ OffsetOf(worker[p].at, NextIndex(p)) = NextOffset(p)
          /\ worker[p].at \in Nat /\ NextIndex(p) \in Nat
      BY <1>6, NextDelivery DEF DaemonInv, LossInv
    <3>3. PICK n \in Nat, k \in Nat : n = worker[p].at /\ k = NextIndex(p)
      BY <3>2
    <3>4. OnLog(p, n, k)'
      BY <1>6, <3>2, <3>3 DEF OnLog
    <3> QED
      BY <1>6, <2>2, <3>1, <3>2, <3>3, <3>4
  <2> QED
    BY <2>1, <2>2
<1>7. ASSUME NEW p \in Partitions, ApplyRecord(p) PROVE Remembered
    BY <1>6, <1>7 DEF ApplyRecord, Apply, Skip, Park, Post, brokerVars
<1>8. ASSUME NEW p \in Partitions, ApplyNextOperation(p) PROVE Remembered
    BY <1>6, <1>8
       DEF ApplyNextOperation, ApplyOperation, BookOperation, PassOperation, brokerVars
<1>9. ASSUME NEW p \in Partitions,
             Join(p) \/ Fetch(p) \/ FailFetch(p) \/ Idle(p) \/ PassOver(p) \/ Finish(p)
      PROVE  Remembered
    BY <1>4, <1>9
       DEF Join, Fetch, FailFetch, Idle, PassOver, Finish, storeVars, brokerVars
<1>10. ASSUME Crash \/ Start \/ Lapse \/ UNCHANGED vars PROVE Remembered
    BY <1>4, <1>10 DEF Crash, Start, Lapse, vars, storeVars, brokerVars
<1>11. ASSUME NEW c \in Cells, ReleaseStopped(c) PROVE Remembered
    BY <1>2, <1>4, <1>11 DEF ReleaseStopped, Release, brokerVars, CursorType
<1>12. ASSUME NEW p \in Partitions, LostAck(p) PROVE Remembered
  <2>1. HasNext(p) /\ UNCHANGED log
    BY <1>12 DEF LostAck, brokerVars
  <2> QED
    BY <1>6, <1>12, <2>1
       DEF LostAck, Apply, Skip, Park, Post, ApplyOperation, BookOperation, PassOperation
<1>13. UNCHANGED vars \/ (~LoseBroker /\ \A c \in Cells : ~ReleaseLive(c))
    BY DEF HarmlessFaults
<1> QED
    BY <1>5, <1>7, <1>8, <1>9, <1>10, <1>11, <1>12, <1>13 DEF Next, Step
----------------------------------------------------------------------------
LEMMA HeedInvStart == Init => HeedInv
<1> SUFFICES ASSUME Init PROVE HeedInv
    OBVIOUS
<1>1. \A p \in Partitions : log[p] = <<>> /\ Len(log[p]) = 0 /\ cursor[p].last = NoLast
    BY DEF Init, StoreInit
<1>2. \A c \in Cells : ~Parked(c)
    BY DEF Init, StoreInit, Parked
<1>3. \A p \in Partitions : \A n, k : ~OnLog(p, n, k)
    BY <1>1 DEF OnLog
<1> QED
    BY <1>1, <1>2, <1>3 DEF HeedInv, AwaitedIsCurrent, ReadIsHeeded, CursorRemembers

LEMMA HeedInvStep ==
    ASSUME [HarmlessFaults]_vars, DaemonInv, LossInv, HeedInv, [Next]_vars
    PROVE  HeedInv'
<1>1. AwaitedIsCurrent'
    BY StepsOfTheStore, AwaitedStep DEF DaemonInv, HeedInv
<1>2. CursorRemembers'
    BY RemembersStep DEF HeedInv
<1>3. ReadIsHeeded'
  <2>1. ReadIsHeeded
    BY DEF HeedInv
  <2>2. UNCHANGED vars \/ (~LoseBroker /\ \A c \in Cells : ~ReleaseLive(c))
    BY DEF HarmlessFaults
  <2>3. \A p \in Partitions : LostAck(p) => ReadIsHeeded'
    BY <2>1, HeedAfterLostAck, HeedAfterOther
  <2> QED
    BY <2>1, <2>2, <2>3, HeedAfterProduce, HeedAfterReading, HeedAfterBatch, HeedAfterOther,
       HeedAfterRecord, HeedAfterRestart, HeedAfterRelease
       DEF Next, Step
<1> QED
    BY <1>1, <1>2, <1>3 DEF HeedInv

LEMMA HeedMeans ==
    ASSUME DaemonInv, LossInv, HeedInv
    PROVE  LiveFillHoldsItsCell /\ NoGapOutlivesItsRecord
<1>1. ASSUME NEW p \in Partitions, NEW n \in 1..Len(log[p]), NEW k \in 1..Len(log[p][n]),
             log[p][n][k] \in Records, OffsetOf(n, k) < ReadTo(p)
      PROVE  Heeded(OffsetOf(n, k), log[p][n][k])
  <2>1. OnLog(p, n, k)
    BY DEF OnLog
  <2>2. n \in Nat /\ k \in Nat
    BY <2>1, OnLogFacts DEF DaemonInv
  <2> QED
    BY <1>1, <2>1, <2>2 DEF HeedInv, ReadIsHeeded
<1>2. ASSUME NEW p \in Partitions, NEW n \in 1..Len(log[p]), NEW k \in 1..Len(log[p][n]),
             OffsetOf(n, k) < cursor[p].next
      PROVE  OffsetOf(n, k) < ReadTo(p)
  <2>1. OnLog(p, n, k)
    BY DEF OnLog
  <2>2. /\ OffsetOf(n, k) \in Nat /\ ReadTo(p) \in Nat /\ cursor[p].next \in Nat
        /\ cursor[p].next <= ReadTo(p)
    BY <2>1, OnLogFacts, ReadToNow DEF DaemonInv
  <2> QED
    BY <1>2, <2>2
<1>3. LiveFillHoldsItsCell
  <2>1. SUFFICES ASSUME NEW p \in Partitions, NEW n \in 1..Len(log[p]),
                        NEW k \in 1..Len(log[p][n]), log[p][n][k] \in Records,
                        log[p][n][k].body = "live", OffsetOf(n, k) < cursor[p].next
                 PROVE  /\ Parked(log[p][n][k].cell)
                        /\ park[log[p][n][k].cell].reason = "live_fill"
    BY DEF LiveFillHoldsItsCell, OffsetOf
  <2>2. Heeded(OffsetOf(n, k), log[p][n][k])
    BY <1>1, <1>2, <2>1
  <2> QED
    BY <2>1, <2>2 DEF Heeded, LiveHeld
<1>4. NoGapOutlivesItsRecord
  <2>1. SUFFICES ASSUME running, NEW p \in Partitions, NEW n \in 1..Len(log[p]),
                        NEW k \in 1..Len(log[p][n]), log[p][n][k] \in Records,
                        OffsetOf(n, k) < worker[p].position,
                        Parked(log[p][n][k].cell), ~HeldByPark(log[p][n][k]),
                        log[p][n][k].body = "span"
                 PROVE  \/ log[p][n][k].first # NextSequence(log[p][n][k])
                        \/ log[p][n][k].first > log[p][n][k].last
    BY DEF NoGapOutlivesItsRecord, OffsetOf
  <2>2. OnLog(p, n, k)
    BY DEF OnLog
  <2>3. /\ OffsetOf(n, k) \in Nat /\ ReadTo(p) \in Nat /\ worker[p].position \in Nat
        /\ worker[p].position <= ReadTo(p)
    BY <2>1, <2>2, OnLogFacts, ReadToNow DEF DaemonInv
  <2>4. OffsetOf(n, k) < ReadTo(p)
    BY <2>1, <2>3
  <2>5. Heeded(OffsetOf(n, k), log[p][n][k])
    BY <1>1, <2>1, <2>4
  <2> QED
    BY <2>1, <2>5 DEF Heeded, GapOpen, Backwards
<1> QED
    BY <1>3, <1>4

\* The fourth paper fence holds across everything but the loss of the log, of the
\* answer to a gap's fill, or a release under a running worker: a live fill that was read holds its cell until it is released,
\* and a release goes back far enough to read it again.
THEOREM LiveFillsHold == Spec /\ [][HarmlessFaults]_vars => []LiveFillHoldsItsCell
<1>1. Init => LossInv /\ HeedInv
    BY LossInvStart, HeedInvStart
<1>2. /\ DaemonInv /\ (LossInv /\ HeedInv) /\ [Next]_vars /\ [HarmlessFaults]_vars
      => (LossInv /\ HeedInv)'
    BY LossInvStep, HeedInvStep
<1>3. DaemonInv /\ (LossInv /\ HeedInv) => LiveFillHoldsItsCell
    BY HeedMeans
<1> QED
    BY <1>1, <1>2, <1>3, DaemonInvHolds, PTL DEF Spec

\* A gap does not outlive the record it waits for: a worker that has read it
\* has booked it, or the cell is held for a worse reason.
THEOREM GapsEndWithTheirRecord == Spec /\ [][HarmlessFaults]_vars => []NoGapOutlivesItsRecord
<1>1. Init => LossInv /\ HeedInv
    BY LossInvStart, HeedInvStart
<1>2. /\ DaemonInv /\ (LossInv /\ HeedInv) /\ [Next]_vars /\ [HarmlessFaults]_vars
      => (LossInv /\ HeedInv)'
    BY LossInvStep, HeedInvStep
<1>3. DaemonInv /\ (LossInv /\ HeedInv) => NoGapOutlivesItsRecord
    BY HeedMeans
<1> QED
    BY <1>1, <1>2, <1>3, DaemonInvHolds, PTL DEF Spec
=============================================================================
