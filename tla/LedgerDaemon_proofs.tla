------------------------ MODULE LedgerDaemon_proofs ------------------------
(***************************************************************************)
(* Theorems about the ledger daemon, for every stream, journal, batch and  *)
(* fault bound: what every step of its store preserves, the invariants     *)
(* that hold whatever fails, the history that is never rewritten, and the  *)
(* refinement of the abstract ledger of LedgerBook.                        *)
(***************************************************************************)
EXTENDS LedgerDaemon, TLAPS

\* Everything the store's public surface can do to its rows.
StoreStep ==
    \/ \E p \in Partitions, o \in Nat :
         \/ \E r \in Records : Apply(p, o, r)
         \/ \E i \in Operations : ApplyOperation(p, o, i)
    \/ \E c \in Cells : Release(c)

\* A row is the record it was booked from, at that record's own position.
RowsAreFaithful ==
    \A c \in Cells, s \in Sessions, q \in Sequences : Booked(c, s, q) =>
        /\ chain[c][s][q].record \in Records
        /\ chain[c][s][q].record.cell = c
        /\ chain[c][s][q].record.session = s
        /\ chain[c][s][q].record.first = q
        /\ chain[c][s][q].record.last = chain[c][s][q].last
        /\ chain[c][s][q].record.digest = chain[c][s][q].digest
        /\ q <= chain[c][s][q].last

\* The inductive invariant of the rows.
StoreInv ==
    /\ StoreTypeOK
    /\ RowsAreFaithful
    /\ TailEndsTheChain
    /\ ChainsAreContiguous
    /\ NoSequenceBookedTwice
    /\ NoLiveFillBooked
    /\ QuantitiesNeverNegative
----------------------------------------------------------------------------
\* What "post" says of a record: it is next on its cell's chain, sealed on
\* its end, and the balances take it.
LEMMA PostMeansNext ==
    ASSUME NEW p \in Partitions, NEW o \in Nat, NEW r \in Records,
           StoreTypeOK, Judge(p, o, r) = "post"
    PROVE  /\ r.body \in {"span", "note", "paper"}
           /\ r.first <= r.last
           /\ r.first = NextSequence(r)
           /\ ChainsOnto(r)
           /\ ~HeldByPark(r)
           /\ r.body = "paper" => Foldable(balance, r)
           /\ tail[r.cell] # NoTail => r.session >= tail[r.cell].session
<1>1. r \in RecordType
    BY ItemsAssumption
<1>2. /\ r.body # "live" /\ ~Backwards(r) /\ ~Behind(r) /\ ~Ahead(r)
      /\ JudgeNext(r) = "post"
    BY DEF Judge, JudgeBehind, JudgeAhead
<1>3. /\ ~HeldByPark(r) /\ ChainsOnto(r) /\ r.body # "unpostable"
      /\ r.body = "paper" => Foldable(balance, r)
    BY <1>2 DEF JudgeNext
<1>4. r.body \in Bodies /\ r.first \in Int /\ r.last \in Int /\ r.cell \in Cells
      /\ r.session \in Int
    BY <1>1, BoundsAssumption DEF RecordType, Sequences, Sessions
<1>5. tail[r.cell] # NoTail => tail[r.cell].session \in Int /\ tail[r.cell].sequence \in Int
    BY <1>4, BoundsAssumption DEF StoreTypeOK, TailType, Sessions, Sequences
<1>6. NextSequence(r) \in Int
    BY <1>5 DEF NextSequence, FreshSession
<1>7. r.first = NextSequence(r) /\ r.first <= r.last
    BY <1>2, <1>4, <1>6 DEF Behind, Ahead, Backwards
<1>8. tail[r.cell] # NoTail => r.session >= tail[r.cell].session
    BY <1>2, <1>4, <1>5 DEF Behind, FreshSession
<1> QED
    BY <1>2, <1>3, <1>4, <1>7, <1>8 DEF Bodies

\* Folding a booked event keeps the balances integers and the floored ones
\* at or above zero.
LEMMA FoldKeepsFloor ==
    ASSUME NEW e \in Items, balance \in [Accounts -> Int],
           QuantitiesNeverNegative, Foldable(balance, e)
    PROVE  /\ Moved(balance, e) \in [Accounts -> Int]
           /\ \A a \in QuantityAccounts : Moved(balance, e)[a] >= 0
<1>1. e.debit \in Accounts /\ e.credit \in Accounts /\ e.amount \in Nat
    BY ItemsAssumption DEF Items, RecordType, OperationType
<1>2. Moved(balance, e) \in [Accounts -> Int]
    BY <1>1 DEF Moved
<1>3. ASSUME NEW a \in QuantityAccounts
      PROVE  Moved(balance, e)[a] >= 0
  <2>1. CASE a \in {e.debit, e.credit}
    BY <2>1 DEF Foldable
  <2>2. CASE a \notin {e.debit, e.credit}
    BY <2>2, <1>1, ItemsAssumption DEF Moved, QuantitiesNeverNegative
  <2> QED
    BY <2>1, <2>2
<1> QED
    BY <1>2, <1>3
----------------------------------------------------------------------------
(* The rows a posted record leaves.                                        *)

\* Posting writes one row, in a place that was empty and past every other.
LEMMA PostWritesOneRow ==
    ASSUME NEW p \in Partitions, NEW o \in Nat, NEW r \in Records,
           StoreInv, Post(p, o, r)
    PROVE  /\ r.cell \in Cells /\ r.session \in Sessions /\ r.first \in Sequences
           /\ chain' = [chain EXCEPT ![r.cell][r.session][r.first] =
                [last |-> r.last, digest |-> r.digest, offset |-> o, record |-> r]]
           /\ tail' = [tail EXCEPT ![r.cell] =
                [session |-> r.session, sequence |-> r.last, digest |-> r.digest]]
           /\ ~Booked(r.cell, r.session, r.first)
           /\ \A q \in Sequences :
                Booked(r.cell, r.session, q) => chain[r.cell][r.session][q].last < r.first
<1>1. r \in RecordType
    BY ItemsAssumption
<1>2. /\ r.cell \in Cells /\ r.session \in Sessions /\ r.first \in Sequences
      /\ r.first \in Int /\ r.session \in Int
    BY <1>1, BoundsAssumption DEF RecordType, Sessions, Sequences
<1>3. Judge(p, o, r) = "post" /\ RowsPosted(o, r)
    BY DEF Post
<1>4. r.first = NextSequence(r) /\ (tail[r.cell] # NoTail => r.session >= tail[r.cell].session)
    BY <1>3, PostMeansNext DEF StoreInv
<1>5. ASSUME NEW q \in Sequences, Booked(r.cell, r.session, q)
      PROVE  chain[r.cell][r.session][q].last < r.first
  <2>1. tail[r.cell] # NoTail
    BY <1>2, <1>5 DEF StoreInv, TailEndsTheChain, TailEnds
  <2>2. /\ tail[r.cell].session \in Int /\ tail[r.cell].sequence \in Int
    BY <1>2, <2>1, BoundsAssumption DEF StoreInv, StoreTypeOK, TailType, Sessions, Sequences
  <2>3. \/ r.session < tail[r.cell].session
        \/ /\ r.session = tail[r.cell].session
           /\ chain[r.cell][r.session][q].last <= tail[r.cell].sequence
    BY <1>2, <1>5, <2>1 DEF StoreInv, TailEndsTheChain, TailEnds
  <2>4. /\ r.session = tail[r.cell].session
        /\ chain[r.cell][r.session][q].last <= tail[r.cell].sequence
    BY <1>2, <1>4, <2>1, <2>2, <2>3
  <2>5. r.first = tail[r.cell].sequence + 1
    BY <1>2, <1>4, <2>1, <2>2, <2>4 DEF NextSequence, FreshSession
  <2>6. chain[r.cell][r.session][q].last \in Int
    BY <1>2, <1>5, BoundsAssumption DEF StoreInv, StoreTypeOK, RowType, Booked, Sequences
  <2> QED
    BY <2>2, <2>4, <2>5, <2>6
<1>6. ~Booked(r.cell, r.session, r.first)
  <2>1. SUFFICES ASSUME Booked(r.cell, r.session, r.first) PROVE FALSE
    OBVIOUS
  <2>2. chain[r.cell][r.session][r.first].last < r.first
    BY <1>2, <1>5, <2>1
  <2>3. r.first <= chain[r.cell][r.session][r.first].last
    BY <1>2, <2>1 DEF StoreInv, RowsAreFaithful
  <2>4. chain[r.cell][r.session][r.first].last \in Int
    BY <1>2, <2>1, BoundsAssumption DEF StoreInv, StoreTypeOK, RowType, Booked, Sequences
  <2> QED
    BY <1>2, <2>2, <2>3, <2>4
<1> QED
    BY <1>2, <1>3, <1>5, <1>6 DEF RowsPosted

\* Where a record is booked.
IsPlace(r, c, s, q) == c = r.cell /\ s = r.session /\ q = r.first

\* The row a post writes, and the rows it leaves alone.
LEMMA RowPosted ==
    ASSUME NEW p \in Partitions, NEW o \in Nat, NEW r \in Records,
           StoreInv, Post(p, o, r)
    PROVE  chain'[r.cell][r.session][r.first] =
             [last |-> r.last, digest |-> r.digest, offset |-> o, record |-> r]
<1> DEFINE row == [last |-> r.last, digest |-> r.digest, offset |-> o, record |-> r]
<1>1. /\ r.cell \in Cells /\ r.session \in Sessions /\ r.first \in Sequences
      /\ chain' = [chain EXCEPT ![r.cell][r.session][r.first] = row]
    BY ItemsAssumption DEF RecordType, Post, RowsPosted
<1>2. chain \in [Cells -> [Sessions -> [Sequences -> RowType \cup {NoRow}]]]
    BY DEF StoreInv, StoreTypeOK
<1> HIDE DEF row
<1>3. chain'[r.cell] = [chain[r.cell] EXCEPT ![r.session][r.first] = row]
    BY <1>1, <1>2
<1>4. chain'[r.cell][r.session] = [chain[r.cell][r.session] EXCEPT ![r.first] = row]
    BY <1>1, <1>2, <1>3
<1>5. chain'[r.cell][r.session][r.first] = row
    BY <1>1, <1>2, <1>4
<1> QED
    BY <1>5 DEF row

LEMMA RowsKept ==
    ASSUME NEW p \in Partitions, NEW o \in Nat, NEW r \in Records,
           StoreInv, Post(p, o, r)
    PROVE  \A c \in Cells, s \in Sessions, q \in Sequences :
             ~IsPlace(r, c, s, q) => chain'[c][s][q] = chain[c][s][q]
<1> SUFFICES ASSUME NEW c \in Cells, NEW s \in Sessions, NEW q \in Sequences,
                    ~IsPlace(r, c, s, q)
             PROVE  chain'[c][s][q] = chain[c][s][q]
    OBVIOUS
<1> DEFINE row == [last |-> r.last, digest |-> r.digest, offset |-> o, record |-> r]
<1>1. /\ r.cell \in Cells /\ r.session \in Sessions /\ r.first \in Sequences
      /\ chain' = [chain EXCEPT ![r.cell][r.session][r.first] = row]
    BY ItemsAssumption DEF RecordType, Post, RowsPosted
<1>2. chain \in [Cells -> [Sessions -> [Sequences -> RowType \cup {NoRow}]]]
    BY DEF StoreInv, StoreTypeOK
<1> HIDE DEF row
<1>3. chain'[c] = IF c = r.cell
                  THEN [chain[c] EXCEPT ![r.session][r.first] = row] ELSE chain[c]
    BY <1>1, <1>2
<1>4. chain'[c][s] = IF c = r.cell /\ s = r.session
                     THEN [chain[c][s] EXCEPT ![r.first] = row] ELSE chain[c][s]
  <2>1. chain[c] \in [Sessions -> [Sequences -> RowType \cup {NoRow}]]
    BY <1>2
  <2> QED
    BY <1>1, <1>3, <2>1
<1>5. chain[c][s] \in [Sequences -> RowType \cup {NoRow}]
    BY <1>2
<1> QED
    BY <1>1, <1>4, <1>5 DEF IsPlace
----------------------------------------------------------------------------
(* The type invariant.                                                     *)

LEMMA AdvancedType ==
    ASSUME NEW p \in Partitions, NEW o \in Nat, NEW i \in Items, StoreTypeOK
    PROVE  /\ Advanced(p, o, i) \in CursorType
           /\ \A n \in Nat : [Advanced(p, o, i) EXCEPT !.next = Smaller(@, n)] \in CursorType
<1>1. cursor[p] \in CursorType
    BY DEF StoreTypeOK
<1> QED
    BY <1>1 DEF CursorType, Advanced, Larger, Smaller

LEMMA ParkAsType ==
    ASSUME NEW p \in Partitions, NEW o \in Nat, NEW r \in Records, StoreTypeOK,
           NEW reason \in ParkReasons
    PROVE  ParkAs(p, o, r, reason) \in ParkType
<1>1. r.cell \in Cells /\ r.session \in Sessions
    BY ItemsAssumption DEF RecordType
<1>2. CASE Parked(r.cell)
  <2>1. park[r.cell] \in ParkType
    BY <1>1, <1>2 DEF StoreTypeOK, Parked
  <2> QED
    BY <1>2, <2>1 DEF ParkAs, ParkType, MoreSevere, Smaller
<1>3. CASE ~Parked(r.cell)
    BY <1>1, <1>3 DEF ParkAs, ParkType
<1> QED
    BY <1>2, <1>3

LEMMA StoreTypeStep ==
    ASSUME StoreInv, StoreStep
    PROVE  StoreTypeOK'
<1> USE DEF StoreInv
<1>1. ASSUME NEW p \in Partitions, NEW o \in Nat, NEW r \in Records, Skip(p, o, r)
      PROVE  StoreTypeOK'
    BY <1>1, AdvancedType DEF Skip, StoreTypeOK, rows, Items
<1>2. ASSUME NEW p \in Partitions, NEW o \in Nat, NEW r \in Records, Park(p, o, r)
      PROVE  StoreTypeOK'
  <2>1. r.cell \in Cells
    BY ItemsAssumption DEF RecordType
  <2>2. ParkAs(p, o, r, Judge(p, o, r)) \in ParkType
    BY <1>2, ParkAsType DEF Park
  <2> QED
    BY <1>2, <2>1, <2>2, AdvancedType DEF Park, StoreTypeOK, rows, Items
<1>3. ASSUME NEW p \in Partitions, NEW o \in Nat, NEW r \in Records, Post(p, o, r)
      PROVE  StoreTypeOK'
  <2>1. r \in RecordType
    BY ItemsAssumption
  <2>2. /\ r.cell \in Cells /\ r.session \in Sessions /\ r.first \in Sequences
        /\ r.last \in Sequences /\ r.digest \in Digests
    BY <2>1 DEF RecordType
  <2>3. [session |-> r.session, sequence |-> r.last, digest |-> r.digest] \in TailType
    BY <2>2 DEF TailType
  <2>4. [last |-> r.last, digest |-> r.digest, offset |-> o, record |-> r] \in RowType
    BY <2>2 DEF RowType
  <2>5. tail' \in [Cells -> TailType \cup {NoTail}]
    BY <1>3, <2>2, <2>3 DEF Post, RowsPosted, StoreTypeOK
  <2>6. chain' \in [Cells -> [Sessions -> [Sequences -> RowType \cup {NoRow}]]]
    BY <1>3, <2>2, <2>4 DEF Post, RowsPosted, StoreTypeOK
  <2>7. park' \in [Cells -> ParkType \cup {NoPark}]
    BY <1>3 DEF Post, StoreTypeOK
  <2>8. ResumeAfterPost(p, o, r) \in CursorType
    <3>1. FillsGap(r) => park[r.cell].offset \in Nat
      BY <2>2 DEF StoreTypeOK, FillsGap, Parked, ParkType
    <3> QED
      BY <3>1, AdvancedType DEF ResumeAfterPost, Items
  <2>9. cursor' \in [Partitions -> CursorType]
    BY <1>3, <2>8 DEF Post, StoreTypeOK
  <2>10. balance' \in [Accounts -> Int]
    <3>1. CASE r.body = "paper"
      <4>1. Foldable(balance, r) /\ balance' = Moved(balance, r)
        BY <1>3, <3>1, PostMeansNext DEF Post, RowsPosted, AfterRecord
      <4> QED
        BY <4>1, FoldKeepsFloor DEF StoreTypeOK, Items
    <3>2. CASE r.body # "paper"
      BY <1>3, <3>2 DEF Post, RowsPosted, AfterRecord, StoreTypeOK
    <3> QED
      BY <3>1, <3>2
  <2> QED
    BY <1>3, <2>5, <2>6, <2>7, <2>9, <2>10 DEF Post, RowsPosted, StoreTypeOK
<1>4. ASSUME NEW p \in Partitions, NEW o \in Nat, NEW i \in Operations, BookOperation(p, o, i)
      PROVE  StoreTypeOK'
  <2>1. i.op \in OpIds /\ i.lot \in Lots \cup {NoLot}
    BY ItemsAssumption DEF OperationType
  <2>2. balance' \in [Accounts -> Int]
    BY <1>4, FoldKeepsFloor DEF BookOperation, Bookable, StoreTypeOK, Items
  <2> QED
    BY <1>4, <2>1, <2>2, AdvancedType DEF BookOperation, StoreTypeOK, Items
<1>5. ASSUME NEW p \in Partitions, NEW o \in Nat, NEW i \in Operations, PassOperation(p, o, i)
      PROVE  StoreTypeOK'
    BY <1>5, AdvancedType DEF PassOperation, StoreTypeOK, rows, Items
<1>6. ASSUME NEW c \in Cells, Release(c)
      PROVE  StoreTypeOK'
  <2>1. park[c] \in ParkType
    BY <1>6 DEF Release, HoldsUntilRelease, Parked, StoreTypeOK
  <2>2. cursor' \in [Partitions -> CursorType]
    <3>1. cursor \in [Partitions -> CursorType]
      BY DEF StoreTypeOK
    <3>2. park[c].partition \in Partitions /\ park[c].offset \in Nat
      BY <2>1 DEF ParkType
    <3>3. cursor[park[c].partition] \in CursorType /\ cursor[park[c].partition].next \in Nat
      BY <3>1, <3>2 DEF CursorType
    <3> DEFINE n == Smaller(cursor[park[c].partition].next, park[c].offset)
               w == [cursor[park[c].partition] EXCEPT !.next = n]
    <3>4. n \in Nat
      BY <3>2, <3>3 DEF Smaller
    <3>5. cursor' = [cursor EXCEPT ![park[c].partition] = w]
      BY <1>6, <3>1, <3>2 DEF Release
    <3> HIDE DEF n
    <3>6. w \in CursorType
      BY <3>3, <3>4 DEF CursorType
    <3> HIDE DEF w
    <3> QED
      BY <3>1, <3>5, <3>6
  <2>3. park' \in [Cells -> ParkType \cup {NoPark}]
    <3>1. park \in [Cells -> ParkType \cup {NoPark}] /\ park' = [park EXCEPT ![c] = NoPark]
      BY <1>6 DEF Release, StoreTypeOK
    <3> QED
      BY <3>1
  <2>4. UNCHANGED <<tail, chain, balance, operations, openLots>>
    BY <1>6 DEF Release, rows
  <2> QED
    BY <2>2, <2>3, <2>4 DEF StoreTypeOK
<1> QED
    BY <1>1, <1>2, <1>3, <1>4, <1>5, <1>6 DEF StoreStep, Apply, ApplyOperation
----------------------------------------------------------------------------
(* The chains.                                                             *)

\* Whatever a step does that is not a post leaves the chains as they are.
LEMMA OnlyPostsWriteChains ==
    ASSUME StoreStep
    PROVE  \/ \E p \in Partitions, o \in Nat, r \in Records : Post(p, o, r)
           \/ UNCHANGED <<tail, chain>>
    BY ZenonT(60) DEF StoreStep, Apply, Skip, Park, ApplyOperation, BookOperation, PassOperation,
           Release, rows

LEMMA RowsAreFaithfulStep ==
    ASSUME StoreInv, NEW p \in Partitions, NEW o \in Nat, NEW r \in Records, Post(p, o, r)
    PROVE  RowsAreFaithful'
<1>1. SUFFICES ASSUME NEW c \in Cells, NEW s \in Sessions, NEW q \in Sequences,
                      Booked(c, s, q)'
               PROVE  /\ chain'[c][s][q].record \in Records
                      /\ chain'[c][s][q].record.cell = c
                      /\ chain'[c][s][q].record.session = s
                      /\ chain'[c][s][q].record.first = q
                      /\ chain'[c][s][q].record.last = chain'[c][s][q].last
                      /\ chain'[c][s][q].record.digest = chain'[c][s][q].digest
                      /\ q <= chain'[c][s][q].last
    BY DEF RowsAreFaithful
<1>2. CASE IsPlace(r, c, s, q)
  <2>1. chain'[c][s][q] = [last |-> r.last, digest |-> r.digest, offset |-> o, record |-> r]
    BY <1>2, RowPosted DEF IsPlace
  <2>2. r.first <= r.last
    BY PostMeansNext DEF Post, StoreInv
  <2> QED
    BY <1>2, <2>1, <2>2 DEF IsPlace
<1>3. CASE ~IsPlace(r, c, s, q)
  <2>1. chain'[c][s][q] = chain[c][s][q]
    BY <1>3, RowsKept
  <2> QED
    BY <1>1, <2>1 DEF StoreInv, RowsAreFaithful, Booked
<1> QED
    BY <1>2, <1>3

LEMMA TailEndsTheChainStep ==
    ASSUME StoreInv, NEW p \in Partitions, NEW o \in Nat, NEW r \in Records, Post(p, o, r)
    PROVE  TailEndsTheChain'
<1> DEFINE newTail == [session |-> r.session, sequence |-> r.last, digest |-> r.digest]
           newRow == [last |-> r.last, digest |-> r.digest, offset |-> o, record |-> r]
<1>1. r.cell \in Cells /\ r.session \in Sessions /\ r.first \in Sequences
    BY ItemsAssumption DEF RecordType
<1>2. SUFFICES ASSUME NEW c \in Cells PROVE TailEnds(c)'
    BY DEF TailEndsTheChain
<1>3. CASE c = r.cell
  <2>1. tail'[c] = newTail
    BY <1>3, <1>1 DEF StoreInv, StoreTypeOK, Post, RowsPosted
  <2>2. tail'[c] # NoTail
    BY <2>1, SentinelAssumption, ItemsAssumption DEF TailType, RecordType
  <2>3. chain'[c][r.session][r.first] = newRow
    BY <1>3, RowPosted
  <2>4. Booked(c, r.session, r.first)'
    BY <2>3, SentinelAssumption, ItemsAssumption DEF Booked, RowType, RecordType
  <2>5. ASSUME NEW s \in Sessions, NEW q \in Sequences, Booked(c, s, q)'
        PROVE  \/ s < r.session
               \/ s = r.session /\ chain'[c][s][q].last <= r.last
    <3>1. CASE s = r.session /\ q = r.first
      BY <2>3, <3>1, ItemsAssumption, BoundsAssumption DEF RecordType, Sequences
    <3>2. CASE ~(s = r.session /\ q = r.first)
      <4>1. chain'[c][s][q] = chain[c][s][q] /\ Booked(c, s, q)
        <5>1. ~IsPlace(r, c, s, q)
          BY <3>2 DEF IsPlace
        <5> QED
          BY <2>5, <5>1, RowsKept DEF Booked
      <4>2. tail[c] # NoTail
        BY <4>1 DEF StoreInv, TailEndsTheChain, TailEnds
      <4>3. r.session >= tail[c].session
        BY <1>3, <4>2, PostMeansNext DEF Post, StoreInv
      <4>4. s <= tail[c].session
        BY <4>1, <4>2, BoundsAssumption
           DEF StoreInv, TailEndsTheChain, TailEnds, StoreTypeOK, TailType, Sessions
      <4>5. s = r.session => chain[c][s][q].last < r.first
        BY <1>3, <4>1, PostWritesOneRow
      <4>6. r.first <= r.last
        BY PostMeansNext DEF Post, StoreInv
      <4>7. chain[c][s][q].last \in Int
        BY <4>1, BoundsAssumption DEF StoreInv, StoreTypeOK, RowType, Booked, Sequences
      <4>8. r.first \in Int /\ r.last \in Int /\ r.session \in Int /\ s \in Int
        BY ItemsAssumption, BoundsAssumption DEF RecordType, Sequences, Sessions
      <4>9. tail[c].session \in Int
        BY <4>2, BoundsAssumption DEF StoreInv, StoreTypeOK, TailType, Sessions
      <4> QED
        BY <4>1, <4>3, <4>4, <4>5, <4>6, <4>7, <4>8, <4>9
    <3> QED
      BY <3>1, <3>2
  <2> QED
    BY <1>1, <2>1, <2>2, <2>3, <2>4, <2>5 DEF TailEnds
<1>4. CASE c # r.cell
  <2>1. tail'[c] = tail[c]
    BY <1>4, <1>1 DEF StoreInv, StoreTypeOK, Post, RowsPosted
  <2>2. \A s \in Sessions, q \in Sequences : chain'[c][s][q] = chain[c][s][q]
    <3>1. \A s \in Sessions, q \in Sequences : ~IsPlace(r, c, s, q)
      BY <1>4 DEF IsPlace
    <3> QED
      BY <3>1, RowsKept
  <2>3. tail[c] # NoTail => tail[c].session \in Sessions
    BY DEF StoreInv, StoreTypeOK, TailType
  <2> QED
    BY <2>1, <2>2, <2>3 DEF StoreInv, TailEndsTheChain, TailEnds, Booked
<1> QED
    BY <1>3, <1>4

LEMMA ChainsAreContiguousStep ==
    ASSUME StoreInv, NEW p \in Partitions, NEW o \in Nat, NEW r \in Records, Post(p, o, r)
    PROVE  ChainsAreContiguous'
<1>1. r.cell \in Cells /\ r.session \in Sessions /\ r.first \in Sequences
    BY ItemsAssumption DEF RecordType
<1>2. \A c \in Cells, s \in Sessions, q \in Sequences :
        Booked(c, s, q) => Booked(c, s, q)' /\ chain'[c][s][q] = chain[c][s][q]
  <2>1. SUFFICES ASSUME NEW c \in Cells, NEW s \in Sessions, NEW q \in Sequences,
                        Booked(c, s, q)
                 PROVE  Booked(c, s, q)' /\ chain'[c][s][q] = chain[c][s][q]
    OBVIOUS
  <2>2. ~IsPlace(r, c, s, q)
    BY <2>1, PostWritesOneRow DEF IsPlace
  <2> QED
    BY <2>1, <2>2, RowsKept DEF Booked
<1>3. SUFFICES ASSUME NEW c \in Cells, NEW s \in Sessions, NEW q \in Sequences,
                      Booked(c, s, q)'
               PROVE  \/ q = 0 /\ (chain'[c][s][q].record.body = "span"
                                   \/ chain'[c][s][q].record.prev = Genesis)
                      \/ \E q0 \in 0..(q - 1) :
                           /\ Booked(c, s, q0)'
                           /\ chain'[c][s][q0].last = q - 1
                           /\ \/ chain'[c][s][q].record.body = "span"
                              \/ chain'[c][s][q].record.prev = chain'[c][s][q0].digest
    BY DEF ChainsAreContiguous
<1>4. CASE IsPlace(r, c, s, q)
  <2>0. c = r.cell /\ s = r.session /\ q = r.first
    BY <1>4 DEF IsPlace
  <2>1. chain'[c][s][q].record = r
    <3>1. chain'[c][s][q] = [last |-> r.last, digest |-> r.digest, offset |-> o, record |-> r]
      BY <2>0, RowPosted
    <3> QED
      BY <3>1
  <2>2. r.first = NextSequence(r) /\ ChainsOnto(r)
    BY PostMeansNext DEF Post, StoreInv
  <2>3. CASE FreshSession(r)
    BY <2>0, <2>1, <2>2, <2>3 DEF NextSequence, ChainsOnto, PreviousDigest
  <2>4. CASE ~FreshSession(r)
    <3>1. tail[c] # NoTail /\ tail[c].session \in Int /\ tail[c].sequence \in Int
      BY <2>0, <2>4, BoundsAssumption
         DEF FreshSession, StoreInv, StoreTypeOK, TailType, Sessions, Sequences
    <3>2. tail[c].session = r.session
      <4>1. r.session >= tail[c].session
        BY <2>0, <3>1, PostMeansNext DEF Post, StoreInv
      <4>2. ~(r.session > tail[c].session)
        BY <2>0, <2>4 DEF FreshSession
      <4>3. r.session \in Int
        BY <1>1, BoundsAssumption DEF Sessions
      <4> QED
        BY <3>1, <4>1, <4>2, <4>3
    <3>3. PICK q0 \in Sequences :
             /\ Booked(c, s, q0)
             /\ chain[c][s][q0].last = tail[c].sequence
             /\ chain[c][s][q0].digest = tail[c].digest
      BY <2>0, <3>1, <3>2 DEF StoreInv, TailEndsTheChain, TailEnds
    <3>4. q = tail[c].sequence + 1 /\ (r.body = "span" \/ r.prev = tail[c].digest)
      BY <2>0, <2>2, <2>4 DEF NextSequence, ChainsOnto, PreviousDigest
    <3>5. q0 \in 0..(q - 1)
      <4>1. q0 <= chain[c][s][q0].last
        BY <3>3 DEF StoreInv, RowsAreFaithful
      <4> QED
        BY <3>1, <3>3, <3>4, <4>1, BoundsAssumption DEF Sequences
    <3>6. Booked(c, s, q0)' /\ chain'[c][s][q0] = chain[c][s][q0]
      BY <1>2, <3>3
    <3> QED
      BY <2>1, <3>1, <3>3, <3>4, <3>5, <3>6
  <2> QED
    BY <2>3, <2>4
<1>5. CASE ~IsPlace(r, c, s, q)
  <2>1. Booked(c, s, q) /\ chain'[c][s][q] = chain[c][s][q]
    BY <1>3, <1>5, RowsKept DEF Booked
  <2>2. CASE q = 0 /\ (chain[c][s][q].record.body = "span"
                       \/ chain[c][s][q].record.prev = Genesis)
    BY <2>1, <2>2
  <2>3. CASE \E q0 \in 0..(q - 1) :
               /\ Booked(c, s, q0)
               /\ chain[c][s][q0].last = q - 1
               /\ \/ chain[c][s][q].record.body = "span"
                  \/ chain[c][s][q].record.prev = chain[c][s][q0].digest
    <3>1. \A q0 \in 0..(q - 1) : q0 \in Sequences
      BY BoundsAssumption DEF Sequences
    <3> QED
      BY <1>2, <2>1, <2>3, <3>1
  <2> QED
    BY <2>1, <2>2, <2>3 DEF StoreInv, ChainsAreContiguous
<1> QED
    BY <1>4, <1>5

LEMMA NoSequenceBookedTwiceStep ==
    ASSUME StoreInv, NEW p \in Partitions, NEW o \in Nat, NEW r \in Records, Post(p, o, r)
    PROVE  NoSequenceBookedTwice'
<1>1. SUFFICES ASSUME NEW c \in Cells, NEW s \in Sessions,
                      NEW q1 \in Sequences, NEW q2 \in Sequences,
                      Booked(c, s, q1)', Booked(c, s, q2)', q1 < q2
               PROVE  chain'[c][s][q1].last < q2
    BY DEF NoSequenceBookedTwice
<1>2. r.first \in Int /\ r.first <= r.last /\ r.last \in Int
    BY ItemsAssumption, BoundsAssumption, PostMeansNext
       DEF RecordType, Sequences, Post, StoreInv
<1>3. CASE IsPlace(r, c, s, q1)
  \* A row after the new one was there before it, and ended before it.
  <2>1. c = r.cell /\ s = r.session /\ q1 = r.first /\ q1 # q2
    BY <1>1, <1>3, BoundsAssumption DEF IsPlace, Sequences
  <2>2. ~IsPlace(r, c, s, q2)
    BY <2>1 DEF IsPlace
  <2>3. Booked(c, s, q2)
    BY <1>1, <2>2, RowsKept DEF Booked
  <2>4. chain[c][s][q2].last < r.first
    BY <2>1, <2>3, PostWritesOneRow
  <2>5. q2 <= chain[c][s][q2].last /\ chain[c][s][q2].last \in Int
    BY <2>3, BoundsAssumption
       DEF StoreInv, RowsAreFaithful, StoreTypeOK, RowType, Booked, Sequences
  <2> QED
    BY <1>1, <1>2, <2>1, <2>4, <2>5, BoundsAssumption DEF Sequences
<1>4. CASE IsPlace(r, c, s, q2)
  <2>1. c = r.cell /\ s = r.session /\ q2 = r.first /\ q1 # q2
    BY <1>1, <1>4, BoundsAssumption DEF IsPlace, Sequences
  <2>2. ~IsPlace(r, c, s, q1)
    BY <2>1 DEF IsPlace
  <2>3. chain'[c][s][q1] = chain[c][s][q1] /\ Booked(c, s, q1)
    BY <1>1, <2>2, RowsKept DEF Booked
  <2> QED
    BY <2>1, <2>3, PostWritesOneRow
<1>5. CASE ~IsPlace(r, c, s, q1) /\ ~IsPlace(r, c, s, q2)
  <2>1. /\ chain'[c][s][q1] = chain[c][s][q1] /\ Booked(c, s, q1)
        /\ chain'[c][s][q2] = chain[c][s][q2] /\ Booked(c, s, q2)
    BY <1>1, <1>5, RowsKept DEF Booked
  <2> QED
    BY <1>1, <2>1 DEF StoreInv, NoSequenceBookedTwice
<1> QED
    BY <1>3, <1>4, <1>5

LEMMA NoLiveFillBookedStep ==
    ASSUME StoreInv, NEW p \in Partitions, NEW o \in Nat, NEW r \in Records, Post(p, o, r)
    PROVE  NoLiveFillBooked'
<1>1. r.body \notin {"live", "unpostable"}
    BY PostMeansNext DEF Post, StoreInv
<1>2. SUFFICES ASSUME NEW c \in Cells, NEW s \in Sessions, NEW q \in Sequences,
                      Booked(c, s, q)'
               PROVE  chain'[c][s][q].record.body \notin {"live", "unpostable"}
    BY DEF NoLiveFillBooked
<1>3. CASE IsPlace(r, c, s, q)
  <2>1. chain'[c][s][q] = [last |-> r.last, digest |-> r.digest, offset |-> o, record |-> r]
    BY <1>3, RowPosted DEF IsPlace
  <2> QED
    BY <1>1, <2>1
<1>4. CASE ~IsPlace(r, c, s, q)
  <2>1. chain'[c][s][q] = chain[c][s][q]
    BY <1>4, RowsKept
  <2> QED
    BY <1>2, <2>1 DEF StoreInv, NoLiveFillBooked, Booked
<1> QED
    BY <1>3, <1>4
----------------------------------------------------------------------------
(* The balances.                                                           *)

LEMMA QuantitiesStep ==
    ASSUME StoreInv, StoreStep
    PROVE  QuantitiesNeverNegative'
<1>1. balance \in [Accounts -> Int] /\ QuantitiesNeverNegative
    BY DEF StoreInv, StoreTypeOK
<1>2. ASSUME NEW p \in Partitions, NEW o \in Nat, NEW r \in Records, Post(p, o, r)
      PROVE  QuantitiesNeverNegative'
  <2>1. CASE r.body = "paper"
    <3>1. Foldable(balance, r) /\ balance' = Moved(balance, r)
      BY <1>2, <2>1, PostMeansNext DEF Post, RowsPosted, AfterRecord, StoreInv
    <3> QED
      BY <1>1, <3>1, FoldKeepsFloor DEF Items, QuantitiesNeverNegative
  <2>2. CASE r.body # "paper"
    BY <1>1, <1>2, <2>2 DEF Post, RowsPosted, AfterRecord, QuantitiesNeverNegative
  <2> QED
    BY <2>1, <2>2
<1>3. ASSUME NEW p \in Partitions, NEW o \in Nat, NEW i \in Operations, BookOperation(p, o, i)
      PROVE  QuantitiesNeverNegative'
  <2>1. Foldable(balance, i) /\ balance' = Moved(balance, i)
    BY <1>3 DEF BookOperation, Bookable
  <2> QED
    BY <1>1, <2>1, FoldKeepsFloor DEF Items, QuantitiesNeverNegative
<1>4. CASE UNCHANGED balance
    BY <1>1, <1>4 DEF QuantitiesNeverNegative
<1> QED
    BY <1>2, <1>3, <1>4
       DEF StoreStep, Apply, Skip, Park, ApplyOperation, PassOperation, Release, rows
----------------------------------------------------------------------------
\* The invariant of the rows is inductive under every step of the store.
LEMMA StoreInvStart == StoreInit => StoreInv
<1> SUFFICES ASSUME StoreInit PROVE StoreInv
    OBVIOUS
<1>1. StoreTypeOK
    BY DEF StoreInit, StoreTypeOK, CursorType
<1>2. \A c \in Cells, s \in Sessions, q \in Sequences : ~Booked(c, s, q)
    BY DEF StoreInit, Booked
<1>3. QuantitiesNeverNegative
    BY ItemsAssumption DEF StoreInit, QuantitiesNeverNegative
<1>4. TailEndsTheChain
    BY <1>2 DEF StoreInit, TailEndsTheChain, TailEnds
<1>5. RowsAreFaithful /\ ChainsAreContiguous
    BY <1>2 DEF RowsAreFaithful, ChainsAreContiguous
<1>6. NoSequenceBookedTwice /\ NoLiveFillBooked
    BY <1>2 DEF NoSequenceBookedTwice, NoLiveFillBooked
<1> QED
    BY <1>1, <1>3, <1>4, <1>5, <1>6 DEF StoreInv

LEMMA StoreInvStep ==
    ASSUME StoreInv, StoreStep \/ UNCHANGED storeVars
    PROVE  StoreInv'
<1>1. CASE UNCHANGED storeVars
  <2>1. StoreTypeOK' /\ QuantitiesNeverNegative'
    BY <1>1 DEF storeVars, StoreInv, StoreTypeOK, QuantitiesNeverNegative
  <2>2. UNCHANGED <<tail, chain>>
    BY <1>1 DEF storeVars
  <2>3. RowsAreFaithful' /\ ChainsAreContiguous'
    <3>1. RowsAreFaithful /\ ChainsAreContiguous
      BY DEF StoreInv
    <3>2. RowsAreFaithful'
      BY <2>2, <3>1 DEF RowsAreFaithful, Booked
    <3>3. ChainsAreContiguous'
      BY <2>2, <3>1 DEF ChainsAreContiguous, Booked
    <3> QED
      BY <3>2, <3>3
  <2>4. TailEndsTheChain'
    BY <2>2 DEF StoreInv, TailEndsTheChain, TailEnds, Booked
  <2>5. NoSequenceBookedTwice' /\ NoLiveFillBooked'
    BY <2>2 DEF StoreInv, NoSequenceBookedTwice, NoLiveFillBooked, Booked
  <2> QED
    BY <2>1, <2>3, <2>4, <2>5 DEF StoreInv
<1>2. CASE StoreStep
  <2>1. StoreTypeOK' /\ QuantitiesNeverNegative'
    BY <1>2, StoreTypeStep, QuantitiesStep
  <2>2. CASE \E p \in Partitions, o \in Nat, r \in Records : Post(p, o, r)
    BY <2>1, <2>2, RowsAreFaithfulStep, TailEndsTheChainStep, ChainsAreContiguousStep,
       NoSequenceBookedTwiceStep, NoLiveFillBookedStep DEF StoreInv
  <2>3. CASE UNCHANGED <<tail, chain>>
    <3>1. RowsAreFaithful' /\ ChainsAreContiguous'
      <4>1. RowsAreFaithful /\ ChainsAreContiguous
        BY DEF StoreInv
      <4>2. RowsAreFaithful'
        BY <2>3, <4>1 DEF RowsAreFaithful, Booked
      <4>3. ChainsAreContiguous'
        BY <2>3, <4>1 DEF ChainsAreContiguous, Booked
      <4> QED
        BY <4>2, <4>3
    <3>2. TailEndsTheChain'
      BY <2>3 DEF StoreInv, TailEndsTheChain, TailEnds, Booked
    <3>3. NoSequenceBookedTwice' /\ NoLiveFillBooked'
      BY <2>3 DEF StoreInv, NoSequenceBookedTwice, NoLiveFillBooked, Booked
    <3> QED
      BY <2>1, <3>1, <3>2, <3>3 DEF StoreInv
  <2> QED
    BY <1>2, <2>2, <2>3, OnlyPostsWriteChains
<1> QED
    BY <1>1, <1>2
----------------------------------------------------------------------------
(* The daemon's own steps.                                                 *)

\* A batch in a worker's hands is one the broker holds.
HandsAreOnTheLog ==
    \A p \in Partitions : worker[p].fetched => worker[p].at \in 1..Len(log[p])

\* The inductive invariant that holds whatever fails.
DaemonInv == TypeOK /\ StoreInv /\ HandsAreOnTheLog
----------------------------------------------------------------------------
(* Offsets: record k of batch n has offset Base(n - 1) + k - 1.            *)

LEMMA BaseType == ASSUME NEW n \in Int PROVE Base(n) \in Int
    BY StrideAssumption DEF Base

LEMMA BaseNext == ASSUME NEW n \in Int PROVE Base(n) = Base(n - 1) + Stride
    BY StrideAssumption DEF Base

LEMMA BaseOrder == ASSUME NEW m \in Int, NEW n \in Int, m <= n PROVE Base(m) <= Base(n)
    BY StrideAssumption DEF Base

LEMMA BatchOfBelow ==
    ASSUME NEW x \in Nat PROVE BatchOf(x) \in Nat /\ Base(BatchOf(x)) <= x
    BY StrideAssumption DEF Base, BatchOf
----------------------------------------------------------------------------
(* Types.                                                                  *)

LEMMA WorkerFields ==
    ASSUME TypeOK, NEW p \in Partitions
    PROVE  /\ worker[p] \in WorkerType
           /\ worker[p].position \in Nat /\ worker[p].at \in Nat
           /\ FetchOffset(p) \in Nat
           /\ HandBase(p) \in Int /\ NextOffset(p) \in Nat
<1>1. worker[p] \in WorkerType
    BY DEF TypeOK
<1>2. worker[p].position \in Nat /\ worker[p].at \in Nat
    BY <1>1 DEF WorkerType
<1>3. FetchOffset(p) \in Nat
    BY <1>2, BatchOfBelow DEF FetchOffset
<1>4. HandBase(p) \in Int
    BY <1>2, BaseType DEF HandBase
<1> QED
    BY <1>1, <1>2, <1>3, <1>4 DEF NextOffset, Larger

\* Whatever the daemon does to the ledger is a step of its store.
LEMMA StepsOfTheStore ==
    ASSUME TypeOK, [Next]_vars
    PROVE  StoreStep \/ UNCHANGED storeVars
<1>1. ASSUME NEW p \in Partitions, ApplyRecord(p) \/ ApplyNextOperation(p) \/ LostAck(p)
      PROVE  StoreStep
  <2>1. NextOffset(p) \in Nat
    BY WorkerFields
  <2> QED
    BY <1>1, <2>1 DEF ApplyRecord, ApplyNextOperation, LostAck, StoreStep
<1>2. ASSUME NEW c \in Cells, ReleaseStopped(c) \/ ReleaseLive(c)
      PROVE  StoreStep
    BY <1>2 DEF ReleaseStopped, ReleaseLive, StoreStep
<1>3. ASSUME NEW p \in Partitions,
             \/ \E b \in Batches : Produce(p, b)
             \/ Join(p) \/ Fetch(p) \/ PassOver(p) \/ Finish(p) \/ Idle(p) \/ FailFetch(p)
      PROVE  UNCHANGED storeVars
    BY <1>3 DEF Produce, Join, Fetch, PassOver, Finish, Idle, FailFetch
<1>4. ASSUME Lapse \/ LoseBroker \/ Crash \/ Start \/ UNCHANGED vars
      PROVE  UNCHANGED storeVars
    BY <1>4 DEF Lapse, LoseBroker, Crash, Start, vars
<1> QED
    BY <1>1, <1>2, <1>3, <1>4 DEF Next, Step

\* The worker's own part of a step keeps it one: only these fields move.
LEMMA WorkerUpdates ==
    ASSUME TypeOK, NEW p \in Partitions, NEW w \in WorkerType
    PROVE  [worker EXCEPT ![p] = w] \in [Partitions -> WorkerType]
    BY DEF TypeOK

LEMMA CommitGroupType ==
    ASSUME TypeOK, NEW p \in Partitions, NEW n \in Nat, NEW w \in WorkerType,
           CommitGroup(p, n, w)
    PROVE  /\ worker' \in [Partitions -> WorkerType]
           /\ committed' \in [Partitions -> Nat]
<1>1. [w EXCEPT !.deferred = FALSE] \in WorkerType
      /\ [w EXCEPT !.deferred = TRUE, !.joined = FALSE] \in WorkerType
    BY DEF WorkerType
<1>2. CASE CommitAccepted(p, n)
  <2>1. /\ committed' = [committed EXCEPT ![p] = n + 1]
        /\ worker' = [worker EXCEPT ![p] = [w EXCEPT !.deferred = FALSE]]
    BY <1>2 DEF CommitGroup
  <2>2. worker' \in [Partitions -> WorkerType]
    BY <1>1, <2>1, WorkerUpdates
  <2> QED
    BY <2>1, <2>2 DEF TypeOK
<1>3. CASE ~CommitAccepted(p, n)
  <2>1. /\ UNCHANGED committed
        /\ worker' = [worker EXCEPT ![p] = [w EXCEPT !.deferred = TRUE, !.joined = FALSE]]
    BY <1>3 DEF CommitGroup
  <2>2. worker' \in [Partitions -> WorkerType]
    BY <1>1, <2>1, WorkerUpdates
  <2> QED
    BY <2>1, <2>2 DEF TypeOK
<1> QED
    BY <1>2, <1>3

LEMMA TypeStep ==
    ASSUME DaemonInv, [Next]_vars
    PROVE  TypeOK'
<1> USE DEF DaemonInv
<1>0. StoreTypeOK'
    BY StepsOfTheStore, StoreInvStep DEF StoreInv
<1>1. ASSUME NEW p \in Partitions, NEW b \in Batches, Produce(p, b)
      PROVE  TypeOK'
    BY <1>0, <1>1 DEF Produce, TypeOK
<1>2. ASSUME NEW p \in Partitions, Join(p)
      PROVE  TypeOK'
  <2> DEFINE w == [worker[p] EXCEPT !.joined = TRUE, !.generation = generation]
  <2>1. worker \in [Partitions -> WorkerType] /\ worker[p] \in WorkerType /\ generation \in Nat
    BY DEF TypeOK
  <2>2. w \in WorkerType
    BY <2>1 DEF WorkerType
  <2>3. worker' = [worker EXCEPT ![p] = w]
    BY <1>2, <2>1 DEF Join
  <2> HIDE DEF w
  <2>4. worker' \in [Partitions -> WorkerType]
    BY <2>1, <2>2, <2>3
  <2>5. UNCHANGED <<log, committed, generation, running, faults>>
    BY <1>2 DEF Join, brokerVars
  <2> QED
    BY <1>0, <2>4, <2>5 DEF TypeOK
<1>3. ASSUME NEW p \in Partitions, Fetch(p)
      PROVE  TypeOK'
  <2>1. FetchOffset(p) + 1 \in Nat
    BY WorkerFields
  <2> DEFINE w == [worker[p] EXCEPT !.seeked = TRUE, !.fetched = TRUE, !.at = FetchOffset(p) + 1]
  <2>2. worker \in [Partitions -> WorkerType] /\ worker[p] \in WorkerType
    BY DEF TypeOK
  <2>3. w \in WorkerType
    BY <2>1, <2>2 DEF WorkerType
  <2>4. worker' = [worker EXCEPT ![p] = w]
    BY <1>3, <2>2 DEF Fetch
  <2> HIDE DEF w
  <2>5. worker' \in [Partitions -> WorkerType]
    BY <2>2, <2>3, <2>4
  <2>6. UNCHANGED <<log, committed, generation, running, faults>>
    BY <1>3 DEF Fetch, brokerVars
  <2> QED
    BY <1>0, <2>5, <2>6 DEF TypeOK
<1>4. ASSUME NEW p \in Partitions, FailFetch(p)
      PROVE  TypeOK'
    BY <1>0, <1>4 DEF FailFetch, TypeOK, WorkerType, brokerVars
<1>5. ASSUME NEW p \in Partitions, ApplyRecord(p)
      PROVE  TypeOK'
  <2>1. NextOffset(p) \in Nat /\ NextItem(p).cell \in Cells
    BY <1>5, WorkerFields, ItemsAssumption DEF ApplyRecord, RecordType
  <2>2. NextPosition(p, NextOffset(p), NextItem(p)) \in Nat
    <3>1. ReReads(p, NextOffset(p), NextItem(p)) => park[NextItem(p).cell].offset \in Nat
      BY <2>1 DEF ReReads, FillsGap, Parked, TypeOK, StoreTypeOK, ParkType
    <3> QED
      BY <2>1, <3>1 DEF NextPosition
  <2>3. worker' \in [Partitions -> WorkerType]
    <3> DEFINE n == NextPosition(p, NextOffset(p), NextItem(p))
               o == NextOffset(p) + 1
    <3>1. o \in Nat /\ n \in Nat
      BY <2>1, <2>2
    <3>2. CASE ReReads(p, NextOffset(p), NextItem(p))
      <4>1. worker' = [worker EXCEPT ![p].position = n, ![p].seeked = FALSE,
                                     ![p].fetched = FALSE]
        BY <1>5, <3>2 DEF ApplyRecord, MoveOn
      <4> HIDE DEF n
      <4> DEFINE w == [worker[p] EXCEPT !.position = n, !.seeked = FALSE, !.fetched = FALSE]
      <4>2. worker \in [Partitions -> WorkerType] /\ worker[p] \in WorkerType
        BY DEF TypeOK
      <4>3. w \in WorkerType
        BY <3>1, <4>2 DEF WorkerType
      <4>4. worker' = [worker EXCEPT ![p] = w]
        BY <4>1, <4>2
      <4> HIDE DEF w
      <4> QED
        BY <4>2, <4>3, <4>4
    <3>3. CASE ~ReReads(p, NextOffset(p), NextItem(p))
      <4>1. worker' = [worker EXCEPT ![p].position = o]
        BY <1>5, <3>3 DEF ApplyRecord, MoveOn
      <4> HIDE DEF o
      <4> QED
        BY <3>1, <4>1 DEF TypeOK, WorkerType
    <3> QED
      BY <3>2, <3>3
  <2> QED
    BY <1>0, <1>5, <2>3 DEF ApplyRecord, TypeOK, brokerVars
<1>6. ASSUME NEW p \in Partitions, ApplyNextOperation(p)
      PROVE  TypeOK'
  <2>1. NextOffset(p) + 1 \in Nat
    BY WorkerFields
  <2> QED
    BY <1>0, <1>6, <2>1 DEF ApplyNextOperation, TypeOK, WorkerType, brokerVars
<1>7. ASSUME NEW p \in Partitions, PassOver(p)
      PROVE  TypeOK'
  <2>1. NextOffset(p) + 1 \in Nat
    BY WorkerFields
  <2> QED
    BY <1>0, <1>7, <2>1 DEF PassOver, TypeOK, WorkerType, brokerVars
<1>8. ASSUME NEW p \in Partitions, LostAck(p)
      PROVE  TypeOK'
    BY <1>0, <1>8 DEF LostAck, Fault, TypeOK, brokerVars
<1>9. ASSUME NEW p \in Partitions, Finish(p)
      PROVE  TypeOK'
  <2>1. worker[p].at - 1 \in Nat
    BY <1>9, WorkerFields DEF Finish, HandsAreOnTheLog
  <2>2. Larger(worker[p].position, Base(worker[p].at)) \in Nat
    BY WorkerFields, BaseType DEF Larger
  <2>3. AfterBatch(p) \in WorkerType
    BY <2>1, <2>2, WorkerFields DEF AfterBatch, WorkerType
  <2> QED
    BY <1>0, <1>9, <2>1, <2>3, WorkerUpdates, CommitGroupType DEF Finish, TypeOK
<1>10. ASSUME NEW p \in Partitions, Idle(p)
      PROVE  TypeOK'
  <2>1. Idled(p) \in WorkerType
    BY WorkerFields DEF Idled, WorkerType
  <2>2. worker[p].last # NoBatch => worker[p].last \in Nat
    BY WorkerFields DEF WorkerType
  <2> QED
    BY <1>0, <1>10, <2>1, <2>2, WorkerUpdates, CommitGroupType DEF Idle, TypeOK
<1>11. ASSUME NEW c \in Cells, ReleaseStopped(c) \/ ReleaseLive(c)
      PROVE  TypeOK'
    BY <1>0, <1>11 DEF ReleaseStopped, ReleaseLive, Fault, TypeOK, brokerVars
<1>12. ASSUME Lapse \/ LoseBroker
      PROVE  TypeOK'
  <2>1. faults' \in Nat /\ generation' \in Nat /\ UNCHANGED <<running, worker>>
    BY <1>12 DEF Lapse, LoseBroker, Fault, TypeOK
  <2>2. committed' \in [Partitions -> Nat]
    BY <1>12 DEF Lapse, LoseBroker, TypeOK
  <2>3. log' \in [Partitions -> Seq(Batches)]
    <3>1. <<>> \in Seq(Batches)
      OBVIOUS
    <3> QED
      BY <1>12, <3>1 DEF Lapse, LoseBroker, TypeOK
  <2> QED
    BY <1>0, <2>1, <2>2, <2>3 DEF TypeOK
<1>13. ASSUME Crash \/ Start
      PROVE  TypeOK'
  <2>1. \A n \in Nat : FreshWorker(n) \in WorkerType
    BY DEF FreshWorker, WorkerType
  <2>2. \A p \in Partitions : cursor[p].next \in Nat
    BY DEF TypeOK, StoreTypeOK, CursorType
  <2>3. worker' \in [Partitions -> WorkerType]
    <3>1. CASE Crash
      BY <2>1, <3>1 DEF Crash
    <3>2. CASE Start
      BY <2>1, <2>2, <3>2 DEF Start
    <3> QED
      BY <1>13, <3>1, <3>2
  <2>4. faults' \in Nat /\ running' \in BOOLEAN
    <3>1. CASE Crash
      <4>1. faults' = faults + 1
        BY <3>1 DEF Crash, Fault
      <4>2. faults' \in Nat
        BY <4>1 DEF TypeOK
      <4>3. running' \in BOOLEAN
        BY <3>1 DEF Crash
      <4> QED
        BY <4>2, <4>3
    <3>2. CASE Start
      <4>1. UNCHANGED faults /\ running' = TRUE
        BY <3>2 DEF Start
      <4> QED
        BY <4>1 DEF TypeOK
    <3> QED
      BY <1>13, <3>1, <3>2
  <2>5. UNCHANGED brokerVars
    BY <1>13 DEF Crash, Start
  <2> QED
    BY <1>0, <2>3, <2>4, <2>5 DEF TypeOK, brokerVars
<1>14. CASE UNCHANGED vars
    BY <1>0, <1>14 DEF vars, brokerVars, TypeOK
<1> QED
    BY <1>1, <1>2, <1>3, <1>4, <1>5, <1>6, <1>7, <1>8, <1>9, <1>10, <1>11, <1>12, <1>13,
       <1>14 DEF Next, Step
----------------------------------------------------------------------------
(* The invariant that holds whatever fails.                                *)

LEMMA HandsStep ==
    ASSUME DaemonInv, [Next]_vars
    PROVE  HandsAreOnTheLog'
<1> SUFFICES ASSUME NEW q \in Partitions, worker'[q].fetched
             PROVE  worker'[q].at \in 1..Len(log'[q])
    BY DEF HandsAreOnTheLog
<1> USE DEF DaemonInv
<1>0. worker[q].fetched => worker[q].at \in 1..Len(log[q])
    BY DEF HandsAreOnTheLog
<1>1. ASSUME NEW p \in Partitions, NEW b \in Batches, Produce(p, b)
      PROVE  worker'[q].at \in 1..Len(log'[q])
  <2>1. log[p] \in Seq(Batches) /\ log[q] \in Seq(Batches)
    BY DEF TypeOK
  <2>2. Len(log'[q]) \in Nat /\ Len(log'[q]) >= Len(log[q])
    BY <1>1, <2>1 DEF Produce, TypeOK
  <2> QED
    BY <1>0, <1>1, <2>1, <2>2 DEF Produce
<1>2. ASSUME NEW p \in Partitions, Fetch(p)
      PROVE  worker'[q].at \in 1..Len(log'[q])
  <2>1. FetchOffset(p) \in Nat /\ Len(log[p]) \in Nat /\ FetchOffset(p) < Len(log[p])
    BY <1>2, WorkerFields DEF Fetch, TypeOK
  <2>2. UNCHANGED log
    BY <1>2 DEF Fetch, brokerVars
  <2>3. worker'[p].at = FetchOffset(p) + 1 /\ (q # p => worker'[q] = worker[q])
    BY <1>2 DEF Fetch, TypeOK, WorkerType
  <2> QED
    BY <1>0, <2>1, <2>2, <2>3
<1>3. ASSUME UNCHANGED log, worker'[q].fetched => worker[q].fetched, worker'[q].at = worker[q].at
      PROVE  worker'[q].at \in 1..Len(log'[q])
    BY <1>0, <1>3
<1>4. ASSUME NEW p \in Partitions,
             Join(p) \/ FailFetch(p) \/ ApplyNextOperation(p) \/ PassOver(p) \/ LostAck(p)
      PROVE  worker'[q].at \in 1..Len(log'[q])
  <2>1. UNCHANGED log
    BY <1>4 DEF Join, FailFetch, ApplyNextOperation, PassOver, LostAck, brokerVars
  <2>2. worker'[q].fetched = worker[q].fetched /\ worker'[q].at = worker[q].at
    <3>1. CASE UNCHANGED worker
      BY <3>1
    <3>2. CASE Join(p)
      BY <3>2 DEF Join, TypeOK, WorkerType
    <3>3. CASE FailFetch(p)
      BY <3>3 DEF FailFetch, TypeOK, WorkerType
    <3>4. CASE \E o \in Nat : worker' = [worker EXCEPT ![p].position = o]
      <4>1. PICK o \in Nat : worker' = [worker EXCEPT ![p].position = o]
        BY <3>4
      <4> DEFINE w == [worker[p] EXCEPT !.position = o]
      <4>2. worker \in [Partitions -> WorkerType] /\ worker[p] \in WorkerType
        BY DEF TypeOK
      <4>3. w.fetched = worker[p].fetched /\ w.at = worker[p].at
        BY <4>2 DEF WorkerType
      <4>4. worker' = [worker EXCEPT ![p] = w]
        BY <4>1, <4>2
      <4> HIDE DEF w
      <4> QED
        BY <4>2, <4>3, <4>4
    <3>5. NextOffset(p) + 1 \in Nat
      BY WorkerFields
    <3> QED
      BY <1>4, <3>1, <3>2, <3>3, <3>4, <3>5 DEF ApplyNextOperation, PassOver, LostAck
  <2> QED
    BY <1>3, <2>1, <2>2
<1>5. ASSUME NEW p \in Partitions, ApplyRecord(p)
      PROVE  worker'[q].at \in 1..Len(log'[q])
  <2>1. UNCHANGED log
    BY <1>5 DEF ApplyRecord, brokerVars
  <2> DEFINE n == NextPosition(p, NextOffset(p), NextItem(p))
             o == NextOffset(p) + 1
  <2>2. \/ worker' = [worker EXCEPT ![p].position = n, ![p].seeked = FALSE,
                                    ![p].fetched = FALSE]
        \/ worker' = [worker EXCEPT ![p].position = o]
    BY <1>5 DEF ApplyRecord, MoveOn
  <2> HIDE DEF n, o
  <2>3. (worker'[q].fetched => worker[q].fetched) /\ worker'[q].at = worker[q].at
    <3> DEFINE v == [worker[p] EXCEPT !.position = n, !.seeked = FALSE, !.fetched = FALSE]
               w == [worker[p] EXCEPT !.position = o]
    <3>1. worker \in [Partitions -> WorkerType] /\ worker[p] \in WorkerType
      BY DEF TypeOK
    <3>2. v.fetched = FALSE /\ v.at = worker[p].at
      BY <3>1 DEF WorkerType
    <3>3. w.fetched = worker[p].fetched /\ w.at = worker[p].at
      BY <3>1 DEF WorkerType
    <3>4. worker' = [worker EXCEPT ![p] = v] \/ worker' = [worker EXCEPT ![p] = w]
      BY <2>2, <3>1
    <3> HIDE DEF v, w
    <3> QED
      BY <3>1, <3>2, <3>3, <3>4
  <2> QED
    BY <1>3, <2>1, <2>3
<1>6. ASSUME NEW p \in Partitions, Finish(p) \/ Idle(p)
      PROVE  worker'[q].at \in 1..Len(log'[q])
  <2>1. UNCHANGED log /\ (q # p => worker'[q] = worker[q]) /\ ~worker'[p].fetched
    BY ZenonT(60), <1>6 DEF Finish, Idle, CommitGroup, AfterBatch, Idled, Ready, TypeOK, WorkerType
  <2> QED
    BY <1>0, <2>1
<1>7. ASSUME \/ \E c \in Cells : ReleaseStopped(c) \/ ReleaseLive(c)
             \/ Lapse \/ UNCHANGED vars
      PROVE  worker'[q].at \in 1..Len(log'[q])
    BY <1>0, <1>7 DEF ReleaseStopped, ReleaseLive, Lapse, vars, brokerVars
<1>8. CASE LoseBroker
    BY <1>8 DEF LoseBroker
<1>9. CASE Crash \/ Start
    BY <1>9 DEF Crash, Start, FreshWorker
<1> QED
    BY <1>1, <1>2, <1>4, <1>5, <1>6, <1>7, <1>8, <1>9 DEF Next, Step

LEMMA DaemonInvStart == Init => DaemonInv
<1> SUFFICES ASSUME Init PROVE DaemonInv
    OBVIOUS
<1>1. StoreInv
    BY StoreInvStart DEF Init
<1>2. \A p \in Partitions : FreshWorker(0) \in WorkerType /\ ~FreshWorker(0).fetched
    BY DEF FreshWorker, WorkerType
<1>3. TypeOK
    BY <1>1, <1>2 DEF Init, TypeOK, StoreInv
<1>4. HandsAreOnTheLog
    BY <1>2 DEF Init, HandsAreOnTheLog
<1> QED
    BY <1>1, <1>3, <1>4 DEF DaemonInv

LEMMA DaemonInvStep == DaemonInv /\ [Next]_vars => DaemonInv'
<1> SUFFICES ASSUME DaemonInv, [Next]_vars PROVE DaemonInv'
    OBVIOUS
<1>1. TypeOK' /\ HandsAreOnTheLog'
    BY TypeStep, HandsStep
<1>2. StoreInv'
    BY StepsOfTheStore, StoreInvStep DEF DaemonInv
<1> QED
    BY <1>1, <1>2 DEF DaemonInv

\* The store's and the worker's invariant holds whatever fails.
LEMMA DaemonInvHolds == Spec => []DaemonInv
    BY DaemonInvStart, DaemonInvStep, PTL DEF Spec

\* Every row, park, cursor and worker stays what its type says.
THEOREM TypeCorrect == Spec => []TypeOK
<1>1. DaemonInv => TypeOK
    BY DEF DaemonInv
<1> QED
    BY <1>1, DaemonInvHolds, PTL

\* Each cell's history is one unbroken chain per session, whatever is lost,
\* re-read, re-ordered or restarted.
THEOREM ContiguousChains == Spec => []ChainsAreContiguous
<1>1. DaemonInv => ChainsAreContiguous
    BY DEF DaemonInv, StoreInv
<1> QED
    BY <1>1, DaemonInvHolds, PTL

\* No sequence number is booked by two records, however spans are re-framed.
THEOREM SequencesBookedOnce == Spec => []NoSequenceBookedTwice
<1>1. DaemonInv => NoSequenceBookedTwice
    BY DEF DaemonInv, StoreInv
<1> QED
    BY <1>1, DaemonInvHolds, PTL

\* The tail apply judges by is where the chain really ends.
THEOREM TailsEndChains == Spec => []TailEndsTheChain
<1>1. DaemonInv => TailEndsTheChain
    BY DEF DaemonInv, StoreInv
<1> QED
    BY <1>1, DaemonInvHolds, PTL

\* No live fill is ever part of the ledger's history.
THEOREM PaperOnly == Spec => []NoLiveFillBooked
<1>1. DaemonInv => NoLiveFillBooked
    BY DEF DaemonInv, StoreInv
<1> QED
    BY <1>1, DaemonInvHolds, PTL

\* No quantity account is ever overdrawn, by fills, by operations or by both.
THEOREM QuantitiesHold == Spec => []QuantitiesNeverNegative
<1>1. DaemonInv => QuantitiesNeverNegative
    BY DEF DaemonInv, StoreInv
<1> QED
    BY <1>1, DaemonInvHolds, PTL
----------------------------------------------------------------------------
(* Two kinds of step reach the rows.                                       *)

\* Only a post and a booked operation touch the ledger's rows.
LEMMA RowsMoveTwoWays ==
    ASSUME StoreStep \/ UNCHANGED storeVars
    PROVE  \/ \E p \in Partitions, o \in Nat, r \in Records : Post(p, o, r)
           \/ \E p \in Partitions, o \in Nat, i \in Operations : BookOperation(p, o, i)
           \/ UNCHANGED rows
    BY ZenonT(60) DEF StoreStep, Apply, Skip, Park, ApplyOperation, PassOperation, Release,
           storeVars, rows

\* A row the ledger writes is a row, not the absence of one.
LEMMA PostBooks ==
    ASSUME NEW p \in Partitions, NEW o \in Nat, NEW r \in Records, StoreInv, Post(p, o, r)
    PROVE  /\ chain'[r.cell][r.session][r.first].record = r
           /\ Booked(r.cell, r.session, r.first)'
           /\ ~Booked(r.cell, r.session, r.first)
<1> DEFINE row == [last |-> r.last, digest |-> r.digest, offset |-> o, record |-> r]
<1>1. chain'[r.cell][r.session][r.first] = row
    BY RowPosted
<1>2. row \in RowType
    BY ItemsAssumption DEF RecordType, RowType
<1>3. row # NoRow /\ row.record = r
    BY <1>2, SentinelAssumption
<1> HIDE DEF row
<1>4. ~Booked(r.cell, r.session, r.first)
    BY PostWritesOneRow
<1> QED
    BY <1>1, <1>3, <1>4 DEF Booked
----------------------------------------------------------------------------
(* History.                                                                *)

LEMMA HistoryStep ==
    ASSUME StoreInv, StoreStep \/ UNCHANGED storeVars
    PROVE  /\ \A c \in Cells, s \in Sessions, q \in Sequences :
                Booked(c, s, q) => chain'[c][s][q] = chain[c][s][q]
           /\ \A i \in OpIds : operations[i] # NoRow => operations'[i] = operations[i]
           /\ balance' # balance => chain' # chain \/ operations' # operations
<1>1. ASSUME NEW p \in Partitions, NEW o \in Nat, NEW r \in Records, Post(p, o, r)
      PROVE  /\ \A c \in Cells, s \in Sessions, q \in Sequences :
                  Booked(c, s, q) => chain'[c][s][q] = chain[c][s][q]
             /\ UNCHANGED operations
             /\ chain' # chain
  <2>1. ASSUME NEW c \in Cells, NEW s \in Sessions, NEW q \in Sequences, Booked(c, s, q)
        PROVE  chain'[c][s][q] = chain[c][s][q]
    <3>1. ~IsPlace(r, c, s, q)
      BY <1>1, <2>1, PostBooks DEF IsPlace
    <3> QED
      BY <1>1, <3>1, RowsKept
  <2>2. UNCHANGED operations
    BY <1>1 DEF Post, RowsPosted
  <2>3. chain' # chain
    BY <1>1, PostBooks DEF Booked
  <2> QED
    BY <2>1, <2>2, <2>3
<1>2. ASSUME NEW p \in Partitions, NEW o \in Nat, NEW i \in Operations, BookOperation(p, o, i)
      PROVE  /\ UNCHANGED chain
             /\ \A j \in OpIds : operations[j] # NoRow => operations'[j] = operations[j]
             /\ operations' # operations
  <2>1. i.op \in OpIds /\ i # NoRow
    BY ItemsAssumption DEF OperationType, Items
  <2>2. operations[i.op] = NoRow /\ operations' = [operations EXCEPT ![i.op] = i]
        /\ UNCHANGED chain
    BY <1>2 DEF BookOperation, Bookable
  <2>3. operations'[i.op] = i
    BY <2>1, <2>2 DEF StoreInv, StoreTypeOK
  <2> QED
    BY <2>1, <2>2, <2>3 DEF StoreInv, StoreTypeOK
<1>3. CASE UNCHANGED rows
    BY <1>3 DEF rows
<1> QED
    BY <1>1, <1>2, <1>3, RowsMoveTwoWays

\* No update and no delete, and no balance moves without the record or the
\* operation that moves it.
THEOREM HistoryStays == Spec => HistoryIsImmutable
<1>1. DaemonInv /\ [Next]_vars
        => [/\ \A c \in Cells, s \in Sessions, q \in Sequences :
                 Booked(c, s, q) => chain'[c][s][q] = chain[c][s][q]
            /\ \A i \in OpIds : operations[i] # NoRow => operations'[i] = operations[i]
            /\ balance' # balance => chain' # chain \/ operations' # operations]_vars
    BY StepsOfTheStore, HistoryStep DEF DaemonInv
<1> QED
    BY <1>1, DaemonInvHolds, PTL DEF Spec, HistoryIsImmutable
----------------------------------------------------------------------------
(* Refinement.                                                             *)

\* The abstract book: the records of the rows.
AbstractBook ==
    [c \in Cells |-> [s \in Sessions |-> [q \in Sequences |->
       IF chain[c][s][q] = NoRow THEN NoRow ELSE chain[c][s][q].record]]]

LEMMA BookOfRows ==
    ASSUME StoreInv, NEW c \in Cells, NEW s \in Sessions, NEW q \in Sequences
    PROVE  /\ AbstractBook[c][s][q] # NoRow <=> Booked(c, s, q)
           /\ Booked(c, s, q) => AbstractBook[c][s][q] = chain[c][s][q].record
<1>1. Booked(c, s, q) => chain[c][s][q].record \in Records
    BY DEF StoreInv, RowsAreFaithful
<1> QED
    BY <1>1, ItemsAssumption DEF AbstractBook, Booked, Items

\* The book with one record replaced, as an update and place by place.
BookUpdated(c0, s0, q0, r) == [AbstractBook EXCEPT ![c0][s0][q0] = r]
BookByPlace(c0, s0, q0, r) ==
    [c \in Cells |-> [s \in Sessions |-> [q \in Sequences |->
       IF c = c0 /\ s = s0 /\ q = q0 THEN r ELSE AbstractBook[c][s][q]]]]

LEMMA PlaceReplaced ==
    ASSUME NEW c0 \in Cells, NEW s0 \in Sessions, NEW q0 \in Sequences, NEW r
    PROVE  BookUpdated(c0, s0, q0, r) = BookByPlace(c0, s0, q0, r)
<1> DEFINE F == AbstractBook
           Session(c, s) == [q \in Sequences |->
                IF c = c0 /\ s = s0 /\ q = q0 THEN r ELSE F[c][s][q]]
           Cell(c) == [s \in Sessions |-> Session(c, s)]
<1>1. /\ F = [c \in Cells |-> F[c]]
      /\ \A c \in Cells : F[c] = [s \in Sessions |-> F[c][s]]
      /\ \A c \in Cells, s \in Sessions : F[c][s] = [q \in Sequences |-> F[c][s][q]]
    BY DEF AbstractBook
<1> HIDE DEF F
<1>2. [F[c0][s0] EXCEPT ![q0] = r] = Session(c0, s0)
  <2> DEFINE G == F[c0][s0]
  <2>1. G = [q \in Sequences |-> G[q]]
    BY <1>1
  <2>2. Session(c0, s0) = [q \in Sequences |-> IF q = q0 THEN r ELSE G[q]]
    OBVIOUS
  <2> HIDE DEF G, Session
  <2>3. [G EXCEPT ![q0] = r] = Session(c0, s0)
    BY <2>1, <2>2
  <2> QED
    BY <2>3 DEF G
<1>3. \A c \in Cells, s \in Sessions : ~(c = c0 /\ s = s0) => F[c][s] = Session(c, s)
    BY <1>1
<1> HIDE DEF Session
<1>4. [F[c0] EXCEPT ![s0][q0] = r] = Cell(c0)
    BY <1>1, <1>2, <1>3
<1>5. \A c \in Cells : c # c0 => F[c] = Cell(c)
    BY <1>1, <1>3
<1> HIDE DEF Cell
<1>6. [F EXCEPT ![c0][s0][q0] = r] = [c \in Cells |-> Cell(c)]
    BY <1>1, <1>4, <1>5
<1> QED
    BY <1>6 DEF F, Cell, Session, BookUpdated, BookByPlace

LEMMA BookStart == Init => Book!BookInit
<1> SUFFICES ASSUME Init PROVE Book!BookInit
    OBVIOUS
<1>1. AbstractBook = [c \in Cells |-> [s \in Sessions |-> [q \in Sequences |-> NoRow]]]
    BY DEF Init, StoreInit, AbstractBook
<1> QED
    BY <1>1 DEF Init, StoreInit, AbstractBook, Book!BookInit, Book!Sessions, Book!Sequences,
                Sessions, Sequences

LEMMA PostIsBookRecord ==
    ASSUME NEW p \in Partitions, NEW o \in Nat, NEW r \in Records,
           StoreInv, Post(p, o, r)
    PROVE  Book!BookRecord(r)
<1>0. r.cell \in Cells /\ r.session \in Sessions /\ r.first \in Sequences
      /\ r.session \in Int /\ r.first \in Int
    BY ItemsAssumption, BoundsAssumption DEF RecordType, Sessions, Sequences
<1>1. /\ r.body \in {"span", "note", "paper"}
      /\ r.first = NextSequence(r)
      /\ ChainsOnto(r)
      /\ r.body = "paper" => Foldable(balance, r)
      /\ tail[r.cell] # NoTail => r.session >= tail[r.cell].session
    BY PostMeansNext DEF Post, StoreInv
<1>2. Book!IsNewest(r)
  <2>1. SUFFICES ASSUME NEW s \in Sessions, NEW q \in Sequences, Booked(r.cell, s, q)
                 PROVE  s < r.session \/ (s = r.session /\ q < r.first)
    BY <1>0, BookOfRows DEF Book!IsNewest, AbstractBook, Book!Sessions, Book!Sequences,
       Sessions, Sequences
  <2>2. tail[r.cell] # NoTail
    BY <1>0, <2>1 DEF StoreInv, TailEndsTheChain, TailEnds
  <2>3. s < tail[r.cell].session \/ s = tail[r.cell].session
    BY <1>0, <2>1, <2>2 DEF StoreInv, TailEndsTheChain, TailEnds
  <2>4. s = r.session => chain[r.cell][s][q].last < r.first
    BY <2>1, PostWritesOneRow
  <2>5. q <= chain[r.cell][s][q].last
    BY <1>0, <2>1 DEF StoreInv, RowsAreFaithful
  <2>6. s \in Int /\ q \in Int
    BY BoundsAssumption DEF Sessions, Sequences
  <2>7. tail[r.cell].session \in Int
    BY <1>0, <2>2, BoundsAssumption DEF StoreInv, StoreTypeOK, TailType, Sessions
  <2>8. chain[r.cell][s][q].last \in Int
    BY <1>0, <2>1, BoundsAssumption DEF StoreInv, StoreTypeOK, RowType, Booked, Sequences
  <2> QED
    BY <1>0, <1>1, <2>2, <2>3, <2>4, <2>5, <2>6, <2>7, <2>8
<1>3. Book!OpensSession(r) \/ Book!Continues(r)
  <2>1. CASE FreshSession(r)
    BY <1>1, <2>1 DEF NextSequence, ChainsOnto, PreviousDigest, Book!OpensSession
  <2>2. CASE ~FreshSession(r)
    <3>1. tail[r.cell] # NoTail /\ r.session = tail[r.cell].session
      <4>1. tail[r.cell] # NoTail /\ ~(r.session > tail[r.cell].session)
        BY <2>2 DEF FreshSession
      <4>2. tail[r.cell].session \in Int
        <5>1. tail \in [Cells -> TailType \cup {NoTail}]
          BY DEF StoreInv, StoreTypeOK
        <5> QED
          BY <1>0, <4>1, <5>1, BoundsAssumption DEF TailType, Sessions
      <4> QED
        BY <1>0, <1>1, <4>1, <4>2
    <3>2. PICK q \in Sequences :
             /\ Booked(r.cell, r.session, q)
             /\ chain[r.cell][r.session][q].last = tail[r.cell].sequence
             /\ chain[r.cell][r.session][q].digest = tail[r.cell].digest
      <4>1. TailEnds(r.cell)
        BY <1>0 DEF StoreInv, TailEndsTheChain
      <4> QED
        BY <3>1, <4>1 DEF TailEnds
    <3>3. /\ AbstractBook[r.cell][r.session][q] # NoRow
          /\ AbstractBook[r.cell][r.session][q] = chain[r.cell][r.session][q].record
      BY <1>0, <3>2, BookOfRows
    <3>4. /\ chain[r.cell][r.session][q].record.last = tail[r.cell].sequence
          /\ chain[r.cell][r.session][q].record.digest = tail[r.cell].digest
      BY <1>0, <3>2 DEF StoreInv, RowsAreFaithful
    <3>5. /\ r.first = tail[r.cell].sequence + 1
          /\ r.body = "span" \/ r.prev = tail[r.cell].digest
      BY <1>1, <2>2 DEF NextSequence, ChainsOnto, PreviousDigest
    <3>6. /\ AbstractBook[r.cell][r.session][q] # NoRow
          /\ AbstractBook[r.cell][r.session][q].last + 1 = r.first
          /\ r.body = "span" \/ r.prev = AbstractBook[r.cell][r.session][q].digest
      BY <3>3, <3>4, <3>5
    <3> QED
      BY <3>6 DEF Book!Continues, AbstractBook, Book!Sequences, Book!Sessions, Sequences, Sessions
  <2> QED
    BY <2>1, <2>2
<1>4. AbstractBook' = [AbstractBook EXCEPT ![r.cell][r.session][r.first] = r]
  <2>1. ASSUME NEW c \in Cells, NEW s \in Sessions, NEW q \in Sequences
        PROVE  AbstractBook'[c][s][q] =
                 IF IsPlace(r, c, s, q) THEN r ELSE AbstractBook[c][s][q]
    <3>1. AbstractBook'[c][s][q] =
            IF chain'[c][s][q] = NoRow THEN NoRow ELSE chain'[c][s][q].record
      BY DEF AbstractBook
    <3>2. CASE IsPlace(r, c, s, q)
      BY <3>1, <3>2, PostBooks DEF IsPlace, Booked
    <3>3. CASE ~IsPlace(r, c, s, q)
      <4>1. chain'[c][s][q] = chain[c][s][q]
        BY <3>3, RowsKept
      <4> QED
        BY <3>1, <3>3, <4>1 DEF AbstractBook
    <3> QED
      BY <3>2, <3>3
  <2>2. AbstractBook' = BookByPlace(r.cell, r.session, r.first, r)
    BY <2>1 DEF AbstractBook, BookByPlace, IsPlace
  <2>3. AbstractBook' = BookUpdated(r.cell, r.session, r.first, r)
    BY <1>0, <2>2, PlaceReplaced
  <2> QED
    BY <2>3 DEF BookUpdated
<1>5. /\ balance' = Book!AfterRecord(balance, r)
      /\ UNCHANGED <<operations, openLots>>
      /\ r.body = "paper" => Book!Foldable(balance, r)
    BY <1>1 DEF Post, RowsPosted, AfterRecord, Book!AfterRecord, Moved, Book!Moved,
                Foldable, Book!Foldable
<1> QED
    BY <1>1, <1>2, <1>3, <1>4, <1>5 DEF Book!BookRecord, AbstractBook

LEMMA BookedIsBookOperation ==
    ASSUME NEW p \in Partitions, NEW o \in Nat, NEW i \in Operations,
           StoreInv, BookOperation(p, o, i)
    PROVE  Book!BookOperation(i)
<1>1. i.lot = NoLot \/ i.lot \notin openLots
    BY DEF BookOperation, Bookable
<1>2. i.lot \notin openLots
    BY <1>1, ItemsAssumption DEF StoreInv, StoreTypeOK
<1>3. UNCHANGED chain
    BY DEF BookOperation
<1> QED
    BY <1>2, <1>3 DEF BookOperation, Bookable, Book!BookOperation, Moved, Book!Moved,
                      Foldable, Book!Foldable

LEMMA BookStep == DaemonInv /\ [Next]_vars => [Book!BookNext]_(Book!bookVars)
<1> SUFFICES ASSUME DaemonInv, [Next]_vars PROVE [Book!BookNext]_(Book!bookVars)
    OBVIOUS
<1>1. StoreStep \/ UNCHANGED storeVars
    BY StepsOfTheStore DEF DaemonInv
<1>2. ASSUME NEW p \in Partitions, NEW o \in Nat, NEW r \in Records, Post(p, o, r)
      PROVE  Book!BookNext
    BY <1>2, PostIsBookRecord DEF DaemonInv, Book!BookNext
<1>3. ASSUME NEW p \in Partitions, NEW o \in Nat, NEW i \in Operations, BookOperation(p, o, i)
      PROVE  Book!BookNext
    BY <1>3, BookedIsBookOperation DEF DaemonInv, Book!BookNext
<1>4. CASE UNCHANGED rows
    BY <1>4 DEF rows, Book!bookVars
<1> QED
    BY <1>1, <1>2, <1>3, <1>4, RowsMoveTwoWays

\* Offsets, parks, re-reads, crashes and lost answers never show: the daemon
\* is the abstract ledger.
THEOREM DaemonImplementsBook == Spec => ImplementsBook
    BY BookStart, BookStep, DaemonInvHolds, PTL DEF Spec, ImplementsBook, Book!BookSpec
============================================================================
