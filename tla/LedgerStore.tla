---------------------------- MODULE LedgerStore ----------------------------
(***************************************************************************)
(* The durable rows of qip-ledgerd and the one decision it takes on every  *)
(* P1 delivery (apps/qip-ledgerd/src/store.rs).  LedgerStore::apply runs   *)
(* under the writer mutex and hands the backend ONE batch, so each of its  *)
(* outcomes is one atomic step here.  Journal notes, metrics and           *)
(* watermarks are written but never read by a decision and are left out.   *)
(***************************************************************************)
EXTENDS LedgerEvents

CONSTANTS
    NoTail, NoPark, NoLast, NoSession \* absent rows and fields

ParkReasons == {"gap", "refused_fill", "integrity", "live_fill"}
TailType == [session: Sessions, sequence: Sequences, digest: Digests]
RowType == [last: Sequences, digest: Digests, offset: Nat, record: Records]
ParkType == [partition: Partitions, reason: ParkReasons, offset: Nat,
             awaiting: Sessions \cup {NoSession}]
CursorType == [next: Nat, last: [offset: Nat, item: Items] \cup {NoLast}]

ASSUME SentinelAssumption ==
    /\ NoTail \notin TailType /\ NoRow \notin RowType /\ NoPark \notin ParkType
    /\ NoLast \notin [offset: Nat, item: Items]
    /\ NoSession \notin Sessions

VARIABLES
    tail,       \* tail[c]: the last sequence applied to c's chain
    chain,      \* chain[c][s][q]: the record applied at (c, s, first = q)
    park,       \* park[c]: why and from where c is parked
    cursor,     \* cursor[p]: resume offset and last delivery of p
    balance,    \* balance[a]: debits minus credits
    operations, \* operations[i]: the operation booked under id i
    openLots    \* tax lots already opened

rows == <<tail, chain, balance, operations, openLots>>
storeVars == <<tail, chain, park, cursor, balance, operations, openLots>>

StoreInit ==
    /\ tail = [c \in Cells |-> NoTail]
    /\ chain = [c \in Cells |-> [s \in Sessions |-> [q \in Sequences |-> NoRow]]]
    /\ park = [c \in Cells |-> NoPark]
    /\ cursor = [p \in Partitions |-> [next |-> 0, last |-> NoLast]]
    /\ balance = [a \in Accounts |-> 0]
    /\ operations = [i \in OpIds |-> NoRow]
    /\ openLots = {}

StoreTypeOK ==
    /\ tail \in [Cells -> TailType \cup {NoTail}]
    /\ chain \in [Cells -> [Sessions -> [Sequences -> RowType \cup {NoRow}]]]
    /\ park \in [Cells -> ParkType \cup {NoPark}]
    /\ cursor \in [Partitions -> CursorType]
    /\ balance \in [Accounts -> Int]
    /\ operations \in [OpIds -> Operations \cup {NoRow}]
    /\ openLots \subseteq Lots
----------------------------------------------------------------------------
(* Where the next record of r's session must start, and on what.           *)

FreshSession(r) ==
    \/ tail[r.cell] = NoTail
    \/ r.session > tail[r.cell].session

NextSequence(r) == IF FreshSession(r) THEN 0 ELSE tail[r.cell].sequence + 1
PreviousDigest(r) == IF FreshSession(r) THEN Genesis ELSE tail[r.cell].digest

Backwards(r) == r.first > r.last

TailIsFull(r) ==
    /\ ~FreshSession(r)
    /\ r.session = tail[r.cell].session
    /\ tail[r.cell].sequence = MaxSequence

\* Mutant: the session check dropped, only the sequence is compared.
BehindBySequence(r) == r.first < NextSequence(r)

Behind(r) ==
    \/ ~FreshSession(r) /\ r.session < tail[r.cell].session
    \/ r.first < NextSequence(r)

\* Mutant: one missing sequence is not seen.
AheadByTwo(r) == r.first > NextSequence(r) + 1

Ahead(r) == r.first > NextSequence(r)

\* Mutant: the previous hash is not compared.
ChainsOntoAnything(r) == TRUE

\* An outcome sealed on anything else breaks the chain; a span is custody
\* and proves nothing about what it covers.
ChainsOnto(r) == r.body = "span" \/ r.prev = PreviousDigest(r)

\* The park a cell is under, as apply reads it before deciding.
Parked(c) == park[c] # NoPark
HoldsUntilRelease(c) == Parked(c) /\ park[c].reason # "gap"

\* Mutant: a gap lets any record that is next through, of any session.
HeldByReasonOnly(r) == HoldsUntilRelease(r.cell)

HeldByPark(r) ==
    /\ Parked(r.cell)
    /\ HoldsUntilRelease(r.cell) \/ park[r.cell].awaiting # r.session

\* The row already applied at r's position, and whether it is the same record.
HeldRow(r) == chain[r.cell][r.session][r.first]
SameEntry(r) ==
    /\ HeldRow(r) # NoRow
    /\ HeldRow(r).last = r.last
    /\ HeldRow(r).digest = r.digest

\* The broker has said two things about one offset.
CursorRehashed(p, o, i) ==
    /\ cursor[p].last # NoLast
    /\ cursor[p].last.offset = o
    /\ cursor[p].last.item # i
RowRehashed(o, r) == HeldRow(r).offset = o /\ HeldRow(r).record # r
----------------------------------------------------------------------------
(* LedgerStore::apply: the outcome of one delivery, in the order the code  *)
(* checks.  A park reason, "duplicate", "hold" or "post".                  *)

JudgeBehind(o, r) ==
    IF SameEntry(r) /\ ~RowRehashed(o, r) THEN "duplicate" ELSE "integrity"

JudgeAhead(r) == IF Parked(r.cell) THEN "hold" ELSE "gap"

JudgeNext(r) ==
    IF HeldByPark(r) THEN "hold"
    ELSE IF ~ChainsOnto(r) THEN "integrity"
    ELSE IF r.body = "unpostable" THEN "refused_fill"
    ELSE IF r.body = "paper" /\ ~Foldable(balance, r) THEN "refused_fill"
    ELSE "post"

\* Mutant: the paper fence is left out and a live fill judged like any other.
JudgeNoFence(p, o, r) ==
    IF CursorRehashed(p, o, r) \/ Backwards(r) \/ TailIsFull(r) THEN "integrity"
    ELSE IF Behind(r) THEN JudgeBehind(o, r)
    ELSE IF Ahead(r) THEN JudgeAhead(r)
    ELSE JudgeNext(r)

Judge(p, o, r) ==
    IF CursorRehashed(p, o, r) THEN "integrity"
    ELSE IF r.body = "live" THEN "live_fill"
    ELSE IF Backwards(r) \/ TailIsFull(r) THEN "integrity"
    ELSE IF Behind(r) THEN JudgeBehind(o, r)
    ELSE IF Ahead(r) THEN JudgeAhead(r)
    ELSE JudgeNext(r)
----------------------------------------------------------------------------
(* The batches.                                                            *)

Larger(m, n) == IF m >= n THEN m ELSE n
Smaller(m, n) == IF m <= n THEN m ELSE n

Severity(reason) ==
    CASE reason = "gap" -> 0 [] reason = "refused_fill" -> 1
      [] reason = "integrity" -> 2 [] reason = "live_fill" -> 3

\* Mutant: the first park's reason is kept whatever comes after it.
EarlierReason(x, y) == x
MoreSevere(x, y) == IF Severity(x) >= Severity(y) THEN x ELSE y

\* advance: next never moves backwards on a delivery.
Advanced(p, o, i) ==
    [next |-> Larger(cursor[p].next, o + 1), last |-> [offset |-> o, item |-> i]]

\* A park on a parked cell keeps the more severe reason, the earlier offset
\* and the session the first park waits for.
ParkAs(p, o, r, reason) ==
    IF Parked(r.cell)
    THEN [park[r.cell] EXCEPT !.reason = MoreSevere(@, reason),
                              !.offset = Smaller(@, o)]
    ELSE [partition |-> p, reason |-> reason, offset |-> o,
          awaiting |-> IF reason = "gap" THEN r.session ELSE NoSession]

\* duplicate_or_conflict and hold: only the cursor moves.
Skip(p, o, r) ==
    /\ Judge(p, o, r) \in {"duplicate", "hold"}
    /\ cursor' = [cursor EXCEPT ![p] = Advanced(p, o, r)]
    /\ UNCHANGED <<rows, park>>

\* park_cell and park_cell_awaiting.
Park(p, o, r) ==
    /\ Judge(p, o, r) \in ParkReasons
    /\ park' = [park EXCEPT ![r.cell] = ParkAs(p, o, r, Judge(p, o, r))]
    /\ cursor' = [cursor EXCEPT ![p] = Advanced(p, o, r)]
    /\ UNCHANGED rows

\* Where the partition resumes after posting: a filled gap takes it back to
\* the offset that parked the cell.
FillsGap(r) == Parked(r.cell)

\* Mutant: the gap is filled and the resume offset is not moved back.
ResumeHere(p, o, r) == Advanced(p, o, r)

ResumeAfterPost(p, o, r) ==
    IF FillsGap(r)
    THEN [Advanced(p, o, r) EXCEPT !.next = Smaller(@, park[r.cell].offset)]
    ELSE Advanced(p, o, r)

\* Mutant: a record posted with its balances left for a second batch.
RowsPostedWithoutBalance(o, r) ==
    /\ chain' = [chain EXCEPT ![r.cell][r.session][r.first] =
          [last |-> r.last, digest |-> r.digest, offset |-> o, record |-> r]]
    /\ tail' = [tail EXCEPT ![r.cell] =
          [session |-> r.session, sequence |-> r.last, digest |-> r.digest]]
    /\ UNCHANGED <<balance, operations, openLots>>

RowsPosted(o, r) ==
    /\ chain' = [chain EXCEPT ![r.cell][r.session][r.first] =
          [last |-> r.last, digest |-> r.digest, offset |-> o, record |-> r]]
    /\ tail' = [tail EXCEPT ![r.cell] =
          [session |-> r.session, sequence |-> r.last, digest |-> r.digest]]
    /\ balance' = AfterRecord(balance, r)
    /\ UNCHANGED <<operations, openLots>>

\* Posted, Advanced or ReReadFrom: rows, tail, park and cursor in one batch.
Post(p, o, r) ==
    /\ Judge(p, o, r) = "post"
    /\ RowsPosted(o, r)
    /\ park' = [park EXCEPT ![r.cell] = NoPark]
    /\ cursor' = [cursor EXCEPT ![p] = ResumeAfterPost(p, o, r)]

Apply(p, o, r) == Skip(p, o, r) \/ Park(p, o, r) \/ Post(p, o, r)

\* Mutant: every delivery of a parked cell asks for the re-read.
ReReadsWhileParked(p, o, r) == FillsGap(r)

\* Disposition::ReReadFrom, and the offset the consumer goes on from.
ReReads(p, o, r) == Judge(p, o, r) = "post" /\ FillsGap(r)
NextPosition(p, o, r) == IF ReReads(p, o, r) THEN park[r.cell].offset ELSE o + 1
----------------------------------------------------------------------------
(* LedgerStore::apply_operation: planned under the same lock, booked or    *)
(* refused with the cursor in the same batch.                              *)

\* Mutant: no look-up by operation id.
BookableUnchecked(i) ==
    /\ Foldable(balance, i)

Bookable(i) ==
    /\ operations[i.op] = NoRow
    /\ i.lot = NoLot \/ i.lot \notin openLots
    /\ Foldable(balance, i)

BookOperation(p, o, i) ==
    /\ ~CursorRehashed(p, o, i)
    /\ Bookable(i)
    /\ operations' = [operations EXCEPT ![i.op] = i]
    /\ openLots' = openLots \cup ({i.lot} \ {NoLot})
    /\ balance' = Moved(balance, i)
    /\ cursor' = [cursor EXCEPT ![p] = Advanced(p, o, i)]
    /\ UNCHANGED <<tail, chain, park>>

\* A duplicate, a conflict, an overdraw or a rehashed offset: cursor only.
PassOperation(p, o, i) ==
    /\ CursorRehashed(p, o, i) \/ ~Bookable(i)
    /\ cursor' = [cursor EXCEPT ![p] = Advanced(p, o, i)]
    /\ UNCHANGED <<rows, park>>

ApplyOperation(p, o, i) == BookOperation(p, o, i) \/ PassOperation(p, o, i)
----------------------------------------------------------------------------
(* LedgerStore::release: an operator ends a park that is not a gap.        *)

Release(c) ==
    /\ HoldsUntilRelease(c)
    /\ park' = [park EXCEPT ![c] = NoPark]
    /\ cursor' = [cursor EXCEPT ![park[c].partition].next = Smaller(@, park[c].offset)]
    /\ UNCHANGED rows
----------------------------------------------------------------------------
(* Properties of the rows.                                                 *)

Booked(c, s, q) == chain[c][s][q] # NoRow

\* Every record applied sits on the journal it claims: it starts a session on
\* Genesis or follows, with no sequence missing or covered twice, a record
\* already applied, and an outcome was sealed on that record's digest.
ChainsAreContiguous ==
    \A c \in Cells, s \in Sessions, q \in Sequences :
        Booked(c, s, q) =>
            \/ q = 0 /\ (chain[c][s][q].record.body = "span"
                         \/ chain[c][s][q].record.prev = Genesis)
            \/ \E q0 \in 0..(q - 1) :
                 /\ Booked(c, s, q0)
                 /\ chain[c][s][q0].last = q - 1
                 /\ \/ chain[c][s][q].record.body = "span"
                    \/ chain[c][s][q].record.prev = chain[c][s][q0].digest

\* No sequence of a session is booked by two records: a re-framed span never
\* overlaps an outcome already applied.
NoSequenceBookedTwice ==
    \A c \in Cells, s \in Sessions, q1, q2 \in Sequences :
        Booked(c, s, q1) /\ Booked(c, s, q2) /\ q1 < q2 => chain[c][s][q1].last < q2

\* The fourth paper fence: no live fill is ever part of the ledger's history.
NoLiveFillBooked ==
    \A c \in Cells, s \in Sessions, q \in Sequences :
        Booked(c, s, q) => chain[c][s][q].record.body \notin {"live", "unpostable"}

\* A custody, reserved, margin, lot... account never holds less than nothing.
QuantitiesNeverNegative == \A a \in QuantityAccounts : balance[a] >= 0

\* The chain tail is the end of the newest session's last record.
TailEnds(c) ==
    /\ tail[c] = NoTail => \A s \in Sessions, q \in Sequences : ~Booked(c, s, q)
    /\ tail[c] # NoTail =>
         /\ \A s \in Sessions, q \in Sequences :
              Booked(c, s, q) =>
                 \/ s < tail[c].session
                 \/ s = tail[c].session /\ chain[c][s][q].last <= tail[c].sequence
         /\ \E q \in Sequences :
              /\ Booked(c, tail[c].session, q)
              /\ chain[c][tail[c].session][q].last = tail[c].sequence
              /\ chain[c][tail[c].session][q].digest = tail[c].digest

TailEndsTheChain == \A c \in Cells : TailEnds(c)
=============================================================================
