---------------------------- MODULE EdgeCell_proofs ----------------------------
(***************************************************************************)
(* The cell's safety invariants, for any strategies, cycles, grants and    *)
(* number of orders.                                                       *)
(***************************************************************************)
EXTENDS EdgeCell, Sums_proofs

\* The share came with no payload later than the highest, and the payload it
\* came with, wherever it still is, names the manifest kept for it.
CameWith(p) ==
    /\ p.sequence <= highest
    /\ p.names # Unproduced /\ p.sequence = region.share /\ region.share # NoShare
         => p.names = warrant
ShareIsWarranted ==
    WithinWarrant /\ region.share <= highest /\ CameWith(policy) /\ CameWith(previous)

CapitalBalances ==
    region.committed =
        spent + Capital(DOMAIN orders) + SumOver([c \in Cycles |-> suspended[c].committed], Cycles)

\* A net's order has its capital until it ends with nothing filled; the leg a
\* cycle waits for is that cycle's alone.
OrderIsPriced(o) ==
    /\ o.by \subseteq Strategies => (o.capital > 0 <=> ~(o.closed /\ o.at = 0))
    /\ o.rests => \E c \in Cycles : o.by = {c}
OrdersArePriced == \A o \in DOMAIN orders : OrderIsPriced(orders[o])

\* A pass knows every hold it took; one that ended in an error does not.
HoldsAreKnown ==
    /\ \A i \in intents : region.holds[i] > 0
    /\ phase # "abandoned" => \A i \in Ids \ intents : region.holds[i] = 0
    /\ phase \in {"between", "abandoned"} => intents = {}
    /\ phase = "asking" => intents \subseteq asked

CellInvariant ==
    /\ TypeOK /\ WithinCeiling /\ ShareIsWarranted /\ CapitalBalances
    /\ OrdersArePriced /\ HoldsAreKnown /\ RestedLegIsKept

(***************************************************************************)
(* The region table: what each of its operations moves, and what it keeps. *)
(***************************************************************************)
SameWorth(r, r2) ==
    /\ r2 \in RegionType /\ r2.bound = r.bound /\ r2.share = r.share
    /\ r2.free + SpokenFor(r2) = r.free + SpokenFor(r)

LEMMA HeldType ==
    ASSUME NEW r \in RegionType, NEW is \in SUBSET Ids
    PROVE  /\ IsFiniteSet(is) /\ Held(r) \in Nat /\ HeldBy(r, is) \in Nat /\ SpokenFor(r) \in Nat
           /\ r.free \in Nat /\ r.committed \in Nat /\ r.bound \in Nat /\ r.share \in Nat
           /\ r.holds \in [Ids -> Nat] /\ HeldBy(r, is) <= Held(r)
<1>1. r.free \in Nat /\ r.committed \in Nat /\ r.bound \in Nat /\ r.share \in Nat
      /\ r.holds \in [Ids -> Nat]
  BY DEF RegionType
<1>2. IsFiniteSet(Ids) /\ IsFiniteSet(is) /\ \A i \in Ids : r.holds[i] \in Nat
  BY <1>1, RegionAssumption, FS_Subset
<1>3. Held(r) \in Nat /\ HeldBy(r, is) \in Nat
  BY <1>2, SumIsNat DEF Held, HeldBy
<1>4. HeldBy(r, is) <= Held(r)
  BY <1>2, SumOfPartIsLess DEF Held, HeldBy
<1> QED BY <1>1, <1>2, <1>3, <1>4 DEF SpokenFor

LEMMA HeldByOne ==
    ASSUME NEW r \in RegionType, NEW i \in Ids
    PROVE  HeldBy(r, {i}) = r.holds[i] /\ r.holds[i] \in Nat
<1> DEFINE h == r.holds
<1>1. h[i] \in Nat
  BY DEF RegionType
<1> HIDE DEF h
<1>2. SumOver(h, {i}) = h[i] + SumOver(h, {i} \ {i})
  <2>1. IsFiniteSet({i})
    BY FS_Singleton
  <2>2. \A j \in {i} : h[j] \in Int
    BY <1>1
  <2> QED BY <2>1, <2>2, SumTake
<1>3. SumOver(h, {i} \ {i}) = 0
  <2>1. {i} \ {i} = {}
    OBVIOUS
  <2> QED BY <2>1, SumEmpty
<1>4. SumOver(h, {i}) = h[i]
  BY <1>1, <1>2, <1>3
<1>5. HeldBy(r, {i}) = SumOver(h, {i})
  BY DEF HeldBy, h
<1> QED BY <1>1, <1>4, <1>5 DEF h

LEMMA WithoutMoves ==
    ASSUME NEW r \in RegionType, NEW is \in SUBSET Ids
    PROVE  /\ Without(r, is) \in RegionType
           /\ Without(r, is) = [r EXCEPT !.holds = [i \in Ids |-> IF i \in is THEN 0 ELSE r.holds[i]]]
           /\ Held(Without(r, is)) = Held(r) - HeldBy(r, is)
<1> DEFINE h == r.holds
           k == [i \in Ids |-> IF i \in is THEN 0 ELSE h[i]]
<1>1. h \in [Ids -> Nat] /\ k \in [Ids -> Nat] /\ IsFiniteSet(is) /\ IsFiniteSet(Ids \ is)
  BY RegionAssumption, FS_Subset DEF RegionType
<1>2. Without(r, is) = [r EXCEPT !.holds = k]
  BY DEF Without
<1>3. Without(r, is) \in RegionType /\ Without(r, is).holds = k
  BY <1>1, <1>2 DEF RegionType
<1>4. \A i \in is : k[i] = 0
  OBVIOUS
<1>5. \A i \in Ids \ is : k[i] = h[i] /\ k[i] \in Int
  BY <1>1
<1>6. \A i \in Ids : h[i] \in Int /\ k[i] \in Int
  BY <1>1
<1> HIDE DEF h, k
<1>7. SumOver(k, is) = 0
  BY <1>1, <1>4, SumOfZeros
<1>8. SumOver(k, Ids \ is) = SumOver(h, Ids \ is)
  BY <1>1, <1>5, SumsAgree
<1>9. SumOver(k, Ids) = SumOver(k, is) + SumOver(k, Ids \ is)
  BY <1>6, RegionAssumption, SumOfPart
<1>10. SumOver(h, Ids) = SumOver(h, is) + SumOver(h, Ids \ is)
  BY <1>6, RegionAssumption, SumOfPart
<1>11. SumOver(h, is) \in Int /\ SumOver(h, Ids \ is) \in Int
  BY <1>1, <1>6, SumIsInt
<1>12. SumOver(k, Ids) = SumOver(h, Ids) - SumOver(h, is)
  BY <1>7, <1>8, <1>9, <1>10, <1>11
<1> QED BY <1>2, <1>3, <1>12 DEF Held, HeldBy, h, k

LEMMA ReleasedMoves ==
    ASSUME NEW r \in RegionType, NEW is \in SUBSET Ids
    PROVE  /\ SameWorth(r, Released(r, is)) /\ Released(r, is).committed = r.committed
           /\ Released(r, is).holds = [i \in Ids |-> IF i \in is THEN 0 ELSE r.holds[i]]
<1> DEFINE w == Without(r, is)
           q == Released(r, is)
           moved == w.free + HeldBy(r, is)
<1>1. w \in RegionType /\ Held(w) = Held(r) - HeldBy(r, is)
  BY WithoutMoves
<1>2. HeldBy(r, is) \in Nat /\ Held(r) \in Nat /\ HeldBy(r, is) <= Held(r)
  BY HeldType
<1>3. q = [w EXCEPT !.free = moved]
  BY DEF Released
<1> HIDE DEF w, q
<1>8. moved \in Nat
  BY <1>1, <1>2 DEF RegionType
<1> HIDE DEF moved
<1>4. q \in RegionType /\ q.holds = w.holds /\ q.free = moved
      /\ q.committed = w.committed /\ q.bound = w.bound /\ q.share = w.share
  BY <1>1, <1>3, <1>8 DEF RegionType
<1>5. w.free = r.free /\ w.committed = r.committed /\ w.bound = r.bound /\ w.share = r.share
      /\ w.holds = [i \in Ids |-> IF i \in is THEN 0 ELSE r.holds[i]] /\ r.free \in Nat
      /\ r.committed \in Nat
  BY WithoutMoves DEF RegionType, w
<1>6. Held(q) = Held(w)
  BY <1>4 DEF Held
<1>7. q.free + (Held(q) + q.committed) = r.free + (Held(r) + r.committed)
  BY <1>1, <1>2, <1>4, <1>5, <1>6 DEF moved
<1> QED BY <1>4, <1>5, <1>7 DEF SameWorth, SpokenFor, q, moved

LEMMA CommittedMoves ==
    ASSUME NEW r \in RegionType, NEW is \in SUBSET Ids
    PROVE  /\ SameWorth(r, Committed(r, is))
           /\ Committed(r, is).committed = r.committed + HeldBy(r, is)
           /\ Committed(r, is).holds = [i \in Ids |-> IF i \in is THEN 0 ELSE r.holds[i]]
<1> DEFINE w == Without(r, is)
           q == Committed(r, is)
           moved == w.committed + HeldBy(r, is)
<1>1. w \in RegionType /\ Held(w) = Held(r) - HeldBy(r, is)
  BY WithoutMoves
<1>2. HeldBy(r, is) \in Nat /\ Held(r) \in Nat /\ HeldBy(r, is) <= Held(r)
  BY HeldType
<1>3. q = [w EXCEPT !.committed = moved]
  BY DEF Committed
<1> HIDE DEF w, q
<1>8. moved \in Nat
  BY <1>1, <1>2 DEF RegionType
<1> HIDE DEF moved
<1>4. q \in RegionType /\ q.holds = w.holds /\ q.free = w.free
      /\ q.committed = moved /\ q.bound = w.bound /\ q.share = w.share
  BY <1>1, <1>3, <1>8 DEF RegionType
<1>5. w.free = r.free /\ w.committed = r.committed /\ w.bound = r.bound /\ w.share = r.share
      /\ w.holds = [i \in Ids |-> IF i \in is THEN 0 ELSE r.holds[i]] /\ r.free \in Nat
      /\ r.committed \in Nat
  BY WithoutMoves DEF RegionType, w
<1>6. Held(q) = Held(w)
  BY <1>4 DEF Held
<1>7. q.free + (Held(q) + q.committed) = r.free + (Held(r) + r.committed)
  BY <1>1, <1>2, <1>4, <1>5, <1>6 DEF moved
<1> QED BY <1>4, <1>5, <1>7 DEF SameWorth, SpokenFor, q, moved

LEMMA ReservedMoves ==
    ASSUME NEW r \in RegionType, NEW i \in Ids, NEW amount \in Nat, MayReserve(r, i, amount)
    PROVE  /\ SameWorth(r, Reserved(r, i, amount)) /\ Reserved(r, i, amount).committed = r.committed
           /\ Reserved(r, i, amount).holds = [r.holds EXCEPT ![i] = amount]
<1> DEFINE q == Reserved(r, i, amount)
           left == r.free - amount
           held == [r.holds EXCEPT ![i] = amount]
<1>1. r.holds \in [Ids -> Nat] /\ r.free \in Nat /\ r.committed \in Nat
      /\ amount <= r.free /\ r.holds[i] = 0
  BY DEF RegionType, MayReserve
<1>2. q = [r EXCEPT !.holds = held, !.free = left]
  BY DEF Reserved
<1>8. left \in Nat /\ held \in [Ids -> Nat]
  BY <1>1
<1> HIDE DEF q, left, held
<1>3. q \in RegionType /\ q.holds = held /\ q.free = left
      /\ q.committed = r.committed /\ q.bound = r.bound /\ q.share = r.share
  BY <1>2, <1>8 DEF RegionType
<1>4. SumOver(q.holds, Ids) = SumOver(r.holds, Ids) - r.holds[i] + q.holds[i]
  BY <1>1, <1>3, RegionAssumption, SumUpdate DEF held
<1>5. Held(r) \in Nat
  BY HeldType
<1>6. Held(q) = Held(r) + amount
  BY <1>1, <1>3, <1>4, <1>5 DEF Held, held
<1>7. q.free + (Held(q) + q.committed) = r.free + (Held(r) + r.committed)
  BY <1>1, <1>3, <1>5, <1>6 DEF left
<1> QED BY <1>3, <1>7 DEF SameWorth, SpokenFor, q, held

LEMMA ReturnedMoves ==
    ASSUME NEW r \in RegionType, NEW amount \in Nat
    PROVE  /\ SameWorth(r, Returned(r, amount)) /\ Returned(r, amount).holds = r.holds
           /\ amount <= r.committed => Returned(r, amount).committed = r.committed - amount
<1> DEFINE q == Returned(r, amount)
           rest == r.committed - amount
           free == r.free + amount
<1>0. r.free \in Nat /\ r.committed \in Nat /\ Held(r) \in Nat
  BY HeldType
<1>1. CASE amount > 0 /\ amount <= r.committed
  <2>1. q = [r EXCEPT !.committed = rest, !.free = free]
    BY <1>1 DEF Returned
  <2>5. rest \in Nat /\ free \in Nat
    BY <1>0, <1>1
  <2> HIDE DEF q, rest, free
  <2>2. q \in RegionType /\ q.holds = r.holds /\ q.bound = r.bound /\ q.share = r.share
        /\ q.free = free /\ q.committed = rest
    BY <2>1, <2>5 DEF RegionType
  <2>3. Held(q) = Held(r)
    BY <2>2 DEF Held
  <2>4. q.free + (Held(q) + q.committed) = r.free + (Held(r) + r.committed)
    BY <1>0, <2>2, <2>3 DEF rest, free
  <2> QED BY <2>2, <2>4 DEF SameWorth, SpokenFor, q, rest
<1>2. CASE ~(amount > 0 /\ amount <= r.committed)
  <2>1. q = r
    BY <1>2 DEF Returned
  <2> QED BY <1>0, <1>2, <2>1 DEF SameWorth
<1> QED BY <1>1, <1>2

LEMMA MinOfTwo ==
    ASSUME NEW a \in Nat, NEW b \in Nat
    PROVE  Min({a, b}) \in Nat /\ Min({a, b}) <= a /\ Min({a, b}) <= b
<1>1. \E x \in {a, b} : \A y \in {a, b} : x <= y
  OBVIOUS
<1> QED BY <1>1 DEF Min

LEMMA ReboundMoves ==
    ASSUME NEW r \in RegionType, NEW share \in Nat, NEW sequence \in Nat,
           r.free + SpokenFor(r) <= Ceiling
    PROVE  LET q == Rebound(r, share, sequence)
           IN  /\ q \in RegionType /\ q.holds = r.holds /\ q.committed = r.committed
               /\ q.bound <= share /\ q.share = sequence /\ q.free + SpokenFor(q) <= Ceiling
<1> DEFINE q == Rebound(r, share, sequence)
           bound == Min({share, Ceiling})
           free == IF SpokenFor(r) > bound THEN 0 ELSE bound - SpokenFor(r)
<1>1. bound \in Nat /\ bound <= share /\ bound <= Ceiling
  BY MinOfTwo, RegionAssumption
<1>2. r.free \in Nat /\ r.committed \in Nat /\ SpokenFor(r) \in Nat
  BY HeldType
<1>3. q = [r EXCEPT !.bound = bound, !.share = sequence, !.free = free]
  BY DEF Rebound
<1> HIDE DEF q, bound
<1>7. free \in Nat
  BY <1>1, <1>2
<1> HIDE DEF free
<1>4. q \in RegionType /\ q.holds = r.holds /\ q.committed = r.committed /\ q.bound = bound
      /\ q.share = sequence /\ q.free = free
  BY <1>1, <1>3, <1>7 DEF RegionType
<1>5. SpokenFor(q) = SpokenFor(r)
  BY <1>4 DEF SpokenFor, Held
<1>6. q.free + SpokenFor(q) <= Ceiling
  BY <1>1, <1>2, <1>4, <1>5, RegionAssumption DEF free
<1> QED BY <1>1, <1>4, <1>6 DEF q

(***************************************************************************)
(* Books of orders, as values: what the orders in one are worth, and what  *)
(* each change to a book keeps.                                            *)
(***************************************************************************)
IsBook(b) == DOMAIN b \subseteq Slots /\ b \in [DOMAIN b -> Order]
IsPricedBook(b) == IsBook(b) /\ \A o \in DOMAIN b : OrderIsPriced(b[o])
Worth(b) == SumOver([o \in DOMAIN b |-> b[o].capital], DOMAIN b)
RestingIn(b, c) == {o \in DOMAIN b : b[o].rests /\ c \in b[o].by}

LEMMA BookTypes ==
    ASSUME NEW b, IsBook(b)
    PROVE  /\ IsFiniteSet(DOMAIN b) /\ Worth(b) \in Nat
           /\ \A o \in DOMAIN b : /\ b[o] \in Order /\ b[o].capital \in Nat
                                  /\ [p \in DOMAIN b |-> b[p].capital][o] = b[o].capital
<1>1. IsFiniteSet(DOMAIN b)
  BY CellAssumption, FS_Subset DEF IsBook
<1>2. \A o \in DOMAIN b : b[o] \in Order /\ b[o].capital \in Nat
  BY DEF IsBook, Order
<1>3. \A o \in DOMAIN b : [p \in DOMAIN b |-> b[p].capital][o] = b[o].capital
  OBVIOUS
<1>4. Worth(b) \in Nat
  <2> DEFINE h == [p \in DOMAIN b |-> b[p].capital]
  <2>1. \A o \in DOMAIN b : h[o] \in Nat
    BY <1>2
  <2> HIDE DEF h
  <2>2. SumOver(h, DOMAIN b) \in Nat
    BY <1>1, <2>1, SumIsNat
  <2> QED BY <2>2 DEF Worth, h
<1> QED BY <1>1, <1>2, <1>3, <1>4

\* Books whose orders have the same capital are worth the same.
LEMMA WorthAgrees ==
    ASSUME NEW b, IsBook(b), NEW b2, DOMAIN b2 = DOMAIN b,
           \A o \in DOMAIN b : b2[o].capital = b[o].capital
    PROVE  Worth(b2) = Worth(b)
<1> DEFINE h == [o \in DOMAIN b |-> b[o].capital]
           k == [o \in DOMAIN b2 |-> b2[o].capital]
<1>1. IsFiniteSet(DOMAIN b) /\ \A o \in DOMAIN b : h[o] \in Int /\ h[o] = k[o]
  BY BookTypes
<1> HIDE DEF h, k
<1>2. SumOver(h, DOMAIN b) = SumOver(k, DOMAIN b)
  BY <1>1, SumsAgree
<1> QED BY <1>2 DEF Worth, h, k

LEMMA BesideMoves ==
    ASSUME NEW b, IsPricedBook(b), NEW b2, IsPricedBook(b2), DOMAIN b \cap DOMAIN b2 = {}
    PROVE  /\ IsPricedBook(Beside(b, b2)) /\ Worth(Beside(b, b2)) = Worth(b) + Worth(b2)
           /\ \A c : RestingIn(b, c) \cup RestingIn(b2, c) \subseteq RestingIn(Beside(b, b2), c)
<1> DEFINE q == Beside(b, b2)
<1>1. /\ DOMAIN q = DOMAIN b \cup DOMAIN b2
      /\ \A o \in DOMAIN b : o \in DOMAIN q /\ q[o] = b[o]
      /\ \A o \in DOMAIN b2 : o \in DOMAIN q /\ q[o] = b2[o]
      /\ q = [o \in DOMAIN q |-> q[o]]
  BY DEF Beside
<1> HIDE DEF q
<1>2. IsBook(q)
  BY <1>1 DEF IsPricedBook, IsBook
<1>3. IsPricedBook(q)
  BY <1>1, <1>2 DEF IsPricedBook
<1>4. \A c : RestingIn(b, c) \cup RestingIn(b2, c) \subseteq RestingIn(q, c)
  BY <1>1 DEF RestingIn
<1>5. Worth(q) = Worth(b) + Worth(b2)
  <2> DEFINE h == [o \in DOMAIN b |-> b[o].capital]
             k == [o \in DOMAIN b2 |-> b2[o].capital]
             s == [o \in DOMAIN q |-> q[o].capital]
  <2>1. \A o \in DOMAIN b : h[o] \in Int /\ h[o] = s[o]
    BY <1>1, BookTypes DEF IsPricedBook
  <2>2. \A o \in DOMAIN b2 : k[o] \in Int /\ k[o] = s[o]
    BY <1>1, BookTypes DEF IsPricedBook
  <2>3. IsFiniteSet(DOMAIN b) /\ IsFiniteSet(DOMAIN b2)
    BY BookTypes DEF IsPricedBook
  <2> HIDE DEF h, k, s
  <2>4. SumOver(h, DOMAIN b) = SumOver(s, DOMAIN b)
    BY <2>1, <2>3, SumsAgree
  <2>5. SumOver(k, DOMAIN b2) = SumOver(s, DOMAIN b2)
    BY <2>2, <2>3, SumsAgree
  <2>6. \A o \in DOMAIN b \cup DOMAIN b2 : s[o] \in Int
    BY <2>1, <2>2
  <2>7. SumOver(s, DOMAIN b \cup DOMAIN b2) = SumOver(s, DOMAIN b) + SumOver(s, DOMAIN b2)
    BY <2>3, <2>6, SumOfUnion
  <2>8. SumOver(s, DOMAIN q) = SumOver(h, DOMAIN b) + SumOver(k, DOMAIN b2)
    BY <1>1, <2>4, <2>5, <2>7
  <2> QED BY <2>8 DEF Worth, h, k, s
<1> QED BY <1>3, <1>4, <1>5 DEF q

LEMMA ConfirmedMoves ==
    ASSUME NEW b, IsPricedBook(b)
    PROVE  /\ IsPricedBook(Confirmed(b)) /\ Worth(Confirmed(b)) = Worth(b)
           /\ \A c : RestingIn(Confirmed(b), c) = RestingIn(b, c)
<1> DEFINE q == Confirmed(b)
<1>1. DOMAIN q = DOMAIN b /\ q = [o \in DOMAIN b |-> q[o]]
  BY DEF Confirmed
<1>2. ASSUME NEW o \in DOMAIN b
      PROVE  /\ q[o] \in Order /\ q[o].capital = b[o].capital /\ q[o].by = b[o].by
             /\ q[o].rests = b[o].rests /\ q[o].at = b[o].at
             /\ q[o].closed <=> b[o].closed \/ b[o].at = Whole
  <2>1. b[o] \in Order
    BY BookTypes DEF IsPricedBook
  <2>2. q[o] = [b[o] EXCEPT !.filled = b[o].at, !.closed = b[o].closed \/ b[o].at = Whole]
    BY DEF Confirmed
  <2> DEFINE shut == b[o].closed \/ b[o].at = Whole
  <2>3. shut \in BOOLEAN
    BY <2>1 DEF Order
  <2> HIDE DEF q
  <2>4. q[o] = [b[o] EXCEPT !.filled = b[o].at, !.closed = shut]
    BY <2>2
  <2> HIDE DEF shut
  <2>5. /\ q[o] \in Order /\ q[o].capital = b[o].capital /\ q[o].by = b[o].by
        /\ q[o].rests = b[o].rests /\ q[o].at = b[o].at /\ q[o].closed = shut
    BY <2>1, <2>3, <2>4 DEF Order
  <2> QED BY <2>5 DEF shut
<1> HIDE DEF q
<1>3. IsBook(q)
  BY <1>1, <1>2 DEF IsPricedBook, IsBook
<1>4. ASSUME NEW o \in DOMAIN b PROVE OrderIsPriced(q[o])
  <2>1. OrderIsPriced(b[o])
    BY DEF IsPricedBook
  <2>2. (q[o].closed /\ q[o].at = 0) <=> (b[o].closed /\ b[o].at = 0)
    BY <1>2 DEF Whole
  <2> QED BY <1>2, <2>1, <2>2 DEF OrderIsPriced
<1>5. IsPricedBook(q)
  BY <1>1, <1>3, <1>4 DEF IsPricedBook
<1>6. Worth(q) = Worth(b)
  BY <1>1, <1>2, WorthAgrees DEF IsPricedBook
<1>7. \A c : RestingIn(q, c) = RestingIn(b, c)
  BY <1>1, <1>2 DEF RestingIn
<1> QED BY <1>5, <1>6, <1>7 DEF q

\* Orders without capital, of a cycle alone.
LEMMA LegsMove ==
    ASSUME NEW c \in Cycles, NEW ats, DOMAIN ats \subseteq Slots, ats \in [DOMAIN ats -> 0..Whole]
    PROVE  IsPricedBook(Legs(c, ats)) /\ Worth(Legs(c, ats)) = 0 /\ DOMAIN Legs(c, ats) = DOMAIN ats
<1> DEFINE q == Legs(c, ats)
<1>1. DOMAIN q = DOMAIN ats /\ q = [o \in DOMAIN ats |-> q[o]]
  BY DEF Legs
<1>2. ASSUME NEW o \in DOMAIN ats
      PROVE  q[o] \in Order /\ q[o].capital = 0 /\ q[o].by = {c} /\ ~q[o].rests
  <2>1. {c} \in SUBSET Ids
    BY CellAssumption
  <2>2. ats[o] \in 0..Whole /\ 0 \in 0..Whole /\ 0 \in Nat
    BY DEF Whole
  <2>3. q[o] = [by |-> {c}, capital |-> 0, at |-> ats[o], filled |-> 0, closed |-> FALSE, rests |-> FALSE]
    BY DEF Legs, Sent
  <2> HIDE DEF q
  <2> QED BY <2>1, <2>2, <2>3 DEF Order
<1> HIDE DEF q
<1>3. \A o \in DOMAIN q : OrderIsPriced(q[o])
  <2>1. c \notin Strategies /\ ~({c} \subseteq Strategies)
    <3>1. c \in Nat
      BY CellAssumption
    <3>2. c \in Strategies => c < c
      BY CellAssumption
    <3> QED BY <3>1, <3>2
  <2>2. ASSUME NEW o \in DOMAIN q PROVE OrderIsPriced(q[o])
    <3>1. q[o].by = {c} /\ ~q[o].rests
      BY <1>1, <1>2, <2>2
    <3> QED BY <2>1, <3>1 DEF OrderIsPriced
  <2> QED BY <2>2
<1>4. IsBook(q)
  BY <1>1, <1>2 DEF IsBook
<1>5. Worth(q) = 0
  <2> DEFINE h == [o \in DOMAIN q |-> q[o].capital]
  <2>1. IsFiniteSet(DOMAIN q) /\ \A o \in DOMAIN q : h[o] = 0
    BY <1>1, <1>2, <1>4, BookTypes
  <2> HIDE DEF h
  <2>2. SumOver(h, DOMAIN q) = 0
    BY <2>1, SumOfZeros
  <2> QED BY <2>2 DEF Worth, h
<1> QED BY <1>1, <1>3, <1>4, <1>5 DEF IsPricedBook, q

LEMMA OneOrder ==
    ASSUME NEW o \in Slots, NEW x \in Order, OrderIsPriced(x)
    PROVE  LET q == [p \in {o} |-> x]
           IN  /\ IsPricedBook(q) /\ Worth(q) = x.capital /\ DOMAIN q = {o}
               /\ \A c : x.rests /\ c \in x.by => RestingIn(q, c) # {}
<1> DEFINE q == [p \in {o} |-> x]
           h == [p \in DOMAIN q |-> q[p].capital]
<1>1. DOMAIN q = {o} /\ q[o] = x /\ q = [p \in {o} |-> q[p]]
  OBVIOUS
<1> HIDE DEF q
<1>2. IsPricedBook(q)
  BY <1>1 DEF IsPricedBook, IsBook
<1>3. x.capital \in Int /\ h[o] = x.capital
  BY <1>1 DEF Order
<1>4. \A p \in {o} : h[p] \in Int
  BY <1>1, <1>3
<1> HIDE DEF h
<1>5. SumOver(h, {o}) = h[o] + SumOver(h, {o} \ {o})
  BY <1>4, FS_Singleton, SumTake
<1>6. {o} \ {o} = {}
  OBVIOUS
<1>7. SumOver(h, {o}) = h[o]
  BY <1>3, <1>5, <1>6, SumEmpty
<1>8. \A c : x.rests /\ c \in x.by => RestingIn(q, c) # {}
  BY <1>1 DEF RestingIn
<1> QED BY <1>1, <1>2, <1>3, <1>7, <1>8 DEF Worth, h, q

\* What the orders in os carry, and what is left without them.
LEMMA PartMoves ==
    ASSUME IsBook(orders), NEW os \in SUBSET DOMAIN orders
    PROVE  /\ Capital(os) \in Nat /\ Capital(os) <= Worth(orders)
           /\ Capital(DOMAIN orders) = Worth(orders)
           /\ Worth(Restrict(orders, DOMAIN orders \ os)) = Worth(orders) - Capital(os)
<1> DEFINE h == [o \in DOMAIN orders |-> orders[o].capital]
           rest == DOMAIN orders \ os
           k == [o \in rest |-> Restrict(orders, rest)[o].capital]
<1>1. IsFiniteSet(DOMAIN orders) /\ IsFiniteSet(os) /\ IsFiniteSet(rest)
  BY BookTypes, FS_Subset
<1>2. \A o \in DOMAIN orders : h[o] \in Nat
  BY BookTypes
<1>3. \A o \in rest : k[o] = h[o]
  BY DEF Restrict
<1>4. Worth(orders) = SumOver(h, DOMAIN orders) /\ Capital(os) = SumOver(h, os)
      /\ Capital(DOMAIN orders) = SumOver(h, DOMAIN orders)
  BY DEF Worth, Capital
<1>5. Worth(Restrict(orders, rest)) = SumOver(k, rest)
  <2>1. DOMAIN Restrict(orders, rest) = rest
    BY DEF Restrict
  <2> QED BY <2>1 DEF Worth
<1> HIDE DEF h, k
<1>6. SumOver(k, rest) = SumOver(h, rest)
  <2>1. \A o \in rest : k[o] \in Int /\ k[o] = h[o]
    BY <1>2, <1>3
  <2> HIDE DEF rest
  <2> QED BY <1>1, <2>1, SumsAgree
<1>7. SumOver(h, DOMAIN orders) = SumOver(h, os) + SumOver(h, rest)
  BY <1>1, <1>2, SumOfPart
<1>8. SumOver(h, os) \in Nat /\ SumOver(h, rest) \in Nat
  <2>1. (\A o \in os : h[o] \in Nat) /\ (\A o \in rest : h[o] \in Nat)
    BY <1>2
  <2> HIDE DEF rest
  <2> QED BY <1>1, <2>1, SumIsNat
<1> HIDE DEF rest
<1>9. /\ Capital(os) \in Nat /\ Capital(os) <= Worth(orders)
      /\ SumOver(k, rest) = Worth(orders) - Capital(os)
  BY <1>4, <1>6, <1>7, <1>8
<1> QED BY <1>4, <1>5, <1>9 DEF rest

LEMMA SettledMoves ==
    ASSUME IsPricedBook(orders)
    PROVE  LET settled == {o \in DOMAIN orders : Settled(orders[o])}
               q == Restrict(orders, DOMAIN orders \ settled)
           IN  /\ IsPricedBook(q) /\ Capital(settled) \in Nat
               /\ Worth(q) + Capital(settled) = Worth(orders)
               /\ \A c : RestingIn(q, c) = RestingIn(orders, c)
<1> DEFINE settled == {o \in DOMAIN orders : Settled(orders[o])}
           q == Restrict(orders, DOMAIN orders \ settled)
<1>1. /\ DOMAIN q = DOMAIN orders \ settled /\ q = [o \in DOMAIN q |-> q[o]]
      /\ \A o \in DOMAIN q : q[o] = orders[o]
  BY DEF Restrict
<1>2. Capital(settled) \in Nat /\ Worth(q) = Worth(orders) - Capital(settled)
  BY PartMoves DEF IsPricedBook
<1>3. Worth(orders) \in Nat
  BY BookTypes DEF IsPricedBook
<1>4. \A o \in DOMAIN orders : orders[o].rests => o \in DOMAIN q
  BY <1>1 DEF Settled
<1> HIDE DEF q, settled
<1>5. Worth(q) + Capital(settled) = Worth(orders)
  BY <1>2, <1>3
<1>6. IsPricedBook(q)
  BY <1>1 DEF IsPricedBook, IsBook
<1>7. \A c : RestingIn(q, c) = RestingIn(orders, c)
  BY <1>1, <1>4 DEF RestingIn
<1> QED BY <1>2, <1>5, <1>6, <1>7 DEF q, settled

\* Ending orders takes out of the book what those nothing filled carried.
LEMMA EndedMoves ==
    ASSUME IsPricedBook(orders), NEW os \in SUBSET Open
    PROVE  /\ IsPricedBook(Ended(os)) /\ Capital(Unfilled(os)) \in Nat
           /\ Capital(Unfilled(os)) <= Worth(orders)
           /\ Worth(Ended(os)) = Worth(orders) - Capital(Unfilled(os))
           /\ \A c : RestingIn(Ended(os), c) = RestingIn(orders, c)
<1> DEFINE q == Ended(os)
           unfilled == Unfilled(os)
           rest == DOMAIN orders \ unfilled
<1>0. unfilled \subseteq os /\ os \subseteq DOMAIN orders /\ unfilled \subseteq DOMAIN orders
      /\ \A o \in os : ~orders[o].closed /\ (o \in unfilled <=> orders[o].at = 0)
  BY DEF Unfilled, Untouched, Open
<1>1. DOMAIN q = DOMAIN orders /\ q = [o \in DOMAIN orders |-> q[o]]
  BY DEF Ended
<1> HIDE DEF unfilled
<1>2. ASSUME NEW o \in DOMAIN orders
      PROVE  /\ q[o] \in Order /\ OrderIsPriced(q[o]) /\ q[o].by = orders[o].by
             /\ q[o].rests = orders[o].rests
             /\ q[o].capital = IF o \in unfilled THEN 0 ELSE orders[o].capital
  <2>1. orders[o] \in Order /\ OrderIsPriced(orders[o])
    BY BookTypes DEF IsPricedBook
  <2> DEFINE left == IF o \in unfilled THEN 0 ELSE orders[o].capital
  <2>2. left \in Nat
    BY <2>1 DEF Order
  <2>3. CASE o \notin os
    <3>1. q[o] = orders[o] /\ o \notin unfilled
      BY <1>0, <2>3 DEF Ended
    <3> QED BY <2>1, <3>1
  <2>4. CASE o \in os
    <3>1. q[o] = [orders[o] EXCEPT !.closed = TRUE, !.capital = left]
      BY <2>4 DEF Ended, unfilled
    <3>2. left = IF o \in unfilled THEN 0 ELSE orders[o].capital
      OBVIOUS
    <3> HIDE DEF q, left
    <3>3. /\ q[o] \in Order /\ q[o].by = orders[o].by /\ q[o].rests = orders[o].rests
          /\ q[o].capital = left /\ q[o].closed /\ q[o].at = orders[o].at
      BY <2>1, <2>2, <3>1 DEF Order
    <3>4. ASSUME orders[o].by \subseteq Strategies PROVE left > 0 <=> orders[o].at # 0
      BY <1>0, <2>1, <2>4, <3>2, <3>4 DEF OrderIsPriced
    <3>5. OrderIsPriced(q[o])
      BY <2>1, <3>3, <3>4 DEF OrderIsPriced
    <3> QED BY <3>2, <3>3, <3>5
  <2> QED BY <2>3, <2>4
<1> HIDE DEF q
<1>3. IsPricedBook(q)
  BY <1>1, <1>2 DEF IsPricedBook, IsBook
<1>4. \A c : RestingIn(q, c) = RestingIn(orders, c)
  BY <1>1, <1>2 DEF RestingIn
<1>5. Capital(unfilled) \in Nat /\ Capital(unfilled) <= Worth(orders)
      /\ Worth(Restrict(orders, rest)) = Worth(orders) - Capital(unfilled)
  BY <1>0, PartMoves DEF IsPricedBook
<1>6. Worth(q) = Worth(Restrict(orders, rest))
  <2> DEFINE h == [o \in DOMAIN q |-> q[o].capital]
             k == [o \in rest |-> Restrict(orders, rest)[o].capital]
  <2>1. IsFiniteSet(DOMAIN q) /\ IsFiniteSet(unfilled) /\ IsFiniteSet(rest)
    BY <1>0, <1>1, BookTypes, FS_Subset DEF IsPricedBook
  <2>2. \A o \in rest : k[o] = h[o] /\ h[o] \in Int
    BY <1>1, <1>2, BookTypes DEF Restrict, IsPricedBook
  <2>3. \A o \in unfilled : h[o] = 0
    BY <1>0, <1>1, <1>2
  <2>4. DOMAIN q = unfilled \cup rest /\ unfilled \cap rest = {}
    BY <1>0, <1>1
  <2>5. DOMAIN Restrict(orders, rest) = rest
    BY DEF Restrict
  <2>6. Worth(q) = SumOver(h, DOMAIN q) /\ Worth(Restrict(orders, rest)) = SumOver(k, rest)
    BY <2>5 DEF Worth
  <2> HIDE DEF h, k, rest
  <2>7. SumOver(h, unfilled \cup rest) = SumOver(h, unfilled) + SumOver(h, rest)
    BY <2>1, <2>2, <2>3, <2>4, SumOfUnion
  <2>8. SumOver(h, unfilled) = 0
    BY <2>1, <2>3, SumOfZeros
  <2>9. SumOver(h, rest) = SumOver(k, rest) /\ SumOver(h, rest) \in Int
    BY <2>1, <2>2, SumsAgree, SumIsInt
  <2> QED BY <2>4, <2>6, <2>7, <2>8, <2>9
<1> QED BY <1>3, <1>4, <1>5, <1>6 DEF q, unfilled

\* A cycle's legs stop resting; the legs other cycles wait for do not.
LEMMA WokenMoves ==
    ASSUME IsPricedBook(orders), NEW c \in Cycles
    PROVE  /\ IsPricedBook(Woken(c)) /\ DOMAIN Woken(c) = DOMAIN orders
           /\ Worth(Woken(c)) = Worth(orders)
           /\ \A d \in Cycles \ {c} : RestingIn(Woken(c), d) = RestingIn(orders, d)
<1> DEFINE q == Woken(c)
<1>1. DOMAIN q = DOMAIN orders /\ q = [o \in DOMAIN orders |-> q[o]]
  BY DEF Woken
<1>2. ASSUME NEW o \in DOMAIN orders
      PROVE  /\ q[o] \in Order /\ OrderIsPriced(q[o]) /\ q[o].by = orders[o].by
             /\ q[o].capital = orders[o].capital
             /\ q[o].rests <=> orders[o].rests /\ c \notin orders[o].by
  <2>1. orders[o] \in Order /\ OrderIsPriced(orders[o])
    BY BookTypes DEF IsPricedBook
  <2>2. CASE o \notin Resting(c)
    <3>1. q[o] = orders[o] /\ ~(orders[o].rests /\ c \in orders[o].by)
      BY <2>2 DEF Woken, Resting
    <3> QED BY <2>1, <3>1
  <2>3. CASE o \in Resting(c)
    <3>1. q[o] = [orders[o] EXCEPT !.rests = FALSE] /\ orders[o].rests /\ c \in orders[o].by
      BY <2>3 DEF Woken, Resting
    <3> HIDE DEF q
    <3>2. /\ q[o] \in Order /\ q[o].by = orders[o].by /\ q[o].capital = orders[o].capital
          /\ ~q[o].rests /\ q[o].closed = orders[o].closed /\ q[o].at = orders[o].at
      BY <2>1, <3>1 DEF Order
    <3>3. OrderIsPriced(q[o])
      BY <2>1, <3>2 DEF OrderIsPriced
    <3> QED BY <3>1, <3>2, <3>3
  <2> QED BY <2>2, <2>3
<1> HIDE DEF q
<1>3. IsPricedBook(q)
  BY <1>1, <1>2 DEF IsPricedBook, IsBook
<1>4. Worth(q) = Worth(orders)
  BY <1>1, <1>2, WorthAgrees DEF IsPricedBook
<1>5. \A d \in Cycles \ {c}, o \in DOMAIN orders :
         orders[o].rests /\ d \in orders[o].by => c \notin orders[o].by
  BY DEF IsPricedBook, OrderIsPriced
<1>6. \A d \in Cycles \ {c} : RestingIn(q, d) = RestingIn(orders, d)
  BY <1>1, <1>2, <1>5 DEF RestingIn
<1> QED BY <1>1, <1>3, <1>4, <1>6 DEF q

(***************************************************************************)
(* Authority: between passes the share moves, and nothing else does.       *)
(***************************************************************************)
LEMMA GrossIsMonotone ==
    ASSUME NEW hs \in SUBSET Grants, NEW gs \in SUBSET hs
    PROVE  GrossOf(gs) \in Nat /\ GrossOf(gs) <= GrossOf(hs)
<1>1. IsFiniteSet(hs) /\ IsFiniteSet(gs) /\ \A g \in hs : Gross[g] \in Nat
  BY CellAssumption, FS_Subset
<1>2. GrossOf(gs) \in Nat
  BY <1>1, SumIsNat DEF GrossOf
<1>3. GrossOf(gs) <= GrossOf(hs)
  BY <1>1, SumOfPartIsLess DEF GrossOf
<1> QED BY <1>2, <1>3

LEMMA ShareIsWithinNames ==
    ASSUME NEW p \in Payload, p.names # Unproduced, NEW held, NEW over
    PROVE  /\ p.names \subseteq Grants /\ Share(p, held, over) \in Nat
           /\ Share(p, held, over) <= GrossOf(p.names) /\ p.sequence \in Nat
<1>1. p.names \in Manifests /\ p.sequence \in 0..MaxSequence
  BY DEF Payload
<1>2. p.names \in SUBSET Grants /\ p.sequence \in Nat
  BY <1>1, CellAssumption
<1>3. ((held \ over) \cap p.names) \in SUBSET p.names
  OBVIOUS
<1>4. GrossOf((held \ over) \cap p.names) \in Nat
      /\ GrossOf((held \ over) \cap p.names) <= GrossOf(p.names)
  BY <1>2, <1>3, GrossIsMonotone
<1> QED BY <1>2, <1>4 DEF Share

\* What a step of the mesh, the plan or a wire leaves alone, and what it must
\* keep of the share.
MeshStep ==
    /\ UNCHANGED <<book, pass>> /\ halt' \in {"none", "wire", "own"}
    /\ region' \in RegionType /\ region'.holds = region.holds
    /\ region'.committed = region.committed /\ region'.free + SpokenFor(region') <= Ceiling
    /\ policy' \in Payload /\ previous' \in Payload /\ highest' \in 0..MaxSequence
    /\ warrant' \subseteq Grants /\ expired' \subseteq Grants
    /\ deployed' \in [Strategies -> Grants \cup {NoGrant}]
    /\ \A s \in Strategies : deployed'[s] = NoGrant \/ Grantee[deployed'[s]] = s
    /\ ShareIsWarranted'

LEMMA MeshStepKeeps == CellInvariant /\ MeshStep => CellInvariant'
<1> SUFFICES ASSUME CellInvariant, MeshStep PROVE CellInvariant'
  OBVIOUS
<1> USE DEF CellInvariant, MeshStep
<1>0. UNCHANGED <<orders, suspended, spent, phase, asked, intents>>
  BY DEF book, pass
<1>1. TypeOK'
  BY <1>0 DEF TypeOK
<1>2. WithinCeiling'
  BY DEF WithinCeiling
<1>3. CapitalBalances'
  BY <1>0 DEF CapitalBalances, Capital
<1>4. OrdersArePriced'
  BY <1>0 DEF OrdersArePriced
<1>5. HoldsAreKnown'
  BY <1>0 DEF HoldsAreKnown
<1>6. RestedLegIsKept'
  BY <1>0 DEF RestedLegIsKept, IsSuspended, Resting
<1> QED BY <1>1, <1>2, <1>3, <1>4, <1>5, <1>6

\* Rebinding to a payload's share, or not.
LEMMA RebindingKeeps ==
    ASSUME CellInvariant, NEW p \in Payload, p.names # Unproduced, NEW held, NEW over,
           NEW q, q = Rebound(region, Share(p, held, over), p.sequence)
    PROVE  /\ q \in RegionType /\ q.holds = region.holds /\ q.committed = region.committed
           /\ q.free + SpokenFor(q) <= Ceiling /\ q.share = p.sequence
           /\ q.bound <= GrossOf(p.names)
<1>1. Share(p, held, over) \in Nat /\ p.sequence \in Nat
      /\ Share(p, held, over) <= GrossOf(p.names) /\ p.names \in SUBSET Grants
  BY ShareIsWithinNames
<1>2. region \in RegionType /\ region.free + SpokenFor(region) <= Ceiling
  BY DEF CellInvariant, TypeOK, WithinCeiling
<1>3. /\ q \in RegionType /\ q.holds = region.holds /\ q.committed = region.committed
      /\ q.bound <= Share(p, held, over) /\ q.share = p.sequence
      /\ q.free + SpokenFor(q) <= Ceiling
  BY <1>1, <1>2, ReboundMoves
<1>4. q.bound \in Nat /\ GrossOf(p.names) \in Nat
  BY <1>1, <1>3, GrossIsMonotone DEF RegionType
<1> QED BY <1>1, <1>3, <1>4

LEMMA RegionStands ==
    ASSUME CellInvariant
    PROVE  /\ region \in RegionType /\ region.share \in Nat /\ region.bound \in Nat
           /\ region.free + SpokenFor(region) <= Ceiling
           /\ highest \in Nat /\ highest \in 0..MaxSequence
           /\ policy \in Payload /\ previous \in Payload
           /\ policy.sequence \in Nat /\ previous.sequence \in Nat
BY DEF CellInvariant, TypeOK, WithinCeiling, RegionType, Payload

LEMMA ApplyPolicyKeeps ==
    ASSUME CellInvariant, NEW n \in 1..MaxSequence, NEW names \in Manifests \cup {Unproduced},
           ApplyPolicy(n, names)
    PROVE  CellInvariant'
<1> USE DEF ApplyPolicy
<1>1. n > highest /\ highest' = n /\ previous' = policy
      /\ policy' = [sequence |-> n, names |-> names]
      /\ UNCHANGED <<deployed, expired, book, halt, pass>>
  OBVIOUS
<1>2. policy' \in Payload /\ n \in Nat /\ n \in 0..MaxSequence
      /\ policy'.sequence = n /\ policy'.names = names
  BY <1>1, CellAssumption DEF Payload
<1>3. /\ region.share <= highest /\ CameWith(policy) /\ CameWith(previous) /\ WithinWarrant
      /\ warrant \subseteq Grants /\ expired \subseteq Grants
      /\ deployed \in [Strategies -> Grants \cup {NoGrant}]
      /\ \A s \in Strategies : deployed[s] = NoGrant \/ Grantee[deployed[s]] = s
      /\ halt \in {"none", "wire", "own"}
  BY DEF CellInvariant, ShareIsWarranted, TypeOK
<1>4. policy.sequence <= highest /\ policy.sequence < n /\ region.share < n
  BY <1>1, <1>2, <1>3, RegionStands DEF CameWith
<1>5. CASE names = Unproduced
  <2>1. UNCHANGED <<region, warrant>>
    BY <1>5
  <2>2. ShareIsWarranted'
    BY <1>1, <1>2, <1>3, <1>4, <1>5, <2>1, RegionStands DEF ShareIsWarranted, CameWith, WithinWarrant, GrossOf
  <2>3. MeshStep
    BY <1>1, <1>2, <1>3, <2>1, <2>2, RegionStands DEF MeshStep
  <2> QED BY <2>3, MeshStepKeeps
<1>6. CASE names # Unproduced
  <2>1. region' = Rebased(region, Share(policy', InForce, expired), n) /\ warrant' = names
    BY <1>6
  <2>2. region' = Rebound(region, Share(policy', InForce, expired), n)
    BY <1>4, <2>1, RegionStands, <1>2 DEF Rebased
  <2>3. /\ region' \in RegionType /\ region'.holds = region.holds
        /\ region'.committed = region.committed /\ region'.share = n
        /\ region'.free + SpokenFor(region') <= Ceiling /\ region'.bound <= GrossOf(names)
    BY <1>2, <1>6, <2>2, RebindingKeeps
  <2>4. ShareIsWarranted'
    <3>1. CameWith(policy)' /\ CameWith(previous)'
      BY <1>1, <1>2, <1>4, <2>1, <2>3, RegionStands DEF CameWith
    <3>2. WithinWarrant'
      BY <2>1, <2>3 DEF WithinWarrant, GrossOf
    <3> QED BY <1>1, <1>2, <2>3, <3>1, <3>2 DEF ShareIsWarranted
  <2>5. names \subseteq Grants
    BY <1>6, CellAssumption
  <2>6. MeshStep
    BY <1>1, <1>2, <1>3, <2>1, <2>3, <2>4, <2>5, RegionStands DEF MeshStep
  <2> QED BY <2>6, MeshStepKeeps
<1> QED BY <1>5, <1>6

LEMMA RollBackKeeps == ASSUME CellInvariant, RollBackPolicy PROVE CellInvariant'
<1>1. /\ policy' = previous /\ previous' = NoPolicy
      /\ UNCHANGED <<region, highest, warrant, deployed, expired, book, halt, pass>>
  BY DEF RollBackPolicy
<1>2. NoPolicy \in Payload /\ NoPolicy.sequence = 0 /\ NoPolicy.names = Unproduced
  BY CellAssumption DEF NoPolicy, Payload
<1>3. /\ region.share <= highest /\ CameWith(policy) /\ CameWith(previous) /\ WithinWarrant
      /\ warrant \subseteq Grants /\ expired \subseteq Grants
      /\ deployed \in [Strategies -> Grants \cup {NoGrant}]
      /\ \A s \in Strategies : deployed[s] = NoGrant \/ Grantee[deployed[s]] = s
      /\ halt \in {"none", "wire", "own"}
  BY DEF CellInvariant, ShareIsWarranted, TypeOK
<1>4. ShareIsWarranted'
  BY <1>1, <1>2, <1>3, RegionStands DEF ShareIsWarranted, CameWith, WithinWarrant, GrossOf
<1>5. MeshStep
  BY <1>1, <1>2, <1>3, <1>4, RegionStands DEF MeshStep
<1> QED BY <1>5, MeshStepKeeps

\* A change of grants: what the serving payload re-derives is for the manifest
\* the share came with.
LEMMA HoldsKeeps ==
    ASSUME CellInvariant, NEW s \in Strategies, NEW g \in Grants \cup {NoGrant}, NEW over,
           g = NoGrant \/ Grantee[g] = s, Holds(s, g, over)
    PROVE  CellInvariant'
<1>1. /\ deployed' = [deployed EXCEPT ![s] = g]
      /\ region' = RederivedUnder(region, policy, InForce', over)
      /\ UNCHANGED <<policy, previous, highest, warrant, expired, book, halt, pass>>
  BY DEF Holds
<1>3. /\ region.share <= highest /\ CameWith(policy) /\ CameWith(previous) /\ WithinWarrant
      /\ warrant \subseteq Grants /\ expired \subseteq Grants
      /\ deployed \in [Strategies -> Grants \cup {NoGrant}]
      /\ \A t \in Strategies : deployed[t] = NoGrant \/ Grantee[deployed[t]] = t
      /\ halt \in {"none", "wire", "own"}
  BY DEF CellInvariant, ShareIsWarranted, TypeOK
<1>4. /\ deployed' \in [Strategies -> Grants \cup {NoGrant}]
      /\ \A t \in Strategies : deployed'[t] = NoGrant \/ Grantee[deployed'[t]] = t
  BY <1>1, <1>3
<1>5. CASE region' = region
  <2>1. ShareIsWarranted'
    BY <1>1, <1>3, <1>5 DEF ShareIsWarranted, CameWith, WithinWarrant, GrossOf
  <2>2. MeshStep
    BY <1>1, <1>3, <1>4, <1>5, <2>1, RegionStands DEF MeshStep
  <2> QED BY <2>2, MeshStepKeeps
<1>6. CASE region' # region
  <2>1. /\ policy.names # Unproduced /\ region.share # NoShare /\ policy.sequence = region.share
        /\ region' = Rebound(region, Share(policy, InForce', over), policy.sequence)
    BY <1>1, <1>6 DEF RederivedUnder, Rederived
  <2>2. policy.names = warrant
    BY <1>3, <2>1 DEF CameWith
  <2>3. /\ region' \in RegionType /\ region'.holds = region.holds
        /\ region'.committed = region.committed /\ region'.share = policy.sequence
        /\ region'.free + SpokenFor(region') <= Ceiling /\ region'.bound <= GrossOf(policy.names)
    BY <2>1, RegionStands, RebindingKeeps
  <2>4. ShareIsWarranted'
    <3>1. CameWith(policy)' /\ CameWith(previous)'
      BY <1>1, <1>3, <2>1, <2>3 DEF CameWith
    <3>2. WithinWarrant'
      BY <1>1, <2>2, <2>3 DEF WithinWarrant, GrossOf
    <3> QED BY <1>1, <1>3, <2>1, <2>3, <3>1, <3>2 DEF ShareIsWarranted
  <2>5. MeshStep
    BY <1>1, <1>3, <1>4, <2>3, <2>4, RegionStands DEF MeshStep
  <2> QED BY <2>5, MeshStepKeeps
<1> QED BY <1>5, <1>6

LEMMA MeshKeeps == ASSUME CellInvariant, Mesh PROVE CellInvariant'
<1>1. CASE \E n \in 1..MaxSequence, names \in Manifests \cup {Unproduced} : ApplyPolicy(n, names)
  BY <1>1, ApplyPolicyKeeps
<1>2. CASE RollBackPolicy
  BY <1>2, RollBackKeeps
<1>3. ASSUME NEW g \in Grants, Renew(g) PROVE CellInvariant'
  BY <1>3, HoldsKeeps, CellAssumption DEF Renew
<1>4. ASSUME NEW g \in Grants, NEW over, Deploy(g, over) PROVE CellInvariant'
  BY <1>4, HoldsKeeps, CellAssumption DEF Deploy
<1>5. ASSUME NEW s \in Strategies, Withdraw(s) PROVE CellInvariant'
  BY <1>5, HoldsKeeps DEF Withdraw
<1>6. ASSUME NEW g \in Grants, Expire(g) PROVE CellInvariant'
  <2>1. expired' = expired \cup {g}
        /\ UNCHANGED <<region, policy, previous, highest, warrant, deployed, book, halt, pass>>
    BY <1>6 DEF Expire
  <2>2. MeshStep
    <3>1. ShareIsWarranted'
      BY <2>1 DEF CellInvariant, ShareIsWarranted, CameWith, WithinWarrant, GrossOf
    <3> QED BY <2>1, <3>1, RegionStands DEF MeshStep, CellInvariant, TypeOK
  <2> QED BY <2>2, MeshStepKeeps
<1>7. CASE Wire
  <2>1. UNCHANGED <<region, authority, book, pass>> /\ halt' \in {"none", "wire", "own"}
    BY <1>7 DEF Wire
  <2>2. MeshStep
    <3>1. ShareIsWarranted'
      BY <2>1 DEF CellInvariant, ShareIsWarranted, CameWith, WithinWarrant, GrossOf, authority
    <3> QED BY <2>1, <3>1, RegionStands DEF MeshStep, CellInvariant, TypeOK, authority
  <2> QED BY <2>2, MeshStepKeeps
<1> QED BY <1>1, <1>2, <1>3, <1>4, <1>5, <1>6, <1>7 DEF Mesh

(***************************************************************************)
(* The venue and the pass: the share stands, and what is free, held and    *)
(* committed changes hands.                                                *)
(***************************************************************************)
IsSuspension(sus) == sus \in [Cycles -> [committed: Nat, position: 0..2]]
Waiting(sus) == SumOver([c \in Cycles |-> sus[c].committed], Cycles)

LEMMA CyclesAreFinite == IsFiniteSet(Cycles) /\ \A c \in Cycles : c \in Ids /\ {c} \in SUBSET Ids
BY CellAssumption, RegionAssumption, FS_Subset

LEMMA WaitingMoves ==
    ASSUME NEW sus, IsSuspension(sus), NEW c \in Cycles,
           NEW x \in [committed: Nat, position: 0..2]
    PROVE  /\ Waiting(sus) \in Nat /\ sus[c].committed \in Nat /\ sus[c].committed <= Waiting(sus)
           /\ IsSuspension([sus EXCEPT ![c] = x])
           /\ Waiting([sus EXCEPT ![c] = x]) = Waiting(sus) - sus[c].committed + x.committed
<1> DEFINE q == [sus EXCEPT ![c] = x]
           h == [d \in Cycles |-> sus[d].committed]
           k == [d \in Cycles |-> q[d].committed]
<1>1. \A d \in Cycles : h[d] \in Nat /\ h[d] = sus[d].committed
  BY DEF IsSuspension
<1>2. x.committed \in Nat /\ q[c] = x /\ \A d \in Cycles \ {c} : q[d] = sus[d]
  BY DEF IsSuspension
<1>3. k[c] = x.committed /\ \A d \in Cycles \ {c} : k[d] = h[d]
  BY <1>2
<1>4. IsSuspension(q)
  BY DEF IsSuspension
<1> HIDE DEF h, k, q
<1>5. SumOver(h, Cycles) \in Nat /\ h[c] <= SumOver(h, Cycles)
  BY <1>1, CyclesAreFinite, SumIsNat, SumAbove
<1>6. SumOver(k, Cycles) = SumOver(h, Cycles) - h[c] + k[c]
  <2>1. IsFiniteSet(Cycles) /\ k[c] \in Int /\ \A d \in Cycles : h[d] \in Int
    BY <1>1, <1>2, <1>3, CyclesAreFinite
  <2>2. \A d \in Cycles \ {c} : k[d] = h[d]
    BY <1>3
  <2> QED BY ONLY <2>1, <2>2, c \in Cycles, SumUpdate
<1> QED BY <1>1, <1>3, <1>4, <1>5, <1>6 DEF Waiting, h, k, q

LEMMA WaitingIsNat == ASSUME NEW sus, IsSuspension(sus) PROVE Waiting(sus) \in Nat
<1> DEFINE h == [d \in Cycles |-> sus[d].committed]
<1>1. \A d \in Cycles : h[d] \in Nat
  BY DEF IsSuspension
<1> HIDE DEF h
<1>2. SumOver(h, Cycles) \in Nat
  BY <1>1, CyclesAreFinite, SumIsNat
<1> QED BY <1>2 DEF Waiting, h

\* What the invariant says of the state a pass starts from.
LEMMA CellStands ==
    ASSUME CellInvariant
    PROVE  /\ region \in RegionType /\ region.holds \in [Ids -> Nat] /\ region.committed \in Nat
           /\ IsPricedBook(orders) /\ Worth(orders) \in Nat /\ IsFiniteSet(DOMAIN orders)
           /\ IsSuspension(suspended) /\ Waiting(suspended) \in Nat /\ spent \in Nat
           /\ halt \in {"none", "wire", "own"}
           /\ phase \in {"between", "abandoned", "asking", "netting", "resuming", "cycling"}
           /\ asked \subseteq Ids /\ intents \subseteq Ids
           /\ region.committed = spent + Worth(orders) + Waiting(suspended)
           /\ HoldsAreKnown
           /\ \A c \in Cycles : IsSuspended(c) => RestingIn(orders, c) # {}
<1>1. IsPricedBook(orders) /\ IsSuspension(suspended) /\ region \in RegionType
  BY DEF CellInvariant, TypeOK, OrdersArePriced, IsPricedBook, IsBook, IsSuspension
<1>2. Worth(orders) \in Nat /\ IsFiniteSet(DOMAIN orders) /\ Waiting(suspended) \in Nat
  BY <1>1, BookTypes, WaitingIsNat DEF IsPricedBook
<1>3. Capital(DOMAIN orders) = Worth(orders)
  BY DEF Capital, Worth
<1>4. region.committed = spent + Worth(orders) + Waiting(suspended)
  BY <1>3 DEF CellInvariant, CapitalBalances, Waiting
<1>5. \A c \in Cycles : IsSuspended(c) => RestingIn(orders, c) # {}
  BY DEF CellInvariant, RestedLegIsKept, Resting, RestingIn
<1> QED BY <1>1, <1>2, <1>4, <1>5 DEF CellInvariant, TypeOK, RegionType

CellStep ==
    /\ UNCHANGED authority /\ SameWorth(region, region')
    /\ IsPricedBook(orders') /\ IsSuspension(suspended') /\ spent' \in Nat
    /\ halt' \in {"none", "wire", "own"}
    /\ phase' \in {"between", "abandoned", "asking", "netting", "resuming", "cycling"}
    /\ asked' \subseteq Ids /\ intents' \subseteq Ids
    /\ region'.committed = spent' + Worth(orders') + Waiting(suspended')
    /\ HoldsAreKnown'
    /\ \A c \in Cycles : suspended'[c] # NotResting => RestingIn(orders', c) # {}

LEMMA CellStepKeeps == ASSUME CellInvariant, CellStep PROVE CellInvariant'
<1>0. /\ UNCHANGED <<policy, previous, highest, warrant, deployed, expired>>
      /\ region' \in RegionType /\ region'.bound = region.bound /\ region'.share = region.share
      /\ region'.free + SpokenFor(region') = region.free + SpokenFor(region)
      /\ DOMAIN orders' \subseteq Slots /\ orders' \in [DOMAIN orders' -> Order]
  BY DEF CellStep, SameWorth, authority, IsPricedBook, IsBook
<1>1. TypeOK'
  BY <1>0 DEF CellInvariant, TypeOK, CellStep, IsSuspension
<1>2. WithinCeiling'
  BY <1>0 DEF CellInvariant, WithinCeiling
<1>3. ShareIsWarranted'
  BY <1>0 DEF CellInvariant, ShareIsWarranted, WithinWarrant, CameWith, GrossOf
<1>4. CapitalBalances'
  <2>1. Capital(DOMAIN orders)' = Worth(orders')
    BY DEF Capital, Worth
  <2> QED BY <2>1 DEF CellStep, CapitalBalances, Waiting
<1>5. OrdersArePriced'
  BY DEF CellStep, IsPricedBook, OrdersArePriced
<1>6. HoldsAreKnown'
  BY DEF CellStep
<1>7. RestedLegIsKept'
  BY DEF CellStep, RestedLegIsKept, RestingIn, IsSuspended, Resting
<1> QED BY <1>1, <1>2, <1>3, <1>4, <1>5, <1>6, <1>7 DEF CellInvariant

\* A step that leaves the region table and the books alone.
LEMMA QuietStep ==
    ASSUME CellInvariant, UNCHANGED <<region, authority, orders, suspended, spent>>,
           halt' \in {"none", "wire", "own"},
           phase' \in {"between", "abandoned", "asking", "netting", "resuming", "cycling"},
           asked' \subseteq Ids, intents' \subseteq Ids, HoldsAreKnown'
    PROVE  CellInvariant'
<1>1. SameWorth(region, region')
  BY CellStands DEF SameWorth
<1>2. CellStep
  BY <1>1, CellStands DEF CellStep, IsSuspended
<1> QED BY <1>2, CellStepKeeps

LEMMA FillKeeps == ASSUME CellInvariant, NEW o \in DOMAIN orders, Fill(o) PROVE CellInvariant'
<1>1. /\ orders[o].at < Whole /\ ~orders[o].closed
      /\ orders' = [orders EXCEPT ![o].at = orders[o].at + 1]
      /\ UNCHANGED <<region, authority, suspended, spent, halt, pass>>
  BY DEF Fill
<1>2. orders[o] \in Order /\ OrderIsPriced(orders[o]) /\ DOMAIN orders \subseteq Slots
      /\ orders \in [DOMAIN orders -> Order]
  BY CellStands DEF IsPricedBook, IsBook
<1> DEFINE x == [orders[o] EXCEPT !.at = orders[o].at + 1]
           filled == orders[o].at + 1
<1>3. filled \in 0..Whole /\ filled # 0
  BY <1>1, <1>2 DEF Order, Whole
<1>4. /\ x \in Order /\ x.capital = orders[o].capital /\ x.by = orders[o].by
      /\ x.rests = orders[o].rests /\ x.at = filled /\ x.closed = orders[o].closed
  <2>1. x = [orders[o] EXCEPT !.at = filled]
    OBVIOUS
  <2> HIDE DEF x, filled
  <2> QED BY <1>2, <1>3, <2>1 DEF Order
<1>5. OrderIsPriced(x)
  <2> HIDE DEF x, filled
  <2> QED BY <1>1, <1>2, <1>3, <1>4 DEF OrderIsPriced
<1>6. orders' = [orders EXCEPT ![o] = x]
  BY <1>1
<1> HIDE DEF x, filled
<1>7. /\ DOMAIN orders' = DOMAIN orders /\ orders' = [p \in DOMAIN orders |-> orders'[p]]
      /\ orders'[o] = x /\ \A p \in DOMAIN orders \ {o} : orders'[p] = orders[p]
  BY <1>2, <1>6
<1>8. \A p \in DOMAIN orders : /\ orders'[p] \in Order /\ OrderIsPriced(orders'[p])
                               /\ orders'[p].capital = orders[p].capital
                               /\ orders'[p].by = orders[p].by /\ orders'[p].rests = orders[p].rests
  BY <1>2, <1>4, <1>5, <1>7, CellStands DEF IsPricedBook
<1>9. IsPricedBook(orders')
  BY <1>2, <1>7, <1>8 DEF IsPricedBook, IsBook
<1>10. Worth(orders') = Worth(orders)
  BY <1>7, <1>8, WorthAgrees, CellStands DEF IsPricedBook
<1>11. \A c : RestingIn(orders', c) = RestingIn(orders, c)
  BY <1>7, <1>8 DEF RestingIn
<1>12. SameWorth(region, region')
  BY <1>1, CellStands DEF SameWorth
<1>13. HoldsAreKnown'
  BY <1>1, CellStands DEF HoldsAreKnown, pass
<1>14. CellStep
  BY <1>1, <1>9, <1>10, <1>11, <1>12, <1>13, CellStands DEF CellStep, IsSuspended, pass
<1> QED BY <1>14, CellStepKeeps

LEMMA StartPassKeeps ==
    ASSUME CellInvariant, NEW fate \in [Open -> Fates], NEW deferred \in BOOLEAN,
           StartPass(fate, deferred)
    PROVE  CellInvariant'
<1> DEFINE ended == {o \in Open : fate[o] = "late"} \cup {o \in Open : fate[o] = "withdrawn"}
           amount == Capital(Unfilled(ended))
           returned == Returned(region, amount)
<1>1. /\ orders' = Confirmed(Ended(ended)) /\ UNCHANGED <<authority, suspended, spent>>
      /\ halt' \in {halt, "own"}
      /\ \/ region' = Swept(returned) /\ phase' = "asking" /\ asked' = {} /\ intents' = {}
         \/ region' = returned /\ UNCHANGED pass
  BY DEF StartPass, Trips
<1>2. ended \in SUBSET Open
  OBVIOUS
<1> HIDE DEF ended
<1>3. /\ IsPricedBook(Ended(ended)) /\ amount \in Nat /\ amount <= Worth(orders)
      /\ Worth(Ended(ended)) = Worth(orders) - amount
      /\ \A c : RestingIn(Ended(ended), c) = RestingIn(orders, c)
  BY <1>2, EndedMoves, CellStands
<1> HIDE DEF amount
<1>4. /\ IsPricedBook(orders') /\ Worth(orders') = Worth(orders) - amount
      /\ \A c : RestingIn(orders', c) = RestingIn(orders, c)
  BY <1>1, <1>3, ConfirmedMoves
<1>5. amount <= region.committed
  BY <1>3, CellStands
<1>6. /\ SameWorth(region, returned) /\ returned.holds = region.holds
      /\ returned.committed = region.committed - amount
  BY <1>3, <1>5, CellStands, ReturnedMoves
<1> HIDE DEF returned
<1>7. returned.committed = spent + Worth(orders') + Waiting(suspended)
  BY <1>3, <1>4, <1>6, CellStands
<1>8. CASE region' = Swept(returned) /\ phase' = "asking" /\ asked' = {} /\ intents' = {}
  <2>1. returned \in RegionType /\ Ids \in SUBSET Ids
    BY <1>6 DEF SameWorth
  <2>2. /\ SameWorth(returned, region') /\ region'.committed = returned.committed
        /\ region'.holds = [i \in Ids |-> IF i \in Ids THEN 0 ELSE returned.holds[i]]
    BY <1>8, <2>1, ReleasedMoves DEF Swept
  <2>3. SameWorth(region, region')
    BY <1>6, <2>2 DEF SameWorth
  <2>4. HoldsAreKnown'
    BY <1>8, <2>2 DEF HoldsAreKnown
  <2>5. CellStep
    BY <1>1, <1>4, <1>7, <1>8, <2>2, <2>3, <2>4, CellStands DEF CellStep, IsSuspended
  <2> QED BY <2>5, CellStepKeeps
<1>9. CASE region' = returned /\ UNCHANGED pass
  <2>1. HoldsAreKnown'
    BY <1>6, <1>9, CellStands DEF HoldsAreKnown, pass
  <2>2. CellStep
    BY <1>1, <1>4, <1>6, <1>7, <1>9, <2>1, CellStands DEF CellStep, IsSuspended, pass
  <2> QED BY <2>2, CellStepKeeps
<1> QED BY <1>1, <1>8, <1>9

\* Holds that become orders or are let go leave the pass's list of them.
LEMMA DealtHolds ==
    ASSUME CellInvariant, NEW is \in SUBSET Ids,
           region'.holds = [i \in Ids |-> IF i \in is THEN 0 ELSE region.holds[i]],
           Dealt(is) \/ Stops
    PROVE  HoldsAreKnown' /\ intents' \subseteq Ids /\ asked' \subseteq Ids
           /\ phase' \in {"between", "abandoned", "asking", "netting", "resuming", "cycling"}
<1>1. CASE Dealt(is)
  <2>1. intents' = intents \ is /\ phase' = phase /\ asked' = asked
    BY <1>1 DEF Dealt
  <2> QED BY <2>1, CellStands DEF HoldsAreKnown
<1>2. CASE Stops
  <2>1. intents' = {} /\ phase' = "abandoned" /\ asked' = {}
    BY <1>2 DEF Stops
  <2> QED BY <2>1, CellStands DEF HoldsAreKnown
<1> QED BY <1>1, <1>2

LEMMA GoneOnHolds ==
    ASSUME CellInvariant, UNCHANGED region, phase # "abandoned",
           NEW to \in {"between", "netting", "resuming", "cycling"}, Goes(to),
           to = "between" => intents = {}
    PROVE  HoldsAreKnown' /\ intents' \subseteq Ids /\ asked' \subseteq Ids
           /\ phase' \in {"between", "abandoned", "asking", "netting", "resuming", "cycling"}
BY CellStands DEF Goes, HoldsAreKnown

LEMMA AskKeeps ==
    ASSUME CellInvariant, NEW i \in Ids, NEW cost \in Costs, Ask(i, cost)
    PROVE  CellInvariant'
<1>1. /\ phase = "asking" /\ (\A j \in asked : j < i) /\ MayReserve(region, i, cost)
      /\ region' = Reserved(region, i, cost) /\ asked' = asked \cup {i}
      /\ intents' = intents \cup {i} /\ UNCHANGED <<authority, book, halt, phase>>
  BY DEF Ask
<1>2. cost \in Nat /\ cost > 0
  BY <1>1, CellAssumption DEF MayReserve
<1>3. /\ SameWorth(region, region') /\ region'.committed = region.committed
      /\ region'.holds = [region.holds EXCEPT ![i] = cost]
  BY <1>1, <1>2, CellStands, ReservedMoves
<1>4. HoldsAreKnown'
  BY <1>1, <1>2, <1>3, CellStands DEF HoldsAreKnown
<1>5. CellStep
  BY <1>1, <1>3, <1>4, CellStands DEF CellStep, book, IsSuspended
<1> QED BY <1>5, CellStepKeeps

\* Withhold, RefuseNet, FailNet and RefuseCycle.
LEMMA ReleaseKeeps ==
    ASSUME CellInvariant, NEW is \in SUBSET Ids, region' = Released(region, is),
           Dealt(is) \/ Stops, UNCHANGED <<authority, book, halt>>
    PROVE  CellInvariant'
<1>1. /\ SameWorth(region, region') /\ region'.committed = region.committed
      /\ region'.holds = [i \in Ids |-> IF i \in is THEN 0 ELSE region.holds[i]]
  BY CellStands, ReleasedMoves
<1>2. HoldsAreKnown' /\ intents' \subseteq Ids /\ asked' \subseteq Ids
      /\ phase' \in {"between", "abandoned", "asking", "netting", "resuming", "cycling"}
  BY <1>1, DealtHolds
<1>3. CellStep
  BY <1>1, <1>2, CellStands DEF CellStep, book, IsSuspended
<1> QED BY <1>3, CellStepKeeps

LEMMA AbandonKeeps == ASSUME CellInvariant, Abandon PROVE CellInvariant'
<1>1. Stops /\ UNCHANGED <<region, authority, orders, suspended, spent, halt>>
  BY DEF Abandon, book
<1>2. phase' = "abandoned" /\ asked' = {} /\ intents' = {}
  BY <1>1 DEF Stops
<1>3. HoldsAreKnown'
  BY <1>2 DEF HoldsAreKnown
<1> QED BY <1>1, <1>2, <1>3, CellStands, QuietStep

\* StartNetting, EndNetting and EndResuming.
LEMMA GoesKeeps ==
    ASSUME CellInvariant, phase # "abandoned", NEW to \in {"netting", "resuming", "cycling"},
           Goes(to), UNCHANGED <<region, authority, book, halt>>
    PROVE  CellInvariant'
<1>1. HoldsAreKnown' /\ intents' \subseteq Ids /\ asked' \subseteq Ids
      /\ phase' \in {"between", "abandoned", "asking", "netting", "resuming", "cycling"}
  BY GoneOnHolds
<1>2. halt' \in {"none", "wire", "own"} /\ UNCHANGED <<region, authority, orders, suspended, spent>>
  BY CellStands DEF book
<1> QED BY <1>1, <1>2, QuietStep

\* FormNothing and EndPass: what is settled moves from the book to what is spent.
LEMMA ReconciledKeeps ==
    ASSUME CellInvariant, Reconciled, Goes("between"), phase # "abandoned", intents = {},
           UNCHANGED <<region, authority, suspended>>
    PROVE  CellInvariant'
<1>1. HoldsAreKnown' /\ intents' \subseteq Ids /\ asked' \subseteq Ids
      /\ phase' \in {"between", "abandoned", "asking", "netting", "resuming", "cycling"}
  BY GoneOnHolds
<1>2. /\ IsPricedBook(orders') /\ spent' \in Nat /\ halt' \in {"none", "wire", "own"}
      /\ spent' + Worth(orders') = spent + Worth(orders)
      /\ \A c : RestingIn(orders', c) = RestingIn(orders, c)
  <2>1. CASE Clean
    <3> DEFINE settled == {o \in DOMAIN orders : Settled(orders[o])}
               q == Restrict(orders, DOMAIN orders \ settled)
    <3>1. orders' = q /\ spent' = spent + Capital(settled) /\ UNCHANGED halt
      BY <2>1 DEF Reconciled
    <3>2. /\ IsPricedBook(q) /\ Capital(settled) \in Nat
          /\ Worth(q) + Capital(settled) = Worth(orders)
          /\ \A c : RestingIn(q, c) = RestingIn(orders, c)
      BY CellStands, SettledMoves
    <3> HIDE DEF q, settled
    <3>3. spent \in Nat /\ Worth(q) \in Nat /\ halt \in {"none", "wire", "own"}
      BY <3>2, CellStands, BookTypes DEF IsPricedBook
    <3>4. spent + Capital(settled) + Worth(q) = spent + Worth(orders)
          /\ spent + Capital(settled) \in Nat
      BY <3>2, <3>3
    <3> QED BY <3>1, <3>2, <3>3, <3>4
  <2>2. CASE ~Clean
    BY <2>2, CellStands DEF Reconciled, Trips
  <2> QED BY <2>1, <2>2
<1>3. region.committed = spent' + Worth(orders') + Waiting(suspended)
  <2>1. Worth(orders') \in Nat
    BY <1>2, BookTypes DEF IsPricedBook
  <2> QED BY <1>2, <2>1, CellStands
<1>4. SameWorth(region, region')
  BY CellStands DEF SameWorth
<1>5. CellStep
  BY <1>1, <1>2, <1>3, <1>4, CellStands DEF CellStep, IsSuspended
<1> QED BY <1>5, CellStepKeeps

LEMMA PlaceNetKeeps ==
    ASSUME CellInvariant, NEW n \in SUBSET Strategies, NEW o \in Fresh, NEW at \in 0..Whole,
           PlaceNet(n, o, at)
    PROVE  CellInvariant'
<1> DEFINE x == Sent(n, HeldBy(region, n), at)
           sent == [k \in {o} |-> x]
           q == Beside(orders, sent)
<1>1. /\ n # {} /\ n \subseteq intents /\ Dealt(n) /\ region' = Committed(region, n)
      /\ orders' = Confirmed(q) /\ UNCHANGED <<authority, suspended, spent, halt>>
  BY DEF PlaceNet, Nets
<1>2. n \in SUBSET Ids /\ o \in Slots /\ o \notin DOMAIN orders
  BY CellAssumption DEF Fresh
<1>3. HeldBy(region, n) \in Nat /\ HeldBy(region, n) > 0
  <2>1. PICK i \in n : TRUE
    BY <1>1
  <2>2. region.holds[i] > 0 /\ region.holds[i] \in Nat
    BY <1>1, <1>2, CellStands DEF HoldsAreKnown
  <2>3. IsFiniteSet(n) /\ \A j \in n : region.holds[j] \in Nat
    BY <1>2, CellStands, HeldType
  <2>4. region.holds[i] <= HeldBy(region, n)
    BY <2>3, SumAbove DEF HeldBy
  <2>5. HeldBy(region, n) \in Nat
    BY <1>2, CellStands, HeldType
  <2> QED BY <2>2, <2>4, <2>5
<1>4. x \in Order /\ OrderIsPriced(x) /\ x.capital = HeldBy(region, n)
  <2> DEFINE amount == HeldBy(region, n)
  <2>1. x = [by |-> n, capital |-> amount, at |-> at, filled |-> 0, closed |-> FALSE, rests |-> FALSE]
    BY DEF Sent
  <2>2. amount \in Nat /\ amount > 0 /\ 0 \in 0..Whole
    BY <1>3 DEF Whole
  <2> HIDE DEF x, amount
  <2>3. x \in Order /\ x.capital = amount /\ ~x.closed /\ ~x.rests
    BY <1>2, <2>1, <2>2 DEF Order
  <2>4. OrderIsPriced(x)
    BY <2>2, <2>3 DEF OrderIsPriced
  <2> QED BY <2>3, <2>4 DEF amount
<1>5. IsPricedBook(sent) /\ Worth(sent) = HeldBy(region, n) /\ DOMAIN sent = {o}
  <2> HIDE DEF x
  <2> QED BY <1>2, <1>4, OneOrder
<1> HIDE DEF sent
<1>6. /\ IsPricedBook(q) /\ Worth(q) = Worth(orders) + HeldBy(region, n)
      /\ \A c : RestingIn(orders, c) \subseteq RestingIn(q, c)
  BY <1>2, <1>5, CellStands, BesideMoves
<1> HIDE DEF q
<1>7. /\ IsPricedBook(orders') /\ Worth(orders') = Worth(orders) + HeldBy(region, n)
      /\ \A c : RestingIn(orders, c) \subseteq RestingIn(orders', c)
  BY <1>1, <1>6, ConfirmedMoves
<1>8. /\ SameWorth(region, region') /\ region'.committed = region.committed + HeldBy(region, n)
      /\ region'.holds = [i \in Ids |-> IF i \in n THEN 0 ELSE region.holds[i]]
  BY <1>1, <1>2, CellStands, CommittedMoves
<1>9. HoldsAreKnown' /\ intents' \subseteq Ids /\ asked' \subseteq Ids
      /\ phase' \in {"between", "abandoned", "asking", "netting", "resuming", "cycling"}
  BY <1>1, <1>2, <1>8, DealtHolds
<1>10. region'.committed = spent + Worth(orders') + Waiting(suspended)
  BY <1>3, <1>7, <1>8, CellStands
<1>11. \A c \in Cycles : suspended[c] # NotResting => RestingIn(orders', c) # {}
  BY <1>7, CellStands DEF IsSuspended
<1>12. CellStep
  BY <1>1, <1>7, <1>8, <1>9, <1>10, <1>11, CellStands DEF CellStep
<1> QED BY <1>12, CellStepKeeps

LEMMA NetsKeep ==
    ASSUME CellInvariant, NEW n \in SUBSET Strategies, RefuseNet(n) \/ FailNet(n)
    PROVE  CellInvariant'
<1>1. n \in SUBSET Ids
  BY CellAssumption
<1>2. /\ region' = Released(region, n) /\ (Dealt(n) \/ Stops)
      /\ UNCHANGED <<authority, book, halt>>
  BY DEF RefuseNet, FailNet, Refused
<1> QED BY <1>1, <1>2, ReleaseKeeps

LEMMA WithholdKeeps == ASSUME CellInvariant, NEW i \in Ids, Withhold(i) PROVE CellInvariant'
BY ReleaseKeeps DEF Withhold

LEMMA FormNothingKeeps == ASSUME CellInvariant, FormNothing PROVE CellInvariant'
<1>1. intents = {} /\ phase = "asking"
  BY CellStands DEF FormNothing, HoldsAreKnown
<1> QED BY <1>1, ReconciledKeeps DEF FormNothing

LEMMA DecidesKeeps == ASSUME CellInvariant, Decides PROVE CellInvariant'
<1>1. ASSUME NEW i \in Ids, Withhold(i) \/ \E cost \in Costs : Ask(i, cost) PROVE CellInvariant'
  BY <1>1, WithholdKeeps, AskKeeps
<1>2. CASE StartNetting
  BY <1>2, GoesKeeps DEF StartNetting
<1>3. CASE EndNetting
  BY <1>3, GoesKeeps DEF EndNetting
<1>4. ASSUME NEW n \in SUBSET Strategies,
             RefuseNet(n) \/ FailNet(n) \/ \E o \in Fresh, at \in 0..Whole : PlaceNet(n, o, at)
      PROVE  CellInvariant'
  BY <1>4, NetsKeep, PlaceNetKeeps
<1> QED BY <1>1, <1>2, <1>3, <1>4, AbandonKeeps, FormNothingKeeps DEF Decides

(***************************************************************************)
(* Cycles.                                                                 *)
(***************************************************************************)
\* The legs a cycle sends beside a book of the cell's, answered and confirmed.
LEMMA LegsKeep ==
    ASSUME NEW b, IsPricedBook(b), DOMAIN b = DOMAIN orders, NEW c \in Cycles,
           NEW n \in Nat, NEW ats \in Answers(n)
    PROVE  LET q == Confirmed(Beside(b, Legs(c, ats)))
           IN  /\ IsPricedBook(q) /\ Worth(q) = Worth(b)
               /\ \A d : RestingIn(b, d) \subseteq RestingIn(q, d)
<1>1. DOMAIN ats \subseteq Slots \ DOMAIN orders /\ ats \in [DOMAIN ats -> 0..Whole]
  BY DEF Answers, Fresh, kSubset
<1>2. /\ IsPricedBook(Legs(c, ats)) /\ Worth(Legs(c, ats)) = 0
      /\ DOMAIN Legs(c, ats) = DOMAIN ats
  BY <1>1, LegsMove
<1>3. /\ IsPricedBook(Beside(b, Legs(c, ats))) /\ Worth(Beside(b, Legs(c, ats))) = Worth(b) + 0
      /\ \A d : RestingIn(b, d) \subseteq RestingIn(Beside(b, Legs(c, ats)), d)
  BY <1>1, <1>2, BesideMoves
<1>4. Worth(b) \in Nat
  BY BookTypes DEF IsPricedBook
<1> QED BY <1>3, <1>4, ConfirmedMoves

\* A cycle that no longer waits: its committed capital is settled or returned.
LEMMA ResumedWaits ==
    ASSUME CellInvariant, NEW c \in Cycles, Resumes(c)
    PROVE  /\ UNCHANGED authority /\ IsSuspension(suspended') /\ phase = "resuming"
           /\ suspended[c].committed \in Nat /\ suspended[c].committed <= Waiting(suspended)
           /\ Waiting(suspended') = Waiting(suspended) - suspended[c].committed
           /\ IsPricedBook(Woken(c)) /\ DOMAIN Woken(c) = DOMAIN orders
           /\ Worth(Woken(c)) = Worth(orders)
           /\ \A d \in Cycles : suspended'[d] # NotResting => RestingIn(Woken(c), d) # {}
<1>1. /\ suspended' = [suspended EXCEPT ![c] = NotResting] /\ UNCHANGED authority
      /\ phase = "resuming"
  BY DEF Resumes
<1>2. NotResting \in [committed: Nat, position: 0..2] /\ NotResting.committed = 0
  BY DEF NotResting
<1>3. /\ IsSuspension(suspended') /\ suspended[c].committed \in Nat
      /\ suspended[c].committed <= Waiting(suspended) /\ Waiting(suspended) \in Nat
      /\ Waiting(suspended') = Waiting(suspended) - suspended[c].committed + NotResting.committed
  BY <1>1, <1>2, CellStands, WaitingMoves
<1>4. Waiting(suspended') = Waiting(suspended) - suspended[c].committed
  BY <1>2, <1>3
<1>5. /\ IsPricedBook(Woken(c)) /\ DOMAIN Woken(c) = DOMAIN orders
      /\ Worth(Woken(c)) = Worth(orders)
      /\ \A d \in Cycles \ {c} : RestingIn(Woken(c), d) = RestingIn(orders, d)
  BY CellStands, WokenMoves
<1>6. suspended'[c] = NotResting /\ \A d \in Cycles \ {c} : suspended'[d] = suspended[d]
  BY <1>1, CellStands DEF IsSuspension
<1>7. \A d \in Cycles : suspended'[d] # NotResting => RestingIn(Woken(c), d) # {}
  BY <1>5, <1>6, CellStands DEF IsSuspended
<1> QED BY <1>1, <1>3, <1>4, <1>5, <1>7

LEMMA AbandonCycleKeeps ==
    ASSUME CellInvariant, NEW c \in Cycles, AbandonCycle(c) PROVE CellInvariant'
<1>1. /\ Resumes(c) /\ region' = Returned(region, suspended[c].committed)
      /\ orders' = Woken(c) /\ UNCHANGED <<spent, halt, phase, asked, intents>>
  BY DEF AbandonCycle, pass
<1>2. suspended[c].committed \in Nat /\ suspended[c].committed <= region.committed
  BY <1>1, ResumedWaits, CellStands
<1>3. /\ SameWorth(region, region') /\ region'.holds = region.holds
      /\ region'.committed = region.committed - suspended[c].committed
  BY <1>1, <1>2, CellStands, ReturnedMoves
<1>4. region'.committed = spent + Worth(orders') + Waiting(suspended')
  BY <1>1, <1>2, <1>3, ResumedWaits, CellStands
<1>5. HoldsAreKnown'
  BY <1>1, <1>3, CellStands DEF HoldsAreKnown
<1>6. CellStep
  BY <1>1, <1>3, <1>4, <1>5, ResumedWaits, CellStands DEF CellStep
<1> QED BY <1>6, CellStepKeeps

\* CompleteCycle, and BreakResumed with or without the second leg.
LEMMA ResumedKeeps ==
    ASSUME CellInvariant, NEW c \in Cycles, Resumes(c), NEW n \in Nat, NEW ats \in Answers(n),
           orders' = Confirmed(Beside(Woken(c), Legs(c, ats))),
           spent' = spent + suspended[c].committed, UNCHANGED region,
           halt' \in {halt, "own"}, UNCHANGED pass \/ Stops
    PROVE  CellInvariant'
<1>1. /\ IsPricedBook(orders') /\ Worth(orders') = Worth(orders)
      /\ \A d \in Cycles : suspended'[d] # NotResting => RestingIn(orders', d) # {}
  <2>1. /\ IsPricedBook(orders') /\ Worth(orders') = Worth(Woken(c))
        /\ \A d : RestingIn(Woken(c), d) \subseteq RestingIn(orders', d)
    BY ResumedWaits, LegsKeep
  <2> QED BY <2>1, ResumedWaits
<1>2. spent' \in Nat /\ region'.committed = spent' + Worth(orders') + Waiting(suspended')
  BY <1>1, ResumedWaits, CellStands
<1>3. SameWorth(region, region')
  BY CellStands DEF SameWorth
<1>4. HoldsAreKnown' /\ intents' \subseteq Ids /\ asked' \subseteq Ids
      /\ phase' \in {"between", "abandoned", "asking", "netting", "resuming", "cycling"}
  <2>1. CASE UNCHANGED pass
    BY <2>1, CellStands DEF HoldsAreKnown, pass
  <2>2. CASE Stops
    BY <2>2 DEF HoldsAreKnown, Stops
  <2> QED BY <2>1, <2>2
<1>5. CellStep
  BY <1>1, <1>2, <1>3, <1>4, ResumedWaits, CellStands DEF CellStep
<1> QED BY <1>5, CellStepKeeps

LEMMA PlaceWholeKeeps ==
    ASSUME CellInvariant, NEW c \in Cycles, NEW ats \in Answers(2), PlaceWhole(c, ats)
    PROVE  CellInvariant'
<1>1. /\ Dealt({c}) /\ orders' = Confirmed(Beside(orders, Legs(c, ats)))
      /\ region' = Committed(region, {c}) /\ spent' = spent + region.holds[c]
      /\ UNCHANGED <<authority, suspended, halt>>
  BY DEF PlaceWhole, Places
<1>2. /\ IsPricedBook(orders') /\ Worth(orders') = Worth(orders)
      /\ \A d : RestingIn(orders, d) \subseteq RestingIn(orders', d)
  BY <1>1, CellStands, LegsKeep
<1>3. /\ SameWorth(region, region') /\ region'.committed = region.committed + HeldBy(region, {c})
      /\ region'.holds = [i \in Ids |-> IF i \in {c} THEN 0 ELSE region.holds[i]]
  BY <1>1, CyclesAreFinite, CellStands, CommittedMoves
<1>4. HeldBy(region, {c}) = region.holds[c] /\ region.holds[c] \in Nat
  BY HeldByOne, CellStands, CyclesAreFinite
<1>5. HoldsAreKnown' /\ intents' \subseteq Ids /\ asked' \subseteq Ids
      /\ phase' \in {"between", "abandoned", "asking", "netting", "resuming", "cycling"}
  BY <1>1, <1>3, CyclesAreFinite, DealtHolds
<1>6. spent' \in Nat /\ region'.committed = spent' + Worth(orders') + Waiting(suspended)
  BY <1>1, <1>2, <1>3, <1>4, CellStands
<1>7. \A d \in Cycles : suspended[d] # NotResting => RestingIn(orders', d) # {}
  BY <1>2, CellStands DEF IsSuspended
<1>8. CellStep
  BY <1>1, <1>2, <1>3, <1>5, <1>6, <1>7, CellStands DEF CellStep
<1> QED BY <1>8, CellStepKeeps

LEMMA RestLegKeeps ==
    ASSUME CellInvariant, NEW c \in Cycles, NEW o \in Fresh, NEW position \in 1..2,
           NEW at \in 0..Whole, RestLeg(c, position, o, at)
    PROVE  CellInvariant'
<1> DEFINE x == [Sent({c}, 0, at) EXCEPT !.rests = TRUE]
           leg == [k \in {o} |-> x]
           y == [committed |-> region.holds[c], position |-> position]
<1>1. /\ Dealt({c}) /\ ~IsSuspended(c) /\ orders' = Beside(orders, leg)
      /\ region' = Committed(region, {c}) /\ suspended' = [suspended EXCEPT ![c] = y]
      /\ UNCHANGED <<authority, spent, halt>>
  BY DEF RestLeg, Places
<1>2. x \in Order /\ OrderIsPriced(x) /\ x.capital = 0 /\ x.rests /\ c \in x.by
  <2> DEFINE s == Sent({c}, 0, at)
  <2>1. s = [by |-> {c}, capital |-> 0, at |-> at, filled |-> 0, closed |-> FALSE, rests |-> FALSE]
    BY DEF Sent
  <2>2. {c} \in SUBSET Ids /\ 0 \in Nat /\ 0 \in 0..Whole
    BY CyclesAreFinite DEF Whole
  <2>6. x = [s EXCEPT !.rests = TRUE]
    OBVIOUS
  <2> HIDE DEF x, s
  <2>7. s \in Order /\ s.by = {c} /\ s.capital = 0
    BY <2>1, <2>2 DEF Order
  <2>3. x \in Order /\ x.by = {c} /\ x.capital = 0 /\ x.rests
    BY <2>6, <2>7 DEF Order
  <2>4. c \notin Strategies
    BY CellAssumption
  <2>5. OrderIsPriced(x)
    BY <2>3, <2>4 DEF OrderIsPriced
  <2> QED BY <2>3, <2>5
<1>3. o \in Slots /\ o \notin DOMAIN orders
  BY DEF Fresh
<1>4. IsPricedBook(leg) /\ Worth(leg) = 0 /\ DOMAIN leg = {o} /\ RestingIn(leg, c) # {}
  <2> HIDE DEF x
  <2>1. /\ IsPricedBook(leg) /\ Worth(leg) = x.capital /\ DOMAIN leg = {o}
        /\ \A d : x.rests /\ d \in x.by => RestingIn(leg, d) # {}
    BY <1>2, <1>3, OneOrder
  <2> HIDE DEF leg
  <2> QED BY <1>2, <2>1
<1> HIDE DEF leg, x
<1>5. /\ IsPricedBook(orders') /\ Worth(orders') = Worth(orders)
      /\ \A d : RestingIn(orders, d) \cup RestingIn(leg, d) \subseteq RestingIn(orders', d)
  <2>1. /\ IsPricedBook(orders') /\ Worth(orders') = Worth(orders) + Worth(leg)
        /\ \A d : RestingIn(orders, d) \cup RestingIn(leg, d) \subseteq RestingIn(orders', d)
    BY <1>1, <1>3, <1>4, CellStands, BesideMoves
  <2> QED BY <1>4, <2>1, CellStands
<1>6. /\ SameWorth(region, region') /\ region'.committed = region.committed + HeldBy(region, {c})
      /\ region'.holds = [i \in Ids |-> IF i \in {c} THEN 0 ELSE region.holds[i]]
  BY <1>1, CyclesAreFinite, CellStands, CommittedMoves
<1>7. HeldBy(region, {c}) = region.holds[c] /\ region.holds[c] \in Nat
  BY HeldByOne, CellStands, CyclesAreFinite
<1>8. y \in [committed: Nat, position: 0..2] /\ y.committed = region.holds[c]
  BY <1>7
<1> HIDE DEF y
<1>9. /\ IsSuspension(suspended')
      /\ Waiting(suspended') = Waiting(suspended) - suspended[c].committed + y.committed
  BY <1>1, <1>8, CellStands, WaitingMoves
<1>10. suspended[c].committed = 0
  BY <1>1 DEF IsSuspended, NotResting
<1>11. region'.committed = spent + Worth(orders') + Waiting(suspended')
  BY <1>5, <1>6, <1>7, <1>8, <1>9, <1>10, CellStands
<1>12. HoldsAreKnown' /\ intents' \subseteq Ids /\ asked' \subseteq Ids
      /\ phase' \in {"between", "abandoned", "asking", "netting", "resuming", "cycling"}
  BY <1>1, <1>6, CyclesAreFinite, DealtHolds
<1>13. \A d \in Cycles : suspended'[d] # NotResting => RestingIn(orders', d) # {}
  <2>1. \A d \in Cycles \ {c} : suspended'[d] = suspended[d]
    BY <1>1, CellStands DEF IsSuspension
  <2> QED BY <1>4, <1>5, <2>1, CellStands DEF IsSuspended
<1>14. CellStep
  BY <1>1, <1>5, <1>6, <1>9, <1>11, <1>12, <1>13, CellStands DEF CellStep
<1> QED BY <1>14, CellStepKeeps

LEMMA BreakCycleKeeps ==
    ASSUME CellInvariant, NEW c \in Cycles, NEW n \in Nat, NEW ats \in Answers(n),
           NEW refused \in BOOLEAN, BreakCycle(c, ats, refused)
    PROVE  CellInvariant'
<1>1. /\ orders' = Confirmed(Beside(orders, Legs(c, ats))) /\ halt' \in {halt, "own"} /\ Stops
      /\ UNCHANGED <<region, authority, suspended, spent>>
  BY DEF BreakCycle, Places, Trips
<1>2. /\ IsPricedBook(orders') /\ Worth(orders') = Worth(orders)
      /\ \A d : RestingIn(orders, d) \subseteq RestingIn(orders', d)
  BY <1>1, CellStands, LegsKeep
<1>3. HoldsAreKnown' /\ intents' \subseteq Ids /\ asked' \subseteq Ids /\ phase' = "abandoned"
  BY <1>1 DEF HoldsAreKnown, Stops
<1>4. SameWorth(region, region')
  BY <1>1, CellStands DEF SameWorth
<1>5. \A d \in Cycles : suspended[d] # NotResting => RestingIn(orders', d) # {}
  BY <1>2, CellStands DEF IsSuspended
<1>6. CellStep
  BY <1>1, <1>2, <1>3, <1>4, <1>5, CellStands DEF CellStep
<1> QED BY <1>6, CellStepKeeps

LEMMA CyclingKeeps == ASSUME CellInvariant, Cycling PROVE CellInvariant'
<1>1. ASSUME NEW c \in Cycles, RefuseCycle(c) PROVE CellInvariant'
  <2>1. Dealt({c}) /\ region' = Released(region, {c}) /\ UNCHANGED <<authority, book, halt>>
    BY <1>1 DEF RefuseCycle
  <2> QED BY <2>1, CyclesAreFinite, ReleaseKeeps
<1>2. ASSUME NEW c \in Cycles, NEW ats \in Answers(1), CompleteCycle(c, ats) PROVE CellInvariant'
  <2>1. /\ Resumes(c) /\ orders' = Confirmed(Beside(Woken(c), Legs(c, ats)))
        /\ spent' = spent + suspended[c].committed /\ UNCHANGED <<region, halt, pass>>
    BY <1>2 DEF CompleteCycle
  <2> QED BY <2>1, ResumedKeeps
<1>3. ASSUME NEW c \in Cycles, NEW n \in Nat, NEW ats \in Answers(n), NEW refused \in BOOLEAN,
             BreakResumed(c, ats, refused)
      PROVE  CellInvariant'
  <2>1. /\ Resumes(c) /\ orders' = Confirmed(Beside(Woken(c), Legs(c, ats)))
        /\ spent' = spent + suspended[c].committed /\ UNCHANGED region /\ Stops
        /\ halt' \in {halt, "own"}
    BY <1>3 DEF BreakResumed, Trips
  <2> QED BY <2>1, ResumedKeeps
<1>4. CASE EndResuming
  BY <1>4, GoesKeeps DEF EndResuming
<1>5. CASE EndPass
  BY <1>5, ReconciledKeeps DEF EndPass
<1>6. ASSUME NEW c \in Cycles, NEW ats \in UNION {Answers(n) : n \in 0..2}, NEW refused \in BOOLEAN,
             BreakCycle(c, ats, refused)
      PROVE  CellInvariant'
  <2>1. PICK n \in Nat : ats \in Answers(n)
    OBVIOUS
  <2> QED BY <1>6, <2>1, BreakCycleKeeps
<1>7. ASSUME NEW c \in Cycles, NEW ats \in Answers(0) \cup Answers(1), NEW refused \in BOOLEAN,
             BreakResumed(c, ats, refused)
      PROVE  CellInvariant'
  BY <1>3, <1>7
<1> QED BY <1>1, <1>2, <1>4, <1>5, <1>6, <1>7, AbandonCycleKeeps, RestLegKeeps, PlaceWholeKeeps
        DEF Cycling

(***************************************************************************)
(* The theorems.                                                           *)
(***************************************************************************)
LEMMA InitHolds == Init => CellInvariant
<1> SUFFICES ASSUME Init PROVE CellInvariant
  OBVIOUS
<1> USE DEF Init
<1>1. /\ region \in RegionType /\ region.free = 0 /\ region.committed = 0 /\ region.bound = 0
      /\ region.share = 0 /\ region.holds = [i \in Ids |-> 0]
  BY DEF Unfunded, RegionType, NoShare
<1>2. DOMAIN orders = {}
  OBVIOUS
<1>3. NoPolicy \in Payload /\ NoPolicy.sequence = 0 /\ NoPolicy.names = Unproduced
      /\ 0 \in 0..MaxSequence
  BY CellAssumption DEF NoPolicy, Payload
<1>4. suspended \in [Cycles -> [committed: Nat, position: 0..2]]
      /\ \A c \in Cycles : suspended[c].committed = 0 /\ suspended[c] = NotResting
  BY DEF NotResting
<1>5. TypeOK
  BY <1>1, <1>2, <1>3, <1>4 DEF TypeOK
<1>6. WithinCeiling
  <2>1. Held(region) = 0
    BY <1>1, RegionAssumption, SumOfZeros DEF Held
  <2> QED BY <1>1, <2>1, RegionAssumption DEF WithinCeiling, SpokenFor
<1>7. ShareIsWarranted
  <2>1. GrossOf(warrant) \in Nat
    BY GrossIsMonotone
  <2> QED BY <1>1, <1>3, <2>1 DEF ShareIsWarranted, WithinWarrant, CameWith, NoShare
<1>8. CapitalBalances
  <2>1. Capital(DOMAIN orders) = 0
    BY <1>2, SumEmpty DEF Capital
  <2> DEFINE h == [c \in Cycles |-> suspended[c].committed]
  <2>2. \A c \in Cycles : h[c] = 0
    BY <1>4
  <2> HIDE DEF h
  <2>3. SumOver(h, Cycles) = 0
    BY <2>2, CyclesAreFinite, SumOfZeros
  <2> QED BY <1>1, <2>1, <2>3 DEF CapitalBalances, h
<1>9. OrdersArePriced
  BY <1>2 DEF OrdersArePriced
<1>10. HoldsAreKnown
  BY <1>1 DEF HoldsAreKnown
<1>11. RestedLegIsKept
  BY <1>4 DEF RestedLegIsKept, IsSuspended
<1> QED BY <1>5, <1>6, <1>7, <1>8, <1>9, <1>10, <1>11 DEF CellInvariant

LEMMA NextKeeps == CellInvariant /\ [Next]_vars => CellInvariant'
<1> SUFFICES ASSUME CellInvariant, [Next]_vars PROVE CellInvariant'
  OBVIOUS
<1>1. CASE Mesh
  BY <1>1, MeshKeeps
<1>2. CASE \E o \in DOMAIN orders : Fill(o)
  BY <1>2, FillKeeps
<1>3. CASE Turn
  BY <1>3, StartPassKeeps, DecidesKeeps, CyclingKeeps DEF Turn, Confirms
<1>4. CASE UNCHANGED vars
  <2>1. UNCHANGED <<region, authority, orders, suspended, spent, halt, phase, asked, intents>>
    BY <1>4 DEF vars, book, pass
  <2>2. HoldsAreKnown'
    BY <2>1, CellStands DEF HoldsAreKnown
  <2> QED BY <2>1, <2>2, CellStands, QuietStep
<1> QED BY <1>1, <1>2, <1>3, <1>4 DEF Next

LEMMA CellInvariantHolds == Spec => []CellInvariant
BY InitHolds, NextKeeps, PTL DEF Spec

LEMMA InvariantSays ==
    ASSUME CellInvariant
    PROVE  TypeOK /\ WithinCeiling /\ WithinWarrant /\ CapitalFollowsFills
           /\ PassLeavesNoHold /\ RestedLegIsKept
<1>1. CapitalFollowsFills
  <2>1. ASSUME NEW o \in DOMAIN orders, orders[o].closed, orders[o].by \subseteq Strategies
        PROVE  orders[o].capital > 0 <=> orders[o].at > 0
    <3>1. OrderIsPriced(orders[o]) /\ orders[o].at \in 0..Whole
      BY CellStands DEF IsPricedBook, IsBook, Order
    <3> QED BY <2>1, <3>1 DEF OrderIsPriced, Whole
  <2> QED BY <2>1 DEF CapitalFollowsFills, CellInvariant, CapitalBalances
<1>2. PassLeavesNoHold
  <2>1. ASSUME phase = "between" PROVE Held(region) = 0
    <3>1. \A i \in Ids : region.holds[i] = 0
      BY <2>1, CellStands DEF HoldsAreKnown
    <3> QED BY <3>1, RegionAssumption, SumOfZeros DEF Held
  <2> QED BY <2>1 DEF PassLeavesNoHold
<1> QED BY <1>1, <1>2 DEF CellInvariant, ShareIsWarranted

(***************************************************************************)
(* What the share allows.  A pass spends beyond it only after it was       *)
(* narrowed under what was already held or committed.                      *)
(***************************************************************************)
\* A share applied leaves room for what is held and committed.
NarrowsOnlyTheFree == region'.bound # region.bound => SpokenFor(region) <= region'.bound

FreeIsCovered == region.free + SpokenFor(region) <= region.bound

\* Every step either moves capital between free, held and committed, or binds
\* the region to a share.
RegionStep ==
    \/ SameWorth(region, region')
    \/ \E share, sequence \in Nat : region' = Rebound(region, share, sequence)

LEMMA MeshMovesTheBound == ASSUME CellInvariant, Mesh PROVE RegionStep
<1>1. UNCHANGED region => RegionStep
  BY RegionStands DEF RegionStep, SameWorth
<1>2. ASSUME NEW n \in 1..MaxSequence, NEW names \in Manifests \cup {Unproduced},
             ApplyPolicy(n, names)
      PROVE  RegionStep
  <2>1. CASE names # Unproduced
    <3>1. /\ policy' \in Payload /\ policy'.names = names /\ n \in Nat
          /\ region' = Rebased(region, Share(policy', InForce, expired), n)
      BY <1>2, <2>1, CellAssumption DEF ApplyPolicy, Payload
    <3>2. Share(policy', InForce, expired) \in Nat
      BY <2>1, <3>1, ShareIsWithinNames
    <3> QED BY <1>1, <3>1, <3>2 DEF Rebased, RegionStep
  <2>2. CASE names = Unproduced
    BY <1>1, <1>2, <2>2 DEF ApplyPolicy
  <2> QED BY <2>1, <2>2
<1>3. ASSUME NEW s, NEW g, NEW over, Holds(s, g, over) PROVE RegionStep
  <2>1. CASE policy.names = Unproduced
    BY <1>1, <1>3, <2>1 DEF Holds, RederivedUnder
  <2>2. CASE policy.names # Unproduced
    <3>1. /\ policy \in Payload /\ policy.sequence \in Nat
          /\ region' = Rederived(region, Share(policy, InForce', over), policy.sequence)
      BY <1>3, <2>2, RegionStands DEF Holds, RederivedUnder
    <3>2. Share(policy, InForce', over) \in Nat
      BY <2>2, <3>1, ShareIsWithinNames
    <3> QED BY <1>1, <3>1, <3>2 DEF Rederived, RegionStep
  <2> QED BY <2>1, <2>2
<1>4. RollBackPolicy \/ Wire \/ (\E g \in Grants : Expire(g)) => UNCHANGED region
  BY DEF RollBackPolicy, Wire, Expire
<1> QED BY <1>1, <1>2, <1>3, <1>4 DEF Mesh, Renew, Deploy, Withdraw

LEMMA StartPassMoves ==
    ASSUME CellInvariant, NEW fate \in [Open -> Fates], NEW deferred \in BOOLEAN,
           StartPass(fate, deferred)
    PROVE  SameWorth(region, region')
<1> DEFINE ended == {o \in Open : fate[o] = "late"} \cup {o \in Open : fate[o] = "withdrawn"}
           amount == Capital(Unfilled(ended))
           returned == Returned(region, amount)
<1>1. region' = Swept(returned) \/ region' = returned
  BY DEF StartPass
<1>2. ended \in SUBSET Open
  OBVIOUS
<1> HIDE DEF ended
<1>3. amount \in Nat
  BY <1>2, EndedMoves, CellStands
<1> HIDE DEF amount
<1>4. SameWorth(region, returned) /\ returned \in RegionType
  BY <1>3, CellStands, ReturnedMoves DEF SameWorth
<1> HIDE DEF returned
<1>5. SameWorth(returned, Swept(returned))
  BY <1>4, ReleasedMoves DEF Swept
<1> QED BY <1>1, <1>4, <1>5 DEF SameWorth

LEMMA TurnMovesCapital == ASSUME CellInvariant, Turn PROVE SameWorth(region, region')
<1>1. region \in RegionType /\ region.holds \in [Ids -> Nat]
  BY CellStands
<1>2. UNCHANGED region => SameWorth(region, region')
  BY <1>1 DEF SameWorth
<1>3. ASSUME NEW is \in SUBSET Ids,
             region' = Released(region, is) \/ region' = Committed(region, is)
      PROVE  SameWorth(region, region')
  <2>1. SameWorth(region, Released(region, is)) /\ SameWorth(region, Committed(region, is))
    BY <1>1, ReleasedMoves, CommittedMoves
  <2>2. CASE region' = Released(region, is)
    BY <2>1, <2>2 DEF SameWorth
  <2>3. CASE region' = Committed(region, is)
    BY <2>1, <2>3 DEF SameWorth
  <2> QED BY <1>3, <2>2, <2>3
<1>4. ASSUME NEW i \in Ids, NEW cost \in Costs, Ask(i, cost) PROVE SameWorth(region, region')
  <2>1. cost \in Nat /\ MayReserve(region, i, cost) /\ region' = Reserved(region, i, cost)
    BY <1>4, CellAssumption DEF Ask
  <2> QED BY <1>1, <2>1, ReservedMoves
<1>5. ASSUME NEW n \in SUBSET Strategies,
             RefuseNet(n) \/ FailNet(n) \/ \E o \in Fresh, at \in 0..Whole : PlaceNet(n, o, at)
      PROVE  SameWorth(region, region')
  <2>1. n \in SUBSET Ids
    BY CellAssumption
  <2> QED BY <1>3, <1>5, <2>1 DEF RefuseNet, FailNet, PlaceNet, Refused
<1>6. ASSUME NEW c \in Cycles, AbandonCycle(c) PROVE SameWorth(region, region')
  <2>1. Resumes(c) /\ region' = Returned(region, suspended[c].committed)
    BY <1>6 DEF AbandonCycle
  <2>2. suspended[c].committed \in Nat
    BY CellStands DEF IsSuspension
  <2> QED BY <1>1, <2>1, <2>2, ReturnedMoves
<1>7. CASE Decides
  <2>1. ASSUME NEW i \in Ids, Withhold(i) PROVE SameWorth(region, region')
    <3>1. {i} \in SUBSET Ids /\ region' = Released(region, {i})
      BY <2>1 DEF Withhold
    <3> QED BY <1>3, <3>1
  <2>2. Abandon \/ FormNothing \/ StartNetting \/ EndNetting => UNCHANGED region
    BY DEF Abandon, FormNothing, StartNetting, EndNetting
  <2> QED BY <1>2, <1>4, <1>5, <1>7, <2>1, <2>2 DEF Decides
<1>8. ASSUME NEW c \in Cycles, {c} \in SUBSET Ids,
             \/ RefuseCycle(c)
             \/ \E o, k, at : RestLeg(c, k, o, at)
             \/ \E ats : CompleteCycle(c, ats) \/ PlaceWhole(c, ats)
             \/ \E ats, refused : BreakResumed(c, ats, refused) \/ BreakCycle(c, ats, refused)
      PROVE  SameWorth(region, region')
  <2>1. UNCHANGED region \/ region' = Released(region, {c}) \/ region' = Committed(region, {c})
    BY <1>8 DEF RefuseCycle, RestLeg, CompleteCycle, PlaceWhole, BreakResumed, BreakCycle
  <2> QED BY <1>2, <1>3, <1>8, <2>1
<1>9. EndResuming \/ EndPass => UNCHANGED region
  BY DEF EndResuming, EndPass
<1>10. CASE Cycling
  BY <1>2, <1>6, <1>8, <1>9, <1>10, CyclesAreFinite DEF Cycling
<1> QED BY <1>7, <1>10, StartPassMoves DEF Turn, Confirms

LEMMA CoveredStep ==
    ASSUME CellInvariant, FreeIsCovered, [Next]_vars, [NarrowsOnlyTheFree]_vars
    PROVE  FreeIsCovered'
<1>1. CASE SameWorth(region, region')
  BY <1>1 DEF SameWorth, FreeIsCovered
<1>2. ASSUME NEW share \in Nat, NEW sequence \in Nat, region' = Rebound(region, share, sequence)
      PROVE  FreeIsCovered'
  <2> DEFINE bound == Min({share, Ceiling})
  <2>1. bound \in Nat
    BY MinOfTwo, RegionAssumption
  <2>2. /\ region \in RegionType /\ region.free \in Nat /\ SpokenFor(region) \in Nat
        /\ region.bound \in Nat
    BY CellStands, HeldType
  <2>3. /\ region'.bound = bound /\ region'.holds = region.holds
        /\ region'.committed = region.committed
        /\ region'.free = IF SpokenFor(region) > bound THEN 0 ELSE bound - SpokenFor(region)
    BY <1>2, <2>2 DEF Rebound, RegionType
  <2>4. SpokenFor(region') = SpokenFor(region)
    BY <2>3 DEF SpokenFor, Held
  <2>5. SpokenFor(region) <= region.bound
    BY <2>2 DEF FreeIsCovered
  <2>6. region'.bound # region.bound => SpokenFor(region) <= region'.bound
    BY DEF NarrowsOnlyTheFree, vars
  <2> HIDE DEF bound
  <2>7. SpokenFor(region) <= bound
    BY <2>3, <2>5, <2>6
  <2> QED BY <2>1, <2>2, <2>3, <2>4, <2>7 DEF FreeIsCovered
<1>3. CASE UNCHANGED vars
  BY <1>3 DEF vars, FreeIsCovered
<1>4. CASE Next
  <2>1. (\E o \in DOMAIN orders : Fill(o)) => SameWorth(region, region')
    BY CellStands DEF Fill, SameWorth
  <2>2. SameWorth(region, region') \/ RegionStep
    BY <1>4, <2>1, MeshMovesTheBound, TurnMovesCapital DEF Next
  <2> QED BY <1>1, <1>2, <2>2 DEF RegionStep
<1> QED BY <1>3, <1>4

\* Types: capital, holds and counters are never negative, and the book never has
\* more orders than its bound (cell.rs, reservation.rs).
THEOREM CellTypes == Spec => []TypeOK
BY CellInvariantHolds, InvariantSays, PTL

\* The ceiling: no policy, rollback, fill, refusal, cancellation or broken
\* cycle leaves the cell more than its operator allowed, whatever its grants
\* and however many orders it works.
THEOREM CeilingHolds == Spec => []WithinCeiling
BY CellInvariantHolds, InvariantSays, PTL

\* The warrant: the share the region is bound to is at most what the manifest
\* it came with names, through rollbacks, renewals and withdrawals.
THEOREM WarrantHolds == Spec => []WithinWarrant
BY CellInvariantHolds, InvariantSays, PTL

\* The two books agree: capital committed is what was spent, what orders carry
\* and what suspended cycles wait with; an ended order keeps its own exactly
\* when something of it filled.
THEOREM CapitalFollows == Spec => []CapitalFollowsFills
BY CellInvariantHolds, InvariantSays, PTL

\* No pass that runs to its end leaves a hold behind.
THEOREM NoHoldIsLeft == Spec => []PassLeavesNoHold
BY CellInvariantHolds, InvariantSays, PTL

\* A suspended cycle's resting leg is never settled out of the book.
THEOREM RestedLegStays == Spec => []RestedLegIsKept
BY CellInvariantHolds, InvariantSays, PTL

\* ADR 0039 where it holds: a cell spends within its share as long as no share
\* is narrowed under what is held or committed (reservation.rs, apply_bound,
\* which forgets the shortfall).  Nothing else takes it past the share: no fill,
\* sweep, broken cycle, rollback, renewal or lapse.
THEOREM ShareHolds == Spec /\ [][NarrowsOnlyTheFree]_vars => []SpendsWithinTheShare
<1>1. Init => FreeIsCovered
  <2>1. SUFFICES ASSUME Init PROVE FreeIsCovered
    OBVIOUS
  <2>2. /\ region.free = 0 /\ region.committed = 0 /\ region.bound = 0
        /\ region.holds = [i \in Ids |-> 0]
    BY <2>1 DEF Init, Unfunded
  <2>3. Held(region) = 0
    BY <2>2, RegionAssumption, SumOfZeros DEF Held
  <2> QED BY <2>2, <2>3 DEF FreeIsCovered, SpokenFor
<1>2. CellInvariant /\ FreeIsCovered /\ [Next]_vars /\ [NarrowsOnlyTheFree]_vars => FreeIsCovered'
  BY CoveredStep
<1>3. CellInvariant /\ FreeIsCovered => SpendsWithinTheShare
  <2>1. CellInvariant => region.free \in Nat /\ SpokenFor(region) \in Nat /\ region.bound \in Nat
    BY CellStands, HeldType
  <2> QED BY <2>1 DEF FreeIsCovered, SpendsWithinTheShare
<1> QED BY <1>1, <1>2, <1>3, CellInvariantHolds, PTL DEF Spec

================================================================================
