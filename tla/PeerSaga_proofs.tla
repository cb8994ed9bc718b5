--------------------------- MODULE PeerSaga_proofs ---------------------------
(***************************************************************************)
(* Proofs about PeerSaga, for any cells, cycles, clocks, authorities and   *)
(* bounds.  MeshInv is the inductive invariant: what each node's view says *)
(* is true of the cycle (ViewsAreTrue), so is what each frame still on the *)
(* wire says, however late it arrives (FramesAreTrue), and the books and   *)
(* counts of the sagas follow the views.  What one pass of the saga does   *)
(* to one view is stated once (Moved), proved stage by stage, and from it  *)
(* everything a turn does to a cycle follows (StepKeepsCycle).             *)
(***************************************************************************)
EXTENDS PeerSaga, FiniteSetTheorems, TLAPS

\* Losses are sizes times prices per unit.
LEMMA ProductIsNat ==
    ASSUME NEW x \in Nat, NEW y \in Nat
    PROVE  x * y \in Nat
BY SMT

\* A smaller excess at a smaller spread is a smaller loss.
LEMMA ProductsCompare ==
    ASSUME NEW x \in Nat, NEW y \in Nat, NEW p \in Nat, NEW q \in Nat, x <= p, y <= q
    PROVE  x * y <= p * q
BY SMT

\* A cycle has two legs, of two nodes.
LEMMA TwoLegs ==
    ASSUME NEW o \in Opps, NEW n \in Legs(o)
    PROVE  /\ n \in Nodes /\ Other(o, n) \in Legs(o) /\ Other(o, n) # n
           /\ Legs(o) = {n, Other(o, n)} /\ Other(o, Other(o, n)) = n
           /\ Legs(o) \subseteq Nodes
BY LegsAssumption DEF Legs, Other

\* What a pass does to the reservations: one attempt, one answer.
Reserves(n, v, w, taken) ==
    /\ w.held \in {v.held, v.held \cup {n}} /\ w.declined \in {v.declined, v.declined \cup {n}}
    /\ w.held # v.held => w.declined = v.declined /\ taken
    /\ w.held # v.held \/ w.declined # v.declined => ~v.attempted /\ ~v.fired /\ w.attempted
    /\ v.attempted => w.attempted

\* What a pass does to FIRE: the coordinator alone, over every reservation.
DeclaresFire(n, o, v, w) ==
    /\ v.fired => w.fired
    /\ w.fired /\ ~v.fired => n = Coordinator[o] /\ Legs(o) \subseteq w.held

\* What a pass does to the node's own leg: sent once, after FIRE, through the gate.
Executes(n, v, w, a, unit) ==
    IF w.sent = v.sent THEN w.filled = v.filled /\ w.spread = v.spread
    ELSE /\ ~v.sent /\ w.sent /\ w.fired
         /\ a \in AuthorityType /\ Size <= a.max /\ a.spread <= unit /\ w.spread = a.spread
         /\ w.filled = IF Fill(a) > 0 THEN [v.filled EXCEPT ![n] = Fill(a)] ELSE v.filled

\* What a pass does at the close: the excess, at the spread the leg was sent at.
Settled(n, o, v, w, unit) ==
    IF w.closed = v.closed THEN w.unwound = v.unwound
    ELSE /\ ~v.closed /\ w.closed /\ w.fired /\ w.sent /\ EveryFillKnown(o, w)
         /\ w.unwound = IF Excess(n, o, w) > 0 /\ Excess(n, o, w) * w.spread <= Size * unit
                        THEN [v.unwound EXCEPT ![n] = Excess(n, o, w) * w.spread]
                        ELSE v.unwound

Moved(n, o, v, w, a, unit, taken) ==
    /\ Reserves(n, v, w, taken) /\ DeclaresFire(n, o, v, w)
    /\ Executes(n, v, w, a, unit) /\ Settled(n, o, v, w, unit)

\* A leg fills no more than its size.
LEMMA FillType ==
    ASSUME NEW a \in AuthorityType
    PROVE  Fill(a) \in Quantities
BY SizeAssumption DEF Fill, Quantities, AuthorityType

\* AfterReserve touches only the reservations.
LEMMA ReserveMoves ==
    ASSUME NEW n \in Nodes, NEW v \in ViewType, NEW taken \in BOOLEAN, NEW clocked \in BOOLEAN,
           NEW w, w = AfterReserve(n, v, taken, clocked)
    PROVE  /\ w \in ViewType /\ Reserves(n, v, w, taken)
           /\ w.fired = v.fired /\ w.sent = v.sent /\ w.filled = v.filled /\ w.spread = v.spread
           /\ w.closed = v.closed /\ w.unwound = v.unwound
BY DEF AfterReserve, Wants, Reserves, ViewType

\* AfterFire touches only FIRE.
LEMMA FireMoves ==
    ASSUME NEW n \in Nodes, NEW o \in Opps, NEW v \in ViewType, NEW clocked \in BOOLEAN,
           NEW w, w = AfterFire(n, o, v, clocked)
    PROVE  /\ w \in ViewType /\ DeclaresFire(n, o, v, w)
           /\ w.held = v.held /\ w.declined = v.declined /\ w.attempted = v.attempted
           /\ w.sent = v.sent /\ w.filled = v.filled /\ w.spread = v.spread
           /\ w.closed = v.closed /\ w.unwound = v.unwound
BY DEF AfterFire, MayFire, EveryLegReserved, DeclaresFire, ViewType

\* AfterExecute touches only the node's own leg.
LEMMA ExecuteMoves ==
    ASSUME NEW n \in Nodes, NEW v \in ViewType, NEW a \in AuthorityType \cup {NoAuthority},
           NEW unit \in Nat, NEW clocked \in BOOLEAN,
           NEW w, w = AfterExecute(n, v, a, unit, clocked)
    PROVE  /\ w \in ViewType /\ Executes(n, v, w, a, unit)
           /\ w.held = v.held /\ w.declined = v.declined /\ w.attempted = v.attempted
           /\ w.fired = v.fired /\ w.closed = v.closed /\ w.unwound = v.unwound
<1>1. CASE ~Sends(v, a, unit, clocked)
  BY <1>1 DEF AfterExecute, Executes
<1>2. CASE Sends(v, a, unit, clocked)
  <2>1. /\ a \in AuthorityType /\ v.fired /\ ~v.sent
        /\ Size <= a.max /\ a.spread <= unit /\ a.spread \in Nat
    BY <1>2 DEF Sends, Gate, AuthorityType
  <2>2. Fill(a) \in Quantities
    BY <2>1, FillType
  <2>3. w = [v EXCEPT !.sent = TRUE, !.spread = a.spread,
                     !.filled[n] = IF Fill(a) > 0 THEN Fill(a) ELSE @]
    BY <1>2 DEF AfterExecute
  <2>4. w \in ViewType
    <3> DEFINE fill == Fill(a)
    <3>1. w = [v EXCEPT !.sent = TRUE, !.spread = a.spread,
                       !.filled = [v.filled EXCEPT ![n] = IF fill > 0 THEN fill ELSE @]]
      BY <2>3 DEF ViewType
    <3>2. fill \in Quantities
      BY <2>2
    <3> HIDE DEF fill
    <3>3. [v.filled EXCEPT ![n] = IF fill > 0 THEN fill ELSE @] \in [Nodes -> Quantities \cup {NoTrade}]
      BY <3>2 DEF ViewType
    <3> QED BY <2>1, <3>1, <3>3 DEF ViewType
  <2>5. w.filled = IF Fill(a) > 0 THEN [v.filled EXCEPT ![n] = Fill(a)] ELSE v.filled
    BY <2>3 DEF ViewType
  <2> QED
    BY <2>1, <2>3, <2>4, <2>5 DEF ViewType, Executes
<1> QED BY <1>1, <1>2

\* The excess of one fill over the other is at most the size.
LEMMA ExcessType ==
    ASSUME NEW o \in Opps, NEW n \in Legs(o), NEW v \in ViewType, EveryFillKnown(o, v)
    PROVE  Excess(n, o, v) \in Quantities
BY TwoLegs, SizeAssumption DEF Excess, EveryFillKnown, ViewType, Quantities

\* AfterSettle touches only the unwind and the close.
LEMMA SettleMoves ==
    ASSUME NEW o \in Opps, NEW n \in Legs(o), NEW v \in ViewType,
           NEW unit \in Nat, NEW w, w = AfterSettle(n, o, v, unit)
    PROVE  /\ w \in ViewType /\ Settled(n, o, v, w, unit)
           /\ w.held = v.held /\ w.declined = v.declined /\ w.attempted = v.attempted
           /\ w.fired = v.fired /\ w.sent = v.sent /\ w.filled = v.filled /\ w.spread = v.spread
<1> n \in Nodes BY TwoLegs
<1>0. Other(o, n) \in Nodes BY TwoLegs
<1>1. CASE ~Settles(o, v)
  <2>1. w = [v EXCEPT !.closed = v.closed]
    BY <1>1 DEF AfterSettle, Unwinds, ViewType
  <2> QED BY <2>1 DEF Settled, ViewType
<1>2. CASE Settles(o, v)
  <2>1. /\ v.fired /\ v.sent /\ ~v.closed /\ EveryFillKnown(o, v)
        /\ Excess(n, o, v) \in Quantities
    BY <1>2, ExcessType DEF Settles
  <2>2. Excess(n, o, v) * v.spread \in Nat
    BY <2>1, ProductIsNat, SizeAssumption DEF Quantities, ViewType
  <2>3. CASE Excess(n, o, v) > 0 /\ Excess(n, o, v) * v.spread <= Size * unit
    <3> DEFINE loss == Excess(n, o, v) * v.spread
    <3>1. w = [v EXCEPT !.closed = TRUE, !.unwound[n] = loss]
      BY <1>2, <2>3 DEF AfterSettle, Unwinds
    <3>2. loss \in Nat
      BY <2>2
    <3> HIDE DEF loss
    <3>3. /\ w \in ViewType /\ w.closed /\ w.unwound = [v.unwound EXCEPT ![n] = loss]
          /\ w.held = v.held /\ w.declined = v.declined /\ w.attempted = v.attempted
          /\ w.fired = v.fired /\ w.sent = v.sent /\ w.filled = v.filled /\ w.spread = v.spread
      BY <3>1, <3>2 DEF ViewType
    <3>4. EveryFillKnown(o, w) /\ Excess(n, o, w) = Excess(n, o, v)
      BY <2>1, <3>3 DEF EveryFillKnown, Excess
    <3>5. w.unwound = [v.unwound EXCEPT ![n] = Excess(n, o, w) * w.spread]
      BY <3>3, <3>4 DEF loss
    <3> QED BY <2>1, <2>3, <3>3, <3>4, <3>5 DEF Settled
  <2>4. CASE ~(Excess(n, o, v) > 0 /\ Excess(n, o, v) * v.spread <= Size * unit)
    <3>1. w = [v EXCEPT !.closed = TRUE]
      BY <1>2, <2>4 DEF AfterSettle, Unwinds, ViewType
    <3>2. /\ w \in ViewType /\ w.closed /\ w.unwound = v.unwound
          /\ w.held = v.held /\ w.declined = v.declined /\ w.attempted = v.attempted
          /\ w.fired = v.fired /\ w.sent = v.sent /\ w.filled = v.filled /\ w.spread = v.spread
      BY <3>1 DEF ViewType
    <3>3. EveryFillKnown(o, w) /\ Excess(n, o, w) = Excess(n, o, v)
      BY <2>1, <3>2 DEF EveryFillKnown, Excess
    <3> QED BY <2>1, <2>4, <3>2, <3>3 DEF Settled
  <2> QED BY <2>3, <2>4
<1> QED BY <1>1, <1>2

\* A whole pass over one view (Saga::step).
LEMMA StepMoves ==
    ASSUME NEW o \in Opps, NEW n \in Legs(o), NEW v \in ViewType,
           NEW a \in AuthorityType \cup {NoAuthority}, NEW unit \in Nat,
           NEW taken \in BOOLEAN, NEW clocked \in BOOLEAN,
           NEW w, w = Stepped(n, o, v, a, unit, taken, clocked)
    PROVE  w \in ViewType /\ Moved(n, o, v, w, a, unit, taken)
<1> n \in Nodes BY TwoLegs
<1> DEFINE r == AfterReserve(n, v, taken, clocked)
           f == AfterFire(n, o, r, clocked)
           x == AfterExecute(n, f, a, unit, clocked)
<1>2. /\ r \in ViewType /\ Reserves(n, v, r, taken)
      /\ r.fired = v.fired /\ r.sent = v.sent /\ r.filled = v.filled /\ r.spread = v.spread
      /\ r.closed = v.closed /\ r.unwound = v.unwound
  BY ReserveMoves
<1>1. w = AfterSettle(n, o, x, unit)
  BY DEF Stepped
<1> HIDE DEF r
<1>3. /\ f \in ViewType /\ DeclaresFire(n, o, r, f)
      /\ f.held = r.held /\ f.declined = r.declined /\ f.attempted = r.attempted
      /\ f.sent = r.sent /\ f.filled = r.filled /\ f.spread = r.spread
      /\ f.closed = r.closed /\ f.unwound = r.unwound
  BY <1>2, FireMoves
<1> HIDE DEF f
<1>x. x = AfterExecute(n, f, a, unit, clocked)
  OBVIOUS
<1> HIDE DEF x
<1>4. /\ x \in ViewType /\ Executes(n, f, x, a, unit)
      /\ x.held = f.held /\ x.declined = f.declined /\ x.attempted = f.attempted
      /\ x.fired = f.fired /\ x.closed = f.closed /\ x.unwound = f.unwound
  BY <1>x, <1>3, ExecuteMoves
<1>5. /\ w \in ViewType /\ Settled(n, o, x, w, unit)
      /\ w.held = x.held /\ w.declined = x.declined /\ w.attempted = x.attempted
      /\ w.fired = x.fired /\ w.sent = x.sent /\ w.filled = x.filled /\ w.spread = x.spread
  BY <1>1, <1>4, SettleMoves
<1>6. Reserves(n, v, w, taken)
  BY <1>2, <1>3, <1>4, <1>5 DEF Reserves
<1>7. DeclaresFire(n, o, v, w)
  BY <1>2, <1>3, <1>4, <1>5 DEF DeclaresFire
<1>8. Executes(n, v, w, a, unit)
  BY <1>2, <1>3, <1>4, <1>5 DEF Executes
<1>9. Settled(n, o, v, w, unit)
  BY <1>2, <1>3, <1>4, <1>5 DEF Settled
<1> QED BY <1>5, <1>6, <1>7, <1>8, <1>9 DEF Moved
----------------------------------------------------------------------------
\* What view v of node n says of promises and FIRE is true of c.
PromisesAgree(n, v, c) ==
    /\ ~v.attempted => n \notin c.promised \cup c.refused
    /\ v.held \subseteq c.promised
    /\ v.fired => c.declared /\ n \in v.held

\* What it says of fills is.
FillsAgree(n, unit, v, c) ==
    /\ v.sent => Traded(c, n) /\ v.fired /\ v.spread <= unit
    /\ ~v.sent => ~Traded(c, n)
    /\ \A m \in Nodes : v.filled[m] # NoTrade => c.trade[m] = v.filled[m]

\* A closed view has both fills, and gave back exactly the excess.
RecoveryAgrees(n, o, v, c) ==
    IF v.closed THEN v.sent /\ EveryFillKnown(o, v) /\ c.recovered[n] = Excess(n, o, v)
    ELSE v.unwound[n] = NoTrade /\ c.recovered[n] = 0

ViewAgrees(n, o, unit, v, c) ==
    PromisesAgree(n, v, c) /\ FillsAgree(n, unit, v, c) /\ RecoveryAgrees(n, o, v, c)

\* What is true of the cycle itself.
CycleSound(o, c) ==
    /\ c.promised \cap c.refused = {} /\ c.promised \subseteq Legs(o)
    /\ c.declared => c.promised = Legs(o)
    /\ \A n \in Nodes : Traded(c, n) => c.declared /\ n \in Legs(o)

\* From c to d only n acted.
OwnOnly(n, c, d) ==
    /\ c.promised \subseteq d.promised /\ d.promised \subseteq c.promised \cup {n}
    /\ c.refused \subseteq d.refused /\ d.refused \subseteq c.refused \cup {n}
    /\ c.declared => d.declared
    /\ \A m \in Nodes \ {n} : d.trade[m] = c.trade[m] /\ d.recovered[m] = c.recovered[m]
    /\ Traded(c, n) => d.trade[n] = c.trade[n]

\* One pass keeps a node's view true of the cycle, and is a step the contract
\* allows: in particular the unwind is never refused as over the declared loss.
LEMMA StepKeepsCycle ==
    ASSUME NEW o \in Opps, NEW n \in Legs(o), NEW v \in ViewType, NEW c \in CycleType,
           NEW a \in AuthorityType \cup {NoAuthority}, NEW unit \in Nat, NEW taken \in BOOLEAN,
           CycleSound(o, c), ViewAgrees(n, o, unit, v, c),
           NEW w \in ViewType, Moved(n, o, v, w, a, unit, taken),
           NEW d, d = Happened(n, o, c, v, w, a)
    PROVE  /\ d \in CycleType /\ CycleSound(o, d) /\ ViewAgrees(n, o, unit, w, d)
           /\ OwnOnly(n, c, d) /\ Contract!CycleStep(o, c, d)
<1> n \in Nodes BY TwoLegs
<1> DEFINE m == Other(o, n)
<1>0. m \in Nodes /\ m # n /\ Legs(o) = {n, m}
  BY TwoLegs
<1> HIDE DEF m
<1>f. /\ d.promised = c.promised \cup ((w.held \ v.held) \cap {n})
      /\ d.refused = c.refused \cup ((w.declined \ v.declined) \cap {n})
  BY DEF Happened, CycleType
<1>g. d.declared = (c.declared \/ (w.fired /\ ~v.fired))
  BY DEF Happened, CycleType
<1>h. d.trade = [c.trade EXCEPT ![n] = IF w.sent /\ ~v.sent THEN Fill(a) ELSE @]
  BY DEF Happened, CycleType
<1>i. d.recovered = [c.recovered EXCEPT ![n] =
                        IF w.unwound[n] # v.unwound[n] THEN Excess(n, o, w) ELSE @]
  BY DEF Happened, CycleType
<1>1. \* the promises
      /\ PromisesAgree(n, w, d)
      /\ d.promised \cap d.refused = {} /\ d.promised \subseteq Legs(o)
      /\ d.declared \in BOOLEAN /\ (d.declared => d.promised = Legs(o))
      /\ c.promised \subseteq d.promised /\ d.promised \subseteq c.promised \cup {n}
      /\ c.refused \subseteq d.refused /\ d.refused \subseteq c.refused \cup {n}
      /\ c.declared => d.declared
      /\ c.declared => d.promised = c.promised /\ d.refused = c.refused
      /\ d.promised \in SUBSET Nodes /\ d.refused \in SUBSET Nodes
  <2>1. /\ c.promised \in SUBSET Nodes /\ c.refused \in SUBSET Nodes /\ c.declared \in BOOLEAN
        /\ v.fired \in BOOLEAN /\ w.fired \in BOOLEAN /\ v.attempted \in BOOLEAN
        /\ w.attempted \in BOOLEAN /\ v.held \subseteq Nodes /\ w.held \subseteq Nodes
    BY DEF CycleType, ViewType
  <2> QED BY <1>0, <1>f, <1>g, <2>1
          DEF Moved, Reserves, DeclaresFire, PromisesAgree, ViewAgrees, CycleSound
<1>2. \* the fills
      /\ FillsAgree(n, unit, w, d)
      /\ d.trade \in [Nodes -> Quantities \cup {NoTrade}]
      /\ \A k \in Nodes \ {n} : d.trade[k] = c.trade[k]
      /\ Traded(c, n) => d.trade[n] = c.trade[n]
      /\ d.trade[n] # c.trade[n] => ~Traded(c, n) /\ d.declared /\ d.trade[n] \in Quantities
      /\ Traded(d, n) => d.declared
  <2>1. c.trade \in [Nodes -> Quantities \cup {NoTrade}] /\ NoTrade \notin Quantities
    BY SizeAssumption DEF CycleType, Quantities
  <2>2. CASE w.sent = v.sent
    <3>1. d.trade = c.trade /\ w.filled = v.filled /\ w.spread = v.spread
      BY <1>h, <2>1, <2>2 DEF Moved, Executes
    <3> QED BY <1>1, <2>1, <2>2, <3>1
            DEF FillsAgree, ViewAgrees, Moved, DeclaresFire, CycleSound, Traded
  <2>3. CASE w.sent # v.sent
    <3>1. /\ ~v.sent /\ w.sent /\ w.fired /\ a \in AuthorityType
          /\ a.spread <= unit /\ w.spread = a.spread
          /\ w.filled = IF Fill(a) > 0 THEN [v.filled EXCEPT ![n] = Fill(a)] ELSE v.filled
      BY <2>3 DEF Moved, Executes
    <3>2. Fill(a) \in Quantities
      BY <3>1, FillType
    <3>3. d.trade = [c.trade EXCEPT ![n] = Fill(a)]
      BY <1>h, <3>1
    <3>4. d.declared
      BY <1>1, <3>1 DEF PromisesAgree
    <3>5. ~Traded(c, n)
      BY <3>1 DEF ViewAgrees, FillsAgree
    <3>6. \A k \in Nodes : w.filled[k] # NoTrade => d.trade[k] = w.filled[k]
      BY <2>1, <3>1, <3>2, <3>3, <3>5 DEF ViewAgrees, FillsAgree, Traded, ViewType
    <3> QED BY <2>1, <3>1, <3>2, <3>3, <3>4, <3>5, <3>6 DEF FillsAgree, Traded
  <2> QED BY <2>2, <2>3
<1>3. \* the unwind
      /\ RecoveryAgrees(n, o, w, d)
      /\ d.recovered \in [Nodes -> Quantities]
      /\ \A k \in Nodes \ {n} : d.recovered[k] = c.recovered[k]
      /\ d.recovered[n] # c.recovered[n] =>
            /\ c.recovered[n] = 0 /\ Traded(d, n) /\ Traded(d, m)
            /\ d.recovered[n] = d.trade[n] - d.trade[m]
  <2>1. c.recovered \in [Nodes -> Quantities] /\ 0 \in Quantities /\ NoTrade \notin Nat
    BY SizeAssumption DEF CycleType, Quantities
  <2>2. CASE w.closed = v.closed
    <3>1. w.unwound = v.unwound
      BY <2>2 DEF Moved, Settled
    <3>2. d.recovered = c.recovered
      BY <1>i, <2>1, <3>1
    <3>3. v.closed => v.sent /\ w.sent /\ w.filled = v.filled
      BY DEF ViewAgrees, RecoveryAgrees, Moved, Executes
    <3>4. v.closed => EveryFillKnown(o, w) /\ Excess(n, o, w) = Excess(n, o, v)
      BY <3>3 DEF ViewAgrees, RecoveryAgrees, EveryFillKnown, Excess
    <3> QED BY <2>1, <2>2, <3>1, <3>2, <3>3, <3>4 DEF ViewAgrees, RecoveryAgrees
  <2>3. CASE w.closed # v.closed
    <3> DEFINE x == Excess(n, o, w)
    <3>1. /\ ~v.closed /\ w.closed /\ w.fired /\ w.sent /\ EveryFillKnown(o, w)
          /\ w.unwound = IF x > 0 /\ x * w.spread <= Size * unit
                         THEN [v.unwound EXCEPT ![n] = x * w.spread] ELSE v.unwound
      BY <2>3 DEF Moved, Settled
    <3>2. x \in Quantities /\ x \in Nat /\ x <= Size
      BY <3>1, ExcessType, SizeAssumption DEF Quantities
    <3>3. w.spread \in Nat /\ w.spread <= unit
      BY <1>2, <3>1 DEF FillsAgree, ViewType
    <3>4. v.unwound[n] = NoTrade /\ c.recovered[n] = 0 /\ v.unwound \in [Nodes -> Nat \cup {NoTrade}]
      BY <3>1 DEF ViewAgrees, RecoveryAgrees, ViewType
    <3>5. w.filled[n] = d.trade[n] /\ w.filled[m] = d.trade[m] /\ Traded(d, n) /\ Traded(d, m)
      BY <1>0, <1>2, <3>1 DEF FillsAgree, EveryFillKnown, Traded
    <3>6. x > 0 => x = d.trade[n] - d.trade[m]
      BY <3>5 DEF Excess, m
    <3> HIDE DEF x
    <3>7. x * w.spread \in Nat /\ x * w.spread <= Size * unit
      BY <3>2, <3>3, ProductIsNat, ProductsCompare, SizeAssumption
    <3>8. w.unwound[n] # v.unwound[n] <=> x > 0
      BY <2>1, <3>1, <3>4, <3>7
    <3>9. d.recovered = [c.recovered EXCEPT ![n] = x]
      BY <1>i, <2>1, <3>2, <3>4, <3>8 DEF x
    <3>10. RecoveryAgrees(n, o, w, d)
      BY <2>1, <3>1, <3>9 DEF RecoveryAgrees, x
    <3> QED BY <2>1, <3>2, <3>4, <3>5, <3>6, <3>9, <3>10
  <2> QED BY <2>2, <2>3
<1>4. d \in CycleType
  <2>1. d = [promised |-> d.promised, refused |-> d.refused, declared |-> d.declared,
             trade |-> d.trade, recovered |-> d.recovered]
    BY DEF Happened, CycleType
  <2> QED BY <1>1, <1>2, <1>3, <2>1 DEF CycleType
<1>5. CycleSound(o, d)
  BY <1>0, <1>1, <1>2 DEF CycleSound, Traded
<1>6. OwnOnly(n, c, d)
  BY <1>1, <1>2, <1>3 DEF OwnOnly
<1>7. Contract!CycleStep(o, c, d)
  <2>1. Contract!KeepsPromises(o, c, d) /\ Contract!Declares(o, c, d)
    BY <1>1 DEF Contract!KeepsPromises, Contract!Declares, Contract!Legs, Legs
  <2>2. Contract!Trades(o, c, d)
    BY <1>2 DEF Contract!Trades, Contract!Traded, Contract!Legs, Contract!Quantities,
                Traded, Legs, Quantities
  <2>3. Contract!Recovers(o, c, d)
    BY <1>0, <1>3 DEF Contract!Recovers, Contract!Traded, Contract!Legs, Traded, Legs
  <2> QED BY <2>1, <2>2, <2>3 DEF Contract!CycleStep
<1> QED BY <1>1, <1>2, <1>3, <1>4, <1>5, <1>6, <1>7 DEF ViewAgrees

\* What one node does leaves what the other's view says true.
LEMMA OtherViewsAgree ==
    ASSUME NEW o \in Opps, NEW n \in Legs(o), NEW c \in CycleType, NEW d \in CycleType,
           OwnOnly(n, c, d),
           NEW m \in Legs(o), m # n, NEW u \in ViewType, NEW unit \in Nat,
           ViewAgrees(m, o, unit, u, c)
    PROVE  ViewAgrees(m, o, unit, u, d)
<1> m \in Nodes /\ n \in Nodes BY TwoLegs
<1>1. PromisesAgree(m, u, d)
  BY DEF ViewAgrees, PromisesAgree, OwnOnly
<1>2. d.trade[m] = c.trade[m] /\ d.recovered[m] = c.recovered[m]
  BY DEF OwnOnly
<1>3. \A k \in Nodes : u.filled[k] # NoTrade => d.trade[k] = u.filled[k]
  BY DEF ViewAgrees, FillsAgree, OwnOnly, Traded
<1>4. FillsAgree(m, unit, u, d)
  BY <1>2, <1>3 DEF ViewAgrees, FillsAgree, Traded
<1>5. RecoveryAgrees(m, o, u, d)
  BY <1>2 DEF ViewAgrees, RecoveryAgrees
<1> QED BY <1>1, <1>4, <1>5 DEF ViewAgrees

\* A token carries nothing but the cycle, to a node that never answered for it.
FrameAgrees(f, c) ==
    /\ f.from \in Legs(f.opp) /\ f.to = Other(f.opp, f.from)
    /\ f.type = "token" =>
          /\ f.from = Coordinator[f.opp] /\ f.amount = 0
          /\ f.to \notin c.promised \cup c.refused
          /\ ~Traded(c, f.to) /\ c.recovered[f.to] = 0
    /\ f.type = "reserved" => f.from \in c.promised
    /\ f.type = "fire" => c.declared
    /\ f.type = "fill" => c.trade[f.from] = f.amount

\* A frame that is true when it arrives, and admitted, leaves the view true.
LEMMA ArrivalAgrees ==
    ASSUME NEW f \in FrameType, NEW c \in CycleType, FrameAgrees(f, c), f.type # "token",
           NEW v \in ViewType, NEW unit \in Nat, ViewAgrees(f.to, f.opp, unit, v, c),
           NEW bound, Admits(v, f, bound)
    PROVE  LET w == Applied(v, f)
           IN  /\ w \in ViewType /\ ViewAgrees(f.to, f.opp, unit, w, c)
               /\ (f.to \in w.held <=> f.to \in v.held) /\ w.sent = v.sent
               /\ v.fired => w.fired
<1> DEFINE o == f.opp
           n == f.to
           m == f.from
           w == Applied(v, f)
<1>0. /\ o \in Opps /\ m \in Legs(o) /\ n = Other(o, m) /\ n \in Legs(o) /\ m # n
      /\ n \in Nodes /\ m \in Nodes /\ Legs(o) = {n, m} /\ Other(o, n) = m
      /\ f.amount \in Nat
  BY TwoLegs DEF FrameAgrees, FrameType
<1>1. f.type \in {"reserved", "declined", "fire", "fill", "unwind"}
  BY DEF FrameType, FrameTypes
<1>2. CASE f.type = "reserved"
  <2>1. w = [v EXCEPT !.held = @ \cup {m}]
    BY <1>2 DEF Applied
  <2> QED BY <1>0, <1>2, <2>1 DEF ViewType, ViewAgrees, PromisesAgree, FillsAgree,
             RecoveryAgrees, EveryFillKnown, Excess, FrameAgrees
<1>3. CASE f.type = "declined"
  <2>1. w = [v EXCEPT !.held = @ \ {m}, !.declined = @ \cup {m}] /\ ~v.fired
    BY <1>3 DEF Applied, Admits
  <2>2. /\ w \in ViewType /\ w.fired = v.fired /\ w.filled = v.filled
        /\ w.held = v.held \ {m} /\ w.attempted = v.attempted /\ w.sent = v.sent
        /\ w.spread = v.spread /\ w.closed = v.closed /\ w.unwound = v.unwound
    <3> DEFINE held == v.held \ {m}
               declined == v.declined \cup {m}
    <3>1. held \in SUBSET Nodes /\ declined \in SUBSET Nodes
      BY <1>0 DEF ViewType
    <3>2. w = [v EXCEPT !.held = held, !.declined = declined]
      BY <2>1 DEF ViewType
    <3>3. held = v.held \ {m}
      OBVIOUS
    <3> HIDE DEF held, declined
    <3> QED BY <3>1, <3>2, <3>3 DEF ViewType
  <2> QED BY <1>0, <2>1, <2>2 DEF ViewAgrees, PromisesAgree, FillsAgree,
             RecoveryAgrees, EveryFillKnown, Excess
<1>4. CASE f.type = "fire"
  <2>1. w = [v EXCEPT !.fired = TRUE] /\ n \in v.held /\ c.declared
    BY <1>0, <1>4 DEF Applied, Admits, EveryLegReserved, FrameAgrees
  <2>2. /\ w \in ViewType /\ w.fired /\ w.filled = v.filled
        /\ w.held = v.held /\ w.attempted = v.attempted /\ w.sent = v.sent
        /\ w.spread = v.spread /\ w.closed = v.closed /\ w.unwound = v.unwound
    BY <2>1 DEF ViewType
  <2> QED BY <1>0, <2>1, <2>2 DEF ViewAgrees, PromisesAgree, FillsAgree,
             RecoveryAgrees, EveryFillKnown, Excess
<1>5. CASE f.type = "fill"
  <2>1. w = [v EXCEPT !.filled[m] = f.amount] /\ f.amount \in Quantities
    BY <1>0, <1>5, SizeAssumption DEF Applied, Admits, Quantities
  <2>2. c.trade[m] = f.amount
    BY <1>5 DEF FrameAgrees
  <2>3. /\ w \in ViewType /\ w.filled = [v.filled EXCEPT ![m] = f.amount]
        /\ w.held = v.held /\ w.attempted = v.attempted /\ w.fired = v.fired /\ w.sent = v.sent
        /\ w.spread = v.spread /\ w.closed = v.closed /\ w.unwound = v.unwound
    BY <1>0, <2>1 DEF ViewType
  <2>4. PromisesAgree(n, w, c) /\ FillsAgree(n, unit, w, c)
    BY <1>0, <2>2, <2>3 DEF ViewAgrees, PromisesAgree, FillsAgree, ViewType
  <2>5. v.closed => w.filled = v.filled
    <3>1. v.closed => v.filled[m] = f.amount
      BY <1>0, <2>2 DEF ViewAgrees, RecoveryAgrees, FillsAgree, EveryFillKnown
    <3> QED BY <2>3, <3>1, <1>0 DEF ViewType
  <2>6. RecoveryAgrees(n, o, w, c)
    BY <2>3, <2>5 DEF ViewAgrees, RecoveryAgrees, EveryFillKnown, Excess
  <2> QED BY <2>3, <2>4, <2>6 DEF ViewAgrees
<1>6. CASE f.type = "unwind"
  <2>1. w = [v EXCEPT !.unwound[m] = f.amount]
    BY <1>0, <1>6 DEF Applied
  <2> QED BY <1>0, <2>1 DEF ViewType, ViewAgrees, PromisesAgree, FillsAgree,
             RecoveryAgrees, EveryFillKnown, Excess
<1> QED BY <1>1, <1>2, <1>3, <1>4, <1>5, <1>6
----------------------------------------------------------------------------
\* Every view is true of its cycle.
ViewsAreTrue ==
    \A n \in Nodes, o \in Opps : Holds(n, o) =>
        /\ epoch[o] # NoEpoch /\ n \in Legs(o)
        /\ ViewAgrees(n, o, epoch[o].bound[n], view[n][o], cycle[o])

\* Every frame on the wire is true of its cycle.
FramesAreTrue ==
    \A f \in net :
        /\ epoch[f.opp] # NoEpoch /\ FrameAgrees(f, cycle[f.opp])
        /\ f.type = "token" => ~Holds(f.to, f.opp)

\* Every cycle is sound, and nothing happened of an unopened one.
CyclesAreTrue ==
    \A o \in Opps :
        /\ epoch[o] = NoEpoch => cycle[o] = NoCycle
        /\ CycleSound(o, cycle[o])

\* Every reservation a view holds for its own node is in the book until sent.
BooksAreTrue ==
    \A n \in Nodes, o \in Opps :
        Holds(n, o) /\ n \in view[n][o].held /\ ~view[n][o].sent => o \in saga[n].book

\* A saga's counts agree with its endpoint and with the cycles.
CountAgrees(n) ==
    /\ \A o \in saga[n].originated :
         /\ n = Coordinator[o] /\ epoch[o] # NoEpoch
         /\ o \in saga[n].lapsed \/ o \in saga[n].open \/ cycle[o].declared
    /\ saga[n].open \cup saga[n].lapsed \subseteq saga[n].originated
    /\ \A o \in saga[n].open :
         /\ Holds(n, o) /\ o \notin saga[n].lapsed
         /\ cycle[o].declared => o \in saga[n].fired
    /\ \A o \in saga[n].lapsed : ~Holds(n, o) /\ ~cycle[o].declared
    /\ \A o \in saga[n].fired : cycle[o].declared
CountsAreTrue == \A n \in Nodes : CountAgrees(n)

\* The inductive invariant.
MeshInv ==
    TypeOK /\ ViewsAreTrue /\ FramesAreTrue /\ CyclesAreTrue /\ BooksAreTrue /\ CountsAreTrue

\* It holds at first.
LEMMA InitMesh == Init => MeshInv
<1> SUFFICES ASSUME Init PROVE MeshInv
  OBVIOUS
<1>1. NoCycle \in CycleType
  BY SizeAssumption DEF NoCycle, CycleType, Quantities
<1>2. FreshSaga \in SagaType
  BY DEF FreshSaga, SagaType
<1>3. TypeOK
  BY <1>1, <1>2, TimesAssumption DEF Init, TypeOK
<1>4. \A o \in Opps : CycleSound(o, NoCycle)
  BY DEF CycleSound, NoCycle, Traded
<1>5. \A n \in Nodes, o \in Opps : ~Holds(n, o)
  BY DEF Init, Holds
<1>6. CountsAreTrue
  BY DEF Init, CountsAreTrue, CountAgrees, FreshSaga
<1> QED BY <1>3, <1>4, <1>5, <1>6 DEF Init, MeshInv, ViewsAreTrue, FramesAreTrue,
           CyclesAreTrue, BooksAreTrue

\* Time keeps it.
LEMMA TickKeeps == MeshInv /\ Tick => MeshInv'
BY TimesAssumption DEF Tick, MeshInv, TypeOK, ViewsAreTrue, FramesAreTrue, CyclesAreTrue, BooksAreTrue,
   CountsAreTrue, CountAgrees, Holds

\* Losing a frame keeps it.
LEMMA LoseKeeps == ASSUME NEW f \in net, MeshInv, Lose(f) PROVE MeshInv'
BY TimesAssumption DEF Lose, MeshInv, TypeOK, ViewsAreTrue, FramesAreTrue, CyclesAreTrue, BooksAreTrue,
   CountsAreTrue, CountAgrees, Holds

\* A restart, which forgets every view and hold of a node, keeps it.
LEMMA RestartKeeps == ASSUME NEW n \in Nodes, MeshInv, Restart(n) PROVE MeshInv'
<1>1. TypeOK'
  BY TimesAssumption DEF Restart, MeshInv, TypeOK, FreshSaga, SagaType
<1>2. /\ \A o \in Opps : ~Holds(n, o)'
      /\ \A m \in Nodes \ {n} : view'[m] = view[m] /\ saga'[m] = saga[m]
      /\ saga'[n] = FreshSaga
      /\ epoch' = epoch /\ cycle' = cycle /\ net' = net
  BY DEF Restart, MeshInv, TypeOK, Holds
<1>3. \A m \in Nodes, o \in Opps : Holds(m, o)' => m # n /\ Holds(m, o)
  BY <1>2 DEF Holds
<1>4. ViewsAreTrue' /\ BooksAreTrue'
  BY <1>2, <1>3 DEF MeshInv, ViewsAreTrue, BooksAreTrue
<1>5. FramesAreTrue' /\ CyclesAreTrue'
  <2>1. \A f \in net : f.to \in Nodes /\ f.opp \in Opps
    BY DEF MeshInv, TypeOK, FrameType
  <2> QED BY <1>2, <1>3, <2>1 DEF MeshInv, FramesAreTrue, CyclesAreTrue
<1>6. CountsAreTrue'
  <2> SUFFICES ASSUME NEW m \in Nodes PROVE CountAgrees(m)'
    BY DEF CountsAreTrue
  <2>1. CASE m = n
    BY <1>2, <2>1 DEF FreshSaga, CountAgrees
  <2>2. CASE m # n
    <3>1. saga'[m] = saga[m] /\ \A o \in Opps : Holds(m, o)' <=> Holds(m, o)
      BY <1>2, <2>2 DEF Holds
    <3>2. saga[m].open \subseteq Opps /\ saga[m].lapsed \subseteq Opps
      BY DEF MeshInv, TypeOK, SagaType
    <3> QED BY <1>2, <3>1, <3>2 DEF MeshInv, CountsAreTrue, CountAgrees
  <2> QED BY <2>1, <2>2
<1> QED BY <1>1, <1>4, <1>5, <1>6 DEF MeshInv

\* An arrival, in whatever order and however late, keeps it.
LEMMA ArriveKeeps ==
    ASSUME NEW f \in net, NEW clocked, MeshInv, Arrive(f, clocked)
    PROVE  MeshInv'
<1> DEFINE n == f.to
           o == f.opp
           m == f.from
<1>0. /\ f \in FrameType /\ n \in Nodes /\ o \in Opps /\ m \in Legs(o) /\ epoch[o] # NoEpoch
      /\ FrameAgrees(f, cycle[o]) /\ n = Other(o, m) /\ n \in Legs(o) /\ m # n
      /\ f.type = "token" => ~Holds(n, o)
  BY TwoLegs DEF MeshInv, TypeOK, FramesAreTrue, FrameAgrees, FrameType
<1>1. /\ now' = now /\ epoch' = epoch /\ saga' = saga /\ cycle' = cycle /\ faults' = faults
      /\ net' = net \ {f}
  BY DEF Arrive
<1>2. /\ epoch \in [Opps -> EpochType \cup {NoEpoch}]
      /\ view \in [Nodes -> [Opps -> ViewType \cup {NoView}]]
      /\ cycle \in [Opps -> CycleType]
  BY DEF MeshInv, TypeOK
<1>3. epoch[o] \in EpochType /\ epoch[o].bound[n] \in Nat
  BY <1>0, <1>2 DEF EpochType
<1>4. CASE ~Accepts(n, f, clocked)
  <2>1. view' = view
    BY <1>4 DEF Arrive
  <2> QED BY <1>1, <2>1 DEF MeshInv, TypeOK, ViewsAreTrue, FramesAreTrue, CyclesAreTrue,
             BooksAreTrue, CountsAreTrue, CountAgrees, Holds
<1>5. CASE Accepts(n, f, clocked)
  <2> DEFINE w == view'[n][o]
  <2>1. /\ view' \in [Nodes -> [Opps -> ViewType \cup {NoView}]] /\ w \in ViewType
        /\ ViewAgrees(n, o, epoch[o].bound[n], w, cycle[o])
        /\ \A k \in Nodes, p \in Opps : k # n \/ p # o => view'[k][p] = view[k][p]
        /\ n \in w.held /\ ~w.sent => Holds(n, o) /\ n \in view[n][o].held /\ ~view[n][o].sent
    <3>1. CASE f.type = "token"
      <4>1. view' = [view EXCEPT ![n][o] = FreshView]
        BY <1>5, <3>1 DEF Arrive
      <4>2. FreshView \in ViewType
        BY DEF FreshView, ViewType
      <4>3. /\ w = FreshView /\ view' \in [Nodes -> [Opps -> ViewType \cup {NoView}]]
            /\ \A k \in Nodes, p \in Opps : k # n \/ p # o => view'[k][p] = view[k][p]
        BY <1>0, <1>2, <4>1, <4>2
      <4>4. ViewAgrees(n, o, epoch[o].bound[n], FreshView, cycle[o])
        BY <1>0, <3>1 DEF ViewAgrees, PromisesAgree, FillsAgree, RecoveryAgrees, FreshView,
                          FrameAgrees
      <4> QED BY <4>2, <4>3, <4>4 DEF FreshView
    <3>2. CASE f.type # "token"
      <4> DEFINE v == view[n][o]
      <4>1. Holds(n, o) /\ Admits(v, f, epoch[o].bound)
        BY <1>5, <3>2 DEF Accepts
      <4>2. v \in ViewType /\ ViewAgrees(n, o, epoch[o].bound[n], v, cycle[o])
        BY <1>0, <1>2, <4>1 DEF Holds, MeshInv, ViewsAreTrue
      <4>3. cycle[o] \in CycleType
        BY <1>0, <1>2
      <4>4. /\ Applied(v, f) \in ViewType
            /\ ViewAgrees(n, o, epoch[o].bound[n], Applied(v, f), cycle[o])
            /\ n \in Applied(v, f).held <=> n \in v.held
            /\ Applied(v, f).sent = v.sent
        BY <1>0, <1>3, <3>2, <4>1, <4>2, <4>3, ArrivalAgrees
      <4>5. view' = [view EXCEPT ![n][o] = Applied(v, f)]
        BY <1>5, <3>2 DEF Arrive
      <4> HIDE DEF v
      <4>6. /\ w = Applied(v, f) /\ view' \in [Nodes -> [Opps -> ViewType \cup {NoView}]]
            /\ \A k \in Nodes, p \in Opps : k # n \/ p # o => view'[k][p] = view[k][p]
        BY <1>0, <1>2, <4>4, <4>5
      <4>7. v = view[n][o]
        BY DEF v
      <4> QED BY <4>1, <4>4, <4>6, <4>7
    <3> QED BY <3>1, <3>2
  <2> HIDE DEF w
  <2>2. w = view'[n][o] /\ w # NoView
    BY <2>1, ViewAssumption DEF w
  <2>3. /\ Holds(n, o)'
        /\ \A k \in Nodes, p \in Opps : k # n \/ p # o => (Holds(k, p)' <=> Holds(k, p))
        /\ \A k \in Nodes, p \in Opps : Holds(k, p) => Holds(k, p)'
    BY <1>0, <2>1, <2>2 DEF Holds
  <2>4. TypeOK'
    BY <1>1, <2>1 DEF MeshInv, TypeOK
  <2>5. ViewsAreTrue'
    <3> SUFFICES ASSUME NEW k \in Nodes, NEW p \in Opps, Holds(k, p)'
                 PROVE  /\ epoch[p] # NoEpoch /\ k \in Legs(p)
                        /\ ViewAgrees(k, p, epoch[p].bound[k], view'[k][p], cycle[p])
      BY <1>1 DEF ViewsAreTrue
    <3>1. CASE k = n /\ p = o
      BY <1>0, <2>1, <2>2, <3>1
    <3>2. CASE k # n \/ p # o
      BY <2>1, <2>3, <3>2 DEF MeshInv, ViewsAreTrue
    <3> QED BY <3>1, <3>2
  <2>6. FramesAreTrue'
    <3> SUFFICES ASSUME NEW g \in net, g # f
                 PROVE  /\ epoch[g.opp] # NoEpoch /\ FrameAgrees(g, cycle[g.opp])
                        /\ g.type = "token" => ~Holds(g.to, g.opp)'
      BY <1>1 DEF FramesAreTrue
    <3>1. /\ epoch[g.opp] # NoEpoch /\ FrameAgrees(g, cycle[g.opp])
          /\ g.type = "token" => ~Holds(g.to, g.opp)
          /\ g \in FrameType
      BY DEF MeshInv, TypeOK, FramesAreTrue
    <3>2. g.opp \in Opps /\ g.to \in Nodes
      BY <3>1 DEF FrameType
    <3>3. ASSUME g.type = "token", g.to = n, g.opp = o PROVE FALSE
      <4>1. f.type = "token"
        BY <1>5, <3>1, <3>3 DEF Accepts
      <4>2. g.from = f.from /\ g.amount = f.amount
        BY <1>0, <3>1, <3>3, <4>1 DEF FrameAgrees
      <4> QED BY <1>0, <3>1, <3>3, <4>1, <4>2 DEF FrameType
    <3> QED BY <2>3, <3>1, <3>2, <3>3
  <2>7. CyclesAreTrue'
    BY <1>1 DEF MeshInv, CyclesAreTrue
  <2>8. BooksAreTrue'
    BY <1>1, <2>1, <2>2, <2>3 DEF MeshInv, BooksAreTrue
  <2>9. CountsAreTrue'
    <3> SUFFICES ASSUME NEW k \in Nodes PROVE CountAgrees(k)'
      BY DEF CountsAreTrue
    <3>1. CountAgrees(k) /\ saga[k] \in SagaType
      BY DEF MeshInv, TypeOK, CountsAreTrue
    <3>2. ASSUME NEW p \in saga[k].lapsed PROVE ~Holds(k, p)'
      <4>1. p \in Opps /\ k = Coordinator[p] /\ ~Holds(k, p)
        BY <3>1 DEF CountAgrees, SagaType
      <4>2. ~(k = n /\ p = o)
        <5>1. CASE f.type = "token"
          BY <1>0, <4>1, <5>1 DEF FrameAgrees
        <5>2. CASE f.type # "token"
          BY <1>5, <4>1, <5>2 DEF Accepts
        <5> QED BY <5>1, <5>2
      <4> QED BY <2>3, <4>1, <4>2
    <3>3. \A p \in saga[k].open : p \in Opps
      BY <3>1 DEF SagaType
    <3> QED BY <1>1, <2>3, <3>1, <3>2, <3>3 DEF CountAgrees
  <2> QED BY <2>4, <2>5, <2>6, <2>7, <2>8, <2>9 DEF MeshInv
<1> QED BY <1>4, <1>5
----------------------------------------------------------------------------
\* What Turns lets a turn read.
Inputs(n, i) ==
    /\ i.authority \in Authorities \cup {NoAuthority} /\ i.spread \in Spreads
    /\ i.opening \subseteq Unused(n) /\ i.taken \subseteq Working(n, i)

\* Every turn has such inputs.
LEMMA TurnHasInputs ==
    ASSUME NEW n \in Nodes, Turns(n)
    PROVE  \E i : Inputs(n, i) /\ Turn(n, i)
<1>1. PICK a \in Authorities \cup {NoAuthority}, clocked \in SUBSET (Nodes \ {n}),
           spread \in Spreads, opening \in SUBSET Unused(n) :
        \E priced \in SUBSET (Remembered(n) \cup opening) :
            \E taken \in SUBSET priced :
                /\ opening \subseteq priced
                /\ Turn(n, [authority |-> a, clocked |-> clocked, spread |-> spread,
                            opening |-> opening, priced |-> priced, taken |-> taken])
  BY DEF Turns
<1>2. PICK priced \in SUBSET (Remembered(n) \cup opening) :
            \E taken \in SUBSET priced :
                /\ opening \subseteq priced
                /\ Turn(n, [authority |-> a, clocked |-> clocked, spread |-> spread,
                            opening |-> opening, priced |-> priced, taken |-> taken])
  BY <1>1
<1>3. PICK taken \in SUBSET priced :
                Turn(n, [authority |-> a, clocked |-> clocked, spread |-> spread,
                            opening |-> opening, priced |-> priced, taken |-> taken])
  BY <1>2
<1> DEFINE i == [authority |-> a, clocked |-> clocked, spread |-> spread,
                 opening |-> opening, priced |-> priced, taken |-> taken]
<1>4. Inputs(n, i)
  BY DEF Inputs, Working
<1> QED BY <1>3, <1>4

\* What a turn does to one cycle it works on.
LEMMA TurnWorks ==
    ASSUME NEW n \in Nodes, NEW i, MeshInv, Inputs(n, i), Turn(n, i), NEW o \in Working(n, i)
    PROVE  LET v == Before(n, i, o)
               w == view'[n][o]
               a == AuthorityFor(i, o)
           IN  /\ o \in Opps /\ n \in Legs(o) /\ epoch'[o] \in EpochType
               /\ o \notin i.opening => epoch'[o] = epoch[o] /\ Holds(n, o) /\ v = view[n][o]
               /\ o \in i.opening => v = FreshView /\ epoch[o] = NoEpoch /\ n = Coordinator[o]
               /\ v \in ViewType /\ w \in ViewType
               /\ w = After(n, i, o) /\ cycle'[o] = Happened(n, o, cycle[o], v, w, a)
               /\ ViewAgrees(n, o, epoch'[o].bound[n], v, cycle[o])
               /\ Moved(n, o, v, w, a, epoch'[o].bound[n], o \in i.taken)
               /\ cycle'[o] \in CycleType /\ CycleSound(o, cycle'[o])
               /\ ViewAgrees(n, o, epoch'[o].bound[n], w, cycle'[o])
               /\ OwnOnly(n, cycle[o], cycle'[o])
               /\ Contract!CycleStep(o, cycle[o], cycle'[o])
<1> DEFINE v == Before(n, i, o)
           w == view'[n][o]
           a == AuthorityFor(i, o)
           unit == epoch'[o].bound[n]
<1>1. /\ o \in Opps /\ (o \in i.opening \/ Holds(n, o))
      /\ o \in i.opening => Coordinator[o] = n /\ epoch[o] = NoEpoch
  BY DEF Working, Remembered, Inputs, Unused
<1>2. /\ epoch \in [Opps -> EpochType \cup {NoEpoch}]
      /\ view \in [Nodes -> [Opps -> ViewType \cup {NoView}]]
      /\ cycle \in [Opps -> CycleType]
  BY DEF MeshInv, TypeOK
<1>3. epoch'[o] = IF o \in i.opening THEN Opened(n, i, o) ELSE epoch[o]
  BY <1>1 DEF Turn, EpochsAfter
<1>6. /\ n \in Legs(o) /\ v \in ViewType /\ epoch'[o] \in EpochType
      /\ ViewAgrees(n, o, unit, v, cycle[o])
  <2>1. CASE o \in i.opening
    <3>1. i.authority \in AuthorityType
      BY <2>1, AuthoritiesAssumption DEF Turn, MayOpen, Inputs
    <3>2. Clock(n) + Ttl \in Nat
      BY TimesAssumption DEF Clock, MeshInv, TypeOK
    <3>3. /\ \A k \in Nodes : (IF k = n THEN i.authority.spread
                              ELSE IF k = Counterparty[o] THEN i.spread ELSE 0) \in Nat
      BY <3>1, AuthoritiesAssumption DEF AuthorityType, Inputs
    <3>4. Opened(n, i, o) \in EpochType
      BY <3>2, <3>3 DEF Opened, EpochType
    <3>5. v = FreshView /\ FreshView \in ViewType
      BY <2>1 DEF Before, FreshView, ViewType
    <3>6. cycle[o] = NoCycle
      BY <1>1, <2>1 DEF MeshInv, CyclesAreTrue
    <3>7. ViewAgrees(n, o, unit, FreshView, NoCycle)
      BY DEF ViewAgrees, PromisesAgree, FillsAgree, RecoveryAgrees, FreshView, NoCycle, Traded
    <3>8. n \in Legs(o) /\ epoch'[o] = Opened(n, i, o)
      BY <1>1, <1>3, <2>1 DEF Legs
    <3> HIDE DEF unit, v
    <3> QED BY <3>4, <3>5, <3>6, <3>7, <3>8
  <2>2. CASE o \notin i.opening
    <3>1. v = view[n][o] /\ epoch'[o] = epoch[o] /\ Holds(n, o)
      BY <1>1, <1>3, <2>2 DEF Before
    <3>2. v \in ViewType
      BY <1>1, <1>2, <3>1 DEF Holds
    <3>3. epoch[o] # NoEpoch /\ n \in Legs(o) /\ ViewAgrees(n, o, unit, v, cycle[o])
      BY <1>1, <3>1 DEF MeshInv, ViewsAreTrue
    <3>4. epoch[o] \in EpochType
      BY <1>1, <1>2, <3>3
    <3> HIDE DEF unit, v
    <3> QED BY <3>1, <3>2, <3>3, <3>4
  <2> QED BY <2>1, <2>2
<1>7. unit \in Nat
  BY <1>6 DEF EpochType
<1>8. cycle[o] \in CycleType /\ CycleSound(o, cycle[o])
  BY <1>1, <1>2 DEF MeshInv, CyclesAreTrue
<1>9. a \in AuthorityType \cup {NoAuthority}
  BY AuthoritiesAssumption DEF AuthorityFor, Inputs
<1>10. w = After(n, i, o)
  BY <1>1, <1>2 DEF Turn
<1>11. Unit(n, i, o) = unit
  BY DEF Unit, Turn
<1>12. w \in ViewType /\ Moved(n, o, v, w, a, unit, o \in i.taken)
  <2> DEFINE taken == o \in i.taken
             clocked == Measured(n, o, i.clocked)
  <2>1. w = Stepped(n, o, v, a, unit, taken, clocked)
    BY <1>10, <1>11 DEF After
  <2>2. taken \in BOOLEAN /\ clocked \in BOOLEAN
    BY DEF Measured
  <2> HIDE DEF taken, clocked, v, w, a, unit
  <2>3. w \in ViewType /\ Moved(n, o, v, w, a, unit, taken)
    BY <1>1, <1>6, <1>7, <1>9, <2>1, <2>2, StepMoves
  <2> QED BY <2>3 DEF taken
<1>13. cycle'[o] = Happened(n, o, cycle[o], v, w, a)
  BY <1>1, <1>10 DEF Turn
<1>14. /\ cycle'[o] \in CycleType /\ CycleSound(o, cycle'[o])
       /\ ViewAgrees(n, o, unit, w, cycle'[o])
       /\ OwnOnly(n, cycle[o], cycle'[o])
       /\ Contract!CycleStep(o, cycle[o], cycle'[o])
  <2> DEFINE taken == o \in i.taken
  <2>1. taken \in BOOLEAN /\ Moved(n, o, v, w, a, unit, taken)
    BY <1>12
  <2> HIDE DEF taken, v, w, a, unit
  <2> QED BY <1>1, <1>6, <1>7, <1>8, <1>9, <1>12, <1>13, <2>1, StepKeepsCycle
<1>15. /\ o \notin i.opening => epoch'[o] = epoch[o] /\ Holds(n, o) /\ v = view[n][o]
       /\ o \in i.opening => v = FreshView /\ epoch[o] = NoEpoch /\ n = Coordinator[o]
  BY <1>1, <1>3 DEF Before
<1> HIDE DEF v, w, a, unit
<1> QED BY <1>1, <1>6, <1>10, <1>12, <1>13, <1>14, <1>15 DEF v, w, a, unit

\* What a turn leaves alone.
LEMMA TurnLeaves ==
    ASSUME NEW n \in Nodes, NEW i, MeshInv, Inputs(n, i), Turn(n, i)
    PROVE  /\ now' = now /\ faults' = faults
           /\ view' \in [Nodes -> [Opps -> ViewType \cup {NoView}]]
           /\ epoch' \in [Opps -> EpochType \cup {NoEpoch}]
           /\ cycle' \in [Opps -> CycleType]
           /\ \A m \in Nodes \ {n} : view'[m] = view[m] /\ saga'[m] = saga[m]
           /\ \A o \in Opps \ Working(n, i) :
                 view'[n][o] = NoView /\ cycle'[o] = cycle[o] /\ epoch'[o] = epoch[o]
           /\ \A o \in Working(n, i) : Holds(n, o)'
           /\ \A m \in Nodes \ {n}, o \in Opps : Holds(m, o)' <=> Holds(m, o)
           /\ \A o \in Opps : epoch[o] # NoEpoch => epoch'[o] = epoch[o]
<1>1. /\ epoch \in [Opps -> EpochType \cup {NoEpoch}]
      /\ view \in [Nodes -> [Opps -> ViewType \cup {NoView}]]
      /\ cycle \in [Opps -> CycleType] /\ saga \in [Nodes -> SagaType]
  BY DEF MeshInv, TypeOK
<1>2. now' = now /\ faults' = faults
  BY DEF Turn
<1>3. \A m \in Nodes \ {n} : view'[m] = view[m] /\ saga'[m] = saga[m]
  BY <1>1 DEF Turn
<1>4. \A o \in Opps \ Working(n, i) :
                 view'[n][o] = NoView /\ cycle'[o] = cycle[o] /\ epoch'[o] = epoch[o]
  BY <1>1 DEF Turn, EpochsAfter, Working
<1>5. \A o \in Working(n, i) :
        /\ view'[n][o] \in ViewType /\ epoch'[o] \in EpochType /\ cycle'[o] \in CycleType
        /\ epoch[o] # NoEpoch => epoch'[o] = epoch[o]
  BY TurnWorks
<1>6. view' \in [Nodes -> [Opps -> ViewType \cup {NoView}]]
  <2>1. view' = [view EXCEPT ![n] =
                    [o \in Opps |-> IF o \in Working(n, i) THEN After(n, i, o) ELSE NoView]]
    BY DEF Turn
  <2>2. \A o \in Working(n, i) : After(n, i, o) \in ViewType
    BY TurnWorks
  <2> QED BY <1>1, <2>1, <2>2
<1>7. epoch' \in [Opps -> EpochType \cup {NoEpoch}]
  <2>1. epoch' = [o \in Opps |-> IF o \in i.opening THEN Opened(n, i, o) ELSE epoch[o]]
    BY DEF Turn, EpochsAfter
  <2> QED BY <1>1, <1>4, <1>5, <2>1
<1>8. cycle' \in [Opps -> CycleType]
  <2>1. /\ cycle' = [o \in Opps |-> cycle'[o]]
        /\ \A o \in Opps : cycle'[o] \in CycleType
    BY <1>1, <1>4, <1>5 DEF Turn
  <2> QED BY <2>1
<1>9. \A o \in Working(n, i) : Holds(n, o)'
  BY <1>5, ViewAssumption DEF Holds
<1>10. \A m \in Nodes \ {n}, o \in Opps : Holds(m, o)' <=> Holds(m, o)
  BY <1>3 DEF Holds
<1>11. \A o \in Opps : epoch[o] # NoEpoch => epoch'[o] = epoch[o]
  BY <1>4, <1>5
<1> QED BY <1>2, <1>3, <1>4, <1>6, <1>7, <1>8, <1>9, <1>10, <1>11

\* A turn keeps the types.
LEMMA TurnKeepsTypes ==
    ASSUME NEW n \in Nodes, NEW i, MeshInv, Inputs(n, i), Turn(n, i)
    PROVE  TypeOK'
<1>1. saga' \in [Nodes -> SagaType]
  <2>1. \A o \in Working(n, i) : o \in Opps
    BY TurnWorks
  <2>2. saga \in [Nodes -> SagaType] /\ saga[n] \in SagaType
    BY DEF MeshInv, TypeOK
  <2>3. /\ i.opening \subseteq Opps /\ i.taken \subseteq Opps
        /\ StillOpen(n) \subseteq Opps /\ HeldOver(n, i) \subseteq Opps
        /\ Lapsed(n) \subseteq Opps /\ Fires(n, i) \subseteq Opps
    BY <2>1, <2>2 DEF Inputs, Unused, StillOpen, HeldOver, Lapsed, Fires, SagaType
  <2>4. PICK after : /\ saga' = [saga EXCEPT ![n] = after]
                    /\ after = [open |-> StillOpen(n) \cup i.opening,
             fired |-> (saga[n].fired \cap Remembered(n)) \cup Fires(n, i),
             book |-> {o \in HeldOver(n, i) \cup i.taken :
                          o \in Working(n, i) => ~After(n, i, o).sent},
             originated |-> saga[n].originated \cup i.opening,
             lapsed |-> saga[n].lapsed \cup Lapsed(n)]
    BY DEF Turn
  <2>5. after \in SagaType
    BY <2>2, <2>3, <2>4 DEF SagaType
  <2> QED BY <2>2, <2>4, <2>5
<1>2. net' \subseteq FrameType
  <2> SUFFICES ASSUME NEW o \in Working(n, i),
                      NEW f \in Told(n, o, Before(n, i, o), After(n, i, o), o \in i.opening)
               PROVE  f \in FrameType
    BY DEF Turn, MeshInv, TypeOK
  <2> DEFINE v == Before(n, i, o)
             w == After(n, i, o)
  <2>1. o \in Opps /\ n \in Legs(o) /\ v \in ViewType /\ w \in ViewType
    BY TurnWorks
  <2>2. Other(o, n) \in Nodes
    BY <2>1, TwoLegs
  <2>3. \A type \in FrameTypes, amount \in Nat : Frame(type, o, n, amount) \in FrameType
    BY <2>1, <2>2 DEF Frame, FrameType
  <2> DEFINE a == AuthorityFor(i, o)
             unit == epoch'[o].bound[n]
  <2>m. Executes(n, v, w, a, unit) /\ Settled(n, o, v, w, unit)
    BY <2>1, TurnWorks DEF Moved
  <2>n. n \in Nodes /\ v.filled \in [Nodes -> Quantities \cup {NoTrade}]
        /\ v.unwound \in [Nodes -> Nat \cup {NoTrade}] /\ w.spread \in Nat
    BY <2>1 DEF ViewType
  <2> HIDE DEF v, w, a, unit
  <2>4. w.filled[n] # v.filled[n] => w.filled[n] \in Nat
    <3>1. w.filled[n] # v.filled[n] => a \in AuthorityType /\ w.filled[n] = Fill(a)
      BY <2>m, <2>n DEF Executes
    <3> QED BY <3>1, FillType, SizeAssumption DEF Quantities
  <2>5. w.unwound[n] # v.unwound[n] => w.unwound[n] \in Nat
    <3>1. w.unwound[n] # v.unwound[n] =>
            w.unwound[n] = Excess(n, o, w) * w.spread /\ EveryFillKnown(o, w)
      BY <2>m, <2>n DEF Settled
    <3>2. EveryFillKnown(o, w) => Excess(n, o, w) \in Nat
      BY <2>1, ExcessType, SizeAssumption DEF Quantities
    <3> QED BY <2>n, <3>1, <3>2, ProductIsNat
  <2> QED BY <2>3, <2>4, <2>5 DEF Told, When, FrameTypes, v, w
<1> QED BY <1>1, <1>2, TurnLeaves DEF MeshInv, TypeOK

\* A turn keeps every view true, the other nodes' included.
LEMMA TurnKeepsViews ==
    ASSUME NEW n \in Nodes, NEW i, MeshInv, Inputs(n, i), Turn(n, i)
    PROVE  ViewsAreTrue'
<1> SUFFICES ASSUME NEW m \in Nodes, NEW o \in Opps, Holds(m, o)'
             PROVE  /\ epoch'[o] # NoEpoch /\ m \in Legs(o)
                    /\ ViewAgrees(m, o, epoch'[o].bound[m], view'[m][o], cycle'[o])
  BY DEF ViewsAreTrue
<1>1. CASE m = n
  <2>1. o \in Working(n, i)
    BY <1>1, TurnLeaves DEF Holds
  <2> QED BY <1>1, <2>1, TurnWorks, TimesAssumption
<1>2. CASE m # n
  <2>1. Holds(m, o) /\ view'[m][o] = view[m][o]
    BY <1>2, TurnLeaves
  <2>2. /\ epoch[o] # NoEpoch /\ m \in Legs(o)
        /\ ViewAgrees(m, o, epoch[o].bound[m], view[m][o], cycle[o])
    BY <2>1 DEF MeshInv, ViewsAreTrue
  <2>3. epoch'[o] = epoch[o]
    BY <2>2, TurnLeaves
  <2>4. CASE o \notin Working(n, i)
    BY <2>1, <2>2, <2>3, <2>4, TurnLeaves
  <2>5. CASE o \in Working(n, i)
    <3> DEFINE unit == epoch[o].bound[m]
    <3>1. /\ n \in Legs(o) /\ cycle[o] \in CycleType /\ cycle'[o] \in CycleType
          /\ OwnOnly(n, cycle[o], cycle'[o])
      BY <2>5, TurnWorks DEF MeshInv, TypeOK
    <3>2. view[m][o] \in ViewType /\ unit \in Nat
      BY <2>1, <2>2 DEF MeshInv, TypeOK, Holds, EpochType
    <3> HIDE DEF unit
    <3>3. ViewAgrees(m, o, unit, view[m][o], cycle'[o])
      BY <1>2, <2>2, <3>1, <3>2, OtherViewsAgree DEF unit
    <3> QED BY <2>1, <2>2, <2>3, <3>3 DEF unit
  <2> QED BY <2>4, <2>5
<1> QED BY <1>1, <1>2

\* A turn keeps the holds of legs not sent.
LEMMA TurnKeepsBooks ==
    ASSUME NEW n \in Nodes, NEW i, MeshInv, Inputs(n, i), Turn(n, i)
    PROVE  BooksAreTrue'
<1> SUFFICES ASSUME NEW m \in Nodes, NEW o \in Opps, Holds(m, o)',
                    m \in view'[m][o].held, ~view'[m][o].sent
             PROVE  o \in saga'[m].book
  BY DEF BooksAreTrue
<1>1. CASE m = n
  <2> DEFINE v == Before(n, i, o)
             w == view'[n][o]
  <2>1. o \in Working(n, i)
    BY <1>1, TurnLeaves DEF Holds
  <2> DEFINE a == AuthorityFor(i, o)
             unit == epoch'[o].bound[n]
  <2>a. /\ w = After(n, i, o)
        /\ Reserves(n, v, w, o \in i.taken) /\ Executes(n, v, w, a, unit)
        /\ o \in i.opening => v = FreshView
        /\ o \notin i.opening => Holds(n, o) /\ v = view[n][o]
    BY <2>1, TurnWorks DEF Moved
  <2>b. v.sent => w.sent
    <3> HIDE DEF v, w, a, unit
    <3> QED BY <2>a DEF Executes
  <2>2. /\ w = After(n, i, o)
        /\ Reserves(n, v, w, o \in i.taken)
        /\ v.sent => w.sent
        /\ o \in i.opening => v = FreshView
        /\ o \notin i.opening => Holds(n, o) /\ v = view[n][o]
    BY <2>a, <2>b
  <2>3. o \in i.taken \/ o \in HeldOver(n, i)
    <3>1. CASE n \in v.held
      <4>1. o \notin i.opening
        BY <2>2, <3>1 DEF FreshView
      <4>2. o \in saga[n].book
        BY <1>1, <2>2, <3>1, <4>1 DEF MeshInv, BooksAreTrue
      <4>3. ~Expired(n, o)
        BY <2>1, <4>1 DEF Working, Remembered
      <4> QED BY <4>2, <4>3 DEF HeldOver
    <3>2. CASE n \notin v.held
      BY <1>1, <2>2, <3>2 DEF Reserves
    <3> QED BY <3>1, <3>2
  <2>4. saga'[n].book = {p \in HeldOver(n, i) \cup i.taken :
                          p \in Working(n, i) => ~After(n, i, p).sent}
    BY DEF Turn, MeshInv, TypeOK
  <2> QED BY <1>1, <2>2, <2>3, <2>4
<1>2. CASE m # n
  BY <1>2, TurnLeaves DEF MeshInv, BooksAreTrue
<1> QED BY <1>1, <1>2

\* A turn keeps the cycles sound.
LEMMA TurnKeepsCycles ==
    ASSUME NEW n \in Nodes, NEW i, MeshInv, Inputs(n, i), Turn(n, i)
    PROVE  CyclesAreTrue'
<1> SUFFICES ASSUME NEW o \in Opps
             PROVE  (epoch'[o] = NoEpoch => cycle'[o] = NoCycle) /\ CycleSound(o, cycle'[o])
  BY DEF CyclesAreTrue
<1>1. CASE o \in Working(n, i)
  BY <1>1, TurnWorks, TimesAssumption
<1>2. CASE o \notin Working(n, i)
  BY <1>2, TurnLeaves DEF MeshInv, CyclesAreTrue
<1> QED BY <1>1, <1>2

\* A sound cycle that does not move is a step of the contract.
LEMMA StandsStill ==
    ASSUME NEW o \in Opps, CycleSound(o, cycle[o])
    PROVE  Contract!CycleStep(o, cycle[o], cycle[o])
BY DEF CycleSound, Contract!CycleStep, Contract!KeepsPromises, Contract!Declares,
   Contract!Trades, Contract!Recovers, Contract!Legs, Legs

\* A turn is a step of the contract.
LEMMA TurnKeepsContract ==
    ASSUME NEW n \in Nodes, NEW i, MeshInv, Inputs(n, i), Turn(n, i)
    PROVE  Contract!ContractNext
<1>1. cycle' \in [Opps -> CycleType]
  BY TurnLeaves
<1>2. ASSUME NEW o \in Opps PROVE Contract!CycleStep(o, cycle[o], cycle'[o])
  <2>1. CASE o \in Working(n, i)
    BY <2>1, TurnWorks
  <2>2. CASE o \notin Working(n, i)
    BY <2>2, TurnLeaves, StandsStill DEF MeshInv, CyclesAreTrue
  <2> QED BY <2>1, <2>2
<1> QED BY <1>1, <1>2 DEF Contract!ContractNext, Contract!CycleType, CycleType,
           Contract!Quantities, Quantities

\* A turn sends only what is true, and keeps what is on the wire true.
LEMMA TurnKeepsFrames ==
    ASSUME NEW n \in Nodes, NEW i, MeshInv, Inputs(n, i), Turn(n, i)
    PROVE  FramesAreTrue'
<1> SUFFICES ASSUME NEW f \in net'
             PROVE  /\ epoch'[f.opp] # NoEpoch /\ FrameAgrees(f, cycle'[f.opp])
                    /\ f.type = "token" => ~Holds(f.to, f.opp)'
  BY DEF FramesAreTrue
<1>1. CASE f \in net
  <2> DEFINE o == f.opp
  <2>1. /\ epoch[o] # NoEpoch /\ FrameAgrees(f, cycle[o])
        /\ f.type = "token" => ~Holds(f.to, o)
        /\ o \in Opps /\ f.from \in Legs(o) /\ f.to = Other(o, f.from) /\ f.amount \in Nat
    BY <1>1 DEF MeshInv, TypeOK, FramesAreTrue, FrameAgrees, FrameType
  <2>2. epoch'[o] = epoch[o]
    BY <2>1, TurnLeaves
  <2>3. f.to \in Nodes /\ f.from \in Nodes /\ f.to # f.from
    BY <2>1, TwoLegs
  <2>4. CASE o \notin Working(n, i)
    <3>1. f.to = n => ~Holds(f.to, o)'
      BY <2>1, <2>4, TurnLeaves DEF Holds
    <3> QED BY <2>1, <2>2, <2>3, <2>4, <3>1, TurnLeaves
  <2>5. CASE o \in Working(n, i)
    <3>1. OwnOnly(n, cycle[o], cycle'[o]) /\ (o \notin i.opening => Holds(n, o))
      BY <2>5, TurnWorks
    <3>2. o \notin i.opening
      BY <2>1, <2>5, TurnWorks
    <3>3. f.type = "token" => f.to # n
      BY <2>1, <3>1, <3>2
    <3>4. f.type = "token" => ~Holds(f.to, o)'
      BY <2>1, <2>3, <3>3, TurnLeaves
    <3>5. FrameAgrees(f, cycle'[o])
      <4>1. f.type = "fill" => Traded(cycle[o], f.from)
        BY <2>1, SizeAssumption DEF FrameAgrees, Traded
      <4> QED BY <2>1, <2>3, <3>1, <3>3, <4>1 DEF FrameAgrees, OwnOnly, Traded
    <3> QED BY <2>1, <2>2, <3>4, <3>5
  <2> QED BY <2>4, <2>5
<1>2. CASE f \notin net
  <2>1. PICK o \in Working(n, i) :
            f \in Told(n, o, Before(n, i, o), After(n, i, o), o \in i.opening)
    BY <1>2 DEF Turn
  <2> DEFINE v == Before(n, i, o)
             w == view'[n][o]
             a == AuthorityFor(i, o)
             unit == epoch'[o].bound[n]
  <2>2. /\ o \in Opps /\ n \in Legs(o) /\ epoch'[o] # NoEpoch
        /\ v \in ViewType /\ w \in ViewType /\ w = After(n, i, o)
        /\ ViewAgrees(n, o, unit, w, cycle'[o]) /\ OwnOnly(n, cycle[o], cycle'[o])
        /\ Executes(n, v, w, a, unit)
        /\ o \in i.opening => epoch[o] = NoEpoch /\ n = Coordinator[o]
    BY TurnWorks, TimesAssumption DEF Moved
  <2> HIDE DEF v, w, a, unit
  <2>3. f \in Told(n, o, v, w, o \in i.opening)
    BY <2>1, <2>2 DEF v
  <2>4. f.opp = o /\ f.from = n /\ f.to = Other(o, n) /\ f.to \in Nodes /\ f.to # n
    BY <2>2, <2>3, TwoLegs DEF Told, When, Frame
  <2>5. CASE f.type = "token"
    <3>1. o \in i.opening /\ f.amount = 0
      BY <2>3, <2>5 DEF Told, When, Frame
    <3>2. epoch[o] = NoEpoch /\ n = Coordinator[o] /\ cycle[o] = NoCycle
      BY <2>2, <3>1 DEF MeshInv, CyclesAreTrue
    <3>3. ~Holds(f.to, o)
      BY <2>2, <2>4, <3>2 DEF MeshInv, ViewsAreTrue
    <3>4. ~Holds(f.to, o)'
      BY <2>2, <2>4, <3>3, TurnLeaves
    <3> QED BY <2>2, <2>4, <2>5, <3>1, <3>2, <3>4 DEF FrameAgrees, OwnOnly, NoCycle, Traded
  <2>6. CASE f.type = "reserved"
    <3>1. n \in w.held
      BY <2>3, <2>6 DEF Told, When, Frame
    <3> QED BY <2>2, <2>4, <2>6, <3>1 DEF FrameAgrees, ViewAgrees, PromisesAgree
  <2>7. CASE f.type = "fire"
    <3>1. w.fired
      BY <2>3, <2>7 DEF Told, When, Frame
    <3> QED BY <2>2, <2>4, <2>7, <3>1 DEF FrameAgrees, ViewAgrees, PromisesAgree
  <2>8. CASE f.type = "fill"
    <3>1. w.filled[n] # v.filled[n] /\ f.amount = w.filled[n]
      BY <2>3, <2>8 DEF Told, When, Frame
    <3>2. a \in AuthorityType /\ w.filled[n] = Fill(a)
      BY <2>2, <2>4, <3>1, TwoLegs DEF Executes, ViewType
    <3>3. w.filled[n] # NoTrade
      BY <3>2, FillType, SizeAssumption DEF Quantities
    <3>4. cycle'[o].trade[n] = f.amount
      BY <2>2, <3>1, <3>3, TwoLegs DEF ViewAgrees, FillsAgree
    <3> QED BY <2>2, <2>4, <2>8, <3>4 DEF FrameAgrees
  <2>9. CASE f.type \in {"declined", "unwind"}
    BY <2>2, <2>4, <2>9 DEF FrameAgrees
  <2>10. f.type \in {"token", "reserved", "declined", "fire", "fill", "unwind"}
    BY <2>3 DEF Told, When, Frame
  <2> QED BY <2>5, <2>6, <2>7, <2>8, <2>9, <2>10
<1> QED BY <1>1, <1>2

\* A turn keeps the saga's counts.
LEMMA TurnKeepsCounts ==
    ASSUME NEW n \in Nodes, NEW i, MeshInv, Inputs(n, i), Turn(n, i)
    PROVE  CountsAreTrue'
<1>1. \A o \in Opps :
        /\ cycle[o].declared => cycle'[o].declared
        /\ cycle'[o].declared => cycle[o].declared \/ o \in Fires(n, i)
  <2> SUFFICES ASSUME NEW o \in Opps
               PROVE  /\ cycle[o].declared => cycle'[o].declared
                      /\ cycle'[o].declared => cycle[o].declared \/ o \in Fires(n, i)
    OBVIOUS
  <2>1. CASE o \notin Working(n, i)
    BY <2>1, TurnLeaves
  <2>2. CASE o \in Working(n, i)
    <3>1. /\ cycle'[o] = Happened(n, o, cycle[o], Before(n, i, o), After(n, i, o),
                                  AuthorityFor(i, o))
          /\ cycle[o] \in CycleType
      BY <2>2, TurnWorks DEF MeshInv, TypeOK
    <3>2. cycle'[o].declared = (cycle[o].declared \/
                (After(n, i, o).fired /\ ~Before(n, i, o).fired))
      BY <3>1 DEF Happened, CycleType
    <3> QED BY <2>2, <3>2 DEF Fires
  <2> QED BY <2>1, <2>2
<1>2. \A o \in Fires(n, i) : o \in Opps /\ n = Coordinator[o] /\ cycle'[o].declared
  <2> SUFFICES ASSUME NEW o \in Fires(n, i)
               PROVE  o \in Opps /\ n = Coordinator[o] /\ cycle'[o].declared
    OBVIOUS
  <2> DEFINE v == Before(n, i, o)
             w == view'[n][o]
  <2>1. o \in Working(n, i) /\ w = After(n, i, o) /\ w.fired /\ ~v.fired
    BY TurnWorks DEF Fires
  <2>2. o \in Opps /\ DeclaresFire(n, o, v, w) /\ PromisesAgree(n, w, cycle'[o])
    BY <2>1, TurnWorks DEF Moved, ViewAgrees
  <2> HIDE DEF v, w
  <2> QED BY <2>1, <2>2 DEF DeclaresFire, PromisesAgree
<1> SUFFICES ASSUME NEW m \in Nodes PROVE CountAgrees(m)'
  BY DEF CountsAreTrue
<1>3. CountAgrees(m) /\ saga[m] \in SagaType
  BY DEF MeshInv, TypeOK, CountsAreTrue
<1>4. \A o \in saga[m].originated : o \in Opps /\ epoch'[o] = epoch[o]
  BY <1>3, TurnLeaves DEF CountAgrees, SagaType
<1>5. CASE m # n
  <2>1. saga'[m] = saga[m] /\ \A o \in Opps : Holds(m, o)' <=> Holds(m, o)
    BY <1>5, TurnLeaves
  <2>2. /\ saga[m].lapsed \subseteq saga[m].originated
        /\ saga[m].open \subseteq saga[m].originated
        /\ saga[m].fired \subseteq Opps
    BY <1>3 DEF CountAgrees, SagaType
  <2>3. \A o \in saga[m].originated : cycle'[o].declared <=> cycle[o].declared
    BY <1>1, <1>2, <1>3, <1>4, <1>5 DEF CountAgrees
  <2> QED BY <1>1, <1>3, <1>4, <2>1, <2>2, <2>3 DEF CountAgrees
<1>6. CASE m = n
  <2>1. /\ saga'[n].open = StillOpen(n) \cup i.opening
        /\ saga'[n].fired = (saga[n].fired \cap Remembered(n)) \cup Fires(n, i)
        /\ saga'[n].originated = saga[n].originated \cup i.opening
        /\ saga'[n].lapsed = saga[n].lapsed \cup Lapsed(n)
    BY DEF Turn, MeshInv, TypeOK
  <2>2. \A o \in i.opening :
          /\ o \in Opps /\ o \in Working(n, i) /\ n = Coordinator[o]
          /\ epoch[o] = NoEpoch /\ epoch'[o] # NoEpoch
          /\ ~cycle[o].declared /\ o \notin saga[n].originated
    <3>1. \A o \in i.opening : o \in Working(n, i)
      BY DEF Working
    <3>2. \A o \in i.opening :
            o \in Opps /\ n = Coordinator[o] /\ epoch[o] = NoEpoch /\ epoch'[o] # NoEpoch
      BY <3>1, TurnWorks, TimesAssumption
    <3>3. \A o \in i.opening : cycle[o] = NoCycle
      BY <3>2 DEF MeshInv, CyclesAreTrue
    <3> QED BY <1>3, <1>6, <3>1, <3>2, <3>3 DEF CountAgrees, NoCycle
  <2>3. /\ saga[n].open \subseteq Opps /\ saga[n].lapsed \subseteq Opps
        /\ saga[n].open \subseteq saga[n].originated /\ saga[n].lapsed \subseteq saga[n].originated
    BY <1>3, <1>6 DEF CountAgrees, SagaType
  <2>4. StillOpen(n) \subseteq saga[n].open /\ StillOpen(n) \subseteq Remembered(n)
    BY DEF StillOpen
  <2>5. \A o \in Lapsed(n) : o \in saga[n].open /\ o \notin Remembered(n) /\ ~cycle[o].declared
    BY <1>3, <1>6 DEF Lapsed, CountAgrees
  <2>6. \A o \in saga'[n].originated :
          /\ n = Coordinator[o] /\ epoch'[o] # NoEpoch
          /\ o \in saga'[n].lapsed \/ o \in saga'[n].open \/ cycle'[o].declared
    <3> SUFFICES ASSUME NEW o \in saga[n].originated
                 PROVE  /\ n = Coordinator[o] /\ epoch'[o] # NoEpoch
                        /\ o \in saga'[n].lapsed \/ o \in saga'[n].open \/ cycle'[o].declared
      BY <2>1, <2>2
    <3>1. /\ n = Coordinator[o] /\ epoch[o] # NoEpoch /\ epoch'[o] # NoEpoch /\ o \in Opps
          /\ o \in saga[n].lapsed \/ o \in saga[n].open \/ cycle[o].declared
      BY <1>3, <1>4, <1>6 DEF CountAgrees
    <3>2. ASSUME o \in saga[n].open, o \notin Remembered(n), o \notin Lapsed(n)
          PROVE  cycle[o].declared
      BY <1>3, <1>6, <3>2 DEF Lapsed, CountAgrees
    <3> QED BY <1>1, <2>1, <3>1, <3>2 DEF StillOpen
  <2>7. saga'[n].open \cup saga'[n].lapsed \subseteq saga'[n].originated
    BY <2>1, <2>3, <2>4, <2>5
  <2>8. \A o \in saga'[n].open :
          /\ Holds(n, o)' /\ o \notin saga'[n].lapsed
          /\ cycle'[o].declared => o \in saga'[n].fired
    <3> SUFFICES ASSUME NEW o \in saga'[n].open
                 PROVE  /\ Holds(n, o)' /\ o \notin saga'[n].lapsed
                        /\ cycle'[o].declared => o \in saga'[n].fired
      OBVIOUS
    <3>1. o \in Opps /\ o \in Working(n, i)
      BY <2>1, <2>2, <2>3, <2>4 DEF Working
    <3>2. o \notin saga'[n].lapsed
      BY <1>3, <1>6, <2>1, <2>2, <2>3, <2>4, <2>5 DEF CountAgrees
    <3>3. cycle[o].declared => o \in saga[n].fired /\ o \in Remembered(n)
      BY <1>3, <1>6, <2>1, <2>2, <2>4 DEF CountAgrees
    <3> QED BY <1>1, <2>1, <3>1, <3>2, <3>3, TurnLeaves
  <2>9. \A o \in saga'[n].lapsed : ~Holds(n, o)' /\ ~cycle'[o].declared
    <3> SUFFICES ASSUME NEW o \in saga'[n].lapsed
                 PROVE  ~Holds(n, o)' /\ ~cycle'[o].declared
      OBVIOUS
    <3>1. o \in Opps /\ o \notin Remembered(n) /\ ~cycle[o].declared
      BY <1>3, <1>6, <2>1, <2>3, <2>5 DEF CountAgrees, Remembered
    <3>2. o \notin i.opening
      BY <2>1, <2>2, <2>3, <2>5
    <3>3. o \notin Working(n, i)
      BY <3>1, <3>2 DEF Working
    <3> QED BY <3>1, <3>3, TurnLeaves DEF Holds
  <2>10. \A o \in saga'[n].fired : cycle'[o].declared
    <3>1. \A o \in saga[n].fired : o \in Opps /\ cycle[o].declared
      BY <1>3, <1>6 DEF CountAgrees, SagaType
    <3> QED BY <1>1, <1>2, <2>1, <3>1
  <2> QED BY <1>6, <2>6, <2>7, <2>8, <2>9, <2>10 DEF CountAgrees
<1> QED BY <1>5, <1>6

\* A turn keeps the invariant.
LEMMA TurnKeeps ==
    ASSUME NEW n \in Nodes, MeshInv, Turns(n)
    PROVE  MeshInv' /\ Contract!ContractNext
<1>1. PICK i : Inputs(n, i) /\ Turn(n, i)
  BY TurnHasInputs
<1> QED BY <1>1, TurnKeepsTypes, TurnKeepsViews, TurnKeepsFrames, TurnKeepsCycles,
           TurnKeepsBooks, TurnKeepsCounts, TurnKeepsContract DEF MeshInv

\* The invariant is inductive, and every step is one the contract allows.
LEMMA NextKeeps ==
    ASSUME MeshInv, [Next]_vars
    PROVE  MeshInv' /\ [Contract!ContractNext]_cycle
<1>1. CASE Tick
  BY <1>1, TickKeeps DEF Tick
<1>2. ASSUME NEW f \in net, Lose(f) PROVE MeshInv' /\ UNCHANGED cycle
  BY <1>2, LoseKeeps DEF Lose
<1>3. ASSUME NEW f \in net, NEW clocked, Arrive(f, clocked) PROVE MeshInv' /\ UNCHANGED cycle
  BY <1>3, ArriveKeeps DEF Arrive
<1>4. ASSUME NEW n \in Nodes, Restart(n) PROVE MeshInv' /\ UNCHANGED cycle
  BY <1>4, RestartKeeps DEF Restart
<1>5. ASSUME NEW n \in Nodes, Turns(n) PROVE MeshInv' /\ Contract!ContractNext
  BY <1>5, TurnKeeps
<1>6. CASE UNCHANGED vars
  BY <1>6 DEF vars, MeshInv, TypeOK, ViewsAreTrue, FramesAreTrue, CyclesAreTrue, BooksAreTrue,
     CountsAreTrue, CountAgrees, Holds
<1> QED BY <1>1, <1>2, <1>3, <1>4, <1>5, <1>6 DEF Next

\* MeshInv always holds.
LEMMA MeshHolds == Spec => []MeshInv
<1>1. MeshInv /\ [Next]_vars => MeshInv'
  BY NextKeeps
<1> QED BY <1>1, InitMesh, PTL DEF Spec
----------------------------------------------------------------------------
\* The mesh keeps its types, for any number of cells, cycles and faults.
THEOREM PeerTypes == Spec => []TypeOK
<1>1. MeshInv => TypeOK
  BY DEF MeshInv
<1> QED BY <1>1, MeshHolds, PTL

\* PeerSaga implements PeerContract: whatever is lost, late, restarted or
\* expired, no leg trades before FIRE, no FIRE comes without both promises, and
\* nothing is given back but the excess (Saga::step, PeerEndpoint::admit).
THEOREM SagaKeepsContract == Spec => ImplementsContract
<1>1. Init => Contract!ContractInit
  BY DEF Init, Contract!ContractInit, NoCycle, Contract!NoCycle
<1>2. MeshInv /\ [Next]_vars => [Contract!ContractNext]_cycle
  BY NextKeeps
<1> QED BY <1>1, <1>2, MeshHolds, PTL DEF Spec, ImplementsContract, Contract!ContractSpec

\* A node that knows its cycle fired has sent its leg or still holds its size
\* (ReservationBook, Saga::authorise).
THEOREM CommittedLegsHeld == Spec => []FiredLegIsHeld
<1>1. MeshInv => FiredLegIsHeld
  BY DEF MeshInv, ViewsAreTrue, BooksAreTrue, ViewAgrees, PromisesAgree, FiredLegIsHeld
<1> QED BY <1>1, MeshHolds, PTL

\* Every cycle a cell opened is accounted for, and one counted as lapsed never
\* traded anywhere (Saga::forget_gone).
THEOREM CyclesCounted == Spec => []CyclesAccountedFor
<1>1. MeshInv => CyclesAccountedFor
  <2> SUFFICES ASSUME MeshInv, NEW n \in Nodes
               PROVE  /\ saga[n].open \cap saga[n].lapsed = {}
                      /\ saga[n].open \cup saga[n].lapsed \subseteq saga[n].originated
                      /\ \A o \in saga[n].originated :
                           o \in saga[n].lapsed \/ o \in saga[n].open \/ cycle[o].declared
                      /\ \A o \in saga[n].lapsed, m \in Nodes : ~Traded(cycle[o], m)
    BY DEF CyclesAccountedFor
  <2>1. CountAgrees(n) /\ saga[n].lapsed \subseteq Opps
    BY DEF MeshInv, TypeOK, CountsAreTrue, SagaType
  <2> QED BY <2>1 DEF CountAgrees, MeshInv, CyclesAreTrue, CycleSound
<1> QED BY <1>1, MeshHolds, PTL

\* A closed cycle leaves exactly the lesser fill: the declared loss always
\* covers the unwind, for any sizes and spreads (Saga::unwind, Saga::gate).
THEOREM ClosedCyclesSettle == Spec => []ClosedLeavesTheLeast
<1>1. MeshInv => ClosedLeavesTheLeast
  <2> SUFFICES ASSUME MeshInv, NEW n \in Nodes, NEW o \in Opps, Holds(n, o), view[n][o].closed
               PROVE  /\ \A m \in Legs(o) :
                           Traded(cycle[o], m) /\ Kept(n, o) <= cycle[o].trade[m]
                      /\ \E m \in Legs(o) : Kept(n, o) = cycle[o].trade[m]
    BY DEF ClosedLeavesTheLeast
  <2> DEFINE v == view[n][o]
             m == Other(o, n)
             t == cycle[o].trade
  <2>1. n \in Legs(o) /\ ViewAgrees(n, o, epoch[o].bound[n], v, cycle[o])
    BY DEF MeshInv, ViewsAreTrue
  <2>2. m \in Nodes /\ Legs(o) = {n, m}
    BY <2>1, TwoLegs
  <2>3. \A k \in Legs(o) : v.filled[k] # NoTrade /\ t[k] = v.filled[k]
    BY <2>1, <2>2 DEF ViewAgrees, RecoveryAgrees, FillsAgree, EveryFillKnown
  <2>4. t[n] \in Nat /\ t[m] \in Nat
    BY <2>2, <2>3, SizeAssumption DEF MeshInv, TypeOK, CycleType, Quantities
  <2>5. cycle[o].recovered[n] = IF t[n] > t[m] THEN t[n] - t[m] ELSE 0
    BY <2>1, <2>2, <2>3 DEF ViewAgrees, RecoveryAgrees, Excess
  <2>6. Kept(n, o) = IF t[n] > t[m] THEN t[m] ELSE t[n]
    BY <2>2, <2>3, <2>4, <2>5 DEF Kept, Traded
  <2> HIDE DEF t, m
  <2> QED BY <2>2, <2>3, <2>4, <2>6 DEF Traded, t
<1> QED BY <1>1, MeshHolds, PTL

\* A book within one authority stays so while it only shrinks.
LEMMA SmallerBookFits ==
    ASSUME NEW S \in SUBSET Opps, NEW T \in SUBSET S, IsFiniteSet(Opps),
           NEW a \in AuthorityType, Cardinality(S) * Size <= a.max
    PROVE  Cardinality(T) * Size <= a.max
<1>1. IsFiniteSet(S)
  BY FS_Subset
<1>2. /\ Cardinality(S) \in Nat /\ Cardinality(T) \in Nat
      /\ Cardinality(T) <= Cardinality(S)
  <2>1. IsFiniteSet(T) /\ Cardinality(T) <= Cardinality(S)
    BY <1>1, FS_Subset
  <2> QED BY <1>1, <2>1, FS_CardinalityType
<1>3. Cardinality(T) * Size <= Cardinality(S) * Size
  BY <1>2, SizeAssumption, ProductsCompare
<1>4. Cardinality(T) * Size \in Nat /\ Cardinality(S) * Size \in Nat /\ a.max \in Nat
  BY <1>2, SizeAssumption, ProductIsNat DEF AuthorityType
<1> QED BY <1>3, <1>4

LEMMA TurnFits ==
    ASSUME MeshInv, BookWithinGrant, IsFiniteSet(Opps), NEW n \in Nodes, NEW i, Turn(n, i),
           i.authority \in Authorities \cup {NoAuthority}, i.priced \subseteq Opps,
           i.taken \subseteq Opps
    PROVE  BookWithinGrant'
<1>1. saga \in [Nodes -> SagaType]
  BY DEF MeshInv, TypeOK
<1>2. \A m \in Nodes : m # n => saga'[m] = saga[m]
  BY <1>1 DEF Turn
<1>3. saga'[n].book \subseteq HeldOver(n, i) \cup i.taken
  BY <1>1 DEF Turn, SagaType
<1>4. HeldOver(n, i) \subseteq saga[n].book /\ saga[n].book \subseteq Opps
  BY <1>1 DEF HeldOver, SagaType
<1>5. SUFFICES ASSUME saga'[n].book # {}
               PROVE  \E a \in Authorities : Cardinality(saga'[n].book) * Size <= a.max
  BY <1>2 DEF BookWithinGrant
<1>6. CASE i.taken = {}
  <2>1. PICK a \in Authorities : Cardinality(saga[n].book) * Size <= a.max
    BY <1>3, <1>4, <1>5, <1>6 DEF BookWithinGrant
  <2>2. saga'[n].book \in SUBSET saga[n].book /\ a \in AuthorityType
    BY <1>3, <1>4, <1>6, AuthoritiesAssumption
  <2> QED BY <1>4, <2>1, <2>2, SmallerBookFits
<1>7. CASE i.taken # {}
  <2>1. /\ (Cardinality(HeldOver(n, i)) + Cardinality(i.taken)) * Size <= i.authority.max
        /\ i.taken \subseteq PassesGate(n, i)
    BY <1>7 DEF Turn, Takes
  <2>2. i.authority \in Authorities /\ i.authority \in AuthorityType
    <3>1. PICK o \in i.taken : o \in PassesGate(n, i)
      BY <1>7, <2>1
    <3>2. AuthorityFor(i, o) # NoAuthority
      BY <3>1 DEF PassesGate, Gate
    <3>3. i.authority # NoAuthority
      BY <3>2 DEF AuthorityFor
    <3> QED BY <3>3, AuthoritiesAssumption
  <2> DEFINE H == HeldOver(n, i)
             K == i.taken
  <2>3. IsFiniteSet(H) /\ IsFiniteSet(K) /\ H \subseteq Opps
    <3>1. H \in SUBSET Opps /\ K \in SUBSET Opps
      BY <1>4
    <3> QED BY <3>1, FS_Subset
  <2> HIDE DEF H, K
  <2>4. /\ Cardinality(H) \in Nat /\ Cardinality(K) \in Nat /\ Cardinality(H \cap K) \in Nat
        /\ IsFiniteSet(H \cup K)
        /\ Cardinality(H \cup K) = Cardinality(H) + Cardinality(K) - Cardinality(H \cap K)
    <3>1. IsFiniteSet(H \cap K)
      <4>1. H \cap K \in SUBSET H
        OBVIOUS
      <4> QED BY <2>3, <4>1, FS_Subset
    <3>2. /\ IsFiniteSet(H \cup K)
          /\ Cardinality(H \cup K) = Cardinality(H) + Cardinality(K) - Cardinality(H \cap K)
      BY <2>3, FS_Union
    <3> QED BY <2>3, <3>1, <3>2, FS_CardinalityType
  <2>5. Cardinality(H \cup K) \in Nat
    BY <2>4, FS_CardinalityType
  <2>6. Cardinality(H \cup K) * Size <= i.authority.max
    <3>1. Cardinality(H \cup K) <= Cardinality(H) + Cardinality(K)
      BY <2>4
    <3>2. Cardinality(H \cup K) * Size <= (Cardinality(H) + Cardinality(K)) * Size
      BY <2>4, <2>5, <3>1, SizeAssumption, ProductsCompare
    <3>3. (Cardinality(H) + Cardinality(K)) * Size <= i.authority.max
      BY <2>1 DEF H, K
    <3>4. /\ Cardinality(H \cup K) * Size \in Nat
          /\ (Cardinality(H) + Cardinality(K)) * Size \in Nat
          /\ i.authority.max \in Nat
      BY <2>2, <2>4, <2>5, SizeAssumption, ProductIsNat DEF AuthorityType
    <3> QED BY <3>2, <3>3, <3>4
  <2>7. H \cup K \in SUBSET Opps /\ saga'[n].book \in SUBSET (H \cup K)
    BY <1>3, <2>3 DEF H, K
  <2>8. Cardinality(saga'[n].book) * Size <= i.authority.max
    BY <2>2, <2>6, <2>7, SmallerBookFits
  <2> QED BY <2>2, <2>8
<1> QED BY <1>6, <1>7

\* Whatever the cell's authority was cut to since, all it holds at once was
\* within one authority, for any finite number of cycles (ReservationBook).
THEOREM BooksFit ==
    ASSUME IsFiniteSet(Opps)
    PROVE  Spec => []BookWithinGrant
<1>1. Init => BookWithinGrant
  BY DEF Init, FreshSaga, BookWithinGrant
<1>2. MeshInv /\ BookWithinGrant /\ [Next]_vars => BookWithinGrant'
  <2> SUFFICES ASSUME MeshInv, BookWithinGrant, [Next]_vars PROVE BookWithinGrant'
    OBVIOUS
  <2>1. ASSUME UNCHANGED saga PROVE BookWithinGrant'
    BY <2>1 DEF BookWithinGrant
  <2>2. ASSUME NEW n \in Nodes, Restart(n) PROVE BookWithinGrant'
    BY <2>2 DEF Restart, FreshSaga, BookWithinGrant, MeshInv, TypeOK
  <2>3. ASSUME NEW n \in Nodes, Turns(n) PROVE BookWithinGrant'
    <3>1. PICK i : /\ Turn(n, i)
                   /\ i.authority \in Authorities \cup {NoAuthority}
                   /\ i.priced \subseteq Opps /\ i.taken \subseteq Opps
      BY <2>3 DEF Turns, Remembered, Unused
    <3> QED BY <3>1, TurnFits
  <2>4. Tick \/ UNCHANGED vars => UNCHANGED saga
    BY DEF Tick, vars
  <2>5. \A f \in net : Lose(f) => UNCHANGED saga
    BY DEF Lose
  <2>6. \A f \in net : \A clocked \in SUBSET {f.from} : Arrive(f, clocked) => UNCHANGED saga
    BY DEF Arrive
  <2> QED BY <2>1, <2>2, <2>3, <2>4, <2>5, <2>6 DEF Next
<1> QED BY <1>1, <1>2, MeshHolds, PTL DEF Spec
=============================================================================
