------------------------- MODULE LedgerAudit_proofs -------------------------
(***************************************************************************)
(* The audit never stops the ledger opening: for every stream, journal,    *)
(* operation and fault, the balances are the fold of what is booked.       *)
(***************************************************************************)
EXTENDS LedgerAudit, LedgerDaemon_proofs, Sums_proofs

\* The inductive invariant on top of DaemonInv.  Records and operations may be
\* infinitely many; the booked ones never are, so that their sum is one.
AuditInv ==
    /\ BalancesAreTheFold
    /\ IsFiniteSet(PaperRows)
    /\ IsFiniteSet(BookedOperations)

\* What event e moves on account a.
Change(e, a) ==
    (IF e.debit = a THEN e.amount ELSE 0) - (IF e.credit = a THEN e.amount ELSE 0)
----------------------------------------------------------------------------
(* One event more: what the fold adds is what the balances move by.        *)

LEMMA ItemFields ==
    ASSUME NEW e \in Items
    PROVE  /\ e.debit \in Accounts /\ e.credit \in Accounts /\ e.amount \in Nat
           /\ \A a \in Accounts : Change(e, a) \in Int
<1>1. e.debit \in Accounts /\ e.credit \in Accounts /\ e.amount \in Nat
    BY ItemsAssumption DEF Items, RecordType, OperationType
<1> QED
    BY <1>1 DEF Change

LEMMA TurnoverIsInt ==
    ASSUME NEW E \in SUBSET Items, IsFiniteSet(E), NEW a \in Accounts
    PROVE  Turnover(E, a) \in Int
<1> DEFINE h == [x \in E |-> Change(x, a)]
<1>1. \A x \in E : h[x] \in Int
    BY ItemFields
<1>2. Turnover(E, a) = SumOver(h, E)
    BY DEF Turnover, Change
<1> HIDE DEF h
<1> QED
    BY <1>1, <1>2, SumIsInt

LEMMA TurnoverOfOneMore ==
    ASSUME NEW E \in SUBSET Items, IsFiniteSet(E), NEW e \in Items, e \notin E,
           NEW a \in Accounts
    PROVE  /\ Turnover(E, a) \in Int
           /\ Turnover(E \cup {e}, a) = Turnover(E, a) + Change(e, a)
<1> DEFINE F == E \cup {e}
           h == [x \in E |-> Change(x, a)]
           k == [x \in F |-> Change(x, a)]
<1>1. /\ IsFiniteSet(F) /\ e \in F /\ F \ {e} = E
      /\ \A x \in E : h[x] \in Int /\ h[x] = k[x]
      /\ \A x \in F : k[x] \in Int
      /\ k[e] = Change(e, a) /\ Change(e, a) \in Int
    BY ItemFields, FS_AddElement
<1>2. Turnover(E, a) = SumOver(h, E) /\ Turnover(F, a) = SumOver(k, F)
    BY DEF Turnover, Change
<1> HIDE DEF F, h, k
<1>3. SumOver(h, E) \in Int /\ SumOver(h, E) = SumOver(k, E)
    BY <1>1, SumIsInt, SumsAgree
<1>4. SumOver(k, F) = k[e] + SumOver(k, F \ {e})
    BY <1>1, SumTake
<1>5. SumOver(k, F \ {e}) = SumOver(h, E)
    BY <1>1, <1>3
<1>6. SumOver(k, F) = SumOver(h, E) + Change(e, a)
    BY <1>1, <1>3, <1>4, <1>5
<1> QED
    BY <1>2, <1>3, <1>6 DEF F

LEMMA MovedByChange ==
    ASSUME NEW e \in Items, balance \in [Accounts -> Int], NEW a \in Accounts
    PROVE  Moved(balance, e)[a] = balance[a] + Change(e, a)
<1>1. e.debit \in Accounts /\ e.credit \in Accounts /\ e.amount \in Nat
    BY ItemFields
<1>2. balance[a] \in Int
    OBVIOUS
<1>3. Moved(balance, e)[a] =
        IF a = e.credit
        THEN (IF a = e.debit THEN balance[a] + e.amount ELSE balance[a]) - e.amount
        ELSE IF a = e.debit THEN balance[a] + e.amount ELSE balance[a]
    BY <1>1 DEF Moved
<1> DEFINE n == e.amount
           b == balance[a]
<1>4. n \in Int /\ b \in Int
    BY <1>1, <1>2
<1>5. Change(e, a) = (IF e.debit = a THEN n ELSE 0) - (IF e.credit = a THEN n ELSE 0)
    BY DEF Change
<1>6. Moved(balance, e)[a] = IF a = e.credit THEN (IF a = e.debit THEN b + n ELSE b) - n
                             ELSE IF a = e.debit THEN b + n ELSE b
    BY <1>3
<1> HIDE DEF n, b
<1>7. CASE a = e.credit
    BY <1>4, <1>5, <1>6, <1>7 DEF b
<1>8. CASE a # e.credit
    BY <1>4, <1>5, <1>6, <1>8 DEF b
<1> QED
    BY <1>7, <1>8
----------------------------------------------------------------------------
(* What a step of the store books.                                         *)

LEMMA PaperRowsAfterPost ==
    ASSUME StoreInv, NEW p \in Partitions, NEW o \in Nat, NEW r \in Records, Post(p, o, r)
    PROVE  /\ r \notin PaperRows
           /\ PaperRows' = IF r.body = "paper" THEN PaperRows \cup {r} ELSE PaperRows
<1>1. /\ chain'[r.cell][r.session][r.first].record = r
      /\ Booked(r.cell, r.session, r.first)'
      /\ ~Booked(r.cell, r.session, r.first)
    BY PostBooks
<1>2. \A x \in Records : x.cell \in Cells /\ x.session \in Sessions /\ x.first \in Sequences
    BY ItemsAssumption DEF RecordType
<1>3. ASSUME NEW x \in Records, IsPlace(r, x.cell, x.session, x.first)
      PROVE  /\ x \notin PaperRows
             /\ x \in PaperRows' <=> x = r /\ r.body = "paper"
    BY <1>1, <1>3 DEF PaperRows, IsPlace
<1>4. ASSUME NEW x \in Records, ~IsPlace(r, x.cell, x.session, x.first)
      PROVE  x # r /\ (x \in PaperRows' <=> x \in PaperRows)
  <2>1. chain'[x.cell][x.session][x.first] = chain[x.cell][x.session][x.first]
    BY <1>2, <1>4, RowsKept
  <2> QED
    BY <1>4, <2>1 DEF PaperRows, Booked, IsPlace
<1>5. IsPlace(r, r.cell, r.session, r.first)
    BY DEF IsPlace
<1>6. PaperRows \subseteq Records /\ PaperRows' \subseteq Records
    BY DEF PaperRows
<1> QED
    BY <1>3, <1>4, <1>5, <1>6

LEMMA OperationsAfterBooking ==
    ASSUME StoreInv, NEW p \in Partitions, NEW o \in Nat, NEW i \in Operations,
           BookOperation(p, o, i)
    PROVE  /\ i \notin BookedOperations
           /\ BookedOperations' = BookedOperations \cup {i}
<1>1. operations[i.op] = NoRow /\ operations' = [operations EXCEPT ![i.op] = i]
    BY DEF BookOperation, Bookable
<1>2. operations \in [OpIds -> Operations \cup {NoRow}]
    BY DEF StoreInv, StoreTypeOK
<1>3. \A j \in Operations : j.op \in OpIds /\ j # NoRow
    BY ItemsAssumption DEF OperationType, Items
<1>4. \A j \in Operations :
        operations'[j.op] = IF j.op = i.op THEN i ELSE operations[j.op]
    BY <1>1, <1>2, <1>3
<1> QED
    BY <1>1, <1>3, <1>4 DEF BookedOperations
----------------------------------------------------------------------------
(* The invariant.                                                          *)

LEMMA AuditStart == Init => AuditInv
<1> SUFFICES ASSUME Init PROVE AuditInv
    OBVIOUS
<1>1. PaperRows = {}
    BY ItemsAssumption DEF Init, StoreInit, PaperRows, Booked, RecordType
<1>2. BookedOperations = {}
    BY ItemsAssumption DEF Init, StoreInit, BookedOperations, OperationType, Items
<1>3. \A a \in Accounts : Turnover({}, a) = 0
    BY SumEmpty DEF Turnover
<1>4. \A a \in Accounts : balance[a] = 0
    BY DEF Init, StoreInit
<1> QED
    BY <1>1, <1>2, <1>3, <1>4, FS_EmptySet DEF AuditInv, BalancesAreTheFold, Refold

\* A balance that moves with one event more in the fold is still its fold.
LEMMA PostKeepsTheFold ==
    ASSUME StoreInv, AuditInv,
           NEW p \in Partitions, NEW o \in Nat, NEW r \in Records, Post(p, o, r)
    PROVE  AuditInv'
<1>1. UNCHANGED BookedOperations
    BY DEF Post, RowsPosted, BookedOperations
<1>2. r \notin PaperRows
      /\ PaperRows' = IF r.body = "paper" THEN PaperRows \cup {r} ELSE PaperRows
    BY PaperRowsAfterPost
<1>3. balance' = IF r.body = "paper" THEN Moved(balance, r) ELSE balance
    BY DEF Post, RowsPosted, AfterRecord
<1>4. PaperRows \in SUBSET Items /\ BookedOperations \in SUBSET Items /\ r \in Items
    BY DEF PaperRows, BookedOperations, Items
<1>5. IsFiniteSet(PaperRows)' /\ IsFiniteSet(BookedOperations)'
    BY <1>1, <1>2, FS_AddElement DEF AuditInv
<1>6. ASSUME NEW a \in Accounts
      PROVE  balance'[a] = Turnover(PaperRows', a) + Turnover(BookedOperations', a)
  <2>1. balance[a] = Turnover(PaperRows, a) + Turnover(BookedOperations, a)
    BY DEF AuditInv, BalancesAreTheFold, Refold
  <2>2. CASE r.body # "paper"
    BY <1>1, <1>2, <1>3, <2>1, <2>2
  <2>3. CASE r.body = "paper"
    <3>1. /\ Turnover(PaperRows, a) \in Int
          /\ Turnover(PaperRows \cup {r}, a) = Turnover(PaperRows, a) + Change(r, a)
      BY <1>2, <1>4, TurnoverOfOneMore DEF AuditInv
    <3>2. balance \in [Accounts -> Int]
      BY DEF StoreInv, StoreTypeOK
    <3>3. Moved(balance, r)[a] = balance[a] + Change(r, a)
      BY <1>4, <3>2, MovedByChange
    <3>4. Change(r, a) \in Int /\ Turnover(BookedOperations, a) \in Int
      BY <1>4, ItemFields, TurnoverIsInt DEF AuditInv
    <3>5. balance'[a] = balance[a] + Change(r, a)
          /\ Turnover(PaperRows', a) = Turnover(PaperRows, a) + Change(r, a)
          /\ Turnover(BookedOperations', a) = Turnover(BookedOperations, a)
      BY <1>1, <1>2, <1>3, <2>3, <3>1, <3>3
    <3> QED
      BY <2>1, <3>1, <3>4, <3>5
  <2> QED
    BY <2>2, <2>3
<1> QED
    BY <1>5, <1>6 DEF AuditInv, BalancesAreTheFold, Refold

LEMMA BookingKeepsTheFold ==
    ASSUME StoreInv, AuditInv,
           NEW p \in Partitions, NEW o \in Nat, NEW i \in Operations, BookOperation(p, o, i)
    PROVE  AuditInv'
<1>1. UNCHANGED PaperRows
    BY DEF BookOperation, PaperRows, Booked
<1>2. i \notin BookedOperations /\ BookedOperations' = BookedOperations \cup {i}
    BY OperationsAfterBooking
<1>3. balance' = Moved(balance, i)
    BY DEF BookOperation
<1>4. PaperRows \in SUBSET Items /\ BookedOperations \in SUBSET Items /\ i \in Items
    BY DEF PaperRows, BookedOperations, Items
<1>5. IsFiniteSet(PaperRows)' /\ IsFiniteSet(BookedOperations)'
    BY <1>1, <1>2, FS_AddElement DEF AuditInv
<1>6. ASSUME NEW a \in Accounts
      PROVE  balance'[a] = Turnover(PaperRows', a) + Turnover(BookedOperations', a)
  <2>1. balance[a] = Turnover(PaperRows, a) + Turnover(BookedOperations, a)
    BY DEF AuditInv, BalancesAreTheFold, Refold
  <2>2. /\ Turnover(BookedOperations, a) \in Int
        /\ Turnover(BookedOperations \cup {i}, a) = Turnover(BookedOperations, a) + Change(i, a)
    BY <1>2, <1>4, TurnoverOfOneMore DEF AuditInv
  <2>3. balance \in [Accounts -> Int]
    BY DEF StoreInv, StoreTypeOK
  <2>4. Moved(balance, i)[a] = balance[a] + Change(i, a)
    BY <1>4, <2>3, MovedByChange
  <2>5. Change(i, a) \in Int /\ Turnover(PaperRows, a) \in Int
    BY <1>4, ItemFields, TurnoverIsInt DEF AuditInv
  <2>6. balance'[a] = balance[a] + Change(i, a)
        /\ Turnover(PaperRows', a) = Turnover(PaperRows, a)
        /\ Turnover(BookedOperations', a) = Turnover(BookedOperations, a) + Change(i, a)
    BY <1>1, <1>2, <1>3, <2>2, <2>4
  <2> QED
    BY <2>1, <2>2, <2>5, <2>6
<1> QED
    BY <1>5, <1>6 DEF AuditInv, BalancesAreTheFold, Refold

LEMMA AuditStep == DaemonInv /\ AuditInv /\ [Next]_vars => AuditInv'
<1> SUFFICES ASSUME DaemonInv, AuditInv, [Next]_vars PROVE AuditInv'
    OBVIOUS
<1>1. CASE UNCHANGED rows
  <2>1. UNCHANGED <<PaperRows, BookedOperations, balance>>
    BY <1>1 DEF rows, PaperRows, BookedOperations, Booked
  <2> QED
    BY <2>1 DEF AuditInv, BalancesAreTheFold, Refold
<1> QED
    BY <1>1, StepsOfTheStore, RowsMoveTwoWays, PostKeepsTheFold, BookingKeepsTheFold
       DEF DaemonInv

\* verify_history passes at every moment, whatever was applied in whatever
\* order, lost, offered again or restarted: the stored balance of every account
\* is the fold of the booked paper fills and operations.
THEOREM AuditPasses == Spec => []BalancesAreTheFold
<1>1. DaemonInv /\ AuditInv /\ [Next]_vars => AuditInv'
    BY AuditStep
<1>2. AuditInv => BalancesAreTheFold
    BY DEF AuditInv
<1> QED
    BY <1>1, <1>2, AuditStart, DaemonInvHolds, PTL DEF Spec
=============================================================================
