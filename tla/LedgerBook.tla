----------------------------- MODULE LedgerBook -----------------------------
(***************************************************************************)
(* What the ledger of record promises (ADR 0100, ADR 0105), with nothing   *)
(* of how: no offsets, no parks, no re-reads, no restarts.  A journal      *)
(* entry is booked at most once, in its cell's order, on the entry it was  *)
(* sealed on, and its postings move the balances in the same step; an      *)
(* operation id is booked at most once.  Nothing is ever removed.          *)
(***************************************************************************)
EXTENDS LedgerEvents

VARIABLES
    book,       \* book[c][s][q]: the record booked at (c, s, first = q)
    balance,    \* balance[a]: debits minus credits
    operations, \* operations[i]: the operation booked under id i
    openLots    \* lots opened

bookVars == <<book, balance, operations, openLots>>

BookInit ==
    /\ book = [c \in Cells |-> [s \in Sessions |-> [q \in Sequences |-> NoRow]]]
    /\ balance = [a \in Accounts |-> 0]
    /\ operations = [i \in OpIds |-> NoRow]
    /\ openLots = {}

\* Nothing of r's session from r.first on, and nothing of a newer session.
IsNewest(r) ==
    \A s \in Sessions, q \in Sequences :
        book[r.cell][s][q] # NoRow =>
            s < r.session \/ (s = r.session /\ q < r.first)

OpensSession(r) ==
    /\ r.first = 0
    /\ r.body = "span" \/ r.prev = Genesis

Continues(r) ==
    \E q \in Sequences :
        /\ book[r.cell][r.session][q] # NoRow
        /\ book[r.cell][r.session][q].last + 1 = r.first
        /\ r.body = "span" \/ r.prev = book[r.cell][r.session][q].digest

BookRecord(r) ==
    /\ r.body \in {"span", "note", "paper"}
    /\ IsNewest(r)
    /\ OpensSession(r) \/ Continues(r)
    /\ r.body = "paper" => Foldable(balance, r)
    /\ book' = [book EXCEPT ![r.cell][r.session][r.first] = r]
    /\ balance' = AfterRecord(balance, r)
    /\ UNCHANGED <<operations, openLots>>

BookOperation(i) ==
    /\ operations[i.op] = NoRow
    /\ i.lot \notin openLots
    /\ Foldable(balance, i)
    /\ operations' = [operations EXCEPT ![i.op] = i]
    /\ openLots' = openLots \cup ({i.lot} \ {NoLot})
    /\ balance' = Moved(balance, i)
    /\ UNCHANGED book

BookNext ==
    \/ \E r \in Records : BookRecord(r)
    \/ \E i \in Operations : BookOperation(i)

BookSpec == BookInit /\ [][BookNext]_bookVars
=============================================================================
