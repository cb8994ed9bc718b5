---------------------------- MODULE LedgerAudit ----------------------------
(***************************************************************************)
(* The audit the ledger runs on itself when it opens: every event of the   *)
(* history folded again from nothing (LedgerStore::verify_history, refold).*)
(***************************************************************************)
EXTENDS LedgerDaemon, Sums

PaperRows ==
    {r \in Records : r.body = "paper" /\ Booked(r.cell, r.session, r.first)
                     /\ chain[r.cell][r.session][r.first].record = r}
BookedOperations == {i \in Operations : operations[i.op] = i}

\* Debits minus credits of account a over a set of events.
Turnover(events, a) ==
    SumOver([e \in events |-> (IF e.debit = a THEN e.amount ELSE 0)
                               - (IF e.credit = a THEN e.amount ELSE 0)], events)

Refold(a) == Turnover(PaperRows, a) + Turnover(BookedOperations, a)

\* verify_history never stops the ledger opening: whatever was applied, in
\* whatever order and across whatever restarts, the stored balances are the
\* fold of the booked fills and operations.
BalancesAreTheFold == \A a \in Accounts : balance[a] = Refold(a)
=============================================================================
