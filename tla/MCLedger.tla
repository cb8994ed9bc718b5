------------------------------ MODULE MCLedger -----------------------------
(***************************************************************************)
(* Instances of the ledger daemon for TLC.  Cells a and b keep one book of *)
(* custody between them; every batch below is one a cell's producer or the *)
(* operations' producer could put on the P1 stream.                        *)
(***************************************************************************)
EXTENDS LedgerAudit

CONSTANTS a, b, one, custody, cash, deposit, deposit2, lotA,
          d1, d2, d3, d4, g0, gap, garbage

Rec(c, s, f, l, d, prev, body, debit, credit, amount) ==
    [cell |-> c, session |-> s, first |-> f, last |-> l, digest |-> d, prev |-> prev,
     body |-> body, debit |-> debit, credit |-> credit, amount |-> amount, copy |-> 0]
Note(c, s, f, d, prev) == Rec(c, s, f, f, d, prev, "note", custody, cash, 0)
Buy(c, s, f, d, prev) == Rec(c, s, f, f, d, prev, "paper", custody, cash, 1)
Sell(c, s, f, d, prev) == Rec(c, s, f, f, d, prev, "paper", cash, custody, 1)
Span(c, s, f, l, d) == Rec(c, s, f, l, d, g0, "span", custody, cash, 0)
Live(c, s, f, d, prev) == [Buy(c, s, f, d, prev) EXCEPT !.body = "live"]
BadFill(c, s, f, d, prev) == [Buy(c, s, f, d, prev) EXCEPT !.body = "unpostable"]
Op(i, d, lot, debit, credit) ==
    [op |-> i, digest |-> d, lot |-> lot, debit |-> debit, credit |-> credit, amount |-> 1]

\* Cell a's journal: a buy, a span over the next two entries, a sale; then a
\* second session.  Cell b's: one buy.
a0 == Buy(a, 0, 0, d1, g0)
a1 == Span(a, 0, 1, 2, d2)
a3 == Sell(a, 0, 3, d3, d2)
next0 == Note(a, 1, 0, d4, g0)
b0 == Buy(b, 0, 0, d1, g0)
b1 == Sell(b, 0, 1, d2, d1)
\* What a journal gone wrong says: a live fill, a fill that does not
\* post, an entry that contradicts a0, one sealed on nothing, a re-framed
\* span, and a0 in other bytes.
aLive == Live(a, 0, 1, d3, d1)
bBad == BadFill(b, 0, 0, d1, g0)
aFork == Note(a, 0, 0, d4, g0)
aLoose == Note(a, 0, 1, d3, d4)
aReframed == Span(a, 0, 0, 2, d2)
aBackwards == Span(a, 0, 1, 0, d3)
aCopy == [a0 EXCEPT !.copy = 1]
sellFirst == Sell(b, 0, 0, d1, g0)

funding == Op(deposit, d1, lotA, custody, cash)
refund == Op(deposit, d2, NoLot, cash, custody)
sameLot == Op(deposit2, d3, lotA, custody, cash)

MCRecords == {a0, a1, a3, next0, b0, b1, aLive, bBad, aFork, aLoose, aReframed,
              aBackwards, aCopy, sellFirst}
MCOperations == {funding, refund, sameLot}

\* Out of order, twice, with a session change behind a gap.
GapBatches == {<<a0, b0>>, <<a1>>, <<a3>>, <<next0, gap>>, <<aLive>>, <<b1, garbage>>}
\* Everything that is refused, with operations between.
FaultBatches ==
    {<<a0, funding, aCopy>>, <<a1, aFork>>, <<aLoose, aReframed, refund>>,
     <<aBackwards, sellFirst>>, <<bBad, b0, aLive>>, <<next0, a3, sameLot>>}
\* Short journals, for the runs that look for one failure.
LagBatches == {<<a0>>, <<a1, gap>>, <<a3>>, <<gap>>}
LossBatches == {<<a0>>, <<b0>>}

OneHome == [c \in Cells |-> one]
=============================================================================
