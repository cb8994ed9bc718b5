---------------------------------- MODULE Sums ----------------------------------
(***************************************************************************)
(* The sum of a function's values over a finite set of its arguments: what *)
(* an account, a ledger of holds or a book of orders amounts to.           *)
(***************************************************************************)
EXTENDS Integers, FiniteSetsExt

SumOver(h, S) == MapThenSumSet(LAMBDA x : h[x], S)
=================================================================================
