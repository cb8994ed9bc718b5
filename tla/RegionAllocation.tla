-------------------------- MODULE RegionAllocation --------------------------
(***************************************************************************)
(* A cell's region ledger (qip-edge reservation.rs) as a value: what is    *)
(* free, what each id holds, what became orders, the bound of the share    *)
(* last applied and the payload it came with.  One cell owns its table.    *)
(***************************************************************************)
EXTENDS Sums

CONSTANTS
    Ids,     \* what a hold is filed under; a pass adds its number, and
             \* sweeps every earlier pass's holds before it takes one
    Ceiling  \* the operator's amount

ASSUME RegionAssumption == IsFiniteSet(Ids) /\ Ceiling \in Nat

NoShare == 0
RegionType ==
    [free: Nat, holds: [Ids -> Nat], committed: Nat, bound: Nat, share: Nat]

Unfunded ==
    [free |-> 0, holds |-> [i \in Ids |-> 0], committed |-> 0, bound |-> 0, share |-> NoShare]

Held(r) == SumOver(r.holds, Ids)
SpokenFor(r) == Held(r) + r.committed

\* Mutant: the shortfall is not taken out of what is free.
ReboundWithDebt(r, share, sequence) ==
    LET bound == Min({share, Ceiling})
    IN  [r EXCEPT !.bound = bound, !.share = sequence, !.free = bound - SpokenFor(r)]
\* Mutant: the operator's ceiling is left out.
ReboundToShare(r, share, sequence) ==
    [r EXCEPT !.bound = share, !.share = sequence, !.free = Max({0, share - SpokenFor(r)})]
\* apply_bound, behind the guards of rebase and rederive.
Rebound(r, share, sequence) ==
    LET bound == Min({share, Ceiling})
    IN  [r EXCEPT !.bound = bound, !.share = sequence,
                  !.free = IF SpokenFor(r) > bound THEN 0 ELSE bound - SpokenFor(r)]

Rebased(r, share, sequence) ==
    IF sequence > r.share THEN Rebound(r, share, sequence) ELSE r
Rederived(r, share, sequence) ==
    IF r.share # NoShare /\ sequence = r.share THEN Rebound(r, share, sequence) ELSE r

\* reserve: taken whole or refused.
MayReserve(r, i, amount) == amount > 0 /\ r.holds[i] = 0 /\ amount <= r.free
Reserved(r, i, amount) == [r EXCEPT !.holds[i] = amount, !.free = @ - amount]

HeldBy(r, is) == SumOver(r.holds, is)
Without(r, is) == [r EXCEPT !.holds = [i \in Ids |-> IF i \in is THEN 0 ELSE @[i]]]
Released(r, is) == [Without(r, is) EXCEPT !.free = @ + HeldBy(r, is)]
Committed(r, is) == [Without(r, is) EXCEPT !.committed = @ + HeldBy(r, is)]

\* return_committed, refused past what was committed.
Returned(r, amount) ==
    IF amount > 0 /\ amount <= r.committed
    THEN [r EXCEPT !.committed = @ - amount, !.free = @ + amount]
    ELSE r

\* sweep_before: all that stands at the top of a pass is an earlier pass's.
Swept(r) == Released(r, Ids)
=============================================================================
