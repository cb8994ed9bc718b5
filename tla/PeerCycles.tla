----------------------------- MODULE PeerCycles -----------------------------
(***************************************************************************)
(* Distributed cycles of the peer mesh (libs/qip-peer, edge/qip-peer-link):*)
(* two cells, one leg each, opened by one of them.  The saga names a cycle *)
(* after its node, its start and a counter, so an id is never used twice.  *)
(***************************************************************************)
EXTENDS Integers, FiniteSets

CONSTANTS
    Nodes,        \* regional cells
    Opps,         \* opportunity ids
    Coordinator,  \* Coordinator[o]: the node that opens o and declares FIRE
    Counterparty, \* Counterparty[o]: the node of the other leg
    Size,         \* the size of a leg
    NoTrade       \* a leg never sent, or a fill or a loss never heard of

\* A leg is named by the node that trades it.
Legs(o) == {Coordinator[o], Counterparty[o]}
Quantities == 0..Size

ASSUME LegsAssumption ==
    /\ Coordinator \in [Opps -> Nodes] /\ Counterparty \in [Opps -> Nodes]
    /\ \A o \in Opps : Coordinator[o] # Counterparty[o]
ASSUME SizeAssumption == Size \in Nat \ {0} /\ NoTrade \notin Int

\* What the cells' books and venues know of a cycle, whoever forgets it.
CycleType ==
    [promised: SUBSET Nodes, refused: SUBSET Nodes, declared: BOOLEAN,
     trade: [Nodes -> Quantities \cup {NoTrade}], recovered: [Nodes -> Quantities]]

NoCycle ==
    [promised |-> {}, refused |-> {}, declared |-> FALSE,
     trade |-> [n \in Nodes |-> NoTrade], recovered |-> [n \in Nodes |-> 0]]

Traded(c, n) == c.trade[n] # NoTrade
=============================================================================
