------------------------------- MODULE MCPeer -------------------------------
(***************************************************************************)
(* Instances of PeerSaga for TLC.                                          *)
(***************************************************************************)
EXTENDS PeerSaga

CONSTANTS a, b, c, ab1, bc1

\* a opens a cycle with b, and b one with c.
MCCoordinator == [o \in Opps |-> IF o = ab1 THEN a ELSE b]
MCCounterparty == [o \in Opps |-> IF o = ab1 THEN b ELSE c]

\* a's clock is ahead of b's.
MCSkew == [n \in Nodes |-> IF n = a THEN 1 ELSE 0]
NoSkew == [n \in Nodes |-> 0]

\* The touch shows more than the leg, half of it, or costs more to leave.
Whole == [max |-> Size, touch |-> Size + 1, spread |-> 1]
Half == [max |-> Size, touch |-> 1, spread |-> 1]
Wide == [max |-> Size, touch |-> Size, spread |-> Size + 1]

PartialFills == {Whole, Half, Wide}
Steady == {Whole}
=============================================================================
