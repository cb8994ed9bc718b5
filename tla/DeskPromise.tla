------------------------------- MODULE DeskPromise -------------------------------
(***************************************************************************)
(* What the desk owes the ledger: the fills it books reach the ledger's      *)
(* partition as one chain.  The first appearance of each position comes in   *)
(* order and without a hole (a ledger parks a chain on a hole and absorbs a  *)
(* repeat), only of what was booked, and the journalled watermark never      *)
(* speaks of a position that has not arrived.                                *)
(***************************************************************************)
EXTENDS Integers

VARIABLES
  booked,      \* fills in the desk's event log
  arrived,     \* positions in the ledger's partition
  watermark    \* positions the event log says the fabric holds

vars == <<booked, arrived, watermark>>

Init == booked = 0 /\ arrived = {} /\ watermark = 0

Book == booked' = booked + 1 /\ UNCHANGED <<arrived, watermark>>

\* Whatever is repeated, what is new continues the chain.
Arrive ==
  /\ \E n \in 0..booked : arrived' = 0..(n - 1)
  /\ arrived \subseteq arrived'
  /\ UNCHANGED <<booked, watermark>>

Acknowledge ==
  /\ watermark' > watermark /\ 0..(watermark' - 1) \subseteq arrived
  /\ UNCHANGED <<booked, arrived>>

Next == Book \/ Arrive \/ Acknowledge

Spec == Init /\ [][Next]_vars
================================================================================
