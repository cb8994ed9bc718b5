-------------------------------- MODULE MCFabric --------------------------------
(***************************************************************************)
(* Instances of FabricBroker for TLC: one producer id, the incarnations    *)
(* that speak for it in turn, and the brokers that may lead its partition. *)
(***************************************************************************)
EXTENDS FabricBroker

CONSTANTS b1, b2, c1, c2, p1

MCOwner == [c \in Clients |-> p1]
================================================================================
