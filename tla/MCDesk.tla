--------------------------------- MODULE MCDesk ---------------------------------
(***************************************************************************)
(* Instances of DeskShip for TLC.                                           *)
(***************************************************************************)
EXTENDS DeskShip
================================================================================
