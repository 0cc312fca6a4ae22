----------------------------- MODULE MCBreakers -----------------------------
(***************************************************************************)
(* Instance of Breakers for TLC.                                           *)
(***************************************************************************)
EXTENDS Breakers, TLC

CONSTANTS k, dog, medic
=============================================================================
