----------------------------- MODULE MCAdmission -----------------------------
(***************************************************************************)
(* Instance of Admission for TLC.                                          *)
(***************************************************************************)
EXTENDS Admission, TLC

CONSTANTS w1, w2, t1, t2, flow, dog, medic
=============================================================================
