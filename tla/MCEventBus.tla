----------------------------- MODULE MCEventBus -----------------------------
(***************************************************************************)
(* Instance of EventBus for TLC: two poll loops of one consumer, the first *)
(* in the process (and on the store) of the publisher.                     *)
(***************************************************************************)
EXTENDS EventBus, TLC

CONSTANTS p1, t1, t2, here, there

Stores == p1 :> here @@ t1 :> here @@ t2 :> there
=============================================================================
