--------------------------- MODULE MC_CsiDelivery ---------------------------
(***************************************************************************)
(* Instances of CsiDeliveryHistory, and with it of CsiDelivery, for TLC.   *)
(***************************************************************************)
EXTENDS CsiDeliveryHistory
============================================================================
