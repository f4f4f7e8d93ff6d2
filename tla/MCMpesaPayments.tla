-------------------------- MODULE MCMpesaPayments --------------------------
(* Small instances of MpesaPayments for TLC. *)
EXTENDS MpesaPayments, TLC

CONSTANTS buy, cust

HotspotService == buy :> "hotspot"
HotspotAccount == buy :> cust
HotspotReseller == buy :> NoOne
HotspotAmount == buy :> 3
=============================================================================
