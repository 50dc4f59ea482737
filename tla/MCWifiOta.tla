----------------------------- MODULE MCWifiOta -----------------------------
(***************************************************************************)
(* Instances of WifiOta for TLC: an image that arrives in two pieces, and  *)
(* one retry.                                                              *)
(***************************************************************************)
EXTENDS WifiOta

=============================================================================
