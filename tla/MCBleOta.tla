------------------------------ MODULE MCBleOta ------------------------------
(***************************************************************************)
(* Instances of BleOta for TLC: an image of two sectors and a half, two   *)
(* packets to a sector, and a ring buffer that holds two sectors.          *)
(***************************************************************************)
EXTENDS BleOta

=============================================================================
