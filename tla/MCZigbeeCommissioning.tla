----------------------- MODULE MCZigbeeCommissioning -----------------------
(***************************************************************************)
(* Instances of ZigbeeCommissioning for TLC: two clients, for which the    *)
(* server has room, and a network that is open for longer than all the     *)
(* attempts that may fail take.                                            *)
(***************************************************************************)
EXTENDS ZigbeeCommissioning

ASSUME OpenLongEnough ==
    OpenTime > (MaxFaults + 1) * (ScanTime + JoinRetryTime)

=============================================================================
