---------------------------- MODULE MCZigbeeOta ----------------------------
(***************************************************************************)
(* Instances of ZigbeeOta for TLC.  The image has two blocks of different  *)
(* length, 1 and 2 bytes, as in the program (8 and 64); the counters wrap  *)
(* at 8.                                                                   *)
(***************************************************************************)
EXTENDS ZigbeeOta, TLC

CONSTANTS c1, c2, f1

(* With two clients, not looked at: what follows a first update, and more  *)
(* than a complete download and the first block of another one.            *)
FirstUpdates ==
    \A c \in Clients : running[c] # "ota_1" /\ offset[c] <= ImageSize + FirstBlock

(* The clients are interchangeable in the safety runs. *)
Symmetric == Permutations(Clients)

=============================================================================
