----------------------------- MODULE ByteStream -----------------------------
(***************************************************************************)
(* What the Bluetooth device promises of the bytes it is sent: they reach  *)
(* the slot that is written in the order in which they came, each of them  *)
(* once, however they are cut into pieces on the way, and no more of them  *)
(* than Capacity are under way.  Only a restart loses any.                 *)
(***************************************************************************)
EXTENDS OtaFlash

CONSTANT Capacity       \* the most bytes that are under way

VARIABLES
    pending,    \* the bytes under way, the oldest first
    content     \* what the slot that is written holds

streamVars == <<pending, content>>

StreamInit == pending = <<>> /\ content = Blank

(* More bytes come in behind those that are under way. *)
Put ==
    /\ pending' \in Seq(Nat)
    /\ Len(pending') \in Len(pending) + 1 .. Capacity
    /\ SubSeq(pending', 1, Len(pending)) = pending
    /\ UNCHANGED content

(* The oldest bytes are written. *)
Take ==
    \E n \in 1 .. Len(pending) :
       /\ content' = Written(content, SubSeq(pending, 1, n))
       /\ pending' = SubSeq(pending, n + 1, Len(pending))

(* The device restarts. *)
Drop == pending' = <<>> /\ content' = Blank

StreamNext == Put \/ Take \/ Drop

StreamOf == StreamInit /\ [][StreamNext]_streamVars

=============================================================================
