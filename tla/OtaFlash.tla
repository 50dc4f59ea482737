------------------------------ MODULE OtaFlash ------------------------------
(***************************************************************************)
(* The flash of one device as the examples use it through esp_ota_ops: app *)
(* slots that each hold an image, one of which is selected for booting.    *)
(* esp_ota_ops is not part of the repository; what is stated here is what  *)
(* the code under src/ relies on.                                          *)
(*                                                                         *)
(* Image bytes are abstracted to what decides whether an image is          *)
(* bootable: how many bytes were programmed and whether every one of them  *)
(* is the image's own byte for its place.                                  *)
(***************************************************************************)
EXTENDS Naturals, Sequences

CONSTANT ImageSize      \* bytes of the firmware image that is being distributed

ASSUME ImageSizeAssumption == ImageSize \in Nat \ {0}

(* The app partitions of partitions.csv. *)
Slots  == {"factory", "ota_0", "ota_1"}
NoSlot == "none"

(* esp_ota_get_next_update_partition: the OTA slots are used in turn, and  *)
(* the first one follows the factory slot.                                 *)
NextUpdate(s) == IF s = "ota_0" THEN "ota_1" ELSE "ota_0"

(* What a slot holds.  fw tells the firmware it was flashed with ("old")   *)
(* from the one that is being distributed ("new"); intact says that every  *)
(* byte programmed so far is the image's byte for that position.           *)
Content == [fw : {"old", "new"}, len : Nat, intact : BOOLEAN]

Blank     == [fw |-> "new", len |-> 0, intact |-> TRUE]
OldImage  == [fw |-> "old", len |-> ImageSize, intact |-> TRUE]

(* An open handle keeps its own write position, so what it adds to a slot  *)
(* that was erased under it lands behind a hole.                           *)
Erased(x) == [fw |-> "new", len |-> x.len, intact |-> x.len = 0]

(* esp_ota_write: n bytes that start at byte `from` of the image are       *)
(* programmed behind what is there.  Bytes past the image's end are not    *)
(* looked at when the image is verified.                                   *)
Program(x, from, n) ==
    [fw     |-> x.fw,
     len    |-> x.len + n,
     intact |-> x.intact /\ (from = x.len \/ x.len >= ImageSize)]

(* The same for bytes that are given by their positions in the image. *)
Written(x, bytes) ==
    [fw     |-> x.fw,
     len    |-> x.len + Len(bytes),
     intact |-> x.intact /\ \A i \in 1 .. Len(bytes) :
                   x.len + i - 1 < ImageSize => bytes[i] = x.len + i - 1]

(* esp_image_verify, which esp_ota_end runs: the whole image and its hash. *)
Bootable(x) == x.intact /\ x.len >= ImageSize

=============================================================================
