-------------------------------- MODULE BleOta --------------------------------
(***************************************************************************)
(* The Bluetooth update system: the sender on the computer (main.py), the  *)
(* host task of the device's BLE stack, which calls back into app_main.c   *)
(* when it has put a sector together, the ring buffer, and ota_task, which *)
(* moves what is in the ring buffer to flash.                              *)
(*                                                                         *)
(* A byte is represented by its position in the image.  The GATT service   *)
(* is a component outside the repository: it keeps the length that START   *)
(* announces, puts the packets of a sector together, and answers a write   *)
(* when the callback has returned.                                         *)
(***************************************************************************)
EXTENDS OtaFlash

CONSTANTS
    SectorSize,         \* bytes of a sector, 4096 in the program
    PacketSize,         \* mtu_size - 4: 511 bytes of a sector in a packet
    RingSize,           \* OTA_RINGBUF_SIZE
    StopMayClear,       \* whether STOP may make the component forget the length
    MaxUploads,         \* bound on how often the sender is run
    Faults,             \* the kinds of faults that may happen
    MaxFaults           \* bound on how many faults happen

ASSUME SizeAssumption ==
    /\ SectorSize \in Nat \ {0}
    /\ PacketSize \in Nat \ {0}
    /\ RingSize \in Nat /\ RingSize >= SectorSize
(* A sector's last packet has room for the checksum, as 4096 % 511 = 8. *)
ASSUME PacketAssumption == SectorSize % PacketSize \in 1 .. PacketSize - 2
ASSUME BoundAssumption ==
    /\ StopMayClear \in BOOLEAN
    /\ MaxUploads \in Nat
    /\ Faults \subseteq {"interrupt", "powerCycle", "flash", "stack"}
    /\ MaxFaults \in Nat

VARIABLES
    sender,     \* idle, sending, waiting for the answer to a sector, or done
    next,       \* the sender's sector_index, in sectors
    packet,     \* the sender's packet_seq
    uploads,    \* how often the sender was run
    fw_length,  \* what esp_ble_ota_get_fw_length returns
    sector,     \* the bytes of a sector that the component has put together
    host,       \* what write_to_ringbuf waits to put into the ring buffer
    ring,       \* the bytes in s_ringbuf that were not received
    readAt,     \* where in the buffer the first of them is
    item,       \* the bytes ota_task received and has not returned
    task,       \* where ota_task is
    out_handle, \* the slot that ota_task writes
    recv_len,   \* bytes that ota_task wrote
    flash,      \* flash[s]: what slot s holds
    boot,       \* the slot otadata selects
    running,    \* the slot the device runs from
    faults      \* the number of faults so far

senderVars == <<sender, next, packet, uploads>>
hostVars   == <<sector, host>>
ringVars   == <<ring, readAt, item>>
taskVars   == <<task, out_handle, recv_len>>
flashVars  == <<flash, boot, running>>
vars == <<senderVars, fw_length, hostVars, ringVars, taskVars, flashVars,
          faults>>

Fault(kind) ==
    /\ kind \in Faults
    /\ faults < MaxFaults
    /\ faults' = faults + 1

(* partitions.csv has no factory slot: the device is flashed in ota_0. *)
Init ==
    /\ sender = "idle" /\ next = 0 /\ packet = 0 /\ uploads = 0
    /\ fw_length = 0
    /\ sector = <<>> /\ host = <<>>
    /\ ring = <<>> /\ readAt = 0 /\ item = <<>>
    /\ task = "booting" /\ out_handle = NoSlot /\ recv_len = 0
    /\ flash = [s \in Slots |-> IF s = "ota_0" THEN OldImage ELSE Blank]
    /\ boot = "ota_0" /\ running = "ota_0"
    /\ faults = 0

-----------------------------------------------------------------------------
(* Faulty variants of the definitions below, with which the properties are *)
(* seen to fail.  No specification uses them.                              *)

(* START announces the length in sectors. *)
StartOtaInSectors ==
    /\ sender \in {"idle", "done"}
    /\ task \notin {"booting", "off"}
    /\ host = <<>>
    /\ uploads < MaxUploads
    /\ uploads' = uploads + 1
    /\ sender' = "sending"
    /\ next' = 0 /\ packet' = 0
    /\ fw_length' = ImageSize \div SectorSize
    /\ sector' = <<>>
    /\ UNCHANGED <<host, ringVars, taskVars, flashVars, faults>>

(* STOP is sent in place of a last sector that is short. *)
SectorLeftWhole == (next + 1) * SectorSize <= ImageSize

(* The number of packets is rounded down. *)
NumPacketsDown(size) == size \div PacketSize

(* The last packet is padded to the others' size, checksum not counted. *)
LastSizePadded(n) == (IF n > PacketSize THEN n ELSE PacketSize) + 2

(* write_to_ringbuf gives up when there is no room. *)
WriteToRingbufNoWait ==
    /\ host # <<>>
    /\ ring' = IF Len(ring) + Len(item) + Len(host) <= RingSize
               THEN ring \o host ELSE ring
    /\ host' = <<>>
    /\ sector' = <<>>
    /\ IF sender = "waiting"
       THEN sender' = "sending" /\ next' = next + 1 /\ packet' = 0
       ELSE UNCHANGED <<sender, next, packet>>
    /\ UNCHANGED <<uploads, fw_length, readAt, item, taskVars, flashVars,
                   faults>>

(* ota_task writes the slot it runs from. *)
OtaBeginHere ==
    /\ task = "starting"
    /\ task' = "receiving"
    /\ out_handle' = boot
    /\ flash' = [flash EXCEPT ![boot] = Blank]
    /\ UNCHANGED <<senderVars, fw_length, hostVars, ringVars, recv_len,
                   boot, running, faults>>

(* What was received is not returned to the ring buffer. *)
WriteNoReturn ==
    /\ task = "writing"
    /\ task' = "counting"
    /\ flash' = [flash EXCEPT ![out_handle] = [@ EXCEPT !.len = @ + Len(item)]]
    /\ recv_len' = recv_len + Len(item)
    /\ UNCHANGED <<senderVars, fw_length, hostVars, ringVars, out_handle,
                   boot, running, faults>>

(* The end of the image is missed by one. *)
MoreReceived == recv_len > fw_length

(* The result of esp_ota_end is not looked at. *)
OtaEndUnchecked ==
    /\ task = "ending"
    /\ task' = "selecting"
    /\ UNCHANGED <<senderVars, fw_length, hostVars, ringVars, out_handle,
                   recv_len, flashVars, faults>>

-----------------------------------------------------------------------------
(* The sender.  Its writes are answered by the host task, so it gets on    *)
(* only while the host task is not held up by the ring buffer.             *)

HostFree == host = <<>>

SectorLeft == next * SectorSize < ImageSize

(* send_command(START_OTA_CMD); the script may be run again at any time it *)
(* is not running.                                                         *)
StartOta ==
    /\ sender \in {"idle", "done"}
    /\ task \notin {"booting", "off"}
    /\ HostFree
    /\ uploads < MaxUploads
    /\ uploads' = uploads + 1
    /\ sender' = "sending"
    /\ next' = 0 /\ packet' = 0
    /\ fw_length' = ImageSize
    /\ sector' = <<>>
    /\ UNCHANGED <<host, ringVars, taskVars, flashVars, faults>>

(* The sector that is sent, and the packets it is cut into. *)
LesserOf(m, n)   == IF m < n THEN m ELSE n
SectorLength     == LesserOf(SectorSize, ImageSize - next * SectorSize)
NumPackets(size) == (size + PacketSize - 1) \div PacketSize
LastPacket       == packet = NumPackets(SectorLength) - 1
PayloadLength    == LesserOf(PacketSize, SectorLength - packet * PacketSize)
Payload ==
    [i \in 1 .. PayloadLength |->
       next * SectorSize + packet * PacketSize + i - 1]

(* The last packet is padded, and carries the checksum. *)
LastSize(n) == (IF n > PacketSize - 2 THEN n ELSE PacketSize - 2) + 2
PacketLength == 3 + IF LastPacket THEN LastSize(PayloadLength)
                                  ELSE PayloadLength

SendPacket ==
    /\ sender = "sending"
    /\ HostFree
    /\ SectorLeft
    /\ ~LastPacket
    /\ packet' = packet + 1
    /\ sector' = sector \o Payload
    /\ UNCHANGED <<sender, next, uploads, fw_length, host, ringVars,
                   taskVars, flashVars, faults>>

(* How many bytes the component hands on for a sector: a short one may     *)
(* come with padding, which is no byte of the image.                       *)
Handed  == SectorLength .. SectorSize
Padding == ImageSize

(* The last packet of a sector, 0xFF, arrives: ota_recv_fw_cb is called.   *)
SendLastPacket ==
    /\ sender = "sending"
    /\ HostFree
    /\ SectorLeft
    /\ LastPacket
    /\ sender' = "waiting"
    /\ sector' = sector \o Payload
    /\ \E n \in Handed :
          host' = [i \in 1 .. n |-> IF i <= Len(sector') THEN sector'[i]
                                                        ELSE Padding]
    /\ UNCHANGED <<next, packet, uploads, fw_length, ringVars, taskVars,
                   flashVars, faults>>

(* What the component does with the length then is not known: it may       *)
(* forget it at one STOP and keep it at another.                           *)
StopOta ==
    /\ sender = "sending"
    /\ HostFree
    /\ ~SectorLeft
    /\ sender' = "done"
    /\ \/ UNCHANGED fw_length
       \/ StopMayClear /\ fw_length' = 0
    /\ UNCHANGED <<next, packet, uploads, hostVars, ringVars, taskVars,
                   flashVars, faults>>

(* The connection or the script ends early. *)
Interrupt ==
    /\ sender \in {"sending", "waiting"}
    /\ Fault("interrupt")
    /\ sender' = "idle"
    /\ UNCHANGED <<next, packet, uploads, fw_length, hostVars, ringVars,
                   taskVars, flashVars>>

-----------------------------------------------------------------------------
(* The host task, in write_to_ringbuf: it waits as long as there is no     *)
(* room.  Bytes that were received take room until they are returned.      *)
WriteToRingbuf ==
    /\ ~HostFree
    /\ Len(ring) + Len(item) + Len(host) <= RingSize
    /\ ring' = ring \o host
    /\ host' = <<>>
    /\ sector' = <<>>
    /\ IF sender = "waiting"
       THEN sender' = "sending" /\ next' = next + 1 /\ packet' = 0
       ELSE UNCHANGED <<sender, next, packet>>
    /\ UNCHANGED <<uploads, fw_length, readAt, item, taskVars, flashVars,
                   faults>>

-----------------------------------------------------------------------------
Goto(t) == task' = t

(* app_main: it brings up the Bluetooth host and creates ota_task.  When   *)
(* the controller or the host fails, it returns, and nothing runs.         *)
AppMain ==
    /\ task = "booting"
    /\ \/ Goto("starting") /\ UNCHANGED faults
       \/ Goto("off") /\ Fault("stack")
    /\ UNCHANGED <<senderVars, fw_length, hostVars, ringVars, out_handle,
                   recv_len, flashVars>>

(* ota_task.  Every error goes to OTA_ERROR: the task deletes itself.      *)

OtaBegin ==
    LET p == NextUpdate(boot)
    IN  /\ task = "starting"
        /\ \/ /\ Goto("receiving")
              /\ out_handle' = p
              /\ flash' = [flash EXCEPT ![p] = Blank]
              /\ UNCHANGED faults
           \/ /\ Goto("deleted")
              /\ Fault("flash")
              /\ \/ flash' = [flash EXCEPT ![p] = Erased(@)]
                 \/ UNCHANGED flash
              /\ UNCHANGED out_handle
        /\ UNCHANGED <<senderVars, fw_length, hostVars, ringVars, recv_len,
                       boot, running>>

(* xRingbufferReceive: what is there up to the end of the buffer. *)
Contiguous ==
    IF Len(ring) > RingSize - readAt THEN RingSize - readAt ELSE Len(ring)

Receive ==
    /\ task = "receiving"
    /\ ring # <<>>
    /\ Goto("writing")
    /\ item' = SubSeq(ring, 1, Contiguous)
    /\ ring' = SubSeq(ring, Contiguous + 1, Len(ring))
    /\ readAt' = (readAt + Contiguous) % RingSize
    /\ UNCHANGED <<senderVars, fw_length, hostVars, out_handle, recv_len,
                   flashVars, faults>>

(* esp_ota_write of the received bytes. *)
Write ==
    /\ task = "writing"
    /\ \/ /\ Goto("counting")
          /\ flash' = [flash EXCEPT ![out_handle] = Written(@, item)]
          /\ recv_len' = recv_len + Len(item)
          /\ item' = <<>>
          /\ UNCHANGED faults
       \/ /\ Goto("deleted")
          /\ Fault("flash")
          /\ UNCHANGED <<flash, recv_len, item>>
    /\ UNCHANGED <<senderVars, fw_length, hostVars, ring, readAt,
                   out_handle, boot, running>>

AllReceived == recv_len >= fw_length

Counted ==
    /\ task = "counting"
    /\ Goto(IF AllReceived THEN "ending" ELSE "receiving")
    /\ UNCHANGED <<senderVars, fw_length, hostVars, ringVars, out_handle,
                   recv_len, flashVars, faults>>

(* esp_ota_end verifies the image. *)
ImageVerified == Bootable(flash[out_handle])

OtaEnd ==
    /\ task = "ending"
    /\ \/ Goto("selecting") /\ ImageVerified /\ UNCHANGED faults
       \/ Goto("deleted") /\ ~ImageVerified /\ UNCHANGED faults
       \/ Goto("deleted") /\ ImageVerified /\ Fault("flash")
    /\ UNCHANGED <<senderVars, fw_length, hostVars, ringVars, out_handle,
                   recv_len, flashVars>>

(* A restart: nothing in RAM is left, and the sender loses its connection. *)
Restart ==
    /\ sender' = IF sender = "done" THEN "done" ELSE "idle"
    /\ fw_length' = 0
    /\ sector' = <<>> /\ host' = <<>>
    /\ ring' = <<>> /\ readAt' = 0 /\ item' = <<>>
    /\ task' = "booting" /\ out_handle' = NoSlot /\ recv_len' = 0
    /\ UNCHANGED <<next, packet, uploads, flash>>

(* esp_ota_set_boot_partition and esp_restart. *)
SelectAndRestart ==
    /\ boot' = out_handle
    /\ running' = out_handle
    /\ Restart
    /\ UNCHANGED faults

SetBoot ==
    /\ task = "selecting"
    /\ \/ SelectAndRestart
       \/ /\ Fault("flash")
          /\ Goto("deleted")
          /\ UNCHANGED <<senderVars, fw_length, hostVars, ringVars,
                         out_handle, recv_len, flashVars>>

PowerCycle ==
    /\ Fault("powerCycle")
    /\ Restart
    /\ running' = boot
    /\ UNCHANGED boot

-----------------------------------------------------------------------------
SenderStep == SendPacket \/ SendLastPacket \/ StopOta
TaskStep   ==
    AppMain \/ OtaBegin \/ Receive \/ Write \/ Counted \/ OtaEnd \/ SetBoot

Next ==
    \/ StartOta \/ SenderStep \/ Interrupt
    \/ WriteToRingbuf
    \/ TaskStep
    \/ PowerCycle

Spec == Init /\ [][Next]_vars

(* The script runs on when it was answered, and each task of the device    *)
(* when it has something to do.  Nothing makes anybody run the script.     *)
FairSpec ==
    /\ Spec
    /\ WF_vars(SenderStep) /\ WF_vars(WriteToRingbuf) /\ WF_vars(TaskStep)

-----------------------------------------------------------------------------
(* Every variable has its type. *)
TypeOK ==
    /\ sender \in {"idle", "sending", "waiting", "done"}
    /\ next \in Nat /\ packet \in Nat /\ uploads \in Nat
    /\ fw_length \in {0, ImageSize}
    /\ sector \in Seq(Nat) /\ host \in Seq(Nat)
    /\ ring \in Seq(Nat) /\ item \in Seq(Nat)
    /\ readAt \in 0 .. RingSize - 1
    /\ task \in {"booting", "off", "starting", "receiving", "writing",
                 "counting", "ending", "selecting", "deleted"}
    /\ out_handle \in Slots \cup {NoSlot}
    /\ recv_len \in Nat
    /\ flash \in [Slots -> Content]
    /\ boot \in Slots /\ running \in Slots
    /\ faults \in Nat

(* A power cycle at any moment comes up in a complete image: ota_task      *)
(* (app_main.c lines 239-251) selects a slot only after esp_ota_end, and   *)
(* it never writes the slot that boots.                                    *)
BootImageIntact == Bootable(flash[boot]) /\ Bootable(flash[running])

(* The packets of main.py lines 40-48 make up the whole sector: what comes *)
(* out of the component for it are its bytes, all of them and in order.    *)
SectorWhole ==
    sender = "waiting" =>
       /\ Len(host) \in SectorLength .. SectorSize
       /\ \A i \in 1 .. SectorLength : host[i] = next * SectorSize + i - 1

(* No packet is longer than one that is full, the last one with its        *)
(* checksum (main.py line 47) included.  The exception is an image that    *)
(* leaves all but one byte of a packet, or none, to its last packet.       *)
PacketsFit ==
    sender = "sending" /\ SectorLeft =>
       \/ PacketLength <= 3 + PacketSize
       \/ LastPacket /\ SectorLength < SectorSize
          /\ (SectorLength + 1) % PacketSize \in {0, 1}

(* The device's flash behaves as the abstract specification says.          *)
Safe == INSTANCE SafeUpdate WITH
            Clients <- {"device"},
            flash   <- [d \in {"device"} |-> flash],
            boot    <- [d \in {"device"} |-> boot],
            running <- [d \in {"device"} |-> running]

SafeUpdateSpec == Safe!SafeSpec

(* From the callback on (app_main.c line 258) to esp_ota_write (line 224)  *)
(* the device behaves as a bounded stream, across the end of the ring      *)
(* buffer, back-pressure, interrupted uploads and tasks that have ended.   *)
UnderWay == item \o ring \o host

Stream == INSTANCE ByteStream WITH
              Capacity <- RingSize + SectorSize,
              pending  <- UnderWay,
              content  <- IF out_handle = NoSlot THEN Blank
                                                 ELSE flash[out_handle]

StreamSpec == Stream!StreamOf

(* The host task never waits forever in write_to_ringbuf (line 148), which *)
(* would hold up every other Bluetooth event with it, unless ota_task has  *)
(* ended.                                                                  *)
HostGetsOn == ~HostFree ~> HostFree \/ task = "deleted"

(* What was handed to the device since it started: what is written, and    *)
(* what is on its way there.                                               *)
Arrived == recv_len + Len(UnderWay)

(* The sender has sent a STOP. *)
Stopped == sender = "done" \/ uploads > 1

(* As long as nothing fails and no upload is interrupted, ota_task leaves  *)
(* its loop (app_main.c lines 220-237) only when the whole image was       *)
(* handed over, whatever START and STOP do to the length between a write   *)
(* and the comparison.  It gives up (line 253) in one case only: a STOP    *)
(* cleared the length while the rest of the image was in the ring buffer.  *)
(* No padding, no bytes of the next upload and no item that is cut at the  *)
(* end of the buffer make it give up.                                      *)
GivesUpOnlyCutShort ==
    faults = 0 =>
       /\ task \in {"ending", "selecting", "deleted"} => Arrived >= ImageSize
       /\ task = "deleted" => StopMayClear /\ Stopped /\ recv_len < ImageSize

(* When the sender reports that the update is complete (main.py line 54),  *)
(* the device comes to run it, unless something fails or STOP cleared the  *)
(* length; if it did, ota_task is not left waiting for more either: it     *)
(* installs the image or gives up.                                         *)
DoneMeansUpdated ==
    /\ sender = "done" /\ faults = 0 ~>
          flash[running].fw = "new" \/ faults > 0 \/ fw_length = 0
    /\ sender = "done" /\ faults = 0 ~>
          flash[running].fw = "new" \/ faults > 0 \/ task = "deleted"

(* The same, whatever was interrupted before: nobody else is in the way of *)
(* this upload.                                                            *)
UploadInstalled == sender = "done" ~> flash[running].fw = "new"

=============================================================================
