---------------------------- MODULE BleOtaProofs ----------------------------
(***************************************************************************)
(* Proofs about BleOta, for every image, sector and ring buffer size, any  *)
(* number of uploads and any faults: types, and that the device's flash    *)
(* implements SafeUpdate.  Whatever the sender and the host task put into  *)
(* the ring buffer, the flash is changed by ota_task alone.                *)
(***************************************************************************)
EXTENDS BleOta, SequenceTheorems, TLAPS

(* BootImageIntact needs that ota_task writes aside from the slot that     *)
(* boots, and that what it selects was verified and not written since.     *)
Writing == {"receiving", "writing", "counting", "ending", "selecting"}

DeviceInv ==
    /\ boot = running
    /\ Bootable(flash[boot])
    /\ task \in Writing => out_handle = NextUpdate(boot)
    /\ task = "selecting" => Bootable(flash[out_handle])

IInv == TypeOK /\ DeviceInv

(* The update partition is another slot than the one that boots. *)
LEMMA NextUpdateAside ==
    ASSUME NEW s \in Slots
    PROVE  NextUpdate(s) \in Slots /\ NextUpdate(s) # s
  BY DEF NextUpdate, Slots

(* Erased, flashed and written contents are contents. *)
LEMMA ContentType ==
    /\ Blank \in Content /\ OldImage \in Content
    /\ \A x \in Content : Erased(x) \in Content
    /\ \A x \in Content, bytes \in Seq(Nat) : Written(x, bytes) \in Content
  <1>1. Blank \in Content /\ OldImage \in Content
    BY ImageSizeAssumption DEF Blank, OldImage, Content
  <1>2. ASSUME NEW x \in Content
        PROVE  Erased(x) \in Content
    BY DEF Erased, Content
  <1>3. ASSUME NEW x \in Content, NEW bytes \in Seq(Nat)
        PROVE  Written(x, bytes) \in Content
    <2> DEFINE y == Written(x, bytes)
    <2>1. x.fw \in {"old", "new"} /\ x.len + Len(bytes) \in Nat
      BY DEF Content
    <2>2. y = [fw |-> x.fw, len |-> x.len + Len(bytes), intact |-> y.intact]
      BY DEF Written
    <2>3. y.intact \in BOOLEAN
      BY Zenon DEF Written, Content
    <2> QED BY <2>1, <2>2, <2>3 DEF Content
  <1> QED BY <1>1, <1>2, <1>3

(* The bytes of a packet are positions in the image ... *)
LEMMA PayloadType ==
    ASSUME next \in Nat, packet \in Nat
    PROVE  Payload \in Seq(Nat)
  <1> DEFINE n     == PayloadLength
             start == next * SectorSize + packet * PacketSize
  <1>1. start \in Nat
    BY SizeAssumption
  <1>2. n \in Int
    BY <1>1, SizeAssumption, ImageSizeAssumption
    DEF PayloadLength, SectorLength, LesserOf
  <1> HIDE DEF start, n
  <1> DEFINE m == IF n < 0 THEN 0 ELSE n
  <1>3. m \in Nat /\ 1 .. m = 1 .. n
    BY <1>2
  <1>4. \A i \in 1 .. m : start + i - 1 \in Nat
    BY <1>1
  <1>5. [i \in 1 .. m |-> start + i - 1] \in Seq(Nat)
    BY <1>3, <1>4
  <1> QED BY <1>3, <1>5 DEF start, n, Payload

(* ... and so is what the component hands on for a sector. *)
LEMMA HandedType ==
    ASSUME SectorLeft, next \in Nat, NEW n \in Handed, NEW s \in Seq(Nat)
    PROVE  /\ n \in 1 .. SectorSize
           /\ [i \in 1 .. n |-> IF i <= Len(s) THEN s[i] ELSE Padding]
                 \in Seq(Nat)
  <1>1. next * SectorSize \in Nat
    BY SizeAssumption
  <1>2. n \in 1 .. SectorSize
    BY <1>1, SizeAssumption, ImageSizeAssumption
    DEF Handed, SectorLength, LesserOf, SectorLeft
  <1>3. \A i \in 1 .. n : (IF i <= Len(s) THEN s[i] ELSE Padding) \in Nat
    BY ImageSizeAssumption DEF Padding
  <1> QED BY <1>2, <1>3

(* What is received is some of what is in the ring buffer, and the rest    *)
(* stays there.                                                            *)
LEMMA ReceiveType ==
    ASSUME ring \in Seq(Nat), readAt \in 0 .. RingSize - 1
    PROVE  /\ SubSeq(ring, 1, Contiguous) \in Seq(Nat)
           /\ SubSeq(ring, Contiguous + 1, Len(ring)) \in Seq(Nat)
           /\ (readAt + Contiguous) % RingSize \in 0 .. RingSize - 1
  <1>1. Contiguous \in 0 .. Len(ring)
    BY SizeAssumption DEF Contiguous
  <1>2. \A i \in 1 .. Len(ring) : ring[i] \in Nat
    OBVIOUS
  <1>3. SubSeq(ring, 1, Contiguous) \in Seq(Nat)
    BY <1>1, <1>2, SubSeqProperties
  <1>4. SubSeq(ring, Contiguous + 1, Len(ring)) \in Seq(Nat)
    BY <1>1, <1>2, SubSeqProperties
  <1>5. RingSize \in Nat \ {0} /\ readAt + Contiguous \in Nat
    BY <1>1, SizeAssumption
  <1>6. (readAt + Contiguous) % RingSize \in 0 .. RingSize - 1
    BY <1>5
  <1> QED BY <1>3, <1>4, <1>6

-----------------------------------------------------------------------------
(* Restarting forgets what is in RAM, and keeps the types. *)
LEMMA RestartType ==
    ASSUME TypeOK, Restart, running' \in Slots, boot' \in Slots, faults' \in Nat
    PROVE  TypeOK'
  BY SizeAssumption, EmptySeq DEF TypeOK, Restart, NoSlot

LEMMA FaultType ==
    ASSUME faults \in Nat, NEW kind, Fault(kind)
    PROVE  faults' \in Nat
  BY DEF Fault

LEMMA TypeInit == Init => TypeOK
  BY SizeAssumption, EmptySeq, ContentType
  DEF Init, TypeOK, Slots

LEMMA TypeStep ==
    ASSUME TypeOK, DeviceInv, [Next]_vars
    PROVE  TypeOK'
  <1>1. CASE StartOta
    BY <1>1 DEF StartOta, TypeOK, ringVars, taskVars, flashVars
  <1>2. CASE SendPacket
    <2>1. sector' \in Seq(Nat)
      BY <1>2, PayloadType, ConcatProperties DEF SendPacket, TypeOK
    <2> QED BY <1>2, <2>1 DEF SendPacket, TypeOK, ringVars, taskVars, flashVars
  <1>14. CASE SendLastPacket
    <2>1. sector' \in Seq(Nat)
      BY <1>14, PayloadType, ConcatProperties DEF SendLastPacket, TypeOK
    <2>2. host' \in Seq(Nat)
      BY <1>14, <2>1, HandedType DEF SendLastPacket, TypeOK
    <2> QED
      BY <1>14, <2>1, <2>2
      DEF SendLastPacket, TypeOK, ringVars, taskVars, flashVars
  <1>15. CASE AppMain
    <2>1. faults' \in Nat
      BY <1>15, FaultType DEF AppMain, TypeOK
    <2> QED
      BY <1>15, <2>1
      DEF AppMain, Goto, TypeOK, senderVars, hostVars, ringVars, flashVars
  <1>3. CASE StopOta
    BY <1>3 DEF StopOta, TypeOK, hostVars, ringVars, taskVars, flashVars
  <1>4. CASE Interrupt
    BY <1>4, FaultType
    DEF Interrupt, TypeOK, hostVars, ringVars, taskVars, flashVars
  <1>5. CASE WriteToRingbuf
    <2>1. ring' \in Seq(Nat) /\ host' \in Seq(Nat) /\ sector' \in Seq(Nat)
      BY <1>5, ConcatProperties, EmptySeq DEF WriteToRingbuf, TypeOK
    <2> QED BY <1>5, <2>1 DEF WriteToRingbuf, TypeOK, taskVars, flashVars
  <1>6. CASE OtaBegin
    <2>1. NextUpdate(boot) \in Slots
      BY NextUpdateAside DEF TypeOK
    <2>2. flash' \in [Slots -> Content]
      BY <1>6, <2>1, ContentType DEF OtaBegin, TypeOK
    <2>3. faults' \in Nat
      BY <1>6, FaultType DEF OtaBegin, TypeOK
    <2> QED
      BY <1>6, <2>1, <2>2, <2>3
      DEF OtaBegin, Goto, TypeOK, senderVars, hostVars, ringVars
  <1>7. CASE Receive
    <2>1. item' \in Seq(Nat) /\ ring' \in Seq(Nat) /\ readAt' \in 0 .. RingSize - 1
      BY <1>7, ReceiveType DEF Receive, TypeOK
    <2> QED
      BY <1>7, <2>1 DEF Receive, Goto, TypeOK, senderVars, hostVars, flashVars
  <1>8. CASE Write
    <2>1. out_handle \in Slots
      BY <1>8, NextUpdateAside DEF Write, TypeOK, DeviceInv, Writing
    <2>2. \/ /\ flash' = [flash EXCEPT ![out_handle] =
                                Written(flash[out_handle], item)]
             /\ recv_len' = recv_len + Len(item)
             /\ item' = <<>> /\ faults' = faults
          \/ Fault("flash") /\ UNCHANGED <<flash, recv_len, item>>
      BY <1>8 DEF Write
    <2>3. /\ Written(flash[out_handle], item) \in Content
          /\ Len(item) \in Nat
      BY <2>1, ContentType DEF TypeOK
    <2>4. flash' \in [Slots -> Content]
      BY <2>1, <2>2, <2>3 DEF TypeOK
    <2>5. faults' \in Nat /\ recv_len' \in Nat /\ item' \in Seq(Nat)
      <3>1. <<>> \in Seq(Nat)
        BY EmptySeq
      <3>2. Fault("flash") => faults' \in Nat
        BY FaultType DEF TypeOK
      <3>3. CASE /\ recv_len' = recv_len + Len(item)
                 /\ item' = <<>> /\ faults' = faults
        BY <2>3, <3>1, <3>3 DEF TypeOK
      <3>4. CASE Fault("flash") /\ UNCHANGED <<flash, recv_len, item>>
        BY <3>2, <3>4 DEF TypeOK
      <3> QED BY <2>2, <3>3, <3>4
    <2> QED
      BY <1>8, <2>4, <2>5 DEF Write, Goto, TypeOK, senderVars, hostVars
  <1>9. CASE Counted
    BY <1>9
    DEF Counted, Goto, TypeOK, senderVars, hostVars, ringVars, flashVars
  <1>10. CASE OtaEnd
    <2>1. faults' \in Nat
      BY <1>10, FaultType DEF OtaEnd, TypeOK
    <2> QED
      BY <1>10, <2>1
      DEF OtaEnd, Goto, TypeOK, senderVars, hostVars, ringVars, flashVars
  <1>11. CASE SetBoot
    <2>1. out_handle \in Slots
      BY <1>11, NextUpdateAside DEF SetBoot, TypeOK, DeviceInv, Writing
    <2>2. CASE SelectAndRestart
      BY <2>1, <2>2, RestartType DEF SelectAndRestart, TypeOK
    <2>3. CASE ~SelectAndRestart
      BY <1>11, <2>3, FaultType
      DEF SetBoot, Goto, TypeOK, senderVars, hostVars, ringVars, flashVars
    <2> QED BY <2>2, <2>3
  <1>12. CASE PowerCycle
    BY <1>12, FaultType, RestartType DEF PowerCycle, TypeOK
  <1>13. CASE UNCHANGED vars
    BY <1>13
    DEF vars, senderVars, hostVars, ringVars, taskVars, flashVars, TypeOK
  <1> QED
    BY <1>1, <1>2, <1>3, <1>4, <1>5, <1>6, <1>7, <1>8, <1>9, <1>10, <1>11,
       <1>12, <1>13, <1>14, <1>15
    DEF Next, SenderStep, TaskStep

-----------------------------------------------------------------------------
(* The steps of ota_task, and what the others leave alone. *)
deviceVars == <<task, out_handle, flash, boot, running>>

LEMMA DeviceStep ==
    ASSUME TypeOK, DeviceInv, [Next]_vars
    PROVE  DeviceInv'
  <1> DEFINE p == NextUpdate(boot)
  <1>1. p \in Slots /\ p # boot
    BY NextUpdateAside DEF TypeOK
  <1>2. CASE UNCHANGED deviceVars
    BY <1>2 DEF deviceVars, DeviceInv, Bootable
  <1>3. CASE OtaBegin
    <2>1. flash'[boot] = flash[boot] /\ boot' = boot /\ running' = running
      BY <1>1, <1>3 DEF OtaBegin, TypeOK
    <2>2. /\ task' \in {"receiving", "deleted"}
          /\ task' = "receiving" => out_handle' = p
      BY <1>3 DEF OtaBegin, Goto
    <2> QED BY <2>1, <2>2 DEF DeviceInv, Bootable, Writing
  <1>11. CASE AppMain
    <2>1. /\ UNCHANGED <<out_handle, flash, boot, running>>
          /\ task' \notin Writing
      BY <1>11 DEF AppMain, Goto, Writing, flashVars
    <2> QED BY <2>1 DEF DeviceInv, Bootable, Writing
  <1>4. CASE Receive \/ Counted
    <2>1. /\ UNCHANGED <<out_handle, flash, boot, running>>
          /\ task \in Writing /\ task' \in Writing /\ task' # "selecting"
      BY <1>4 DEF Receive, Counted, Goto, Writing, taskVars, flashVars
    <2> QED BY <2>1 DEF DeviceInv, Bootable
  <1>5. CASE Write
    <2>1. out_handle = p
      BY <1>5 DEF Write, DeviceInv, Writing
    <2>2. flash'[boot] = flash[boot]
      BY <1>1, <1>5, <2>1 DEF Write, TypeOK
    <2>3. /\ UNCHANGED <<out_handle, boot, running>>
          /\ task' \in {"counting", "deleted"}
      BY <1>5 DEF Write, Goto
    <2> QED BY <2>1, <2>2, <2>3 DEF DeviceInv, Bootable
  <1>6. CASE OtaEnd
    <2>1. /\ UNCHANGED <<out_handle, flash, boot, running>>
          /\ task = "ending" /\ task' \in {"selecting", "deleted"}
          /\ task' = "selecting" => Bootable(flash[out_handle])
      BY <1>6 DEF OtaEnd, Goto, ImageVerified, flashVars
    <2> QED BY <2>1 DEF DeviceInv, Bootable, Writing
  <1>7. CASE SetBoot
    <2>1. Bootable(flash[out_handle])
      BY <1>7 DEF SetBoot, DeviceInv
    <2>2. CASE SelectAndRestart
      BY <2>1, <2>2
      DEF SelectAndRestart, Restart, DeviceInv, Bootable, Writing
    <2>3. CASE ~SelectAndRestart
      <3>1. UNCHANGED <<flash, boot, running>> /\ task' = "deleted"
        BY <1>7, <2>3 DEF SetBoot, Goto, flashVars
      <3> QED BY <3>1 DEF DeviceInv, Bootable, Writing
    <2> QED BY <2>2, <2>3
  <1>8. CASE PowerCycle
    BY <1>8 DEF PowerCycle, Restart, DeviceInv, Bootable, Writing
  <1>9. CASE StartOta \/ SenderStep \/ Interrupt \/ WriteToRingbuf
    BY <1>2, <1>9
    DEF StartOta, SenderStep, SendPacket, SendLastPacket, StopOta, Interrupt,
        WriteToRingbuf, taskVars, flashVars, deviceVars
  <1>10. CASE UNCHANGED vars
    BY <1>2, <1>10 DEF vars, taskVars, flashVars, deviceVars
  <1> QED
    BY <1>3, <1>4, <1>5, <1>6, <1>7, <1>8, <1>9, <1>10, <1>11
    DEF Next, TaskStep

(* The inductive invariant. *)
LEMMA IInvInit == Init => IInv
  BY TypeInit, ImageSizeAssumption
  DEF IInv, Init, DeviceInv, Bootable, OldImage, Slots, Writing

THEOREM InductiveInvariant == Spec => []IInv
  <1>1. IInv /\ [Next]_vars => IInv'
    BY TypeStep, DeviceStep DEF IInv
  <1> QED BY <1>1, IInvInit, PTL DEF Spec

(* Every variable of the Bluetooth system keeps its type. *)
THEOREM TypeCorrect == Spec => []TypeOK
  <1>1. IInv => TypeOK
    BY DEF IInv
  <1> QED BY <1>1, InductiveInvariant, PTL

(* Whatever is uploaded, interrupted or lost, the device comes up in a     *)
(* complete image: ota_task (app_main.c lines 239-251) verifies what it    *)
(* selects, and does not write what boots.                                 *)
THEOREM BootSafety == Spec => []BootImageIntact
  <1>1. IInv => BootImageIntact
    BY DEF IInv, DeviceInv, BootImageIntact
  <1> QED BY <1>1, InductiveInvariant, PTL

-----------------------------------------------------------------------------
(* The device implements SafeUpdate. *)
Device == "device"

LEMMA SafeInitHolds == Init => Safe!SafeInit
  <1> SUFFICES ASSUME Init PROVE Safe!SafeInit
    OBVIOUS
  <1>1. TypeOK /\ DeviceInv
    BY IInvInit DEF IInv
  <1> QED
    BY <1>1
    DEF Safe!SafeInit, Safe!Content, Safe!Slots, Safe!Bootable,
        TypeOK, DeviceInv, Content, Slots, Bootable

(* A step that leaves the slot that boots as it was is a Rewrite ... *)
LEMMA SafeRewrite ==
    ASSUME IInv, IInv', flash'[boot] = flash[boot],
           UNCHANGED <<boot, running>>
    PROVE  Safe!Rewrite(Device)
  BY DEF Device, IInv, TypeOK, DeviceInv, Safe!Rewrite, Safe!Content,
         Safe!Slots, Content, Slots

(* ... and selecting and restarting are what they are there. *)
LEMMA SafeSelect ==
    ASSUME IInv, NEW s \in Slots, Bootable(flash[s]),
           boot' = s, running' = s, UNCHANGED flash
    PROVE  Safe!Select(Device)
  BY DEF Device, IInv, Safe!Select, Safe!Slots, Safe!Bootable, Slots, Bootable

LEMMA SafeReset ==
    ASSUME IInv, running' = boot, UNCHANGED <<flash, boot>>
    PROVE  Safe!Reset(Device)
  BY DEF Device, IInv, Safe!Reset

LEMMA SafeStep ==
    ASSUME IInv, IInv', [Next]_vars
    PROVE  [Safe!SafeNext]_Safe!svars
  <1>1. CASE UNCHANGED flashVars
    BY <1>1 DEF flashVars, Safe!svars
  <1>2. CASE OtaBegin \/ Write
    <2> DEFINE p == NextUpdate(boot)
    <2>1. p # boot
      BY NextUpdateAside DEF IInv, TypeOK
    <2>2. Write => out_handle = p
      BY DEF Write, IInv, DeviceInv, Writing
    <2>3. /\ flash' = flash \/ \E x : flash' = [flash EXCEPT ![p] = x]
          /\ UNCHANGED <<boot, running>>
      BY <1>2, <2>2 DEF OtaBegin, Write
    <2> HIDE DEF p
    <2>4. flash'[boot] = flash[boot]
      BY <2>1, <2>3 DEF IInv, TypeOK
    <2> QED BY <2>3, <2>4, SafeRewrite DEF Safe!SafeNext, Device
  <1>3. CASE SetBoot /\ SelectAndRestart
    <2>1. out_handle \in Slots /\ Bootable(flash[out_handle])
      BY <1>3, NextUpdateAside DEF SetBoot, IInv, TypeOK, DeviceInv, Writing
    <2>2. boot' = out_handle /\ running' = out_handle /\ UNCHANGED flash
      BY <1>3 DEF SelectAndRestart, Restart
    <2> QED BY <2>1, <2>2, SafeSelect DEF Safe!SafeNext, Device
  <1>4. CASE PowerCycle
    <2>1. running' = boot /\ UNCHANGED <<flash, boot>>
      BY <1>4 DEF PowerCycle, Restart
    <2> QED BY <2>1, SafeReset DEF Safe!SafeNext, Device
  <1>5. CASE SetBoot /\ ~SelectAndRestart
    BY <1>1, <1>5 DEF SetBoot
  <1>6. CASE AppMain \/ Receive \/ Counted \/ OtaEnd
    BY <1>1, <1>6 DEF AppMain, Receive, Counted, OtaEnd
  <1>7. CASE StartOta \/ SenderStep \/ Interrupt \/ WriteToRingbuf
    BY <1>1, <1>7
    DEF StartOta, SenderStep, SendPacket, SendLastPacket, StopOta, Interrupt,
        WriteToRingbuf
  <1>8. CASE UNCHANGED vars
    BY <1>1, <1>8 DEF vars
  <1> QED
    BY <1>2, <1>3, <1>4, <1>5, <1>6, <1>7, <1>8 DEF Next, TaskStep

(* The Bluetooth device, too, behaves as SafeUpdate promises. *)
THEOREM Refinement == Spec => SafeUpdateSpec
  <1>1. IInv /\ IInv' /\ [Next]_vars => [Safe!SafeNext]_Safe!svars
    BY SafeStep
  <1> QED
    BY <1>1, SafeInitHolds, InductiveInvariant, PTL
    DEF Spec, SafeUpdateSpec, Safe!SafeSpec

=============================================================================
