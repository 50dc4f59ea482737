--------------------------- MODULE BleUploadProofs ---------------------------
(***************************************************************************)
(* Proofs about BleOta, from the sender to flash: as long as nothing fails *)
(* and no upload is interrupted, what is on its way is the image, from the *)
(* byte that is written next, and ota_task takes all that it waits for.    *)
(***************************************************************************)
EXTENDS BleStreamProofs

(* The bytes of s are the image's, from position `at` to its end. *)
InPlace(s, at) ==
    \A i \in 1 .. Len(s) : at + i - 1 < ImageSize => s[i] = at + i - 1

(* What the sender thinks of how much has arrived.  From the image's end   *)
(* on it does not matter: that is the padding, and uploads that begin      *)
(* before ota_task has ended.                                              *)
Position ==
    \/ Arrived >= ImageSize
    \/ sender \in {"idle", "done"} /\ Arrived = 0
    \/ sender = "sending" /\ Arrived = next * SectorSize
    \/ sender = "waiting" /\ Arrived = (next + 1) * SectorSize

(* STOP is sent behind the last sector.  Only then may the length be gone. *)
Complete == StopMayClear /\ Stopped /\ Arrived >= ImageSize

(* The length is there before the first byte is counted. *)
Announced ==
    Arrived > 0 \/ sender \in {"sending", "waiting"} =>
       fw_length = ImageSize \/ Complete

(* What is written is the image's beginning. *)
WrittenInPlace ==
    /\ task \in {"booting", "starting"} => recv_len = 0
    /\ task \in Writing =>
          flash[out_handle].intact /\ flash[out_handle].len = recv_len
    /\ task = "counting" => recv_len > 0

(* It is all of it at the end, unless the length was cleared.              *)
Ended ==
    /\ task \in {"ending", "selecting", "deleted"} =>
          Arrived >= ImageSize /\ (recv_len >= ImageSize \/ Complete)
    /\ task = "selecting" => recv_len >= ImageSize
    /\ task = "deleted" => recv_len < ImageSize

UploadInv ==
    faults = 0 =>
       /\ task # "off"
       /\ sender \in {"sending", "waiting", "done"} => uploads > 0
       /\ InPlace(UnderWay, recv_len)
       /\ Position
       /\ Announced
       /\ WrittenInPlace
       /\ Ended

(* The invariants that it rests on. *)
BleInv == IInv /\ PacketInv /\ StreamInv

-----------------------------------------------------------------------------
LEMMA ArrivedType ==
    ASSUME TypeOK
    PROVE  Arrived \in Nat /\ recv_len \in Nat /\ Len(UnderWay) \in Nat
  BY UnderWayType DEF Arrived, TypeOK

(* Without a fault, no fault has happened before. *)
LEMMA NoFaultBefore ==
    ASSUME TypeOK, [Next]_vars, faults' = 0
    PROVE  /\ faults = 0
           /\ \A kind : ~Fault(kind)
  <1>1. \A kind : Fault(kind) => faults' = faults + 1
    BY DEF Fault
  <1>2. \A kind : ~Fault(kind)
    BY <1>1 DEF TypeOK
  <1>3. faults' = faults
    BY <1>2
    DEF Next, StartOta, SenderStep, SendPacket, SendLastPacket, StopOta,
        Interrupt, WriteToRingbuf, TaskStep, AppMain, OtaBegin, Receive,
        Write, Counted, OtaEnd, SetBoot, SelectAndRestart, PowerCycle, vars
  <1> QED BY <1>2, <1>3

(* What was complete stays so, unless the device restarts. *)
LEMMA CompleteStays ==
    ASSUME TypeOK, UploadInv, faults = 0, Arrived' \in Nat, Arrived' >= Arrived,
           \/ UNCHANGED <<sender, uploads>>
           \/ sender # "done" /\ UNCHANGED uploads
           \/ sender' = "done"
           \/ uploads' = uploads + 1
    PROVE  Complete => Complete'
  <1>1. Arrived \in Nat
    BY ArrivedType
  <1>2. Stopped => Stopped'
    BY DEF UploadInv, Stopped, TypeOK
  <1> QED BY <1>1, <1>2, ImageSizeAssumption DEF Complete

(* The sender's steps that hand nothing over. *)
LEMMA SenderKeeps ==
    ASSUME BleInv, UploadInv, faults = 0,
           StartOta \/ SendPacket \/ StopOta
    PROVE  UploadInv'
  <1>1. /\ UNCHANGED <<task, out_handle, recv_len, flash>>
        /\ UnderWay' = UnderWay
    BY DEF StartOta, SendPacket, StopOta, hostVars, ringVars, taskVars,
           flashVars, UnderWay
  <1>2. Arrived' = Arrived /\ Arrived \in Nat
    BY <1>1, ArrivedType DEF Arrived, BleInv, IInv
  <1>3. Position'
    <2>1. CASE StartOta
      <3>1. sender \in {"idle", "done"} /\ sender' = "sending" /\ next' = 0
        BY <2>1 DEF StartOta
      <3>2. Arrived >= ImageSize \/ Arrived = 0
        BY <3>1 DEF UploadInv, Position
      <3>3. 0 * SectorSize = 0
        BY SizeAssumption
      <3> QED BY <1>2, <3>1, <3>2, <3>3 DEF Position
    <2>2. CASE SendPacket
      BY <1>2, <2>2 DEF SendPacket, UploadInv, Position
    <2>3. CASE StopOta
      <3>1. sender = "sending" /\ ~(next * SectorSize < ImageSize)
        BY <2>3 DEF StopOta, SectorLeft
      <3>2. next * SectorSize \in Nat
        BY SizeAssumption DEF BleInv, IInv, TypeOK
      <3>3. Arrived >= ImageSize
        BY <3>1, <3>2, ImageSizeAssumption DEF UploadInv, Position
      <3> QED BY <1>2, <3>3 DEF Position
    <2> QED BY <2>1, <2>2, <2>3
  <1>4. Complete => Complete'
    <2>1. /\ Arrived' \in Nat /\ Arrived' >= Arrived
          /\ \/ UNCHANGED <<sender, uploads>>
             \/ sender' = "done"
             \/ uploads' = uploads + 1
      BY <1>2 DEF StartOta, SendPacket, StopOta
    <2> QED BY <2>1, CompleteStays DEF BleInv, IInv
  <1>5. Announced'
    <2>1. CASE StartOta
      BY <2>1 DEF StartOta, Announced
    <2>2. CASE SendPacket
      BY <1>4, <2>2 DEF SendPacket, UploadInv, Announced
    <2>3. CASE StopOta
      <3>1. sender = "sending" /\ sender' = "done"
        BY <2>3 DEF StopOta
      <3>2. CASE UNCHANGED fw_length
        BY <1>4, <3>1, <3>2 DEF UploadInv, Announced
      <3>3. CASE StopMayClear /\ fw_length' = 0
        <4>1. ~(next * SectorSize < ImageSize) /\ next * SectorSize \in Nat
          BY <2>3, SizeAssumption DEF StopOta, SectorLeft, BleInv, IInv, TypeOK
        <4>2. Arrived >= ImageSize
          BY <3>1, <4>1, ImageSizeAssumption DEF UploadInv, Position
        <4> QED
          BY <1>2, <3>1, <3>3, <4>2 DEF Announced, Complete, Stopped
      <3> QED BY <2>3, <3>2, <3>3 DEF StopOta
    <2> QED BY <2>1, <2>2, <2>3
  <1>6. sender' \in {"sending", "waiting", "done"} => uploads' > 0
    BY DEF StartOta, SendPacket, StopOta, UploadInv, BleInv, IInv, TypeOK
  <1>7. Ended'
    BY <1>1, <1>2, <1>4 DEF UploadInv, Ended
  <1> QED
    BY <1>1, <1>3, <1>5, <1>6, <1>7 DEF UploadInv, InPlace, WrittenInPlace

(* The last packet of a sector: its bytes come where the others end. *)
LEMMA SectorKeeps ==
    ASSUME BleInv, BleInv', UploadInv, faults = 0, SendLastPacket
    PROVE  UploadInv'
  <1>1. /\ sender = "sending" /\ sender' = "waiting" /\ SectorLeft /\ HostFree
        /\ UNCHANGED <<next, uploads, task, out_handle, recv_len, flash,
                       fw_length, item, ring>>
    BY DEF SendLastPacket, ringVars, taskVars, flashVars
  <1>2. /\ SectorLength \in Nat \ {0} /\ SectorLength <= SectorSize
        /\ next \in Nat /\ next * SectorSize \in Nat
        /\ (next + 1) * SectorSize = next * SectorSize + SectorSize
    BY <1>1, SectorLengthType, SizeAssumption DEF BleInv, IInv, TypeOK
  <1>3. /\ host' \in Seq(Nat) /\ Len(host') \in SectorLength .. SectorSize
        /\ \A i \in 1 .. SectorLength : host'[i] = next * SectorSize + i - 1
    BY <1>1
    DEF BleInv, IInv, TypeOK, PacketInv, SectorWhole, SectorLength, LesserOf
  <1> DEFINE old == item \o ring
             n   == Len(host')
  <1>4. old \in Seq(Nat) /\ UnderWay = old /\ UnderWay' = old \o host'
    <2>1. old \in Seq(Nat)
      BY ConcatProperties DEF BleInv, IInv, TypeOK
    <2>2. old \o <<>> = old
      BY <2>1, ConcatEmptySeq
    <2> QED BY <1>1, <2>1, <2>2 DEF UnderWay, HostFree
  <1>5. n \in Nat /\ n >= SectorLength /\ n <= SectorSize
    BY <1>2, <1>3, SizeAssumption
  <1> HIDE DEF old, n
  <1>6. Len(old) \in Nat /\ recv_len \in Nat
    BY <1>4 DEF BleInv, IInv, TypeOK
  <1>7. /\ Len(UnderWay') = Len(old) + n
        /\ \A i \in 1 .. Len(old) + n :
              UnderWay'[i] = IF i <= Len(old) THEN old[i] ELSE host'[i - Len(old)]
    BY <1>3, <1>4, ConcatProperties DEF n
  <1>8. Arrived = recv_len + Len(old) /\ Arrived' = recv_len + Len(old) + n
    <2>1. Len(UnderWay) = Len(old)
      BY <1>4
    <2> QED BY <1>1, <1>5, <1>6, <1>7, <2>1 DEF Arrived
  <1>9. Arrived >= ImageSize \/ Arrived = next * SectorSize
    BY <1>1 DEF UploadInv, Position
  <1>10. SectorLength = SectorSize \/ next * SectorSize + SectorLength = ImageSize
    BY <1>2, SizeAssumption, ImageSizeAssumption DEF SectorLength, LesserOf
  <1>11. InPlace(UnderWay', recv_len)
    <2> SUFFICES ASSUME NEW i \in 1 .. Len(UnderWay'),
                        recv_len + i - 1 < ImageSize
                 PROVE  UnderWay'[i] = recv_len + i - 1
      BY DEF InPlace
    <2>1. CASE i <= Len(old)
      <3>1. i \in 1 .. Len(UnderWay)
        BY <1>4, <1>6, <1>7, <2>1
      <3> QED BY <1>4, <1>7, <2>1, <3>1 DEF UploadInv, InPlace
    <2>2. CASE i > Len(old)
      <3> DEFINE k == i - Len(old)
      <3>1. k \in 1 .. n /\ UnderWay'[i] = host'[k]
        BY <1>5, <1>6, <1>7, <2>2
      <3>2. recv_len + i - 1 = Arrived + k - 1 /\ Arrived \in Nat
        BY <1>6, <1>8, <2>2
      <3> HIDE DEF k
      <3>3. Arrived = next * SectorSize
        BY <1>2, <1>9, <3>1, <3>2, <1>5, ImageSizeAssumption
      <3>4. k \in 1 .. SectorLength
        BY <1>2, <1>5, <1>10, <3>1, <3>2, <3>3, SizeAssumption, ImageSizeAssumption
      <3> QED BY <1>3, <3>1, <3>2, <3>3, <3>4
    <2> QED BY <1>5, <1>6, <1>7, <2>1, <2>2
  <1>12. Position'
    <2>1. CASE Arrived >= ImageSize
      BY <1>5, <1>6, <1>8, <2>1, ImageSizeAssumption DEF Position
    <2>2. CASE Arrived = next * SectorSize
      <3>1. n = SectorSize \/ Arrived' >= ImageSize
        BY <1>2, <1>5, <1>6, <1>8, <1>10, <2>2, SizeAssumption, ImageSizeAssumption
      <3>2. n = SectorSize => Arrived' = (next' + 1) * SectorSize
        BY <1>1, <1>2, <1>6, <1>8, <2>2, SizeAssumption
      <3> QED BY <1>1, <3>1, <3>2 DEF Position
    <2> QED BY <1>9, <2>1, <2>2
  <1>13. Arrived \in Nat /\ Arrived' \in Nat /\ Arrived' >= Arrived
    BY <1>5, <1>6, <1>8
  <1>14. Complete => Complete'
    BY <1>1, <1>13, CompleteStays DEF BleInv, IInv
  <1>15. Announced'
    BY <1>1, <1>14 DEF UploadInv, Announced
  <1>16. Ended'
    BY <1>1, <1>13, <1>14, ImageSizeAssumption DEF UploadInv, Ended
  <1> QED
    BY <1>1, <1>11, <1>12, <1>15, <1>16 DEF UploadInv, WrittenInPlace

(* What moves on in the device keeps its place. *)
LEMMA MoveKeeps ==
    ASSUME BleInv, UploadInv, faults = 0, WriteToRingbuf \/ Receive
    PROVE  UploadInv'
  <1>1. /\ UnderWay' = UnderWay
        /\ UNCHANGED <<recv_len, out_handle, flash, fw_length>>
    BY WriteToRingbufMoves, ReceiveMoves
    DEF BleInv, IInv, WriteToRingbuf, Receive, taskVars, flashVars
  <1>2. Arrived' = Arrived
    BY <1>1 DEF Arrived
  <1>3. Position'
    <2>1. CASE WriteToRingbuf /\ sender = "waiting"
      BY <1>2, <2>1 DEF WriteToRingbuf, UploadInv, Position
    <2>2. CASE UNCHANGED <<sender, next>>
      BY <1>2, <2>2 DEF UploadInv, Position
    <2> QED BY <2>1, <2>2 DEF WriteToRingbuf, Receive, senderVars
  <1>4. /\ sender' \in {"sending", "waiting"} => sender \in {"sending", "waiting"}
        /\ sender' = "done" <=> sender = "done"
        /\ uploads' = uploads
    BY DEF WriteToRingbuf, Receive, senderVars
  <1>5. \/ task' = task
        \/ task = "receiving" /\ task' = "writing"
    BY DEF WriteToRingbuf, Receive, Goto, taskVars
  <1>6. Complete' <=> Complete
    BY <1>2, <1>4 DEF Complete, Stopped
  <1>7. Announced' /\ Ended'
    BY <1>1, <1>2, <1>4, <1>5, <1>6 DEF UploadInv, Announced, Ended
  <1> QED
    BY <1>1, <1>3, <1>4, <1>5, <1>7 DEF UploadInv, WrittenInPlace, Writing

(* What is left of a sequence without its first n elements. *)
LEMMA TailOfSeq ==
    ASSUME NEW s \in Seq(Nat), NEW n \in 1 .. Len(s),
           NEW t, SubSeq(s, n + 1, Len(s)) = t
    PROVE  /\ Len(t) = Len(s) - n
           /\ \A i \in 1 .. Len(s) - n : t[i] = s[n + i]
  OBVIOUS

(* esp_ota_write takes the bytes that come next. *)
LEMMA WriteKeeps ==
    ASSUME BleInv, UploadInv, faults = 0, Write, faults' = 0
    PROVE  UploadInv'
  <1>1. /\ task = "writing" /\ task' = "counting"
        /\ flash' = [flash EXCEPT ![out_handle] =
                        Written(flash[out_handle], item)]
        /\ recv_len' = recv_len + Len(item)
        /\ UNCHANGED <<sender, next, uploads, fw_length, out_handle>>
    BY DEF Write, Goto, Fault, senderVars
  <1> DEFINE n == Len(item)
  <1>2. /\ n \in 1 .. Len(UnderWay)
        /\ SubSeq(UnderWay, 1, n) = item
        /\ SubSeq(UnderWay, n + 1, Len(UnderWay)) = UnderWay'
    BY <1>1, WriteTakes DEF BleInv, IInv
  <1>3. UnderWay \in Seq(Nat) /\ \A i \in 1 .. Len(UnderWay) : UnderWay[i] \in Nat
    BY UnderWayType DEF BleInv, IInv
  <1>4. \A i \in 1 .. n : item[i] = UnderWay[i]
    BY <1>2, <1>3, SubSeqProperties
  <1>5. /\ Len(UnderWay') = Len(UnderWay) - n
        /\ \A i \in 1 .. Len(UnderWay) - n : UnderWay'[i] = UnderWay[n + i]
    BY <1>2, <1>3, TailOfSeq
  <1>6. recv_len \in Nat /\ Len(UnderWay) \in Nat /\ n \in Nat
    BY ArrivedType, <1>2 DEF BleInv, IInv
  <1> HIDE DEF n
  <1>7. recv_len' = recv_len + n
    BY <1>1 DEF n
  <1>8. InPlace(UnderWay', recv_len')
    <2> SUFFICES ASSUME NEW i \in 1 .. Len(UnderWay'),
                        recv_len' + i - 1 < ImageSize
                 PROVE  UnderWay'[i] = recv_len' + i - 1
      BY DEF InPlace
    <2>1. /\ n + i \in 1 .. Len(UnderWay)
          /\ recv_len + (n + i) - 1 = recv_len' + i - 1
          /\ UnderWay'[i] = UnderWay[n + i]
      BY <1>2, <1>5, <1>6, <1>7
    <2> QED BY <2>1 DEF UploadInv, InPlace
  <1>9. Arrived' = Arrived
    BY <1>2, <1>5, <1>6, <1>7 DEF Arrived
  <1>10. Position' /\ Announced' /\ Ended'
    BY <1>1, <1>9
    DEF UploadInv, Position, Announced, Ended, Complete, Stopped
  <1>11. flash[out_handle].intact /\ flash[out_handle].len = recv_len
    BY <1>1 DEF UploadInv, WrittenInPlace, Writing
  <1>12. flash'[out_handle] = Written(flash[out_handle], item)
    <2>1. out_handle \in Slots
      BY <1>1, NextUpdateAside DEF BleInv, IInv, TypeOK, DeviceInv, Writing
    <2> QED BY <1>1, <2>1 DEF BleInv, IInv, TypeOK
  <1>13. \A i \in 1 .. Len(item) :
            recv_len + i - 1 < ImageSize => item[i] = recv_len + i - 1
    BY <1>2, <1>4, <1>6 DEF UploadInv, InPlace, n
  <1>14. flash'[out_handle].len = recv_len' /\ flash'[out_handle].intact
    <2>1. flash'[out_handle].len = flash[out_handle].len + Len(item)
      BY <1>12 DEF Written
    <2>2. flash'[out_handle].intact
      <3> DEFINE x == flash[out_handle]
      <3>1. Written(x, item).intact =
               (x.intact /\ \A i \in 1 .. Len(item) :
                   x.len + i - 1 < ImageSize => item[i] = x.len + i - 1)
        BY DEF Written
      <3> QED BY <1>11, <1>12, <1>13, <3>1, Zenon
    <2> QED BY <1>1, <1>11, <2>1, <2>2
  <1>15. recv_len' > 0
    BY <1>2, <1>6, <1>7
  <1> QED
    BY <1>1, <1>8, <1>10, <1>14, <1>15 DEF UploadInv, WrittenInPlace

(* The length that ota_task compares with is the image's, unless a STOP    *)
(* cleared it, and what it verifies then is complete.                      *)
LEMMA TaskKeeps ==
    ASSUME BleInv, UploadInv, faults = 0, \A kind : ~Fault(kind),
           AppMain \/ OtaBegin \/ Counted \/ OtaEnd \/ SetBoot
    PROVE  UploadInv'
  <1>1. CASE AppMain \/ OtaBegin \/ Counted \/ OtaEnd
    <2>1. /\ UNCHANGED <<sender, next, uploads, fw_length, recv_len, item,
                         ring, host>>
          /\ UnderWay' = UnderWay
      BY <1>1
      DEF AppMain, OtaBegin, Counted, OtaEnd, senderVars, hostVars, ringVars,
          UnderWay
    <2>2. /\ Position' /\ Announced' /\ InPlace(UnderWay, recv_len)'
          /\ Arrived' = Arrived /\ Complete' = Complete
      BY <2>1
      DEF UploadInv, Position, Announced, Complete, Stopped, Arrived, InPlace
    <2>3. WrittenInPlace' /\ Ended' /\ task' # "off"
      <3>1. CASE AppMain
        <4>1. task = "booting" /\ task' = "starting"
          BY <3>1 DEF AppMain, Goto
        <4> QED BY <2>1, <4>1 DEF UploadInv, WrittenInPlace, Writing, Ended
      <3>2. CASE OtaBegin
        <4> DEFINE p == NextUpdate(boot)
        <4>1. /\ task = "starting" /\ task' = "receiving"
              /\ out_handle' = p
              /\ flash' = [flash EXCEPT ![p] = Blank]
          BY <3>2 DEF OtaBegin, Goto
        <4>2. flash'[p] = Blank
          BY <4>1, NextUpdateAside DEF BleInv, IInv, TypeOK
        <4>3. flash'[out_handle'].len = 0 /\ flash'[out_handle'].intact
          BY <4>1, <4>2 DEF Blank
        <4>4. recv_len' = 0
          BY <2>1, <4>1 DEF UploadInv, WrittenInPlace
        <4> QED BY <4>1, <4>3, <4>4 DEF WrittenInPlace, Ended
      <3>3. CASE Counted
        <4>1. /\ task = "counting"
              /\ task' = IF AllReceived THEN "ending" ELSE "receiving"
              /\ UNCHANGED <<out_handle, flash>>
          BY <3>3 DEF Counted, Goto, flashVars
        <4>2. recv_len > 0 /\ recv_len \in Nat /\ Len(UnderWay) \in Nat
          BY <4>1, ArrivedType DEF UploadInv, WrittenInPlace, BleInv, IInv
        <4>3. fw_length = ImageSize \/ Complete
          BY <4>2 DEF UploadInv, Announced, Arrived
        <4>4. Ended'
          <5>1. AllReceived => recv_len >= ImageSize \/ Complete
            BY <4>3 DEF AllReceived
          <5>2. recv_len >= ImageSize \/ Complete => Arrived >= ImageSize
            BY <4>2, ImageSizeAssumption DEF Arrived, Complete
          <5> QED BY <2>1, <2>2, <4>1, <5>1, <5>2 DEF Ended
        <4> QED
          BY <2>1, <4>1, <4>4 DEF UploadInv, WrittenInPlace, Writing
      <3>4. CASE OtaEnd
        <4>1. task = "ending" /\ UNCHANGED <<out_handle, flash>>
          BY <3>4 DEF OtaEnd, flashVars
        <4>2. ImageVerified <=> recv_len >= ImageSize
          BY <4>1 DEF UploadInv, WrittenInPlace, Writing, ImageVerified, Bootable
        <4>3. task' = IF ImageVerified THEN "selecting" ELSE "deleted"
          BY <3>4 DEF OtaEnd, Goto
        <4>4. recv_len \in Nat
          BY DEF BleInv, IInv, TypeOK
        <4>5. Ended'
          BY <2>1, <2>2, <4>1, <4>2, <4>3, <4>4, ImageSizeAssumption
          DEF UploadInv, Ended
        <4> QED
          BY <2>1, <4>1, <4>3, <4>5 DEF UploadInv, WrittenInPlace, Writing
      <3> QED BY <1>1, <3>1, <3>2, <3>3, <3>4
    <2> QED BY <2>1, <2>2, <2>3 DEF UploadInv
  <1>2. CASE SetBoot
    <2>1. SelectAndRestart
      BY <1>2 DEF SetBoot
    <2>2. /\ task' = "booting" /\ recv_len' = 0 /\ fw_length' = 0
          /\ item' = <<>> /\ ring' = <<>> /\ host' = <<>>
          /\ sender' = IF sender = "done" THEN "done" ELSE "idle"
          /\ uploads' = uploads
      BY <2>1 DEF SelectAndRestart, Restart
    <2>3. UnderWay' = <<>>
      <3>1. <<>> \o <<>> = <<>>
        BY EmptySeq, ConcatEmptySeq
      <3> QED BY <2>2, <3>1 DEF UnderWay
    <2>4. Len(UnderWay') = 0
      BY <2>3
    <2>5. Arrived' = 0
      BY <2>2, <2>4 DEF Arrived
    <2>6. Position' /\ Announced' /\ InPlace(UnderWay, recv_len)'
      BY <2>2, <2>4, <2>5 DEF Position, Announced, InPlace
    <2> QED BY <2>2, <2>6 DEF UploadInv, WrittenInPlace, Writing, Ended
  <1> QED BY <1>1, <1>2

LEMMA UploadInvStep ==
    ASSUME BleInv, BleInv', UploadInv, [Next]_vars
    PROVE  UploadInv'
  <1> SUFFICES ASSUME faults' = 0
               PROVE  UploadInv'
    BY DEF UploadInv
  <1>1. faults = 0 /\ \A kind : ~Fault(kind)
    BY NoFaultBefore DEF BleInv, IInv
  <1>2. CASE StartOta \/ SendPacket \/ StopOta
    BY <1>1, <1>2, SenderKeeps
  <1>3. CASE SendLastPacket
    BY <1>1, <1>3, SectorKeeps
  <1>4. CASE WriteToRingbuf \/ Receive
    BY <1>1, <1>4, MoveKeeps
  <1>5. CASE Write
    BY <1>1, <1>5, WriteKeeps
  <1>6. CASE AppMain \/ OtaBegin \/ Counted \/ OtaEnd \/ SetBoot
    BY <1>1, <1>6, TaskKeeps
  <1>7. ~Interrupt /\ ~PowerCycle
    BY <1>1 DEF Interrupt, PowerCycle
  <1>8. CASE UNCHANGED vars
    BY <1>8
    DEF vars, senderVars, hostVars, ringVars, taskVars, flashVars, UploadInv,
        InPlace, UnderWay, Position, Arrived, Announced, Complete, Stopped,
        WrittenInPlace, Ended
  <1> QED
    BY <1>2, <1>3, <1>4, <1>5, <1>6, <1>7, <1>8 DEF Next, SenderStep, TaskStep

LEMMA UploadInvInit == Init => UploadInv
  <1> SUFFICES ASSUME Init
               PROVE  UploadInv
    OBVIOUS
  <1>1. UnderWay = <<>>
    <2>1. <<>> \o <<>> = <<>>
      BY EmptySeq, ConcatEmptySeq
    <2> QED BY <2>1 DEF Init, UnderWay
  <1>2. Len(UnderWay) = 0
    BY <1>1
  <1> QED
    BY <1>2
    DEF Init, UploadInv, InPlace, Position, Arrived, Announced,
        WrittenInPlace, Writing, Ended

LEMMA BleInvariant == Spec => []BleInv
  <1>1. Init => PacketInv /\ StreamInv
    BY SizeAssumption DEF Init, PacketInv, SectorWhole, StreamInv
  <1>2. IInv /\ IInv' /\ PacketInv /\ StreamInv /\ [Next]_vars
           => PacketInv' /\ StreamInv'
    BY PacketInvStep, StreamInvStep DEF IInv
  <1> QED BY <1>1, <1>2, InductiveInvariant, PTL DEF Spec, BleInv

(* As long as nothing fails and no upload is interrupted, ota_task leaves  *)
(* its loop (app_main.c lines 220-237) only when the whole image was       *)
(* handed over, and gives up (line 253) only if STOP cleared the length    *)
(* while the rest of the image was on its way to it: whatever the sizes of *)
(* the image, the sectors and the ring buffer, the padding, and the        *)
(* moments at which sender, host task and ota_task take their turns.       *)
THEOREM GivesUpOnlyCutShortHolds == Spec => []GivesUpOnlyCutShort
  <1>1. BleInv /\ BleInv' /\ UploadInv /\ [Next]_vars => UploadInv'
    BY UploadInvStep
  <1>2. IInv /\ UploadInv => GivesUpOnlyCutShort
    BY ImageSizeAssumption
    DEF IInv, TypeOK, UploadInv, Ended, Complete, GivesUpOnlyCutShort
  <1> QED
    BY <1>1, <1>2, UploadInvInit, BleInvariant, InductiveInvariant, PTL DEF Spec

=============================================================================
