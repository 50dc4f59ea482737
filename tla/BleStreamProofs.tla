--------------------------- MODULE BleStreamProofs ---------------------------
(***************************************************************************)
(* Proofs about the way of the bytes in BleOta, for every image, packet,   *)
(* sector and ring buffer size, any number of uploads and any faults: the  *)
(* packets make up the sectors and fit, and from the callback on the       *)
(* device implements ByteStream.                                           *)
(***************************************************************************)
EXTENDS BleOtaProofs

(* Where a sector's packets begin and end: all but the last are full. *)
LEMMA PacketCount ==
    ASSUME NEW size \in Nat \ {0}
    PROVE  /\ NumPackets(size) \in Nat \ {0}
           /\ (NumPackets(size) - 1) * PacketSize < size
           /\ size <= NumPackets(size) * PacketSize
  <1> DEFINE a == size + PacketSize - 1
             q == a \div PacketSize
  <1>1. a \in Nat /\ a >= PacketSize
    BY SizeAssumption
  <1>2. /\ q \in Nat
        /\ a % PacketSize \in 0 .. PacketSize - 1
        /\ a = q * PacketSize + (a % PacketSize)
    BY <1>1, SizeAssumption
  <1>3. q # 0
    BY <1>1, <1>2, SizeAssumption
  <1>4. (q - 1) * PacketSize = q * PacketSize - PacketSize
    BY <1>2, SizeAssumption
  <1> QED BY <1>2, <1>3, <1>4, SizeAssumption DEF NumPackets

(* A remainder is what is left over after whole packets. *)
LEMMA Remainder ==
    ASSUME NEW q \in Nat, NEW r \in 0 .. PacketSize - 1
    PROVE  (q * PacketSize + r) % PacketSize = r
  <1> DEFINE a == q * PacketSize + r
             p == a \div PacketSize
             t == a % PacketSize
  <1>1. a \in Nat
    BY SizeAssumption
  <1>2. /\ p \in Nat /\ t \in 0 .. PacketSize - 1
        /\ a = p * PacketSize + t
    BY <1>1, SizeAssumption
  <1> HIDE DEF p, t
  <1>3. (q - p) * PacketSize = t - r
    BY <1>2, SizeAssumption
  <1>4. q - p = 0
    <2>1. q - p \in Int /\ t - r < PacketSize /\ t - r > -PacketSize
      BY <1>2, SizeAssumption
    <2>2. CASE q - p >= 1
      <3>1. (q - p) * PacketSize >= PacketSize
        BY <2>1, <2>2, SizeAssumption
      <3> QED BY <1>2, <1>3, <2>1, <3>1, SizeAssumption
    <2>3. CASE q - p <= -1
      <3>1. (q - p) * PacketSize <= -PacketSize
        BY <2>1, <2>3, SizeAssumption
      <3> QED BY <1>2, <1>3, <2>1, <3>1, SizeAssumption
    <2> QED BY <2>1, <2>2, <2>3
  <1>5. t = r
    BY <1>2, <1>3, <1>4, SizeAssumption
  <1> QED BY <1>5 DEF t

(* The sector that is sent has a length, and where it begins is a number. *)
LEMMA SectorLengthType ==
    ASSUME next \in Nat, SectorLeft
    PROVE  /\ SectorLength \in Nat \ {0}
           /\ SectorLength <= SectorSize
           /\ next * SectorSize \in Nat
  <1>1. next * SectorSize \in Nat
    BY SizeAssumption
  <1> QED
    BY <1>1, SizeAssumption, ImageSizeAssumption
    DEF SectorLength, LesserOf, SectorLeft

-----------------------------------------------------------------------------
(* What the component has put together is the beginning of the sector, in  *)
(* whole packets, and the sector's last packet has not been sent.          *)
PacketInv ==
    /\ sender = "sending" =>
          /\ HostFree
          /\ Len(sector) = packet * PacketSize
          /\ \A i \in 1 .. Len(sector) : sector[i] = next * SectorSize + i - 1
          /\ SectorLeft => packet < NumPackets(SectorLength)
    /\ SectorWhole

(* A packet's bytes continue the ones that are there. *)
LEMMA PacketAppended ==
    ASSUME TypeOK, PacketInv, sender = "sending", SectorLeft
    PROVE  /\ PayloadLength \in 1 .. PacketSize
           /\ Len(sector \o Payload) = packet * PacketSize + PayloadLength
           /\ \A i \in 1 .. Len(sector \o Payload) :
                 (sector \o Payload)[i] = next * SectorSize + i - 1
           /\ ~LastPacket => /\ PayloadLength = PacketSize
                             /\ packet + 1 < NumPackets(SectorLength)
           /\ LastPacket => PayloadLength = SectorLength - packet * PacketSize
  <1> DEFINE N     == NumPackets(SectorLength)
             start == next * SectorSize
             done  == packet * PacketSize
             n     == PayloadLength
  <1>1. /\ SectorLength \in Nat \ {0} /\ start \in Nat
        /\ N \in Nat \ {0}
        /\ (N - 1) * PacketSize < SectorLength
        /\ SectorLength <= N * PacketSize
    BY SectorLengthType, PacketCount DEF TypeOK
  <1>2. done \in Nat /\ packet \in Nat /\ packet < N /\ Len(sector) = done
    BY SizeAssumption DEF TypeOK, PacketInv
  <1>3. done + PacketSize = (packet + 1) * PacketSize
    BY <1>2, SizeAssumption
  <1>4. ASSUME ~LastPacket
        PROVE  n = PacketSize /\ packet + 1 < N
    <2>1. packet + 1 < N /\ packet + 1 <= N - 1
      BY <1>1, <1>2, <1>4 DEF LastPacket
    <2>2. (packet + 1) * PacketSize <= (N - 1) * PacketSize
      BY <1>1, <1>2, <2>1, SizeAssumption
    <2>3. SectorLength - done > PacketSize
      BY <1>1, <1>2, <1>3, <2>2, SizeAssumption
    <2>4. n = PacketSize
      BY <1>1, <1>2, <2>3, SizeAssumption DEF PayloadLength, LesserOf
    <2> QED BY <2>1, <2>4
  <1>5. ASSUME LastPacket
        PROVE  n = SectorLength - done /\ n >= 1 /\ n <= PacketSize
    <2>1. done = (N - 1) * PacketSize
      BY <1>5 DEF LastPacket
    <2>2. done < SectorLength /\ SectorLength <= done + PacketSize
      BY <1>1, <1>2, <1>3, <1>5, <2>1 DEF LastPacket
    <2>3. n = SectorLength - done
      BY <1>1, <1>2, <2>2, SizeAssumption DEF PayloadLength, LesserOf
    <2> QED BY <1>1, <1>2, <2>2, <2>3, SizeAssumption
  <1>6. /\ n \in 1 .. PacketSize
        /\ ~LastPacket => n = PacketSize /\ packet + 1 < N
        /\ LastPacket => n = SectorLength - done
    <2>1. CASE ~LastPacket
      <3>1. n = PacketSize /\ packet + 1 < N
        BY <1>4, <2>1
      <3> QED BY <2>1, <3>1, SizeAssumption
    <2>2. CASE LastPacket
      <3>1. n = SectorLength - done /\ n >= 1 /\ n <= PacketSize
        BY <1>5, <2>2
      <3> QED BY <1>1, <1>2, <2>2, <3>1, SizeAssumption
    <2> QED BY <2>1, <2>2
  <1>7. /\ sector \in Seq(Nat) /\ Payload \in Seq(Nat) /\ Len(Payload) = n
        /\ \A i \in 1 .. n : Payload[i] = start + done + i - 1
    <2>1. Payload = [i \in 1 .. n |-> start + done + i - 1]
      BY DEF Payload
    <2> HIDE DEF n
    <2>2. n \in Nat
      BY <1>6, SizeAssumption
    <2> QED BY <2>1, <2>2, PayloadType DEF TypeOK
  <1> HIDE DEF n, start, done, N
  <1>8. Len(sector \o Payload) = done + n
    BY <1>2, <1>7, ConcatProperties
  <1>9. \A i \in 1 .. done + n : (sector \o Payload)[i] = start + i - 1
    <2> SUFFICES ASSUME NEW i \in 1 .. done + n
                 PROVE  (sector \o Payload)[i] = start + i - 1
      OBVIOUS
    <2>1. n \in Nat /\ done \in Nat /\ start \in Nat
      BY <1>1, <1>2, <1>6, SizeAssumption
    <2>2. CASE i <= done
      <3>1. i \in 1 .. Len(sector)
        BY <1>2, <2>1, <2>2
      <3>2. (sector \o Payload)[i] = sector[i]
        BY <1>7, <3>1, ConcatProperties
      <3> QED BY <3>1, <3>2 DEF PacketInv, start
    <2>3. CASE i > done
      <3>1. i - done \in 1 .. n
        BY <2>1, <2>3
      <3>2. (sector \o Payload)[i] = Payload[i - done]
        BY <1>2, <1>7, <2>1, <2>3, <3>1, ConcatProperties
      <3> QED BY <1>7, <2>1, <3>1, <3>2
    <2>4. i <= done \/ i > done
      BY <2>1
    <2> QED BY <2>2, <2>3, <2>4
  <1> QED BY <1>2, <1>6, <1>8, <1>9 DEF n, start, done, N

(* What is left alone by a step that has nothing to do with the sender. *)
packetVars == <<sender, next, packet, sector, host>>

LEMMA PacketInvKept ==
    ASSUME PacketInv, UNCHANGED packetVars
    PROVE  PacketInv'
  BY DEF PacketInv, packetVars, SectorWhole, SectorLeft, NumPackets,
         SectorLength, LesserOf, HostFree

LEMMA PacketInvStep ==
    ASSUME TypeOK, TypeOK', PacketInv, [Next]_vars
    PROVE  PacketInv'
  <1>1. CASE StartOta
    <2>1. /\ next' = 0 /\ packet' = 0 /\ sector' = <<>> /\ sender' = "sending"
          /\ HostFree'
      BY <1>1 DEF StartOta, HostFree
    <2> QED
      BY <2>1, SizeAssumption, ImageSizeAssumption, PacketCount
      DEF PacketInv, SectorWhole, SectorLeft, SectorLength, LesserOf,
          NumPackets
  <1>2. CASE SendPacket
    <2>1. /\ sender = "sending" /\ SectorLeft /\ ~LastPacket
          /\ packet' = packet + 1 /\ sector' = sector \o Payload
          /\ UNCHANGED <<sender, next>> /\ HostFree'
      BY <1>2 DEF SendPacket, HostFree
    <2>2. /\ Len(sector') = packet' * PacketSize
          /\ packet + 1 < NumPackets(SectorLength)
      <3>1. /\ packet \in Nat
            /\ Len(sector') = packet * PacketSize + PacketSize
            /\ packet + 1 < NumPackets(SectorLength)
        BY <2>1, PacketAppended DEF TypeOK
      <3> QED BY <2>1, <3>1, SizeAssumption
    <2>3. \A i \in 1 .. Len(sector') : sector'[i] = next * SectorSize + i - 1
      BY <2>1, PacketAppended
    <2>4. SectorLeft' = SectorLeft /\ SectorLength' = SectorLength
      BY <2>1 DEF SectorLeft, SectorLength, LesserOf
    <2>5. NumPackets(SectorLength)' = NumPackets(SectorLength)
      BY <2>4 DEF NumPackets
    <2> QED BY <2>1, <2>2, <2>3, <2>5 DEF PacketInv, SectorWhole
  <1>3. CASE SendLastPacket
    <2>1. /\ sender = "sending" /\ SectorLeft /\ LastPacket
          /\ sender' = "waiting" /\ next' = next
          /\ sector' = sector \o Payload
      BY <1>3 DEF SendLastPacket
    <2>2. PICK n \in Handed :
             host' = [i \in 1 .. n |-> IF i <= Len(sector') THEN sector'[i]
                                                           ELSE Padding]
      BY <1>3 DEF SendLastPacket
    <2>3. SectorLength \in Nat \ {0} /\ n \in SectorLength .. SectorSize
      BY <2>1, SectorLengthType DEF Handed, TypeOK
    <2>4. Len(sector') = SectorLength
      <3>1. /\ Len(sector') = packet * PacketSize + PayloadLength
            /\ PayloadLength = SectorLength - packet * PacketSize
        BY <2>1, PacketAppended
      <3>2. packet * PacketSize \in Nat
        BY SizeAssumption DEF TypeOK
      <3> QED BY <2>3, <3>1, <3>2
    <2>5. \A i \in 1 .. SectorLength : sector'[i] = next * SectorSize + i - 1
      BY <2>1, <2>4, PacketAppended
    <2>6. Len(host') = n /\ \A i \in 1 .. SectorLength : host'[i] = sector'[i]
      BY <2>2, <2>3, <2>4, SizeAssumption
    <2>7. SectorLength' = SectorLength
      BY <2>1 DEF SectorLength, LesserOf
    <2> QED BY <2>1, <2>3, <2>5, <2>6, <2>7 DEF PacketInv, SectorWhole
  <1>4. CASE StopOta \/ Interrupt \/ Restart
    <2>1. sender' \in {"idle", "done"}
      BY <1>4 DEF StopOta, Interrupt, Restart
    <2> QED BY <2>1 DEF PacketInv, SectorWhole
  <1>5. CASE WriteToRingbuf
    <2>1. CASE sender = "waiting"
      <3>1. /\ next' \in Nat /\ packet' = 0 /\ sector' = <<>>
            /\ sender' = "sending" /\ HostFree'
        BY <1>5, <2>1 DEF WriteToRingbuf, TypeOK, HostFree
      <3>2. SectorLeft' => SectorLength' \in Nat \ {0}
        <4>1. \A m \in Nat : m * SectorSize \in Nat
          BY SizeAssumption
        <4>2. \A m \in Nat : m * SectorSize < ImageSize =>
                 LesserOf(SectorSize, ImageSize - m * SectorSize) \in Nat \ {0}
          BY <4>1, SizeAssumption, ImageSizeAssumption DEF LesserOf
        <4> QED BY <3>1, <4>2 DEF SectorLength, SectorLeft
      <3>3. SectorLeft' => NumPackets(SectorLength)' \in Nat \ {0}
        <4>1. NumPackets(SectorLength)' = NumPackets(SectorLength')
          BY DEF NumPackets
        <4> QED BY <3>2, <4>1, PacketCount
      <3>4. Len(sector') = packet' * PacketSize /\ 1 .. Len(sector') = {}
        BY <3>1, SizeAssumption
      <3> QED BY <3>1, <3>3, <3>4 DEF PacketInv, SectorWhole
    <2>2. CASE sender = "sending"
      BY <1>5, <2>2 DEF WriteToRingbuf, PacketInv
    <2>3. CASE sender \in {"idle", "done"}
      BY <1>5, <2>3 DEF WriteToRingbuf, PacketInv, SectorWhole
    <2> QED BY <2>1, <2>2, <2>3 DEF TypeOK
  <1>6. CASE TaskStep /\ ~Restart
    BY <1>6, PacketInvKept
    DEF TaskStep, AppMain, OtaBegin, Receive, Write, Counted, OtaEnd, SetBoot,
        SelectAndRestart, packetVars, senderVars, hostVars
  <1>7. CASE PowerCycle
    BY <1>4, <1>7 DEF PowerCycle
  <1>8. CASE UNCHANGED vars
    BY <1>8, PacketInvKept DEF vars, packetVars, senderVars, hostVars
  <1> QED
    BY <1>1, <1>2, <1>3, <1>4, <1>5, <1>6, <1>7, <1>8 DEF Next, SenderStep

(* The packets of every sector of every upload make up the sector          *)
(* (main.py lines 40-48).                                                  *)
THEOREM SectorsArriveWhole == Spec => []SectorWhole
  <1>1. Init => TypeOK /\ PacketInv
    <2>1. Init => PacketInv
      BY DEF Init, PacketInv, SectorWhole
    <2> QED BY <2>1, TypeInit
  <1>2. TypeOK /\ TypeOK' /\ PacketInv /\ [Next]_vars => PacketInv'
    BY PacketInvStep
  <1>3. PacketInv => SectorWhole
    BY DEF PacketInv
  <1> QED BY <1>1, <1>2, <1>3, TypeCorrect, PTL DEF Spec

(* A last packet with its checksum is no longer than a full one, unless    *)
(* the checksum has no room behind the image's last bytes.                 *)
LEMMA LastPacketFits ==
    ASSUME TypeOK, PacketInv, sender = "sending", SectorLeft
    PROVE  PacketsFit
  <1> DEFINE N == NumPackets(SectorLength)
             n == PayloadLength
  <1>1. /\ n \in 1 .. PacketSize
        /\ ~LastPacket => n = PacketSize
        /\ LastPacket => n = SectorLength - packet * PacketSize
    BY PacketAppended
  <1>2. PacketSize \in Nat /\ PacketSize >= 3
    BY SizeAssumption, PacketAssumption
  <1>3. /\ packet \in Nat /\ packet + 1 \in Nat
        /\ packet * PacketSize \in Nat
        /\ (packet + 1) * PacketSize = packet * PacketSize + PacketSize
        /\ SectorLength \in Nat /\ SectorLength <= SectorSize
    BY SizeAssumption, SectorLengthType DEF TypeOK
  <1> HIDE DEF n
  <1>4. CASE ~LastPacket \/ n <= PacketSize - 2
    <2>1. PacketLength <= 3 + PacketSize
      BY <1>1, <1>2, <1>4 DEF PacketLength, LastSize, n
    <2> QED BY <2>1 DEF PacketsFit
  <1>5. CASE LastPacket /\ n = PacketSize - 1
    <2>1. SectorLength = packet * PacketSize + (PacketSize - 1)
      BY <1>1, <1>2, <1>3, <1>5
    <2>2. SectorLength % PacketSize = PacketSize - 1
      <3>1. PacketSize - 1 \in 0 .. PacketSize - 1
        BY <1>2
      <3> QED BY <1>3, <2>1, <3>1, Remainder
    <2>3. SectorLength + 1 = (packet + 1) * PacketSize + 0
      BY <1>2, <1>3, <2>1
    <2>4. (SectorLength + 1) % PacketSize = 0
      <3>1. 0 \in 0 .. PacketSize - 1
        BY <1>2
      <3> QED BY <1>3, <2>3, <3>1, Remainder
    <2>5. SectorLength # SectorSize
      BY <1>2, <2>2, PacketAssumption
    <2>6. SectorLength < SectorSize
      BY <1>3, <2>5, SizeAssumption
    <2> QED BY <1>5, <2>4, <2>6 DEF PacketsFit
  <1>6. CASE LastPacket /\ n = PacketSize
    <2>1. SectorLength = (packet + 1) * PacketSize + 0
      BY <1>1, <1>2, <1>3, <1>6
    <2>2. SectorLength % PacketSize = 0
      <3>1. 0 \in 0 .. PacketSize - 1
        BY <1>2
      <3> QED BY <1>3, <2>1, <3>1, Remainder
    <2>3. SectorLength + 1 = (packet + 1) * PacketSize + 1
      BY <1>2, <1>3, <2>1
    <2>4. (SectorLength + 1) % PacketSize = 1
      <3>1. 1 \in 0 .. PacketSize - 1
        BY <1>2
      <3> QED BY <1>3, <2>3, <3>1, Remainder
    <2>5. SectorLength # SectorSize
      BY <1>2, <2>2, PacketAssumption
    <2>6. SectorLength < SectorSize
      BY <1>3, <2>5, SizeAssumption
    <2> QED BY <1>6, <2>4, <2>6 DEF PacketsFit
  <1> QED BY <1>1, <1>2, <1>4, <1>5, <1>6

(* A packet of main.py lines 44-48 is never too long, but for the images   *)
(* that PacketsFit names.                                                  *)
THEOREM PacketLengths == Spec => []PacketsFit
  <1>1. Init => TypeOK /\ PacketInv
    <2>1. Init => PacketInv
      BY DEF Init, PacketInv, SectorWhole
    <2> QED BY <2>1, TypeInit
  <1>2. TypeOK /\ TypeOK' /\ PacketInv /\ [Next]_vars => PacketInv'
    BY PacketInvStep
  <1>3. TypeOK /\ PacketInv => PacketsFit
    BY LastPacketFits DEF PacketsFit
  <1> QED BY <1>1, <1>2, <1>3, TypeCorrect, PTL DEF Spec

-----------------------------------------------------------------------------
(* Sequences that are cut and joined. *)
LEMMA FrontOfConcat ==
    ASSUME NEW s \in Seq(Nat), NEW t \in Seq(Nat)
    PROVE  /\ SubSeq(s \o t, 1, Len(s)) = s
           /\ SubSeq(s \o t, Len(s) + 1, Len(s \o t)) = t
  <1> DEFINE u == s \o t
  <1>1. /\ u \in Seq(Nat) /\ Len(u) = Len(s) + Len(t)
        /\ \A i \in 1 .. Len(u) :
              u[i] = IF i <= Len(s) THEN s[i] ELSE t[i - Len(s)]
    BY ConcatProperties
  <1>2. Len(s) \in Nat /\ Len(t) \in Nat
    OBVIOUS
  <1> HIDE DEF u
  <1>3. \A i \in 1 .. Len(u) : u[i] \in Nat
    BY <1>1
  <1>4. SubSeq(u, 1, Len(s)) = s
    <2>1. /\ SubSeq(u, 1, Len(s)) \in Seq(Nat)
          /\ Len(SubSeq(u, 1, Len(s))) = Len(s)
          /\ \A i \in 1 .. Len(s) : SubSeq(u, 1, Len(s))[i] = u[i]
      BY <1>1, <1>2, <1>3, SubSeqProperties
    <2>2. \A i \in 1 .. Len(s) : u[i] = s[i]
      BY <1>1, <1>2
    <2> QED BY <2>1, <2>2, SeqEqual
  <1>5. SubSeq(u, Len(s) + 1, Len(u)) = t
    <2> DEFINE r == SubSeq(u, Len(s) + 1, Len(u))
    <2>1. /\ r \in Seq(Nat) /\ Len(r) = Len(t)
          /\ \A i \in 1 .. Len(t) : r[i] = u[Len(s) + i]
      BY <1>1, <1>2, <1>3, SubSeqProperties
    <2>2. ASSUME NEW i \in 1 .. Len(t)
          PROVE  u[Len(s) + i] = t[i]
      <3>1. /\ Len(s) + i \in 1 .. Len(u) /\ ~(Len(s) + i <= Len(s))
            /\ Len(s) + i - Len(s) = i
        BY <1>1, <1>2
      <3> QED BY <1>1, <3>1
    <2> HIDE DEF r
    <2>3. r = t
      BY <2>1, <2>2, SeqEqual
    <2> QED BY <2>3 DEF r
  <1> QED BY <1>4, <1>5 DEF u

LEMMA CutAndJoin ==
    ASSUME NEW s \in Seq(Nat), NEW n \in 0 .. Len(s)
    PROVE  SubSeq(s, 1, n) \o SubSeq(s, n + 1, Len(s)) = s
  <1> DEFINE t == SubSeq(s, 1, n)
             u == SubSeq(s, n + 1, Len(s))
  <1>1. /\ t \in Seq(Nat) /\ Len(t) = n
        /\ \A i \in 1 .. n : t[i] = s[i]
    BY SubSeqProperties
  <1>2. /\ u \in Seq(Nat) /\ Len(u) = Len(s) - n
        /\ \A i \in 1 .. Len(s) - n : u[i] = s[n + i]
    BY SubSeqProperties
  <1> HIDE DEF t, u
  <1>3. /\ t \o u \in Seq(Nat) /\ Len(t \o u) = Len(s)
        /\ \A i \in 1 .. Len(s) :
              (t \o u)[i] = IF i <= n THEN t[i] ELSE u[i - n]
    <2>1. Len(t) + Len(u) = Len(s)
      BY <1>1, <1>2
    <2>2. /\ t \o u \in Seq(Nat) /\ Len(t \o u) = Len(t) + Len(u)
          /\ \A i \in 1 .. Len(t) + Len(u) :
                (t \o u)[i] = IF i <= Len(t) THEN t[i] ELSE u[i - Len(t)]
      BY <1>1, <1>2, ConcatProperties
    <2> QED BY <1>1, <2>1, <2>2
  <1>4. \A i \in 1 .. Len(s) : (t \o u)[i] = s[i]
    BY <1>1, <1>2, <1>3
  <1>5. t \o u = s
    BY <1>3, <1>4, SeqEqual
  <1> QED BY <1>5 DEF t, u

-----------------------------------------------------------------------------
(* What is received but not returned is there only while it is written, or *)
(* when ota_task ended over it, and what it takes room for is there.       *)
StreamInv ==
    /\ task \in {"booting", "off", "starting"} => out_handle = NoSlot
    /\ task = "writing" => item # <<>>
    /\ task \notin {"writing", "deleted"} => item = <<>>
    /\ Len(item) + Len(ring) <= RingSize
    /\ Len(host) <= SectorSize

(* What is received is at least a byte, and no byte is lost. *)
LEMMA Received ==
    ASSUME TypeOK, ring # <<>>
    PROVE  /\ Contiguous \in 1 .. Len(ring)
           /\ SubSeq(ring, 1, Contiguous) # <<>>
           /\ SubSeq(ring, 1, Contiguous)
                 \o SubSeq(ring, Contiguous + 1, Len(ring)) = ring
           /\ Len(SubSeq(ring, 1, Contiguous))
                 + Len(SubSeq(ring, Contiguous + 1, Len(ring))) = Len(ring)
  <1>1. Len(ring) \in Nat \ {0} /\ \A i \in 1 .. Len(ring) : ring[i] \in Nat
    BY EmptySeq DEF TypeOK
  <1>2. Contiguous \in 1 .. Len(ring)
    BY <1>1, SizeAssumption DEF Contiguous, TypeOK
  <1>3. Len(SubSeq(ring, 1, Contiguous)) = Contiguous
    BY <1>1, <1>2, SubSeqProperties
  <1>4. Len(SubSeq(ring, Contiguous + 1, Len(ring))) = Len(ring) - Contiguous
    BY <1>1, <1>2, SubSeqProperties
  <1>5. SubSeq(ring, 1, Contiguous) # <<>>
    BY <1>2, <1>3
  <1>6. SubSeq(ring, 1, Contiguous)
           \o SubSeq(ring, Contiguous + 1, Len(ring)) = ring
    BY <1>1, <1>2, CutAndJoin DEF TypeOK
  <1> QED BY <1>1, <1>2, <1>3, <1>4, <1>5, <1>6

LEMMA StreamInvStep ==
    ASSUME TypeOK, TypeOK', StreamInv, [Next]_vars
    PROVE  StreamInv'
  <1>1. CASE StartOta \/ SendPacket \/ StopOta \/ Interrupt
    BY <1>1
    DEF StartOta, SendPacket, StopOta, Interrupt, StreamInv, hostVars,
        ringVars, taskVars
  <1>2. CASE SendLastPacket
    <2>1. PICK n \in Handed :
             host' = [i \in 1 .. n |-> IF i <= Len(sector') THEN sector'[i]
                                                           ELSE Padding]
      BY <1>2 DEF SendLastPacket
    <2>2. n \in 1 .. SectorSize
      BY <1>2, HandedType DEF SendLastPacket, TypeOK
    <2>3. Len(host') = n
      BY <2>1, <2>2, SizeAssumption
    <2>4. UNCHANGED <<task, out_handle, item, ring>>
      BY <1>2 DEF SendLastPacket, ringVars, taskVars
    <2> QED BY <2>2, <2>3, <2>4, SizeAssumption DEF StreamInv
  <1>3. CASE WriteToRingbuf
    <2>1. /\ Len(ring) + Len(item) + Len(host) <= RingSize
          /\ ring' = ring \o host /\ host' = <<>>
          /\ UNCHANGED <<task, out_handle, item>>
      BY <1>3 DEF WriteToRingbuf, taskVars
    <2>2. Len(ring') = Len(ring) + Len(host) /\ Len(host') = 0
      BY <2>1, ConcatProperties DEF TypeOK
    <2>3. Len(item) \in Nat /\ Len(ring) \in Nat /\ Len(host) \in Nat
      BY DEF TypeOK
    <2> QED BY <2>1, <2>2, <2>3, SizeAssumption DEF StreamInv
  <1>4. CASE Receive
    <2>1. /\ task = "receiving" /\ task' = "writing"
          /\ item' = SubSeq(ring, 1, Contiguous)
          /\ ring' = SubSeq(ring, Contiguous + 1, Len(ring))
          /\ ring # <<>> /\ UNCHANGED <<host, out_handle>>
      BY <1>4 DEF Receive, Goto, hostVars
    <2>2. item' # <<>> /\ Len(item') + Len(ring') = Len(ring)
      BY <2>1, Received
    <2>3. item = <<>>
      BY <2>1 DEF StreamInv
    <2>4. Len(ring) <= RingSize
      BY <2>3 DEF StreamInv, TypeOK
    <2> QED BY <2>1, <2>2, <2>4 DEF StreamInv
  <1>5. CASE Write
    <2>1. task = "writing" /\ UNCHANGED <<host, ring, out_handle>>
      BY <1>5 DEF Write, hostVars
    <2>2. CASE task' = "counting" /\ item' = <<>>
      <3>1. Len(item') = 0 /\ Len(item) \in Nat /\ Len(ring) \in Nat
        BY <2>2 DEF TypeOK
      <3> QED BY <2>1, <2>2, <3>1, SizeAssumption DEF StreamInv
    <2>3. CASE task' = "deleted" /\ item' = item
      BY <2>1, <2>3 DEF StreamInv
    <2> QED BY <1>5, <2>2, <2>3 DEF Write, Goto
  <1>6. CASE AppMain \/ OtaBegin \/ Counted \/ OtaEnd \/ (SetBoot /\ ~Restart)
    <2>1. UNCHANGED <<host, item, ring>>
      BY <1>6
      DEF AppMain, OtaBegin, Counted, OtaEnd, SetBoot, SelectAndRestart,
          hostVars, ringVars
    <2>2. /\ task \notin {"writing", "deleted"} /\ task' # "writing"
          /\ task' \in {"booting", "off", "starting"} =>
                task \in {"booting"} /\ out_handle' = out_handle
      BY <1>6
      DEF AppMain, OtaBegin, Counted, OtaEnd, SetBoot, SelectAndRestart, Goto
    <2> QED BY <2>1, <2>2 DEF StreamInv
  <1>7. CASE Restart
    <2>1. /\ task' = "booting" /\ out_handle' = NoSlot
          /\ item' = <<>> /\ ring' = <<>> /\ host' = <<>>
      BY <1>7 DEF Restart
    <2>2. Len(item') = 0 /\ Len(ring') = 0 /\ Len(host') = 0
      BY <2>1
    <2> QED BY <2>1, <2>2, SizeAssumption DEF StreamInv
  <1>8. CASE UNCHANGED vars
    BY <1>8 DEF vars, hostVars, ringVars, taskVars, StreamInv
  <1> QED
    BY <1>1, <1>2, <1>3, <1>4, <1>5, <1>6, <1>7, <1>8
    DEF Next, SenderStep, TaskStep, PowerCycle

-----------------------------------------------------------------------------
(* ByteStream's pending is UnderWay; this is its content. *)
InSlot == IF out_handle = NoSlot THEN Blank ELSE flash[out_handle]

LEMMA UnderWayType ==
    ASSUME TypeOK
    PROVE  /\ UnderWay \in Seq(Nat)
           /\ Len(UnderWay) = Len(item) + Len(ring) + Len(host)
           /\ UnderWay = item \o (ring \o host)
           /\ ring \o host \in Seq(Nat)
  <1>1. item \in Seq(Nat) /\ ring \in Seq(Nat) /\ host \in Seq(Nat)
    BY DEF TypeOK
  <1>2. item \o ring \in Seq(Nat) /\ Len(item \o ring) = Len(item) + Len(ring)
    BY <1>1, ConcatProperties
  <1>3. /\ UnderWay \in Seq(Nat)
        /\ Len(UnderWay) = Len(item \o ring) + Len(host)
    BY <1>1, <1>2, ConcatProperties DEF UnderWay
  <1>4. UnderWay = item \o (ring \o host) /\ ring \o host \in Seq(Nat)
    <2>1. (item \o ring) \o host = item \o (ring \o host)
      BY <1>1
    <2>2. ring \o host \in Seq(Nat)
      BY <1>1, ConcatProperties
    <2> QED BY <2>1, <2>2 DEF UnderWay
  <1> QED BY <1>2, <1>3, <1>4

(* What is put into the ring buffer and what is received moves on, ...     *)
LEMMA WriteToRingbufMoves ==
    ASSUME TypeOK, WriteToRingbuf
    PROVE  UnderWay' = UnderWay
  <1>1. ring' = ring \o host /\ host' = <<>> /\ UNCHANGED item
    BY DEF WriteToRingbuf
  <1>2. UnderWay' = (item \o (ring \o host)) \o <<>>
    <2>1. UnderWay' = (item \o ring') \o host'
      BY <1>1 DEF UnderWay
    <2> QED BY <1>1, <2>1
  <1> QED BY <1>2, UnderWayType, ConcatEmptySeq

LEMMA ReceiveMoves ==
    ASSUME TypeOK, StreamInv, Receive
    PROVE  UnderWay' = UnderWay
  <1>1. /\ item = <<>> /\ ring # <<>>
        /\ item' = SubSeq(ring, 1, Contiguous)
        /\ ring' = SubSeq(ring, Contiguous + 1, Len(ring))
        /\ UNCHANGED host
    BY DEF Receive, StreamInv, hostVars
  <1>2. item' \o ring' = ring
    BY <1>1, Received
  <1>3. item \o ring = ring
    BY <1>1, ConcatEmptySeq DEF TypeOK
  <1> QED BY <1>1, <1>2, <1>3 DEF UnderWay

(* ... and what is written is the beginning of it.                         *)
LEMMA WriteTakes ==
    ASSUME TypeOK, StreamInv, Write, task' = "counting"
    PROVE  /\ Len(item) \in 1 .. Len(UnderWay)
           /\ SubSeq(UnderWay, 1, Len(item)) = item
           /\ SubSeq(UnderWay, Len(item) + 1, Len(UnderWay)) = UnderWay'
  <1>1. item # <<>> /\ item' = <<>> /\ UNCHANGED <<ring, host>>
    BY DEF Write, Goto, StreamInv, hostVars
  <1>2. /\ UnderWay = item \o (ring \o host) /\ ring \o host \in Seq(Nat)
        /\ item \in Seq(Nat) /\ Len(item) \in 1 .. Len(UnderWay)
    <2>1. item \in Seq(Nat) /\ Len(item) \in Nat \ {0}
      BY <1>1, EmptySeq DEF TypeOK
    <2>2. Len(ring) \in Nat /\ Len(host) \in Nat
      BY DEF TypeOK
    <2>3. /\ Len(UnderWay) = Len(item) + Len(ring) + Len(host)
          /\ UnderWay = item \o (ring \o host) /\ ring \o host \in Seq(Nat)
      BY UnderWayType
    <2> QED BY <2>1, <2>2, <2>3
  <1>3. UnderWay' = ring \o host
    <2>1. <<>> \o ring = ring
      BY ConcatEmptySeq DEF TypeOK
    <2> QED BY <1>1, <2>1 DEF UnderWay
  <1> QED BY <1>2, <1>3, FrontOfConcat

LEMMA StreamInitHolds == Init => Stream!StreamInit
  <1>1. <<>> \o <<>> = <<>>
    BY EmptySeq, ConcatEmptySeq
  <1> QED
    BY <1>1 DEF Init, UnderWay, Stream!StreamInit, Blank, Stream!Blank

(* The steps of ByteStream, in terms of UnderWay and InSlot. *)
LEMMA StreamStutter ==
    ASSUME UnderWay' = UnderWay, InSlot' = InSlot
    PROVE  [Stream!StreamNext]_Stream!streamVars
  BY DEF UnderWay, InSlot, Stream!streamVars

LEMMA StreamDrop ==
    ASSUME UnderWay' = <<>>, InSlot' = Blank
    PROVE  Stream!StreamNext
  BY DEF UnderWay, InSlot, Stream!StreamNext, Stream!Drop, Blank, Stream!Blank

(* The callback of the last packet of a sector is a Put ... *)
LEMMA StreamPut ==
    ASSUME TypeOK, TypeOK', StreamInv, StreamInv', SendLastPacket
    PROVE  Stream!StreamNext
  <1>1. /\ HostFree /\ SectorLeft
        /\ UNCHANGED <<item, ring, readAt, out_handle, flash>>
    BY DEF SendLastPacket, ringVars, taskVars, flashVars
  <1>2. host' \in Seq(Nat) /\ Len(host') \in 1 .. SectorSize
    <2>1. PICK n \in Handed :
             host' = [i \in 1 .. n |-> IF i <= Len(sector') THEN sector'[i]
                                                           ELSE Padding]
      BY DEF SendLastPacket
    <2>2. n \in 1 .. SectorSize
      BY <1>1, HandedType DEF TypeOK
    <2> QED BY <2>1, <2>2, SizeAssumption DEF TypeOK
  <1> DEFINE old == item \o ring
  <1>3. old \in Seq(Nat) /\ Len(old) = Len(item) + Len(ring)
    BY ConcatProperties DEF TypeOK
  <1> HIDE DEF old
  <1>4. UnderWay = old
    BY <1>1, <1>3, ConcatEmptySeq DEF UnderWay, HostFree, old
  <1>5. UnderWay' = old \o host'
    BY <1>1 DEF UnderWay, old
  <1>6. UnderWay' \in Seq(Nat) /\ Len(UnderWay') = Len(old) + Len(host')
    BY <1>2, <1>3, <1>5, ConcatProperties
  <1>7. SubSeq(UnderWay', 1, Len(UnderWay)) = UnderWay
    BY <1>2, <1>3, <1>4, <1>5, FrontOfConcat
  <1>8. Len(UnderWay') \in Len(UnderWay) + 1 .. RingSize + SectorSize
    <2>1. /\ Len(UnderWay) = Len(item) + Len(ring)
          /\ Len(UnderWay') = Len(UnderWay) + Len(host')
          /\ Len(item) + Len(ring) <= RingSize
          /\ Len(item) \in Nat /\ Len(ring) \in Nat
      <3>1. Len(UnderWay) = Len(old)
        BY <1>4
      <3>2. Len(item) + Len(ring) <= RingSize
        BY DEF StreamInv
      <3>3. Len(item) \in Nat /\ Len(ring) \in Nat
        BY DEF TypeOK
      <3> QED BY <1>3, <1>6, <3>1, <3>2, <3>3
    <2> QED BY <1>2, <2>1, SizeAssumption
  <1>9. InSlot' = InSlot
    BY <1>1 DEF InSlot
  <1> QED
    BY <1>6, <1>7, <1>8, <1>9
    DEF UnderWay, InSlot, Stream!StreamNext, Stream!Put

(* ... and what esp_ota_write does is a Take. *)
LEMMA StreamTake ==
    ASSUME IInv, StreamInv, Write, task' = "counting"
    PROVE  Stream!StreamNext
  <1>1. /\ UNCHANGED out_handle
        /\ flash' = [flash EXCEPT ![out_handle] =
                        Written(flash[out_handle], item)]
    BY DEF Write, Goto
  <1>2. out_handle \in Slots /\ out_handle # NoSlot
    BY NextUpdateAside
    DEF Write, IInv, TypeOK, DeviceInv, Writing, Slots, NoSlot
  <1>3. InSlot' = Written(InSlot, item)
    BY <1>1, <1>2 DEF InSlot, IInv, TypeOK
  <1>4. /\ Len(item) \in 1 .. Len(UnderWay)
        /\ InSlot' = Written(InSlot, SubSeq(UnderWay, 1, Len(item)))
        /\ UnderWay' = SubSeq(UnderWay, Len(item) + 1, Len(UnderWay))
    BY <1>3, WriteTakes DEF IInv
  <1>5. Stream!Take
    BY <1>4 DEF Stream!Take, InSlot, UnderWay, Written, Stream!Written
  <1> QED BY <1>5 DEF Stream!StreamNext

LEMMA StreamStep ==
    ASSUME IInv, IInv', StreamInv, StreamInv', [Next]_vars
    PROVE  [Stream!StreamNext]_Stream!streamVars
  <1>1. CASE UNCHANGED <<item, ring, host, out_handle, flash>>
    BY <1>1, StreamStutter DEF UnderWay, InSlot
  <1>2. CASE SendLastPacket
    BY <1>2, StreamPut DEF IInv
  <1>3. CASE WriteToRingbuf
    <2>1. UNCHANGED <<out_handle, flash>>
      BY <1>3 DEF WriteToRingbuf, taskVars, flashVars
    <2> QED BY <1>3, <2>1, WriteToRingbufMoves, StreamStutter DEF IInv, InSlot
  <1>4. CASE Receive
    <2>1. UNCHANGED <<out_handle, flash>>
      BY <1>4 DEF Receive, flashVars
    <2> QED BY <1>4, <2>1, ReceiveMoves, StreamStutter DEF IInv, InSlot
  <1>5. CASE Write
    <2>1. CASE task' = "counting"
      BY <1>5, <2>1, StreamTake
    <2>2. CASE task' # "counting"
      BY <1>1, <1>5, <2>2 DEF Write, Goto, hostVars
    <2> QED BY <2>1, <2>2
  <1>6. CASE OtaBegin
    <2>1. /\ out_handle = NoSlot /\ UNCHANGED <<item, ring, host>>
          /\ \/ /\ out_handle' = NextUpdate(boot)
                /\ flash' = [flash EXCEPT ![NextUpdate(boot)] = Blank]
             \/ out_handle' = out_handle
      BY <1>6 DEF OtaBegin, StreamInv, hostVars, ringVars
    <2>2. InSlot = Blank /\ InSlot' = Blank
      BY <2>1, NextUpdateAside DEF InSlot, IInv, TypeOK
    <2> QED BY <2>1, <2>2, StreamStutter DEF UnderWay
  <1>7. CASE Restart
    <2>1. InSlot' = Blank
      BY <1>7 DEF Restart, InSlot
    <2>2. UnderWay' = <<>>
      <3>1. /\ <<>> \o <<>> = <<>>
            /\ item' = <<>> /\ ring' = <<>> /\ host' = <<>>
        BY <1>7, EmptySeq, ConcatEmptySeq DEF Restart
      <3> QED BY <3>1 DEF UnderWay
    <2> QED BY <2>1, <2>2, StreamDrop
  <1>8. CASE AppMain \/ Counted \/ OtaEnd \/ (SetBoot /\ ~Restart)
    BY <1>1, <1>8
    DEF AppMain, Counted, OtaEnd, SetBoot, SelectAndRestart, hostVars,
        ringVars, taskVars, flashVars
  <1>9. CASE StartOta \/ SendPacket \/ StopOta \/ Interrupt \/ UNCHANGED vars
    BY <1>1, <1>9
    DEF StartOta, SendPacket, StopOta, Interrupt, vars, hostVars, ringVars,
        taskVars, flashVars
  <1> QED
    BY <1>2, <1>3, <1>4, <1>5, <1>6, <1>7, <1>8, <1>9
    DEF Next, SenderStep, TaskStep, PowerCycle

(* From the callback (app_main.c line 258) to esp_ota_write (line 224) the *)
(* bytes keep their order and none is lost or doubled, however uploads,    *)
(* the host task and ota_task interleave; only a restart drops them.       *)
THEOREM StreamRefinement == Spec => StreamSpec
  <1>1. Init => StreamInv
    BY SizeAssumption DEF Init, StreamInv
  <1>2. IInv /\ IInv' /\ StreamInv /\ [Next]_vars => StreamInv'
    BY StreamInvStep DEF IInv
  <1>3. IInv /\ IInv' /\ StreamInv /\ StreamInv' /\ [Next]_vars
           => [Stream!StreamNext]_Stream!streamVars
    BY StreamStep
  <1> QED
    BY <1>1, <1>2, <1>3, StreamInitHolds, InductiveInvariant, PTL
    DEF Spec, StreamSpec, Stream!StreamOf

=============================================================================
