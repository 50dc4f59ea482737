--------------------------- MODULE ZigbeeOtaProofs ---------------------------
(***************************************************************************)
(* Proofs about ZigbeeOta, for any number of devices, any image and block  *)
(* sizes and any faults.  The argument has two halves.  What a step does   *)
(* to the devices is one of the operations of ClientOp, and these preserve *)
(* ClientInv and take SafeUpdate steps; the messages and the server only   *)
(* matter to the type invariant.                                           *)
(***************************************************************************)
EXTENDS ZigbeeOta, TLAPS

(* BootImageIntact needs WritesAside: FINISH selects the slot that         *)
(* esp_ota_end verified only because the handle and s_ota_partition agree, *)
(* and what is written is never what boots only because both are aside.    *)
(* They go on agreeing when esp_ota_begin fails because every START of one *)
(* run of the device chooses the same slot.                                *)
SamePartition ==
    \A c \in Clients : s_ota_partition[c] \in {NoSlot, NextUpdate(running[c])}

ClientInv == ClientTypeOK /\ WritesAside /\ BootImageIntact /\ SamePartition

ClientOp(c) ==
    \/ UpgradeIgnored(c)
    \/ UpgradeStart(c)
    \/ UpgradeStartFails(c)
    \/ \E from, n \in Nat : UpgradeReceive(c, from, n)
    \/ \E n \in Nat : UpgradeReceiveFails(c, n)
    \/ UpgradeFinish(c)
    \/ UpgradeFinishFails(c)
    \/ PowerCycle(c)

IInv == TypeOK /\ OffsetInImage /\ ClientInv

(* The update partition is another slot than the running one. *)
LEMMA NextUpdateAside ==
    ASSUME NEW s \in Slots
    PROVE  NextUpdate(s) \in Slots /\ NextUpdate(s) # s
  BY DEF NextUpdate, Slots

(* "none" is the name of no slot. *)
LEMMA NoSlotIsNone == NoSlot \notin Slots
  BY DEF NoSlot, Slots

(* What is programmed, erased or flashed is a content. *)
LEMMA ContentType ==
    /\ Blank \in Content /\ OldImage \in Content
    /\ \A x \in Content : Erased(x) \in Content
    /\ \A x \in Content, from, n \in Nat : Program(x, from, n) \in Content
  <1>1. Blank \in Content /\ OldImage \in Content
    BY ImageSizeAssumption DEF Blank, OldImage, Content
  <1>2. ASSUME NEW x \in Content
        PROVE  Erased(x) \in Content
    BY DEF Erased, Content
  <1>3. ASSUME NEW x \in Content, NEW from \in Nat, NEW n \in Nat
        PROVE  Program(x, from, n) \in Content
    <2> DEFINE y == Program(x, from, n)
    <2>1. x.fw \in {"old", "new"} /\ x.len + n \in Nat
      BY DEF Content
    <2>2. y = [fw |-> x.fw, len |-> x.len + n, intact |-> y.intact]
      BY DEF Program, Content
    <2>3. y.intact \in BOOLEAN
      BY Zenon DEF Program, Content
    <2> QED BY <2>1, <2>2, <2>3 DEF Content
  <1> QED BY <1>1, <1>2, <1>3

(* A block is never empty before the image's end, and never reaches past it. *)
LEMMA BlockLenType ==
    ASSUME NEW p \in 0 .. ImageSize
    PROVE  BlockLen(p) \in Nat /\ p + BlockLen(p) \in 0 .. ImageSize
  BY ImageSizeAssumption, BlockAssumption DEF BlockLen

-----------------------------------------------------------------------------
(* The devices as flashed satisfy the invariant. *)
LEMMA ClientInvInit == ClientInit => ClientInv
  <1> SUFFICES ASSUME ClientInit PROVE ClientInv
    OBVIOUS
  <1>1. ClientTypeOK
    BY ContentType, ModulusAssumption, ImageSizeAssumption
    DEF ClientInit, ClientTypeOK, Slots
  <1>2. WritesAside
    BY DEF ClientInit, WritesAside, NoSlot
  <1>3. BootImageIntact
    BY ImageSizeAssumption
    DEF ClientInit, BootImageIntact, Bootable, OldImage, Slots
  <1>4. SamePartition
    BY DEF ClientInit, SamePartition
  <1> QED BY <1>1, <1>2, <1>3, <1>4 DEF ClientInv

(* Each operation on a device preserves it. *)
LEMMA ClientInvStep ==
    ASSUME ClientInv, NEW c \in Clients, ClientOp(c)
    PROVE  ClientInv'
  <1> USE NoSlotIsNone DEF ClientInv
  <1>1. CASE UpgradeIgnored(c)
    BY <1>1 DEF UpgradeIgnored, clientVars, ramVars, ClientTypeOK,
                WritesAside, BootImageIntact, Bootable, SamePartition
  <1>2. CASE UpgradeStart(c)
    <2> DEFINE p == NextUpdate(running[c])
    <2>1. p \in Slots /\ p # running[c] /\ p # boot[c]
      BY NextUpdateAside DEF ClientTypeOK, WritesAside
    <2>2. ClientTypeOK'
      BY <1>2, <2>1, ContentType DEF UpgradeStart, ClientTypeOK
    <2>3. WritesAside'
      BY <1>2, <2>1 DEF UpgradeStart, WritesAside, ClientTypeOK
    <2>4. BootImageIntact'
      BY <1>2, <2>1 DEF UpgradeStart, BootImageIntact, Bootable, ClientTypeOK
    <2>5. SamePartition'
      BY <1>2 DEF UpgradeStart, SamePartition, ClientTypeOK
    <2> QED BY <2>2, <2>3, <2>4, <2>5
  <1>3. CASE UpgradeStartFails(c)
    <2> DEFINE p == NextUpdate(running[c])
    <2>1. p \in Slots /\ p # running[c] /\ p # boot[c]
      BY NextUpdateAside DEF ClientTypeOK, WritesAside
    <2>2. Erased(flash[c][p]) \in Content
      BY <2>1, ContentType DEF ClientTypeOK
    <2>3. \/ flash' = [flash EXCEPT ![c][p] = Erased(flash[c][p])]
          \/ flash' = flash
      BY <1>3 DEF UpgradeStartFails
    <2>4. /\ s_ota_partition' = [s_ota_partition EXCEPT ![c] = p]
          /\ UNCHANGED <<s_ota_handle, total_size, offset, boot, running>>
      BY <1>3 DEF UpgradeStartFails
    <2>5. /\ flash' \in [Clients -> [Slots -> Content]]
          /\ \A d \in Clients, s \in Slots :
                d # c \/ s # p => flash'[d][s] = flash[d][s]
      <3> HIDE DEF p
      <3>1. CASE flash' = flash
        BY <3>1 DEF ClientTypeOK
      <3>2. CASE flash' = [flash EXCEPT ![c][p] = Erased(flash[c][p])]
        BY <2>1, <2>2, <3>2 DEF ClientTypeOK
      <3> QED BY <2>3, <3>1, <3>2
    <2>6. ClientTypeOK'
      BY <2>1, <2>4, <2>5 DEF ClientTypeOK
    <2>7. s_ota_handle[c] \in {NoSlot, p}
      BY DEF WritesAside, SamePartition
    <2>8. WritesAside'
      BY <2>1, <2>4, <2>7 DEF WritesAside, ClientTypeOK
    <2>9. BootImageIntact'
      <3> HIDE DEF p
      <3> SUFFICES ASSUME NEW d \in Clients
                   PROVE  /\ flash'[d][boot[d]] = flash[d][boot[d]]
                          /\ flash'[d][running[d]] = flash[d][running[d]]
        BY <2>4 DEF BootImageIntact, Bootable
      <3>1. boot[d] \in Slots /\ running[d] \in Slots
        BY DEF ClientTypeOK
      <3> QED BY <2>1, <2>5, <3>1
    <2>10. SamePartition'
      BY <2>4 DEF SamePartition, ClientTypeOK
    <2> QED BY <2>6, <2>8, <2>9, <2>10
  <1>4. CASE \E from, n \in Nat : UpgradeReceive(c, from, n)
    <2> PICK from \in Nat, n \in Nat : UpgradeReceive(c, from, n)
      BY <1>4
    <2> DEFINE h == s_ota_handle[c]
    <2>1. h \in Slots /\ h # running[c] /\ h # boot[c]
      BY DEF UpgradeReceive, ClientTypeOK, WritesAside
    <2>2. Program(flash[c][h], from, n) \in Content
      BY <2>1, ContentType DEF ClientTypeOK
    <2>3. flash' = [flash EXCEPT ![c][h] = Program(flash[c][h], from, n)]
      BY DEF UpgradeReceive
    <2>4. ClientTypeOK'
      BY <2>1, <2>2, <2>3, ModulusAssumption, ImageSizeAssumption
      DEF UpgradeReceive, Count, ClientTypeOK
    <2>5. WritesAside'
      BY DEF UpgradeReceive, WritesAside, ClientTypeOK
    <2>6. BootImageIntact'
      BY <2>1, <2>3
      DEF UpgradeReceive, BootImageIntact, Bootable, ClientTypeOK
    <2>7. SamePartition'
      BY DEF UpgradeReceive, SamePartition
    <2> QED BY <2>4, <2>5, <2>6, <2>7
  <1>5. CASE \E n \in Nat : UpgradeReceiveFails(c, n)
    <2> PICK n \in Nat : UpgradeReceiveFails(c, n)
      BY <1>5
    <2>1. ClientTypeOK'
      BY ModulusAssumption, ImageSizeAssumption
      DEF UpgradeReceiveFails, Count, ClientTypeOK
    <2> QED BY <2>1 DEF UpgradeReceiveFails, WritesAside, BootImageIntact,
                        Bootable, SamePartition
  <1>6. CASE UpgradeFinish(c)
    <2> DEFINE p == s_ota_partition[c]
    <2>1. p \in Slots /\ Bootable(flash[c][p])
      BY <1>6 DEF UpgradeFinish, OtaEndSucceeds, ClientTypeOK, WritesAside
    <2>2. ClientTypeOK'
      BY <1>6, <2>1, ModulusAssumption, ImageSizeAssumption
      DEF UpgradeFinish, Reboot, ClientTypeOK
    <2>3. WritesAside'
      BY <1>6, <2>1 DEF UpgradeFinish, Reboot, WritesAside, ClientTypeOK
    <2>4. BootImageIntact'
      BY <1>6, <2>1
      DEF UpgradeFinish, Reboot, BootImageIntact, Bootable, ClientTypeOK
    <2>5. SamePartition'
      BY <1>6 DEF UpgradeFinish, Reboot, SamePartition, ClientTypeOK
    <2> QED BY <2>2, <2>3, <2>4, <2>5
  <1>7. CASE UpgradeFinishFails(c)
    BY <1>7 DEF UpgradeFinishFails, ClientTypeOK, WritesAside,
                BootImageIntact, Bootable, SamePartition
  <1>8. CASE PowerCycle(c)
    <2>1. ClientTypeOK'
      BY <1>8, ModulusAssumption, ImageSizeAssumption
      DEF PowerCycle, Reboot, ClientTypeOK
    <2>2. WritesAside'
      BY <1>8 DEF PowerCycle, Reboot, WritesAside, ClientTypeOK
    <2>3. BootImageIntact'
      BY <1>8 DEF PowerCycle, Reboot, BootImageIntact, Bootable, ClientTypeOK
    <2>4. SamePartition'
      BY <1>8 DEF PowerCycle, Reboot, SamePartition, ClientTypeOK
    <2> QED BY <2>1, <2>2, <2>3, <2>4
  <1> QED
    BY <1>1, <1>2, <1>3, <1>4, <1>5, <1>6, <1>7, <1>8 DEF ClientOp

-----------------------------------------------------------------------------
(* What the messages in flight carry. *)
LEMMA BlockReqType ==
    ASSUME net \subseteq Messages, NEW c \in Clients,
           NEW m \in InFlight(c, {"blockReq"})
    PROVE  m.pos \in 0 .. ImageSize
  BY DEF InFlight, Messages, Annce, Query, Notify, NoImage, EndRsp, EndReq,
         QueryRsp, BlockReq, BlockRsp

LEMMA BlockRspType ==
    ASSUME net \subseteq Messages, NEW c \in Clients,
           NEW m \in InFlight(c, {"blockRsp"})
    PROVE  m.pos \in 0 .. ImageSize /\ m.from \in 0 .. ImageSize
  BY DEF InFlight, Messages, Annce, Query, Notify, NoImage, EndRsp, EndReq,
         QueryRsp, BlockReq, BlockRsp

(* A message of its type may be sent. *)
LEMMA MessageType ==
    ASSUME NEW c \in Clients
    PROVE  /\ Annce(c) \in Messages /\ Query(c) \in Messages
           /\ Notify(c) \in Messages /\ NoImage(c) \in Messages
           /\ EndRsp(c) \in Messages
           /\ \A ok \in BOOLEAN :
                 EndReq(c, ok) \in Messages /\ QueryRsp(c, ok) \in Messages
           /\ \A p \in 0 .. ImageSize : BlockReq(c, p) \in Messages
           /\ \A p, f \in 0 .. ImageSize : BlockRsp(c, p, f) \in Messages
  BY DEF Messages, Devices

-----------------------------------------------------------------------------
(* Every step does one operation on one device, or none. *)
LEMMA StepIsClientOp ==
    ASSUME TypeOK, Next
    PROVE  UNCHANGED clientVars \/ \E c \in Clients : ClientOp(c)
  <1>1. CASE ServerStep \/ ServerRestart \/ LoseMessage
    BY <1>1 DEF ServerStep, RecvAnnce, RecvQuery, RecvBlockReq, RecvEndReq,
                ServerRestart, LoseMessage
  <1>2. CASE \E d \in Foreign : ForeignQuery(d)
    BY <1>2 DEF ForeignQuery
  <1>3. ASSUME NEW c \in Clients, StackStep(c) \/ GiveUp(c)
        PROVE  UNCHANGED clientVars
    BY <1>3 DEF StackStep, StartQuery, RecvNotify, QueryTimer, RepeatRequest,
                GiveUp, DropStale
  <1>4. ASSUME NEW c \in Clients, ClientRestart(c)
        PROVE  ClientOp(c)
    BY <1>4 DEF ClientRestart, ClientOp
  <1>5. ASSUME NEW c \in Clients, CallbackStep(c)
        PROVE  UNCHANGED clientVars \/ ClientOp(c)
    <2>1. CASE QueryRefused(c) \/ RecvNoImage(c)
      BY <2>1 DEF QueryRefused, RecvNoImage
    <2>2. CASE CheckImage(c) \/ RecvEndRsp(c)
      BY <2>2 DEF CheckImage, UpgradeCheck, RecvEndRsp, UpgradeApply
    <2>3. CASE StartDownload(c)
      BY <2>3 DEF StartDownload, ClientOp
    <2>4. CASE Finish(c)
      BY <2>4 DEF Finish, ClientOp
    <2>5. CASE RecvBlock(c)
      <3>1. PICK m \in InFlight(c, {"blockRsp"}) :
               \/ UpgradeReceive(c, m.from, BlockLen(pos[c]))
               \/ UpgradeIgnored(c)
               \/ UpgradeReceiveFails(c, BlockLen(pos[c]))
        BY <2>5 DEF RecvBlock
      <3>2. m.from \in Nat /\ BlockLen(pos[c]) \in Nat
        BY BlockRspType, BlockLenType DEF TypeOK
      <3> QED BY <3>1, <3>2 DEF ClientOp
    <2> QED BY <1>5, <2>1, <2>2, <2>3, <2>4, <2>5 DEF CallbackStep
  <1> QED BY <1>1, <1>2, <1>3, <1>4, <1>5 DEF Next

(* The devices' invariant is inductive. *)
LEMMA ClientInvInductive ==
    ASSUME TypeOK, ClientInv, [Next]_vars
    PROVE  ClientInv'
  <1>1. CASE UNCHANGED clientVars
    BY <1>1 DEF clientVars, ramVars, ClientInv, ClientTypeOK, WritesAside,
                BootImageIntact, Bootable, SamePartition
  <1>2. ASSUME NEW c \in Clients, ClientOp(c)
        PROVE  ClientInv'
    BY <1>2, ClientInvStep
  <1>3. UNCHANGED vars => UNCHANGED clientVars
    BY DEF vars
  <1> QED BY <1>1, <1>2, <1>3, StepIsClientOp

-----------------------------------------------------------------------------
(* The server's half: whatever positions the devices ask for, the counter  *)
(* stays inside the image, because it wraps when it reaches the end.       *)
ServerInv == ServerTypeOK /\ OffsetInImage

LEMMA ServerInvInductive ==
    ASSUME TypeOK, ServerInv, [Next]_vars
    PROVE  ServerInv'
  <1> USE ImageSizeAssumption DEF ServerInv, ServerTypeOK, OffsetInImage
  <1>1. CASE UNCHANGED serverVars
    BY <1>1 DEF serverVars
  <1>2. ASSUME NEW d \in Devices, RecvAnnce(d) \/ RecvQuery(d)
        PROVE  ServerInv'
    <2>1. s_ota_image_offset' \in {0, s_ota_image_offset}
      BY <1>2 DEF RecvAnnce, DeviceAnnce, RecvQuery, QueryImage
    <2>2. imageAdded' \in BOOLEAN
      BY <1>2, Zenon DEF RecvAnnce, DeviceAnnce, RecvQuery, QueryImage
    <2> QED BY <2>1, <2>2
  <1>3. ASSUME NEW c \in Clients, RecvBlockReq(c)
        PROVE  ServerInv'
    <2>1. PICK m \in InFlight(c, {"blockReq"}) :
             NextData(BlockLen(m.pos)) \/ UNCHANGED serverVars
      BY <1>3 DEF RecvBlockReq
    <2>2. BlockLen(m.pos) \in Nat
      BY BlockReqType, BlockLenType DEF TypeOK
    <2> QED BY <1>1, <2>1, <2>2 DEF NextData
  <1>4. ASSUME NEW c \in Clients, RecvEndReq(c)
        PROVE  ServerInv'
    <2>1. PICK m \in InFlight(c, {"endReq"}), status \in BOOLEAN :
             ServerStatus(status, IF m.ok THEN "END" ELSE "ABORTED")
      BY <1>4, Zenon DEF RecvEndReq
    <2> QED BY <2>1 DEF ServerStatus
  <1>5. CASE ServerRestart
    <2>1. s_ota_image_offset' = 0
      BY <1>5 DEF ServerRestart, ServerReboot
    <2>2. imageAdded' \in BOOLEAN
      BY <1>5, Zenon DEF ServerRestart, ServerReboot
    <2> QED BY <2>1, <2>2
  <1>6. ASSUME NEW c \in Clients,
               StackStep(c) \/ GiveUp(c) \/ CallbackStep(c) \/ ClientRestart(c)
        PROVE  UNCHANGED serverVars
    BY <1>6 DEF StackStep, StartQuery, RecvNotify, QueryTimer, RepeatRequest,
                GiveUp, DropStale, CallbackStep, QueryRefused, StartDownload,
                RecvBlock, RecvNoImage, CheckImage, RecvEndRsp, Finish,
                ClientRestart
  <1>7. CASE LoseMessage \/ (\E d \in Foreign : ForeignQuery(d)) \/ UNCHANGED vars
    BY <1>1, <1>7 DEF LoseMessage, ForeignQuery, vars
  <1> QED
    BY <1>1, <1>2, <1>3, <1>4, <1>5, <1>6, <1>7 DEF Next, ServerStep

-----------------------------------------------------------------------------
(* The stacks' half of the type invariant. *)
StackTypeOK ==
    /\ net \subseteq Messages
    /\ phase \in [Clients -> Phases]
    /\ pos \in [Clients -> 0 .. ImageSize]
    /\ faults \in Nat

(* A failed callback, and a block that is asked for, keep the types. *)
LEMMA EndSessionType ==
    ASSUME StackTypeOK, NEW c \in Clients, NEW taken, EndSession(c, taken)
    PROVE  /\ net' \subseteq Messages
           /\ phase' \in [Clients -> Phases]
           /\ pos' \in [Clients -> 0 .. ImageSize]
  <1>1. net' \subseteq net \cup {EndReq(c, FALSE)}
    BY DEF EndSession
  <1>2. EndReq(c, FALSE) \in Messages
    BY MessageType, Zenon
  <1>3. phase' \in [Clients -> Phases]
    BY DEF EndSession, StackTypeOK, Goto, Phases
  <1> QED BY <1>1, <1>2, <1>3 DEF StackTypeOK, EndSession

LEMMA RequestBlockType ==
    ASSUME StackTypeOK, NEW c \in Clients, NEW next \in 0 .. ImageSize,
           NEW taken, RequestBlock(c, next, taken)
    PROVE  /\ net' \subseteq Messages
           /\ phase' \in [Clients -> Phases]
           /\ pos' \in [Clients -> 0 .. ImageSize]
  <1>1. net' \subseteq net \cup {BlockReq(c, next)}
    BY DEF RequestBlock, Reply
  <1>2. BlockReq(c, next) \in Messages
    BY MessageType
  <1>3. phase' \in [Clients -> Phases]
    BY DEF RequestBlock, StackTypeOK, Goto, Phases
  <1>4. pos' \in [Clients -> 0 .. ImageSize]
    BY DEF RequestBlock, StackTypeOK
  <1> QED BY <1>1, <1>2, <1>3, <1>4 DEF StackTypeOK

LEMMA StackTypeInductive ==
    ASSUME TypeOK, ServerInv, [Next]_vars
    PROVE  StackTypeOK'
  <1> USE MessageType, ImageSizeAssumption DEF StackTypeOK, TypeOK
  <1>1. CASE UNCHANGED stackVars
    BY <1>1 DEF stackVars
  <1>2. ASSUME NEW d \in Devices, RecvAnnce(d)
        PROVE  StackTypeOK'
    BY <1>2 DEF RecvAnnce, Reply
  <1>3. ASSUME NEW d \in Devices, RecvQuery(d)
        PROVE  StackTypeOK'
    <2>1. faults' \in Nat
      BY <1>3 DEF RecvQuery, CallbackStatus, Fault
    <2>2. net' \subseteq Messages
      <3>1. CASE d \in Clients
        <4>1. PICK ok \in BOOLEAN : Reply(Query(d), {QueryRsp(d, ok)})
          BY <1>3, <3>1, Zenon DEF RecvQuery
        <4> QED BY <3>1, <4>1 DEF Reply
      <3>2. CASE d \notin Clients
        BY <1>3, <3>2 DEF RecvQuery, Reply
      <3> QED BY <3>1, <3>2
    <2> QED BY <1>3, <2>1, <2>2 DEF RecvQuery
  <1>4. ASSUME NEW c \in Clients, RecvBlockReq(c)
        PROVE  StackTypeOK'
    <2>1. PICK m \in InFlight(c, {"blockReq"}) :
             \/ Reply(m, {BlockRsp(c, m.pos, s_ota_image_offset)})
             \/ Reply(m, {NoImage(c)})
      BY <1>4 DEF RecvBlockReq
    <2>2. m.pos \in 0 .. ImageSize /\ s_ota_image_offset \in 0 .. ImageSize
      BY BlockReqType DEF ServerInv, ServerTypeOK, OffsetInImage
    <2>3. net' \subseteq Messages
      BY <2>1, <2>2 DEF Reply
    <2> QED BY <1>4, <2>3 DEF RecvBlockReq
  <1>5. ASSUME NEW c \in Clients, RecvEndReq(c)
        PROVE  StackTypeOK'
    BY <1>5 DEF RecvEndReq, Reply, CallbackStatus, Fault
  <1>6. CASE ServerRestart \/ LoseMessage
    BY <1>6 DEF ServerRestart, LoseMessage, Fault
  <1>7. CASE \E d \in Foreign : ForeignQuery(d)
    BY <1>7 DEF ForeignQuery, Messages, Devices
  <1>8. ASSUME NEW c \in Clients, StackStep(c) \/ GiveUp(c)
        PROVE  StackTypeOK'
    <2>1. CASE RecvNotify(c) \/ QueryTimer(c)
      BY <2>1 DEF RecvNotify, QueryTimer, StartQuery, Goto, Phases, Reply
    <2>2. TimeOut(c) => faults' \in Nat
      BY DEF TimeOut, Fault
    <2>3. CASE RepeatRequest(c)
      <3>1. net' \subseteq Messages
        BY <2>3 DEF RepeatRequest, TimeOut
      <3> QED BY <2>2, <2>3, <3>1 DEF RepeatRequest
    <2>4. CASE GiveUp(c)
      BY <2>2, <2>4 DEF GiveUp, Goto, Phases
    <2>5. CASE DropStale(c)
      BY <2>5 DEF DropStale
    <2> QED BY <1>8, <2>1, <2>3, <2>4, <2>5 DEF StackStep
  <1>9. ASSUME NEW c \in Clients, CallbackStep(c)
        PROVE  StackTypeOK'
    <2>1. CASE QueryRefused(c) \/ RecvNoImage(c) \/ RecvEndRsp(c)
      BY <2>1 DEF QueryRefused, RecvNoImage, RecvEndRsp, Goto, Phases, Reply
    <2>2. CASE StartDownload(c)
      <3>1. faults' = faults \/ faults' = faults + 1
        BY <2>2, Zenon DEF StartDownload, Fault
      <3>2. \/ RequestBlock(c, 0, QueryRsp(c, TRUE))
            \/ EndSession(c, {QueryRsp(c, TRUE)})
        BY <2>2 DEF StartDownload
      <3>3. faults' \in Nat
        BY <3>1
      <3>4. CASE RequestBlock(c, 0, QueryRsp(c, TRUE))
        <4>1. 0 \in 0 .. ImageSize
          OBVIOUS
        <4> QED BY <3>3, <3>4, <4>1, RequestBlockType
      <3>5. CASE EndSession(c, {QueryRsp(c, TRUE)})
        BY <3>3, <3>5, EndSessionType
      <3> QED BY <3>2, <3>4, <3>5
    <2>3. CASE RecvBlock(c)
      <3> DEFINE next == pos[c] + BlockLen(pos[c])
      <3>1. next \in 0 .. ImageSize
        BY BlockLenType
      <3>2. faults' \in Nat
        BY <2>3 DEF RecvBlock, Fault
      <3>3. PICK m \in InFlight(c, {"blockRsp"}) :
               RequestBlock(c, next, m) \/ EndSession(c, {m})
        BY <2>3 DEF RecvBlock
      <3> HIDE DEF next
      <3> QED BY <3>1, <3>2, <3>3, RequestBlockType, EndSessionType
    <2>4. CASE CheckImage(c)
      <3>1. CASE EndSession(c, {}) /\ UNCHANGED faults
        BY <3>1, EndSessionType
      <3>2. CASE /\ Goto(c, "end")
                 /\ net' = net \cup {EndReq(c, TRUE)}
                 /\ UNCHANGED pos
        <4>1. faults' = faults \/ faults' = faults + 1
          BY <2>4, Zenon DEF CheckImage, Fault
        <4>2. EndReq(c, TRUE) \in Messages
          BY Zenon, MessageType
        <4>3. net' \subseteq Messages
          BY <3>2, <4>2, Zenon
        <4>4. faults' \in Nat
          BY <4>1
        <4>5. phase' \in [Clients -> Phases]
          BY <3>2 DEF Goto, Phases
        <4> QED BY <3>2, <4>3, <4>4, <4>5
      <3> QED BY <2>4, <3>1, <3>2, Zenon DEF CheckImage
    <2>5. CASE Finish(c)
      BY <2>5 DEF Finish, ComeBack, Goto, Phases, Fault
    <2> QED BY <1>9, <2>1, <2>2, <2>3, <2>4, <2>5 DEF CallbackStep
  <1>10. ASSUME NEW c \in Clients, ClientRestart(c)
         PROVE  StackTypeOK'
    BY <1>10 DEF ClientRestart, ComeBack, Goto, Phases, Fault
  <1>11. UNCHANGED vars => UNCHANGED stackVars
    BY DEF vars
  <1> QED
    BY <1>1, <1>2, <1>3, <1>4, <1>5, <1>6, <1>7, <1>8, <1>9, <1>10, <1>11
    DEF Next, ServerStep

-----------------------------------------------------------------------------
(* Together: IInv is an inductive invariant of the system. *)
LEMMA IInvInit == Init => IInv
  <1> SUFFICES ASSUME Init PROVE IInv
    OBVIOUS
  <1>1. ClientInv
    BY ClientInvInit DEF Init
  <1>2. ServerInv
    <2>1. s_ota_image_offset = 0
      BY DEF Init, ServerInit
    <2>2. imageAdded \in BOOLEAN
      BY Zenon DEF Init, ServerInit
    <2> QED
      BY <2>1, <2>2, ImageSizeAssumption
      DEF ServerInv, ServerTypeOK, OffsetInImage
  <1>3. StackTypeOK
    BY ImageSizeAssumption
    DEF Init, StackTypeOK, Phases, Messages
  <1> QED
    BY <1>1, <1>2, <1>3 DEF IInv, TypeOK, ClientInv, ServerInv, StackTypeOK

LEMMA IInvStep == IInv /\ [Next]_vars => IInv'
  <1> SUFFICES ASSUME IInv, [Next]_vars PROVE IInv'
    OBVIOUS
  <1>1. TypeOK /\ ServerInv /\ ClientInv
    BY DEF IInv, TypeOK, ServerInv
  <1>2. ClientInv'
    BY <1>1, ClientInvInductive
  <1>3. ServerInv'
    BY <1>1, ServerInvInductive
  <1>4. StackTypeOK'
    BY <1>1, StackTypeInductive
  <1> QED
    BY <1>2, <1>3, <1>4 DEF IInv, TypeOK, ClientInv, ServerInv, StackTypeOK

THEOREM InductiveInvariant == Spec => []IInv
  BY IInvInit, IInvStep, PTL DEF Spec

(* Every variable of the system, and every message, keeps its type. *)
THEOREM TypeCorrect == Spec => []TypeOK
  <1>1. IInv => TypeOK
    BY DEF IInv
  <1> QED BY <1>1, InductiveInvariant, PTL

(* No sequence of transfers, faults and restarts, with any number of       *)
(* devices sharing the server's counter, leaves a device without a         *)
(* bootable image in the slot it boots.                                    *)
THEOREM BootSafety == Spec => []BootImageIntact
  <1>1. IInv => BootImageIntact
    BY DEF IInv, ClientInv
  <1> QED BY <1>1, InductiveInvariant, PTL

(* No session writes the slot that runs or boots.                          *)
THEOREM WritesAsideSafety == Spec => []WritesAside
  <1>1. IInv => WritesAside
    BY DEF IInv, ClientInv
  <1> QED BY <1>1, InductiveInvariant, PTL

(* The server's counter is always a position inside the image.             *)
THEOREM OffsetSafety == Spec => []OffsetInImage
  <1>1. IInv => OffsetInImage
    BY DEF IInv
  <1> QED BY <1>1, InductiveInvariant, PTL

-----------------------------------------------------------------------------
(* The devices implement SafeUpdate: each operation is one of its steps. *)
LEMMA SafeInitHolds == Init => Safe!SafeInit
  <1> SUFFICES ASSUME Init PROVE Safe!SafeInit
    OBVIOUS
  <1>1. ClientTypeOK /\ BootImageIntact
    BY IInvInit DEF IInv, ClientInv
  <1>2. boot = running
    BY DEF Init, ClientInit
  <1> QED
    BY <1>1, <1>2
    DEF Safe!SafeInit, Safe!Content, Safe!Slots, Safe!Bootable,
        ClientTypeOK, BootImageIntact, Content, Slots, Bootable

LEMMA SafeStep ==
    ASSUME IInv, IInv', NEW c \in Clients, ClientOp(c)
    PROVE  [Safe!SafeNext]_Safe!svars
  <1> USE DEF Safe!svars
  <1>1. flash' \in [Clients -> [Safe!Slots -> Safe!Content]]
    BY DEF IInv, ClientInv, ClientTypeOK, Safe!Slots, Safe!Content,
           Slots, Content
  <1>2. CASE UpgradeIgnored(c)
    BY <1>2 DEF UpgradeIgnored, clientVars, ramVars
  <1>3. CASE UpgradeStart(c) \/ UpgradeStartFails(c)
    <2> DEFINE p == NextUpdate(running[c])
    <2>1. p # running[c] /\ p # boot[c]
      BY NextUpdateAside DEF IInv, ClientInv, ClientTypeOK, WritesAside
    <2>2. \/ flash' = flash
          \/ \E x : flash' = [flash EXCEPT ![c][p] = x]
      BY <1>3 DEF UpgradeStart, UpgradeStartFails
    <2>3. UNCHANGED <<boot, running>>
      BY <1>3 DEF UpgradeStart, UpgradeStartFails
    <2> HIDE DEF p
    <2>4. \A d \in Clients, s \in Slots :
             d # c \/ s \in {boot[c], running[c]} => flash'[d][s] = flash[d][s]
      BY <2>1, <2>2 DEF IInv, ClientInv, ClientTypeOK
    <2>5. Safe!Rewrite(c)
      BY <1>1, <2>3, <2>4 DEF Safe!Rewrite, Safe!Slots, Slots
    <2> QED BY <2>5 DEF Safe!SafeNext
  <1>4. CASE \E from, n \in Nat : UpgradeReceive(c, from, n)
    <2> PICK from \in Nat, n \in Nat : UpgradeReceive(c, from, n)
      BY <1>4
    <2> DEFINE h == s_ota_handle[c]
    <2>1. h # running[c] /\ h # boot[c]
      BY NoSlotIsNone
      DEF UpgradeReceive, IInv, ClientInv, ClientTypeOK, WritesAside
    <2>2. /\ \E x : flash' = [flash EXCEPT ![c][h] = x]
          /\ UNCHANGED <<boot, running>>
      BY DEF UpgradeReceive
    <2>3. \A d \in Clients, s \in Slots :
             d # c \/ s \in {boot[c], running[c]} => flash'[d][s] = flash[d][s]
      BY <2>1, <2>2 DEF IInv, ClientInv, ClientTypeOK
    <2>4. Safe!Rewrite(c)
      BY <1>1, <2>2, <2>3 DEF Safe!Rewrite, Safe!Slots, Slots
    <2> QED BY <2>4 DEF Safe!SafeNext
  <1>5. CASE (\E n \in Nat : UpgradeReceiveFails(c, n)) \/ UpgradeFinishFails(c)
    BY <1>5 DEF UpgradeReceiveFails, UpgradeFinishFails
  <1>6. CASE UpgradeFinish(c)
    <2> DEFINE p == s_ota_partition[c]
    <2>1. p \in Slots /\ Bootable(flash[c][p])
      BY <1>6, NoSlotIsNone
      DEF UpgradeFinish, OtaEndSucceeds, IInv, ClientInv, ClientTypeOK,
          WritesAside
    <2>2. /\ boot' = [boot EXCEPT ![c] = p]
          /\ running' = [running EXCEPT ![c] = p]
          /\ UNCHANGED flash
      BY <1>6 DEF UpgradeFinish, Reboot
    <2>3. Safe!Select(c)
      BY <2>1, <2>2 DEF Safe!Select, Safe!Slots, Slots, Safe!Bootable, Bootable
    <2> QED BY <2>3 DEF Safe!SafeNext
  <1>7. CASE PowerCycle(c)
    <2>1. Safe!Reset(c)
      BY <1>7 DEF PowerCycle, Reboot, Safe!Reset
    <2> QED BY <2>1 DEF Safe!SafeNext
  <1> QED BY <1>2, <1>3, <1>4, <1>5, <1>6, <1>7 DEF ClientOp

(* Whatever the network does, each device's flash behaves as SafeUpdate    *)
(* promises.                                                               *)
THEOREM Refinement == Spec => SafeUpdateSpec
  <1>1. ASSUME IInv, IInv', [Next]_vars
        PROVE  [Safe!SafeNext]_Safe!svars
    <2>1. UNCHANGED clientVars \/ \E c \in Clients : ClientOp(c)
      BY <1>1, StepIsClientOp DEF IInv, vars
    <2>2. CASE UNCHANGED clientVars
      BY <2>2 DEF clientVars, Safe!svars
    <2> QED BY <1>1, <2>1, <2>2, SafeStep
  <1> QED
    BY <1>1, SafeInitHolds, InductiveInvariant, PTL
    DEF Spec, SafeUpdateSpec, Safe!SafeSpec

=============================================================================
