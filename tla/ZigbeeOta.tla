------------------------------ MODULE ZigbeeOta ------------------------------
(***************************************************************************)
(* The Zigbee update system: one coordinator, the end devices it updates   *)
(* and other devices of its network, composed through the messages of the  *)
(* OTA cluster.  Each node runs one main loop, so a callback is one step.  *)
(*                                                                         *)
(* The stacks are not part of the repository: they query, request one      *)
(* block after the other, repeat a request that stays unanswered, and call *)
(* back into the code.  A session is the phases                            *)
(*     idle -> query -> wait -> check -> end -> apply                    *)
(***************************************************************************)
EXTENDS ZigbeeOtaServer, ZigbeeOtaClient

CONSTANTS
    Foreign,    \* devices of the network with another image type
    FirstBlock, \* payload of the first block: 64 bytes less the file header
    BlockSize,  \* payload of the others, OTA_UPGRADE_MAX_DATA_SIZE
    Faults,     \* the kinds of faults that may happen
    MaxFaults   \* bound on how many faults happen

ASSUME BlockAssumption == FirstBlock \in Nat \ {0} /\ BlockSize \in Nat \ {0}
ASSUME DeviceAssumption == Clients \cap Foreign = {}
ASSUME FaultAssumption ==
    /\ Faults \subseteq {"loss", "timeout", "clientRestart", "serverRestart",
                         "flash", "garbled"}
    /\ MaxFaults \in Nat

VARIABLES
    net,    \* the messages in flight, in no order
    phase,  \* phase[c]: how far c's stack is with the session
    pos,    \* pos[c]: the position in the image c asks for next
    faults  \* the number of faults so far

stackVars == <<net, phase, pos, faults>>
vars      == <<serverVars, clientVars, stackVars>>

Devices == Clients \cup Foreign
Phases  == {"idle", "query", "wait", "check", "end", "apply"}

(* Messages: the first four go to the server, the others to the device. *)
Annce(d)          == [type |-> "annce", dev |-> d]
Query(d)          == [type |-> "query", dev |-> d]
BlockReq(c, p)    == [type |-> "blockReq", dev |-> c, pos |-> p]
EndReq(c, ok)     == [type |-> "endReq", dev |-> c, ok |-> ok]
Notify(c)         == [type |-> "notify", dev |-> c]
QueryRsp(c, ok)   == [type |-> "queryRsp", dev |-> c, ok |-> ok]
BlockRsp(c, p, f) == [type |-> "blockRsp", dev |-> c, pos |-> p, from |-> f]
NoImage(c)        == [type |-> "noImage", dev |-> c]
EndRsp(c)         == [type |-> "endRsp", dev |-> c]

ToServer == {"annce", "query", "blockReq", "endReq"}
ToClient == {"notify", "queryRsp", "blockRsp", "noImage", "endRsp"}

InFlight(d, types) == {m \in net : m.dev = d /\ m.type \in types}

BlockLen(p) ==
    LET most == IF p = 0 THEN FirstBlock ELSE BlockSize
    IN  IF p + most > ImageSize THEN ImageSize - p ELSE most

(* A fault of the given kind, within the bound. *)
Fault(kind) ==
    /\ kind \in Faults
    /\ faults < MaxFaults
    /\ faults' = faults + 1

(* The status of a callback: TRUE for SUCCESS, FALSE for a message that    *)
(* the stack could not parse.                                              *)
CallbackStatus(ok) == IF ok THEN UNCHANGED faults ELSE Fault("garbled")

(* A static file version: client.h is compiled into every image alike. *)
OTA_UPGRADE_FILE_VERSION == 2
RunningFileVersion(d)    == 1

(* The devices are switched on one after the other and announce themselves. *)
Init ==
    /\ ServerInit
    /\ ClientInit
    /\ net = {Annce(d) : d \in Devices}
    /\ phase = [c \in Clients |-> "idle"]
    /\ pos = [c \in Clients |-> 0]
    /\ faults = 0

-----------------------------------------------------------------------------
(* The coordinator.  The messages it takes in are all for its callbacks. *)

Reply(m, answers) == net' = (net \ {m}) \cup answers

RecvAnnce(d) ==
    /\ Annce(d) \in net
    /\ DeviceAnnce
    /\ Reply(Annce(d), IF NotInOtaProcess
                       THEN {Notify(c) : c \in Clients} ELSE {})
    /\ UNCHANGED <<clientVars, phase, pos, faults>>

(* The callback is called whatever the table holds. *)
RecvQuery(d) ==
    /\ Query(d) \in net
    /\ \E status \in BOOLEAN :
          /\ CallbackStatus(status)
          /\ QueryImage(status, d \in Clients)
          /\ Reply(Query(d),
                   IF d \notin Clients THEN {}
                   ELSE {QueryRsp(d, /\ imageAdded
                                     /\ QueryAccepted(status, TRUE)
                                     /\ RunningFileVersion(d)
                                          < OTA_UPGRADE_FILE_VERSION)})
    /\ UNCHANGED <<clientVars, phase, pos>>

(* Faulty: a block request is not answered when there is no image. *)
RecvBlockReqSilent(c) ==
    \E m \in InFlight(c, {"blockReq"}) :
       /\ imageAdded
       /\ NextData(BlockLen(m.pos))
       /\ Reply(m, {BlockRsp(c, m.pos, s_ota_image_offset)})
       /\ UNCHANGED <<clientVars, phase, pos, faults>>

RecvBlockReq(c) ==
    \E m \in InFlight(c, {"blockReq"}) :
       /\ IF imageAdded
          THEN /\ NextData(BlockLen(m.pos))
               /\ Reply(m, {BlockRsp(c, m.pos, s_ota_image_offset)})
          ELSE /\ Reply(m, {NoImage(c)})
               /\ UNCHANGED serverVars
       /\ UNCHANGED <<clientVars, phase, pos, faults>>

RecvEndReq(c) ==
    \E m \in InFlight(c, {"endReq"}), status \in BOOLEAN :
       /\ CallbackStatus(status)
       /\ ServerStatus(status, IF m.ok THEN "END" ELSE "ABORTED")
       /\ Reply(m, IF m.ok THEN {EndRsp(c)} ELSE {})
       /\ UNCHANGED <<clientVars, phase, pos>>

ServerRestart ==
    /\ Fault("serverRestart")
    /\ ServerReboot
    /\ net' = {m \in net : m.type \in ToClient}
    /\ UNCHANGED <<clientVars, phase, pos>>

-----------------------------------------------------------------------------
(* The end devices: what their stacks do on their own ... *)

Goto(c, p) == phase' = [phase EXCEPT ![c] = p]

StartQuery(c) ==
    /\ phase[c] = "idle"
    /\ Goto(c, "query")
    /\ UNCHANGED <<serverVars, clientVars, pos, faults>>

RecvNotify(c) ==
    /\ Notify(c) \in net
    /\ StartQuery(c)
    /\ Reply(Notify(c), {Query(c)})

(* timer_query: the server is queried periodically. *)
QueryTimer(c) ==
    /\ StartQuery(c)
    /\ net' = net \cup {Query(c)}

(* No answer has come.  Unless the request or its answer was lost, that is *)
(* a timeout that is too early.                                            *)
AnswerTypes(c) ==
    CASE phase[c] = "query" -> {"query", "queryRsp"}
      [] phase[c] = "wait"  -> {"blockReq", "blockRsp", "noImage"}
      [] phase[c] = "end"   -> {"endReq", "endRsp"}

TimeOut(c) ==
    /\ phase[c] \in {"query", "wait", "end"}
    /\ IF InFlight(c, AnswerTypes(c)) = {}
       THEN UNCHANGED faults ELSE Fault("timeout")

RepeatRequest(c) ==
    /\ TimeOut(c)
    /\ net' = net \cup {CASE phase[c] = "query" -> Query(c)
                          [] phase[c] = "wait"  -> BlockReq(c, pos[c])
                          [] phase[c] = "end"   -> EndReq(c, TRUE)}
    /\ UNCHANGED <<serverVars, clientVars, phase, pos>>

GiveUp(c) ==
    /\ TimeOut(c)
    /\ Goto(c, "idle")
    /\ UNCHANGED <<serverVars, clientVars, net, pos>>

(* The message is not the one that is waited for. *)
Expected(c, m) ==
    \/ m.type = "notify" /\ phase[c] = "idle"
    \/ m.type = "queryRsp" /\ phase[c] = "query"
    \/ m.type = "blockRsp" /\ phase[c] = "wait" /\ m.pos = pos[c]
    \/ m.type = "noImage" /\ phase[c] = "wait"
    \/ m.type = "endRsp" /\ phase[c] = "end"

DropStale(c) ==
    \E m \in InFlight(c, ToClient) :
       /\ ~Expected(c, m)
       /\ net' = net \ {m}
       /\ UNCHANGED <<serverVars, clientVars, phase, pos, faults>>

-----------------------------------------------------------------------------
(* ... and the callbacks they make.  A callback that returns an error ends *)
(* the session, and the server is told.                                    *)

EndSession(c, taken) ==
    /\ Goto(c, "idle")
    /\ net' = (net \ taken) \cup {EndReq(c, FALSE)}
    /\ UNCHANGED pos

(* Otherwise the stack asks for the next block, until there is none. *)
RequestBlock(c, next, taken) ==
    /\ pos' = [pos EXCEPT ![c] = next]
    /\ IF next < ImageSize
       THEN Goto(c, "wait") /\ Reply(taken, {BlockReq(c, next)})
       ELSE Goto(c, "check") /\ Reply(taken, {})

QueryRefused(c) ==
    /\ phase[c] = "query"
    /\ QueryRsp(c, FALSE) \in net
    /\ Goto(c, "idle")
    /\ Reply(QueryRsp(c, FALSE), {})
    /\ UNCHANGED <<serverVars, clientVars, pos, faults>>

(* The query response is always approved, and START is called back. *)
StartDownload(c) ==
    /\ phase[c] = "query"
    /\ QueryRsp(c, TRUE) \in net
    /\ \/ /\ \/ UpgradeStart(c) /\ UNCHANGED faults
             \/ UpgradeIgnored(c) /\ Fault("garbled")
          /\ RequestBlock(c, 0, QueryRsp(c, TRUE))
       \/ /\ Fault("flash")
          /\ UpgradeStartFails(c)
          /\ EndSession(c, {QueryRsp(c, TRUE)})
    /\ UNCHANGED serverVars

RecvBlock(c) ==
    /\ phase[c] = "wait"
    /\ \E m \in InFlight(c, {"blockRsp"}) :
          LET n    == BlockLen(pos[c])
              next == pos[c] + n
          IN  /\ m.pos = pos[c]
              /\ \/ /\ \/ UpgradeReceive(c, m.from, n) /\ UNCHANGED faults
                       \/ UpgradeIgnored(c) /\ Fault("garbled")
                    /\ RequestBlock(c, next, m)
                 \/ /\ IF s_ota_handle[c] = NoSlot
                       THEN UNCHANGED faults ELSE Fault("flash")
                    /\ UpgradeReceiveFails(c, n)
                    /\ EndSession(c, {m})
    /\ UNCHANGED serverVars

RecvNoImage(c) ==
    /\ phase[c] = "wait"
    /\ NoImage(c) \in net
    /\ Goto(c, "idle")
    /\ Reply(NoImage(c), {})
    /\ UNCHANGED <<serverVars, clientVars, pos, faults>>

CheckImage(c) ==
    /\ phase[c] = "check"
    /\ UpgradeCheck(c)
    /\ \/ /\ IF CheckPasses(c) THEN UNCHANGED faults ELSE Fault("garbled")
          /\ Goto(c, "end")
          /\ net' = net \cup {EndReq(c, TRUE)}
          /\ UNCHANGED pos
       \/ /\ ~CheckPasses(c)
          /\ EndSession(c, {})
          /\ UNCHANGED faults
    /\ UNCHANGED serverVars

RecvEndRsp(c) ==
    /\ phase[c] = "end"
    /\ EndRsp(c) \in net
    /\ UpgradeApply(c)
    /\ Goto(c, "apply")
    /\ Reply(EndRsp(c), {})
    /\ UNCHANGED <<serverVars, pos, faults>>

(* What a device had sent before it went down is lost with its stack. *)
ComeBack(c) ==
    /\ Goto(c, "idle")
    /\ pos' = [pos EXCEPT ![c] = 0]
    /\ net' = (net \ InFlight(c, ToServer \cup ToClient)) \cup {Annce(c)}

Finish(c) ==
    /\ phase[c] = "apply"
    /\ \/ /\ UpgradeFinish(c)
          /\ ComeBack(c)
          /\ UNCHANGED faults
       \/ /\ \/ /\ IF OtaEndSucceeds(c) THEN Fault("flash") ELSE UNCHANGED faults
                /\ UpgradeFinishFails(c)
             \/ Fault("garbled") /\ UpgradeIgnored(c)
          /\ Goto(c, "idle")
          /\ UNCHANGED <<net, pos>>
    /\ UNCHANGED serverVars

ClientRestart(c) ==
    /\ Fault("clientRestart")
    /\ PowerCycle(c)
    /\ ComeBack(c)
    /\ UNCHANGED serverVars

-----------------------------------------------------------------------------
(* The rest of the network. *)

ForeignQuery(d) ==
    /\ net' = net \cup {Query(d)}
    /\ UNCHANGED <<serverVars, clientVars, phase, pos, faults>>

LoseMessage ==
    /\ Fault("loss")
    /\ \E m \in net : net' = net \ {m}
    /\ UNCHANGED <<serverVars, clientVars, phase, pos>>

ServerStep ==
    \/ \E d \in Devices : RecvAnnce(d) \/ RecvQuery(d)
    \/ \E c \in Clients : RecvBlockReq(c) \/ RecvEndReq(c)

StackStep(c) ==
    \/ RecvNotify(c) \/ QueryTimer(c) \/ RepeatRequest(c) \/ DropStale(c)

CallbackStep(c) ==
    \/ QueryRefused(c) \/ StartDownload(c) \/ RecvBlock(c) \/ RecvNoImage(c)
    \/ CheckImage(c) \/ RecvEndRsp(c) \/ Finish(c)

Next ==
    \/ ServerStep
    \/ ServerRestart
    \/ \E c \in Clients :
          StackStep(c) \/ GiveUp(c) \/ CallbackStep(c) \/ ClientRestart(c)
    \/ \E d \in Foreign : ForeignQuery(d)
    \/ LoseMessage

Spec == Init /\ [][Next]_vars

(* The main loops run: each node goes on taking in its messages, and a     *)
(* stack goes on asking.  Nothing makes a stack give up or a fault happen. *)
Fairness ==
    /\ \A d \in Devices : WF_vars(RecvAnnce(d)) /\ WF_vars(RecvQuery(d))
    /\ \A c \in Clients :
          /\ WF_vars(RecvBlockReq(c)) /\ WF_vars(RecvEndReq(c))
          /\ WF_vars(StackStep(c)) /\ WF_vars(CallbackStep(c))

FairSpec == Spec /\ Fairness

-----------------------------------------------------------------------------
(* Every variable has its type. *)
Messages ==
    {Annce(d) : d \in Devices} \cup {Query(d) : d \in Devices}
    \cup {Notify(c) : c \in Clients} \cup {NoImage(c) : c \in Clients}
    \cup {EndRsp(c) : c \in Clients}
    \cup {EndReq(c, ok) : c \in Clients, ok \in BOOLEAN}
    \cup {QueryRsp(c, ok) : c \in Clients, ok \in BOOLEAN}
    \cup {BlockReq(c, p) : c \in Clients, p \in 0 .. ImageSize}
    \cup {BlockRsp(c, p, f) : c \in Clients, p \in 0 .. ImageSize,
                              f \in 0 .. ImageSize}

TypeOK ==
    /\ ServerTypeOK
    /\ ClientTypeOK
    /\ net \subseteq Messages
    /\ phase \in [Clients -> Phases]
    /\ pos \in [Clients -> 0 .. ImageSize]
    /\ faults \in Nat

(* A power cycle at any moment comes up in a complete image, so whatever   *)
(* went wrong in a transfer, no device is lost: the running slot and the   *)
(* slot selected by FINISH (esp_ota_client.c lines 116-119) are bootable.  *)
BootImageIntact ==
    \A c \in Clients :
       Bootable(flash[c][boot[c]]) /\ Bootable(flash[c][running[c]])

(* What a session writes is never the slot the device runs from or comes   *)
(* up in: START (line 90) takes the next update partition, and the handle  *)
(* and s_ota_partition stay in step across failed sessions.                *)
WritesAside ==
    \A c \in Clients :
       /\ boot[c] = running[c]
       /\ s_ota_partition[c] # running[c]
       /\ s_ota_handle[c] \in {NoSlot, s_ota_partition[c]}

(* The server's one counter stands where the device it answers reads: the  *)
(* bytes zb_ota_next_data_handler hands out (line 120) are the ones that   *)
(* were asked for.                                                         *)
BlocksInStep ==
    \A m \in net : m.type = "blockRsp" => m.from = m.pos

(* CHECK (line 108) compares byte counts only; what it lets pass is a      *)
(* complete image in the slot that FINISH is going to select.              *)
CheckedImageIsIntact ==
    \A c \in Clients :
       phase[c] \in {"end", "apply"} =>
          s_ota_handle[c] # NoSlot /\ Bootable(flash[c][s_ota_handle[c]])

(* A download that wrote every byte of the image passes CHECK (line 108).  *)
CompleteDownloadAccepted ==
    \A c \in Clients :
       phase[c] = "check" /\ s_ota_handle[c] # NoSlot
          /\ Bootable(flash[c][s_ota_handle[c]]) => CheckPasses(c)

(* A session that reaches FINISH (lines 111-122) ends in the image that it *)
(* downloaded.                                                             *)
FinishRestarts ==
    [][\A c \in Clients : Finish(c) => running'[c] = s_ota_partition[c]]_vars

(* A device does not download the image that it already runs.              *)
InstalledOnce ==
    [][\A c \in Clients :
          StartDownload(c) => flash[c][running[c]].fw = "old"]_vars

(* The devices' flash behaves as the abstract specification says. *)
Safe == INSTANCE SafeUpdate

SafeUpdateSpec == Safe!SafeSpec

(* Every device comes to run the image that the server distributes. *)
Updated ==
    \A c \in Clients : <>(flash[c][running[c]].fw = "new")

(* No session lasts forever, whatever is lost: the device is always free   *)
(* again to take part in another one.                                      *)
SessionEnds ==
    \A c \in Clients : phase[c] # "idle" ~> phase[c] = "idle"

=============================================================================
