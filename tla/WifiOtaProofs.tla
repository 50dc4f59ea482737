---------------------------- MODULE WifiOtaProofs ----------------------------
(***************************************************************************)
(* Proofs about WifiOta, for every maximum of retries, image size and any  *)
(* faults: the event handlers and the main task agree on when the station  *)
(* gives up, no handler meets a deleted semaphore, and what is selected is *)
(* newer than what ran.                                                    *)
(***************************************************************************)
EXTENDS WifiOta, SequenceTheorems, TLAPS

(* Before app_main connects, nothing of the station exists. *)
Fresh ==
    main = "starting" =>
       /\ ~registered
       /\ events = <<>> /\ s_retry_num = 0 /\ link = "stopped" /\ ~dhcp

(* GaveUpForGood rests on what the handlers never see: two disconnections  *)
(* in the queue, or one while the driver connects or is connected.  So the *)
(* disconnection that is one too many is the last one.                     *)
AtMostOneLoss ==
    \A i, j \in 1 .. Len(events) :
       events[i] = "disconnected" /\ events[j] = "disconnected" => i = j

NoLoss == \A i \in 1 .. Len(events) : events[i] = "gotIp"

LossMeansDown == ~Down => NoLoss

(* SemaphoreAlive needs to know how far wifi_shutdown is, and that nobody  *)
(* shuts down while app_main still waits.                                  *)
ShutdownInOrder ==
    /\ task # "none" => main = "returned"
    /\ task \in {"deleting", "disconnecting", "stopping", "restarting"}
          => ~registered

QueueInv == AtMostOneLoss /\ LossMeansDown /\ GaveUpForGood

StationInv == Fresh /\ QueueInv /\ SemaphoreAlive /\ ShutdownInOrder

(* NewerOnly: the version that was compared is still the one that runs     *)
(* when the slot is selected, and only new images are downloaded.          *)
ShuttingDown ==
    {"unregistering", "deleting", "disconnecting", "stopping", "restarting"}

UpdateInv ==
    /\ task \notin ShuttingDown => boot = running
    /\ task = "parsing" => response \in {"old", "new", "overwritten"}
    /\ task \in {"connecting", "downloading", "finishing"} =>
          flash[running].fw = "old"
    /\ task \in {"downloading", "finishing"} => flash[UpdateSlot].fw = "new"

IInv == TypeOK /\ StationInv /\ UpdateInv

Events == {"disconnected", "gotIp"}

-----------------------------------------------------------------------------
(* The update partition is another slot than the running one. *)
LEMMA NextUpdateAside ==
    ASSUME NEW s \in Slots
    PROVE  NextUpdate(s) \in Slots /\ NextUpdate(s) # s
  BY DEF NextUpdate, Slots

(* Contents stay contents, and programming keeps the firmware. *)
LEMMA ContentType ==
    /\ Blank \in Content /\ OldImage \in Content
    /\ \A x \in Content : Erased(x) \in Content
    /\ \A x \in Content : /\ Program(x, x.len, 1) \in Content
                          /\ Program(x, x.len, 1).fw = x.fw
  <1>1. Blank \in Content /\ OldImage \in Content
    BY ImageSizeAssumption DEF Blank, OldImage, Content
  <1>2. ASSUME NEW x \in Content
        PROVE  Erased(x) \in Content
    BY DEF Erased, Content
  <1>3. ASSUME NEW x \in Content
        PROVE  /\ Program(x, x.len, 1) \in Content
               /\ Program(x, x.len, 1).fw = x.fw
    <2> DEFINE y == Program(x, x.len, 1)
    <2>1. x.fw \in {"old", "new"} /\ x.len + 1 \in Nat
      BY DEF Content
    <2>2. y = [fw |-> x.fw, len |-> x.len + 1, intact |-> y.intact]
      BY DEF Program
    <2>3. y.intact \in BOOLEAN
      BY Zenon DEF Program, Content
    <2> QED BY <2>1, <2>2, <2>3 DEF Content
  <1> QED BY <1>1, <1>2, <1>3

(* An event that is taken off the queue leaves the others as they are. *)
LEMMA EventTaken ==
    ASSUME events \in Seq(Events), events # <<>>, events' = Tail(events),
           AtMostOneLoss
    PROVE  /\ Head(events) \in Events
           /\ events' \in Seq(Events)
           /\ AtMostOneLoss'
           /\ NoLoss => NoLoss'
           /\ Head(events) = "disconnected" => NoLoss'
  <1>1. /\ Head(events) \in Events /\ Head(events) = events[1]
        /\ events' \in Seq(Events)
        /\ Len(events) \in Nat \ {0} /\ Len(events') = Len(events) - 1
        /\ \A i \in 1 .. Len(events') : events'[i] = events[i + 1]
    BY HeadTailProperties, EmptySeq
  <1>2. \A i \in 1 .. Len(events') : events'[i] \in Events
    BY <1>1, ElementOfSeq
  <1>3. \A i \in 1 .. Len(events') :
           i + 1 \in 1 .. Len(events) /\ i \in Nat /\ i + 1 # 1
    BY <1>1
  <1>4. AtMostOneLoss'
    BY <1>1, <1>3 DEF AtMostOneLoss
  <1>5. NoLoss => NoLoss'
    BY <1>1, <1>3 DEF NoLoss
  <1>6. Head(events) = "disconnected" => NoLoss'
    <2> SUFFICES ASSUME Head(events) = "disconnected",
                        NEW i \in 1 .. Len(events')
                 PROVE  events'[i] = "gotIp"
      BY DEF NoLoss
    <2>1. events[1] = "disconnected" /\ 1 \in 1 .. Len(events)
      BY <1>1
    <2>2. events[i + 1] # "disconnected"
      BY <1>3, <2>1 DEF AtMostOneLoss
    <2> QED BY <1>1, <1>2, <2>2 DEF Events
  <1> QED BY <1>1, <1>4, <1>5, <1>6

(* Neither does one that is posted. *)
LEMMA EventPosted ==
    ASSUME events \in Seq(Events), NEW e \in Events,
           events' = Append(events, e),
           AtMostOneLoss
    PROVE  /\ events' \in Seq(Events)
           /\ NoLoss \/ e = "gotIp" => AtMostOneLoss'
           /\ NoLoss /\ e = "gotIp" => NoLoss'
  <1>1. /\ events' \in Seq(Events)
        /\ Len(events) \in Nat /\ Len(events') = Len(events) + 1
        /\ events'[Len(events')] = e
        /\ \A i \in 1 .. Len(events) : events'[i] = events[i]
    BY AppendProperties, LenProperties
  <1>2. \A i \in 1 .. Len(events') : i \in 1 .. Len(events) \/ i = Len(events')
    BY <1>1
  <1>3. NoLoss \/ e = "gotIp" => AtMostOneLoss'
    BY <1>1, <1>2 DEF AtMostOneLoss, NoLoss
  <1>4. NoLoss /\ e = "gotIp" => NoLoss'
    BY <1>1, <1>2 DEF NoLoss
  <1> QED BY <1>1, <1>3, <1>4

LEMMA FaultType ==
    ASSUME faults \in Nat, NEW kind, Fault(kind)
    PROVE  faults' \in Nat
  BY DEF Fault

-----------------------------------------------------------------------------
(* The station: its operations keep StationTypeOK and what the handlers    *)
(* rely on, whatever the rest of the program does with them.               *)
LEMMA HandlerStep ==
    ASSUME StationTypeOK, QueueInv, SemaphoreAlive, HandleEvent
    PROVE  StationTypeOK' /\ QueueInv' /\ SemaphoreAlive'
  <1> USE RetryAssumption DEF QueueInv
  <1>1. /\ events # <<>> /\ events' = Tail(events)
        /\ registered' = registered /\ events \in Seq(Events)
    BY DEF HandleEvent, HandleGotIp, HandleDisconnected, StationTypeOK, Events
  <1>2. /\ events' \in Seq(Events) /\ AtMostOneLoss'
        /\ NoLoss => NoLoss'
        /\ Head(events) = "disconnected" => NoLoss'
    BY <1>1, EventTaken
  <1>3. events[1] = Head(events) /\ 1 \in 1 .. Len(events)
    BY <1>1, HeadTailProperties, EmptySeq
  <1>4. CASE HandleGotIp
    <2>1. /\ s_retry_num' \in {0, s_retry_num}
          /\ semaphore' \in {semaphore, "full"}
          /\ semaphore' = "full" => semaphore \in {"empty", "full"}
          /\ link' = link /\ dhcp' = dhcp
      BY <1>4 DEF HandleGotIp, Give
    <2>2. StationTypeOK' /\ SemaphoreAlive'
      BY <1>1, <1>2, <2>1 DEF StationTypeOK, SemaphoreAlive, Events
    <2>3. LossMeansDown' /\ GaveUpForGood'
      BY <1>2, <2>1
      DEF LossMeansDown, GaveUpForGood, NoLoss, StationTypeOK, Down
    <2> QED BY <1>2, <2>2, <2>3
  <1>5. CASE HandleDisconnected
    <2>1. NoLoss' /\ ~NoLoss
      BY <1>2, <1>3, <1>5 DEF HandleDisconnected, NoLoss
    <2>2. Down /\ s_retry_num \in 0 .. MaxRetry
      BY <2>1 DEF LossMeansDown, GaveUpForGood, NoLoss, StationTypeOK
    <2>3. /\ s_retry_num' \in {s_retry_num, s_retry_num + 1}
          /\ s_retry_num' > MaxRetry => Down'
          /\ link' \in {"stopped", "idle", "connecting"}
          /\ semaphore' \in {semaphore, "full"}
          /\ semaphore' = "full" => semaphore \in {"empty", "full"}
          /\ dhcp' = FALSE
      BY <1>5, <2>2 DEF HandleDisconnected, StopReconnect, Reconnect, Give, Down
    <2>4. StationTypeOK' /\ SemaphoreAlive'
      <3>1. s_retry_num' \in 0 .. MaxRetry + 1
        BY <2>2, <2>3
      <3>2. semaphore' \in {"none", "empty", "full", "deleted"}
        BY <2>3 DEF StationTypeOK
      <3>3. link' \in {"stopped", "idle", "connecting", "associated", "up"}
        BY <2>3
      <3>4. registered' \in BOOLEAN /\ dhcp' \in BOOLEAN
        BY <1>1, <2>3 DEF StationTypeOK
      <3>5. SemaphoreAlive'
        BY <1>1, <2>3 DEF SemaphoreAlive
      <3> QED BY <1>2, <3>1, <3>2, <3>3, <3>4, <3>5 DEF StationTypeOK, Events
    <2>5. LossMeansDown' /\ GaveUpForGood'
      BY <2>1, <2>3 DEF LossMeansDown, GaveUpForGood, NoLoss
    <2> QED BY <1>2, <2>4, <2>5
  <1> QED BY <1>4, <1>5 DEF HandleEvent

LEMMA DriverStep ==
    ASSUME StationTypeOK, QueueInv, SemaphoreAlive,
           \/ Associate \/ Disconnect \/ LeaseArrives
           \/ DisconnectStation \/ StopStation
    PROVE  StationTypeOK' /\ QueueInv' /\ SemaphoreAlive'
  <1> USE RetryAssumption DEF QueueInv
  <1>1. events \in Seq(Events)
    BY DEF StationTypeOK, Events
  <1>2. CASE Associate
    BY <1>2 DEF Associate, StationTypeOK, AtMostOneLoss, LossMeansDown, NoLoss,
                GaveUpForGood, SemaphoreAlive, Down
  <1>3. CASE Disconnect
    <2>1. NoLoss /\ ~(s_retry_num > MaxRetry)
      BY <1>3 DEF Disconnect, LossMeansDown, GaveUpForGood
    <2>2. events' \in Seq(Events) /\ AtMostOneLoss'
      BY <1>1, <1>3, <2>1, EventPosted DEF Disconnect, Events
    <2> QED
      BY <1>3, <2>1, <2>2
      DEF Disconnect, StationTypeOK, LossMeansDown, GaveUpForGood,
          SemaphoreAlive, Events, Down
  <1>4. CASE LeaseArrives
    <2>1. events' \in Seq(Events) /\ AtMostOneLoss' /\ (NoLoss => NoLoss')
      BY <1>1, <1>4, EventPosted DEF LeaseArrives, Events
    <2>2. /\ link' \in {link, "up"} /\ Down' = Down
          /\ dhcp' = FALSE /\ UNCHANGED <<s_retry_num, semaphore, registered>>
      BY <1>4 DEF LeaseArrives, StationTypeOK, Down
    <2>3. StationTypeOK' /\ SemaphoreAlive'
      BY <2>1, <2>2 DEF StationTypeOK, SemaphoreAlive, Events
    <2>4. LossMeansDown' /\ GaveUpForGood'
      BY <2>1, <2>2 DEF LossMeansDown, GaveUpForGood, NoLoss
    <2> QED BY <2>1, <2>3, <2>4
  <1>5. CASE DisconnectStation \/ StopStation
    <2>1. /\ UNCHANGED <<s_retry_num, semaphore, registered>>
          /\ link' \in {"stopped", "idle"} /\ dhcp' \in {dhcp, FALSE}
          /\ events' = IF Down THEN events ELSE Append(events, "disconnected")
      BY <1>5 DEF DisconnectStation, StopStation, PostIfUp, Down
    <2>2. Down'
      BY <2>1 DEF Down
    <2>3. CASE Down
      BY <2>1, <2>2, <2>3
      DEF StationTypeOK, AtMostOneLoss, LossMeansDown, NoLoss, GaveUpForGood,
          SemaphoreAlive
    <2>4. CASE ~Down
      <3>1. NoLoss /\ ~(s_retry_num > MaxRetry)
        BY <2>4 DEF LossMeansDown, GaveUpForGood
      <3>2. events' \in Seq(Events) /\ AtMostOneLoss'
        BY <1>1, <2>1, <2>4, <3>1, EventPosted DEF Events
      <3> QED
        BY <2>1, <2>2, <3>1, <3>2
        DEF StationTypeOK, LossMeansDown, GaveUpForGood, SemaphoreAlive, Events
    <2> QED BY <2>3, <2>4
  <1> QED BY <1>2, <1>3, <1>4, <1>5

(* A restart, and the station as it is before it is started. *)
LEMMA ResetInv ==
    /\ StationInit => StationTypeOK /\ QueueInv /\ SemaphoreAlive
    /\ StationReset => StationTypeOK' /\ QueueInv' /\ SemaphoreAlive'
  <1>1. /\ <<>> \in Seq({"disconnected", "gotIp"})
        /\ \A i \in 1 .. Len(<<>>) : FALSE
    BY EmptySeq
  <1>2. 0 \in 0 .. MaxRetry + 1 /\ ~(0 > MaxRetry)
    BY RetryAssumption
  <1>3. ASSUME StationInit
        PROVE  StationTypeOK /\ QueueInv /\ SemaphoreAlive
    <2>1. StationTypeOK /\ SemaphoreAlive
      BY <1>1, <1>2, <1>3 DEF StationInit, StationTypeOK, SemaphoreAlive
    <2>2. QueueInv
      BY <1>1, <1>2, <1>3
      DEF StationInit, QueueInv, AtMostOneLoss, LossMeansDown, NoLoss,
          GaveUpForGood, Down
    <2> QED BY <2>1, <2>2
  <1>4. ASSUME StationReset
        PROVE  StationTypeOK' /\ QueueInv' /\ SemaphoreAlive'
    <2>1. StationTypeOK' /\ SemaphoreAlive'
      BY <1>1, <1>2, <1>4 DEF StationReset, StationTypeOK, SemaphoreAlive
    <2>2. QueueInv'
      BY <1>1, <1>2, <1>4
      DEF StationReset, QueueInv, AtMostOneLoss, LossMeansDown, NoLoss,
          GaveUpForGood, Down
    <2> QED BY <2>1, <2>2
  <1> QED BY <1>3, <1>4

-----------------------------------------------------------------------------
(* What an action does to the station. *)
StationOp ==
    \/ UNCHANGED stationVars
    \/ StationReset
    \/ main = "starting" /\ DoConnect
    \/ TakeSemaphore
    \/ HandleEvent
    \/ Associate \/ Disconnect \/ LeaseArrives
    \/ UnregisterHandlers
    \/ task = "deleting" /\ DeleteSemaphore
    \/ DisconnectStation
    \/ StopStation

LEMMA EveryStepIsAStationOp == [Next]_vars => StationOp
  <1>1. CASE MainStep
    BY <1>1 DEF MainStep, ConnectToWifi, GetIpAddrs, ConnectFails, CreateTask,
                Restart, StationOp
  <1>2. CASE TaskStep
    BY <1>2 DEF TaskStep, Fetch, Parse, BeginDownload, Download, EndOfData,
                Finish, ShutdownHandlers, ShutdownSemaphore,
                ShutdownConnection, ShutdownStation, EspRestart, TaskReturns,
                Restart, StationOp
  <1>3. CASE \/ RunEventLoop \/ AttemptEnds \/ GetLease \/ LoseLink
             \/ ReconnectAborts \/ ConnectAborts \/ ShutdownAborts
             \/ Publish \/ PowerCycle
    BY <1>3 DEF RunEventLoop, AttemptEnds, GetLease, LoseLink, Publish,
                ReconnectAborts, ConnectAborts, ShutdownAborts, PowerCycle,
                Restart, StationOp
  <1>4. CASE UNCHANGED vars
    BY <1>4 DEF vars, StationOp
  <1> QED BY <1>1, <1>2, <1>3, <1>4 DEF Next

LEMMA StationOpStep ==
    ASSUME StationTypeOK, StationInv, StationOp
    PROVE  StationTypeOK' /\ QueueInv' /\ SemaphoreAlive'
  <1> USE RetryAssumption DEF StationInv
  <1>1. CASE UNCHANGED stationVars
    BY <1>1 DEF stationVars, StationTypeOK, QueueInv, AtMostOneLoss,
                LossMeansDown, NoLoss, GaveUpForGood, SemaphoreAlive, Down
  <1>2. CASE StationReset
    BY <1>2, ResetInv
  <1>3. CASE main = "starting" /\ DoConnect
    <2>1. /\ events' = events /\ dhcp' = dhcp /\ link' = "connecting"
          /\ s_retry_num' = 0 /\ registered' = TRUE /\ semaphore' = "empty"
      BY <1>3 DEF DoConnect
    <2>2. events = <<>> /\ \A i \in 1 .. Len(<<>>) : FALSE
      BY <1>3, EmptySeq DEF Fresh
    <2>3. 0 \in 0 .. MaxRetry + 1 /\ ~(0 > MaxRetry)
      OBVIOUS
    <2>4. StationTypeOK' /\ SemaphoreAlive'
      BY <2>1, <2>3 DEF StationTypeOK, SemaphoreAlive
    <2>5. QueueInv'
      BY <2>1, <2>2, <2>3 DEF QueueInv, AtMostOneLoss, LossMeansDown, NoLoss,
                              GaveUpForGood
    <2> QED BY <2>4, <2>5
  <1>4. CASE TakeSemaphore
    BY <1>4 DEF TakeSemaphore, StationTypeOK, QueueInv, AtMostOneLoss,
                LossMeansDown, NoLoss, GaveUpForGood, SemaphoreAlive, Down
  <1>5. CASE HandleEvent
    BY <1>5, HandlerStep
  <1>6. CASE \/ Associate \/ Disconnect \/ LeaseArrives
             \/ DisconnectStation \/ StopStation
    BY <1>6, DriverStep
  <1>7. CASE UnregisterHandlers
    BY <1>7 DEF UnregisterHandlers, StationTypeOK, QueueInv, AtMostOneLoss,
                LossMeansDown, NoLoss, GaveUpForGood, SemaphoreAlive, Down
  <1>8. CASE task = "deleting" /\ DeleteSemaphore
    BY <1>8 DEF DeleteSemaphore, StationTypeOK, QueueInv, AtMostOneLoss,
                LossMeansDown, NoLoss, GaveUpForGood, SemaphoreAlive,
                ShutdownInOrder, Down
  <1> QED
    BY <1>1, <1>2, <1>3, <1>4, <1>5, <1>6, <1>7, <1>8 DEF StationOp

(* Only app_main's and the update task's actions move them. *)
LEMMA OrderStep ==
    ASSUME TypeOK, StationInv, [Next]_vars
    PROVE  Fresh' /\ ShutdownInOrder'
  <1> USE DEF StationInv, Fresh, ShutdownInOrder
  <1>1. CASE ConnectToWifi
    BY <1>1 DEF ConnectToWifi, DoConnect
  <1>2. CASE GetIpAddrs
    BY <1>2 DEF GetIpAddrs, TakeSemaphore
  <1>3. ASSUME Restart
        PROVE  Fresh' /\ ShutdownInOrder'
    BY <1>3 DEF Restart, StationReset
  <1>4. CASE CreateTask
    BY <1>4 DEF CreateTask, stationVars
  <1>5. CASE Fetch \/ Parse \/ BeginDownload \/ Download \/ EndOfData \/ Finish
    <2>1. /\ UNCHANGED stationVars /\ main' = main /\ task # "none"
          /\ task' \notin {"deleting", "disconnecting", "stopping", "restarting"}
      BY <1>5 DEF Fetch, Parse, BeginDownload, Download, EndOfData, Finish, Goto
    <2> QED BY <2>1 DEF stationVars
  <1>6. CASE ShutdownHandlers
    BY <1>6 DEF ShutdownHandlers, UnregisterHandlers, Goto
  <1>7. CASE ShutdownSemaphore
    BY <1>7 DEF ShutdownSemaphore, DeleteSemaphore, Goto
  <1>7a. CASE ShutdownConnection \/ ShutdownStation
    BY <1>7a DEF ShutdownConnection, DisconnectStation, ShutdownStation,
                 StopStation, Goto
  <1>8. CASE RunEventLoop
    <2>1. /\ events # <<>> /\ registered' = registered
          /\ main' = main /\ task' = task
      BY <1>8 DEF RunEventLoop, StationOnly, HandleEvent, HandleGotIp,
                  HandleDisconnected
    <2> QED BY <2>1
  <1>9. CASE AttemptEnds \/ LoseLink \/ GetLease
    <2>1. /\ link # "stopped" \/ dhcp
          /\ registered' = registered /\ main' = main /\ task' = task
      BY <1>9 DEF AttemptEnds, LoseLink, GetLease, StationOnly, Associate,
                  Disconnect, LeaseArrives, Down
    <2> QED BY <2>1
  <1>10. CASE Publish \/ UNCHANGED vars
    BY <1>10 DEF Publish, vars, stationVars
  <1> QED
    BY <1>1, <1>2, <1>3, <1>4, <1>5, <1>6, <1>7, <1>8, <1>9, <1>10, <1>7a
    DEF Next, MainStep, TaskStep, ConnectFails, EspRestart, TaskReturns,
        ReconnectAborts, ConnectAborts, ShutdownAborts, PowerCycle

-----------------------------------------------------------------------------
(* The update: the types of its variables and UpdateInv. *)
UpdateTypeOK ==
    /\ main \in {"starting", "waiting", "counting", "returned"}
    /\ task \in {"none", "fetching", "parsing", "connecting", "downloading",
                 "finishing", "unregistering", "deleting", "disconnecting",
                 "stopping", "restarting", "delay"}
    /\ response \in {"none", "old", "new", "overwritten"}
    /\ server \in {"old", "copied", "published"}
    /\ flash \in [Slots -> Content]
    /\ boot \in Slots /\ running \in Slots
    /\ faults \in Nat

(* The comparison: what is newer than the running version finds the old    *)
(* firmware running.                                                       *)
LEMMA NewerThanOld ==
    ASSUME UpdateTypeOK, response \in {"old", "new"}, NewerVersion
    PROVE  flash[running].fw = "old"
  <1>1. flash[running].fw \in {"old", "new"}
    BY DEF UpdateTypeOK, Content
  <1>2. /\ last_version = 1 \/ last_version = 2
        /\ flash[running].fw = "new" => FIRMWARE_VERSION = 2
    BY DEF last_version, FIRMWARE_VERSION, Versions
  <1> QED BY <1>1, <1>2 DEF NewerVersion

(* Writing to the update slot leaves the running one as it is. *)
LEMMA UpdateSlotWritten ==
    ASSUME UpdateTypeOK, NEW x \in Content,
           flash' = [flash EXCEPT ![UpdateSlot] = x], running' = running
    PROVE  /\ flash' \in [Slots -> Content]
           /\ flash'[running'] = flash[running]
           /\ flash'[UpdateSlot'] = x
  <1>1. /\ running \in Slots /\ UpdateSlot \in Slots /\ UpdateSlot # running
        /\ UpdateSlot' = UpdateSlot
    BY NextUpdateAside DEF UpdateTypeOK, UpdateSlot
  <1> QED BY <1>1 DEF UpdateTypeOK

LEMMA RestartUpdates ==
    ASSUME UpdateTypeOK, Restart, faults' \in Nat
    PROVE  UpdateTypeOK' /\ UpdateInv'
  BY DEF Restart, UpdateTypeOK, UpdateInv

LEMMA UpdateStep ==
    ASSUME IInv, [Next]_vars
    PROVE  UpdateTypeOK' /\ UpdateInv'
  <1>1. UpdateTypeOK
    BY DEF IInv, TypeOK, UpdateTypeOK
  <1>2. UpdateInv /\ (task # "none" => main = "returned")
    BY DEF IInv, StationInv, ShutdownInOrder
  <1>3. \A kind : Fault(kind) => faults' \in Nat
    BY <1>1, FaultType DEF UpdateTypeOK
  <1>4. HttpError => faults' \in Nat
    BY <1>1, <1>3 DEF HttpError, UpdateTypeOK
  <1>5. CASE /\ UNCHANGED <<task, response, flashVars>> /\ faults' \in Nat
             /\ main' \in {"starting", "waiting", "counting", "returned"}
             /\ server' \in {"old", "copied", "published"}
    BY <1>1, <1>2, <1>5 DEF UpdateTypeOK, UpdateInv, flashVars, UpdateSlot
  <1>6. CASE Restart /\ faults' \in Nat
    BY <1>1, <1>6, RestartUpdates
  <1>7. CASE CreateTask
    BY <1>1, <1>2, <1>7
    DEF CreateTask, flashVars, UpdateTypeOK, UpdateInv, ShuttingDown
  <1>8. CASE Fetch
    <2>1. /\ task' = "delay" \/ task' = "parsing"
          /\ task' = "parsing" => response' \in {"old", "new", "overwritten"}
          /\ response' \in {"none", "old", "new", "overwritten"}
          /\ UNCHANGED <<main, server, flashVars>> /\ faults' \in Nat
          /\ task = "fetching"
      BY <1>1, <1>3, <1>4, <1>8 DEF Fetch, Goto, VersionFile, UpdateTypeOK
    <2> QED
      BY <1>1, <1>2, <2>1
      DEF UpdateTypeOK, UpdateInv, flashVars, ShuttingDown
  <1>8a. CASE Parse
    <2>1. /\ \/ task' = "delay"
             \/ /\ task' = "connecting" /\ NewerVersion
                /\ response \in {"old", "new"}
          /\ UNCHANGED <<main, response, server, flashVars, faults>>
          /\ task = "parsing"
      BY <1>2, <1>8a DEF Parse, Goto, UpdateInv
    <2> QED
      BY <1>1, <1>2, <2>1, NewerThanOld
      DEF UpdateTypeOK, UpdateInv, flashVars, ShuttingDown
  <1>9. CASE BeginDownload
    <2>1. /\ UNCHANGED <<main, response, server, boot, running>> /\ faults' \in Nat
          /\ task = "connecting"
      BY <1>1, <1>3, <1>4, <1>9 DEF BeginDownload, UpdateTypeOK
    <2>2. CASE /\ task' = "downloading"
               /\ flash' = [flash EXCEPT ![UpdateSlot] = Blank]
      <3>1. /\ flash' \in [Slots -> Content]
            /\ flash'[running'] = flash[running]
            /\ flash'[UpdateSlot'].fw = "new"
        BY <1>1, <2>1, <2>2, UpdateSlotWritten, ContentType DEF Blank
      <3> QED BY <1>1, <1>2, <2>1, <2>2, <3>1
              DEF UpdateTypeOK, UpdateInv, ShuttingDown
    <2>3. CASE task' = "delay" /\ flash' \in [Slots -> Content]
      BY <1>1, <1>2, <2>1, <2>3 DEF UpdateTypeOK, UpdateInv, ShuttingDown
    <2>4. UpdateSlot \in Slots /\ Erased(flash[UpdateSlot]) \in Content
      BY <1>1, NextUpdateAside, ContentType DEF UpdateTypeOK, UpdateSlot
    <2> QED
      BY <1>1, <1>9, <2>2, <2>3, <2>4 DEF BeginDownload, Goto, UpdateTypeOK
  <1>10. CASE Download
    <2>1. /\ UNCHANGED <<main, response, server, boot, running>> /\ faults' \in Nat
          /\ task = "downloading"
      BY <1>1, <1>3, <1>4, <1>10 DEF Download, UpdateTypeOK
    <2>2. CASE /\ task' = task
               /\ flash' = [flash EXCEPT ![UpdateSlot] = Program(@, @.len, 1)]
      <3> DEFINE old == flash[UpdateSlot]
                 x == Program(old, old.len, 1)
      <3>1. old \in Content /\ old.fw = "new"
        BY <1>1, <1>2, <2>1, NextUpdateAside
        DEF UpdateTypeOK, UpdateInv, UpdateSlot
      <3>2. x \in Content /\ x.fw = "new"
        BY <3>1, ContentType
      <3>3. flash' = [flash EXCEPT ![UpdateSlot] = x]
        BY <2>2
      <3> HIDE DEF x
      <3>4. /\ flash' \in [Slots -> Content]
            /\ flash'[running'] = flash[running]
            /\ flash'[UpdateSlot'].fw = "new"
        BY <1>1, <2>1, <3>2, <3>3, UpdateSlotWritten
      <3> QED BY <1>1, <1>2, <2>1, <2>2, <3>4
              DEF UpdateTypeOK, UpdateInv, ShuttingDown
    <2>3. CASE task' \in {"delay", "finishing"} /\ UNCHANGED flash
      BY <1>1, <1>2, <2>1, <2>3
      DEF UpdateTypeOK, UpdateInv, ShuttingDown, UpdateSlot
    <2> QED BY <1>10, <2>2, <2>3 DEF Download, Goto
  <1>11. CASE EndOfData
    BY <1>1, <1>2, <1>11
    DEF EndOfData, Goto, UpdateTypeOK, UpdateInv, flashVars, ShuttingDown,
        UpdateSlot
  <1>12. CASE Finish
    <2>1. /\ UNCHANGED <<main, response, server, flash, running>> /\ faults' \in Nat
          /\ UpdateSlot \in Slots /\ task = "finishing"
      BY <1>1, <1>3, <1>12, NextUpdateAside DEF Finish, UpdateTypeOK, UpdateSlot
    <2>2. \/ task' = "unregistering" /\ boot' = UpdateSlot
          \/ task' = "delay" /\ boot' = boot
      BY <1>12 DEF Finish, Goto
    <2> QED BY <1>1, <1>2, <2>1, <2>2 DEF UpdateTypeOK, UpdateInv, ShuttingDown
  <1>13. CASE \/ ShutdownHandlers \/ ShutdownSemaphore
              \/ ShutdownConnection \/ ShutdownStation
    BY <1>1, <1>2, <1>13
    DEF ShutdownHandlers, ShutdownSemaphore, ShutdownConnection,
        ShutdownStation, Goto, UpdateTypeOK, UpdateInv, flashVars, ShuttingDown
  <1>14. \/ ConnectToWifi \/ GetIpAddrs \/ RunEventLoop \/ GetLease
         \/ AttemptEnds \/ LoseLink \/ Publish \/ UNCHANGED vars
         => /\ UNCHANGED <<task, response, flashVars>> /\ faults' \in Nat
            /\ main' \in {"starting", "waiting", "counting", "returned"}
            /\ server' \in {"old", "copied", "published"}
    BY <1>1, <1>3
    DEF ConnectToWifi, GetIpAddrs, RunEventLoop, GetLease, StationOnly,
        AttemptEnds, LoseLink, Publish, vars, UpdateTypeOK
  <1>15. \/ ConnectFails \/ EspRestart \/ TaskReturns \/ PowerCycle
         \/ ReconnectAborts \/ ConnectAborts \/ ShutdownAborts
         => Restart /\ faults' \in Nat
    BY <1>1, <1>3
    DEF ConnectFails, EspRestart, TaskReturns, PowerCycle, ReconnectAborts,
        ConnectAborts, ShutdownAborts, UpdateTypeOK
  <1> QED
    BY <1>5, <1>6, <1>7, <1>8, <1>9, <1>10, <1>11, <1>12, <1>13, <1>14, <1>15,
       <1>8a
    DEF Next, MainStep, TaskStep

-----------------------------------------------------------------------------
LEMMA IInvInit == Init => IInv
  <1> SUFFICES ASSUME Init PROVE IInv
    OBVIOUS
  <1>1. StationTypeOK /\ QueueInv /\ SemaphoreAlive
    BY ResetInv DEF Init
  <1>2. UpdateTypeOK
    BY ContentType DEF Init, UpdateTypeOK, Slots
  <1>3. Fresh /\ ShutdownInOrder /\ UpdateInv
    BY DEF Init, StationInit, Fresh, ShutdownInOrder, UpdateInv
  <1> QED BY <1>1, <1>2, <1>3 DEF IInv, TypeOK, UpdateTypeOK, StationInv

LEMMA IInvStep == IInv /\ [Next]_vars => IInv'
  <1> SUFFICES ASSUME IInv, [Next]_vars PROVE IInv'
    OBVIOUS
  <1>1. StationTypeOK' /\ QueueInv' /\ SemaphoreAlive'
    BY EveryStepIsAStationOp, StationOpStep DEF IInv, TypeOK
  <1>2. Fresh' /\ ShutdownInOrder'
    BY OrderStep DEF IInv
  <1>3. UpdateTypeOK' /\ UpdateInv'
    BY UpdateStep
  <1> QED
    BY <1>1, <1>2, <1>3 DEF IInv, TypeOK, UpdateTypeOK, StationInv

THEOREM InductiveInvariant == Spec => []IInv
  BY IInvInit, IInvStep, PTL DEF Spec

(* Every variable of the WiFi system keeps its type. *)
THEOREM TypeCorrect == Spec => []TypeOK
  <1>1. IInv => TypeOK
    BY DEF IInv
  <1> QED BY <1>1, InductiveInvariant, PTL

(* However the events of the driver and of the DHCP client interleave with *)
(* the handlers, a station that gave up (wifi.c line 56) does not connect  *)
(* again, and no disconnection is left to be counted.                      *)
THEOREM GaveUpSafety == Spec => []GaveUpForGood
  <1>1. IInv => GaveUpForGood
    BY DEF IInv, StationInv, QueueInv
  <1> QED BY <1>1, InductiveInvariant, PTL

(* The handlers, as long as they are registered, find the semaphore they   *)
(* give (wifi.c lines 46 and 59), at whatever point of wifi_shutdown.      *)
THEOREM SemaphoreSafety == Spec => []SemaphoreAlive
  <1>1. IInv => SemaphoreAlive
    BY DEF IInv, StationInv
  <1> QED BY <1>1, InductiveInvariant, PTL

(* What the update selects is newer than what ran, however long ago the    *)
(* versions were compared (ota.c line 86).                                 *)
THEOREM NewerOnlyHolds == Spec => NewerOnly
  <1> DEFINE Newer == flash[boot].fw = "old" /\ flash'[boot'].fw = "new"
  <1>1. IInv /\ [Next]_vars => [boot' # boot => Newer]_vars
    <2> SUFFICES ASSUME IInv, [Next]_vars, boot' # boot
                 PROVE  Newer
      OBVIOUS
    <2>1. Finish
      BY DEF Next, MainStep, TaskStep, ConnectToWifi, GetIpAddrs, ConnectFails,
             CreateTask, Fetch, Parse, BeginDownload, Download, EndOfData,
             ShutdownHandlers, ShutdownSemaphore, ShutdownConnection,
             ShutdownStation, ShutdownAborts, EspRestart, TaskReturns, Restart, RunEventLoop, StationOnly, AttemptEnds,
             GetLease, LoseLink, ReconnectAborts, ConnectAborts, Publish,
             PowerCycle, flashVars, vars
    <2>2. task = "finishing" /\ boot' = UpdateSlot /\ flash' = flash
      BY <2>1 DEF Finish
    <2> QED BY <2>2 DEF IInv, UpdateInv, ShuttingDown
  <1> QED BY <1>1, InductiveInvariant, PTL DEF Spec, NewerOnly

=============================================================================
