------------------------------ MODULE WifiOta ------------------------------
(***************************************************************************)
(* A device that is updated over WiFi: app_main connects the station and   *)
(* creates the update task, which fetches version.json, compares it with   *)
(* its own version, lets esp_https_ota install a newer image, and          *)
(* restarts.  A task that returns, and a failed ESP_ERROR_CHECK, abort the *)
(* program, which restarts the device.                                     *)
(*                                                                         *)
(* What is written to flash is esp_https_ota's affair, which is not part   *)
(* of the repository; the code decides when.  The server only hands out    *)
(* files.  A new version is published as the README says, the image first  *)
(* and then version.json.                                                  *)
(***************************************************************************)
EXTENDS WifiStation, OtaFlash

CONSTANTS
    ApPresent,  \* whether the access point exists
    Faults,     \* the kinds of faults that may happen
    MaxFaults   \* bound on how many faults happen

ASSUME ApAssumption == ApPresent \in BOOLEAN
ASSUME FaultAssumption ==
    /\ Faults \subseteq {"outage", "http", "split", "flash", "driver", "powerCycle"}
    /\ MaxFaults \in Nat

VARIABLES
    main,       \* where app_main is
    task,       \* where ota_update_task is, "none" before it is created
    response,   \* http_rcv_buffer: the version.json that was received
    server,     \* what is on the server
    flash,      \* flash[s]: what slot s holds
    boot,       \* the slot otadata selects
    running,    \* the slot the device runs from
    faults      \* the number of faults so far

flashVars == <<flash, boot, running>>
vars == <<stationVars, main, task, response, server, flashVars, faults>>

Fault(kind) ==
    /\ kind \in Faults
    /\ faults < MaxFaults
    /\ faults' = faults + 1

(* An error that is a fault, unless there is no connection anyway. *)
HttpError == IF link = "up" THEN Fault("http") ELSE UNCHANGED faults

Versions == [old |-> 1, new |-> 2]

(* The version.json on the server, by the version it tells of. *)
VersionFile == IF server = "published" THEN "new" ELSE "old"

(* FIRMWARE_VERSION of the running image, and the response's last_version. *)
FIRMWARE_VERSION == Versions[flash[running].fw]
last_version     == Versions[response]

Init ==
    /\ StationInit
    /\ main = "starting" /\ task = "none"
    /\ response = "none"
    /\ server = "old"
    /\ flash = [s \in Slots |-> IF s = "factory" THEN OldImage ELSE Blank]
    /\ boot = "factory" /\ running = "factory"
    /\ faults = 0

-----------------------------------------------------------------------------
(* The restart of the device, by esp_restart, abort or a power cycle. *)
Restart ==
    /\ StationReset
    /\ main' = "starting" /\ task' = "none"
    /\ response' = "none"
    /\ running' = boot
    /\ UNCHANGED <<server, flash, boot>>

(* Faulty variants of the definitions below, with which the properties are *)
(* seen to fail.  No specification uses them.                              *)

(* Every version is newer. *)
NotOlderVersion == last_version >= FIRMWARE_VERSION

(* app_main returns when connect_to_wifi fails. *)
ConnectFailsQuietly ==
    /\ main = "counting"
    /\ ConnectFailed
    /\ main' = "returned"
    /\ UNCHANGED <<stationVars, task, response, server, flashVars, faults>>

-----------------------------------------------------------------------------
(* app_main. *)

ConnectToWifi ==
    /\ main = "starting"
    /\ main' = "waiting"
    /\ DoConnect
    /\ UNCHANGED <<task, response, server, flashVars, faults>>

GetIpAddrs ==
    /\ main = "waiting"
    /\ main' = "counting"
    /\ TakeSemaphore
    /\ UNCHANGED <<task, response, server, flashVars, faults>>

(* ESP_ERROR_CHECK(connect_to_wifi()) aborts ... *)
ConnectFails ==
    /\ main = "counting"
    /\ ConnectFailed
    /\ Restart
    /\ UNCHANGED faults

(* ... or the task is created, reads its parameters before app_main goes   *)
(* on, because of its priority, and app_main returns.                      *)
CreateTask ==
    /\ main = "counting"
    /\ ~ConnectFailed
    /\ main' = "returned"
    /\ task' = "fetching"
    /\ UNCHANGED <<stationVars, response, server, flashVars, faults>>

-----------------------------------------------------------------------------
(* ota_update_task. *)

Goto(t) == task' = t

(* get_last_firmware_version: esp_http_client_perform.  A response that    *)
(* comes in two parts is not put together in the buffer: _http_event_      *)
(* handler copies the second one over the first.                           *)
Fetch ==
    /\ task = "fetching"
    /\ \/ /\ link = "up"
          /\ Goto("parsing")
          /\ \/ response' = VersionFile /\ UNCHANGED faults
             \/ response' = "overwritten" /\ Fault("split")
       \/ HttpError /\ Goto("delay") /\ UNCHANGED response
    /\ UNCHANGED <<stationVars, main, server, flashVars>>

(* ... and what becomes of it.  Whatever else is wrong with the response,  *)
(* it is not parsed as a newer version either.                             *)
NewerVersion == last_version > FIRMWARE_VERSION

Parse ==
    /\ task = "parsing"
    /\ Goto(IF response # "overwritten" /\ NewerVersion
            THEN "connecting" ELSE "delay")
    /\ UNCHANGED <<stationVars, main, response, server, flashVars, faults>>

UpdateSlot == NextUpdate(running)

(* esp_https_ota: it connects, erases the slot with the first data, writes *)
(* what it receives, and selects the slot when the image is complete.      *)
BeginDownload ==
    /\ task = "connecting"
    /\ \/ /\ link = "up"
          /\ Goto("downloading")
          /\ flash' = [flash EXCEPT ![UpdateSlot] = Blank]
          /\ UNCHANGED faults
       \/ HttpError /\ Goto("delay") /\ UNCHANGED flash
       \/ /\ Fault("flash")
          /\ Goto("delay")
          /\ flash' = [flash EXCEPT ![UpdateSlot] = Erased(@)]
    /\ UNCHANGED <<stationVars, main, response, server, boot, running>>

Download ==
    /\ task = "downloading"
    /\ flash[UpdateSlot].len < ImageSize
    /\ \/ /\ link = "up"
          /\ flash' = [flash EXCEPT ![UpdateSlot] = Program(@, @.len, 1)]
          /\ UNCHANGED <<task, faults>>
       \/ HttpError /\ Goto("delay") /\ UNCHANGED flash
       \/ Fault("flash") /\ Goto("delay") /\ UNCHANGED flash
       \/ HttpError /\ Goto("finishing") /\ UNCHANGED flash
    /\ UNCHANGED <<stationVars, main, response, server, boot, running>>

EndOfData ==
    /\ task = "downloading"
    /\ flash[UpdateSlot].len = ImageSize
    /\ Goto("finishing")
    /\ UNCHANGED <<stationVars, main, response, server, flashVars, faults>>

Downloaded == Bootable(flash[UpdateSlot])

Finish ==
    /\ task = "finishing"
    /\ \/ /\ Downloaded
          /\ Goto("unregistering")
          /\ boot' = UpdateSlot
          /\ UNCHANGED faults
       \/ ~Downloaded /\ Goto("delay") /\ UNCHANGED <<boot, faults>>
       \/ Downloaded /\ Fault("flash") /\ Goto("delay") /\ UNCHANGED boot
    /\ UNCHANGED <<stationVars, main, response, server, flash, running>>

(* esp_restart calls wifi_shutdown first. *)
ShutdownHandlers ==
    /\ task = "unregistering"
    /\ UnregisterHandlers
    /\ Goto("deleting")
    /\ UNCHANGED <<main, response, server, flashVars, faults>>

ShutdownSemaphore ==
    /\ task = "deleting"
    /\ DeleteSemaphore
    /\ Goto("disconnecting")
    /\ UNCHANGED <<main, response, server, flashVars, faults>>

ShutdownConnection ==
    /\ task = "disconnecting"
    /\ DisconnectStation
    /\ Goto("stopping")
    /\ UNCHANGED <<main, response, server, flashVars, faults>>

ShutdownStation ==
    /\ task = "stopping"
    /\ StopStation
    /\ Goto("restarting")
    /\ UNCHANGED <<main, response, server, flashVars, faults>>

EspRestart ==
    /\ task = "restarting"
    /\ Restart
    /\ UNCHANGED faults

(* A failed ESP_ERROR_CHECK on the way restarts the device as well. *)
ShutdownAborts ==
    /\ task \in {"unregistering", "stopping"}
    /\ Fault("driver")
    /\ Restart

(* After its delay the task returns from its function, and FreeRTOS        *)
(* aborts the program.                                                     *)
TaskReturns ==
    /\ task = "delay"
    /\ Restart
    /\ UNCHANGED faults

-----------------------------------------------------------------------------
(* What happens to the station, the device and the server from outside. *)

StationOnly == UNCHANGED <<main, task, response, server, flashVars, faults>>

RunEventLoop == HandleEvent /\ StationOnly

(* An error of esp_wifi_connect in the handler aborts the program, ...     *)
ReconnectAborts == Reconnecting /\ Fault("driver") /\ Restart

(* ... and so does one of whatever connect_to_wifi needs before it waits.  *)
ConnectAborts == main = "starting" /\ Fault("driver") /\ Restart

(* Without an access point every attempt fails. *)
AttemptEnds ==
    /\ link = "connecting"
    /\ \/ ApPresent /\ Associate /\ StationOnly
       \/ /\ Disconnect
          /\ IF ApPresent THEN Fault("outage") ELSE UNCHANGED faults
          /\ UNCHANGED <<main, task, response, server, flashVars>>

GetLease == LeaseArrives /\ StationOnly

LoseLink ==
    /\ link \in {"associated", "up"}
    /\ Disconnect
    /\ Fault("outage")
    /\ UNCHANGED <<main, task, response, server, flashVars>>

Publish ==
    /\ \/ server = "old" /\ server' = "copied"
       \/ server = "copied" /\ server' = "published"
    /\ UNCHANGED <<stationVars, main, task, response, flashVars, faults>>

PowerCycle == Fault("powerCycle") /\ Restart

MainStep == ConnectToWifi \/ GetIpAddrs \/ ConnectFails \/ CreateTask

TaskStep ==
    \/ Fetch \/ Parse \/ BeginDownload \/ Download \/ EndOfData \/ Finish
    \/ ShutdownHandlers \/ ShutdownSemaphore
    \/ ShutdownConnection \/ ShutdownStation
    \/ EspRestart \/ TaskReturns

Next ==
    \/ MainStep \/ TaskStep \/ RunEventLoop
    \/ ReconnectAborts \/ ConnectAborts \/ ShutdownAborts
    \/ AttemptEnds \/ GetLease \/ LoseLink
    \/ Publish \/ PowerCycle

Spec == Init /\ [][Next]_vars

(* The tasks run, an attempt to connect ends, and a station that was let   *)
(* in gets an address.                                                     *)
FairSpec ==
    /\ Spec
    /\ WF_vars(MainStep) /\ WF_vars(TaskStep) /\ WF_vars(RunEventLoop)
    /\ WF_vars(AttemptEnds) /\ WF_vars(GetLease)

-----------------------------------------------------------------------------
(* Every variable has its type. *)
TypeOK ==
    /\ StationTypeOK
    /\ main \in {"starting", "waiting", "counting", "returned"}
    /\ task \in {"none", "fetching", "parsing", "connecting", "downloading",
                 "finishing", "unregistering", "deleting", "disconnecting",
                 "stopping", "restarting", "delay"}
    /\ response \in {"none", "old", "new", "overwritten"}
    /\ server \in {"old", "copied", "published"}
    /\ flash \in [Slots -> Content]
    /\ boot \in Slots /\ running \in Slots
    /\ faults \in Nat

(* The version is compared once (ota.c line 86), long before the image is  *)
(* selected: what is selected is nevertheless newer than what ran.         *)
NewerOnly ==
    [][boot' # boot => flash[boot].fw = "old" /\ flash'[boot'].fw = "new"]_vars

(* connect_to_wifi does not wait for ever (wifi.c line 94). *)
WaitEnds == main = "waiting" ~> main # "waiting"

(* A published version comes to run on every device.  Nobody tells the     *)
(* device, and the update task looks only once: it is the restart after    *)
(* the task has returned, or after a failed connection, that makes it look *)
(* again.                                                                  *)
Updated == server = "published" ~> flash[running].fw = "new"

(* When app_main gets past ESP_ERROR_CHECK(connect_to_wifi()), the device  *)
(* is connected, or the handlers go on trying.                             *)
ConnectedOrTrying ==
    [][CreateTask => \/ ~Down
                     \/ \E i \in 1 .. Len(events) : events[i] = "disconnected"]_vars

(* A station whose access point does not exist stops trying after the      *)
(* maximum of retries.                                                     *)
StopsTrying == <>[](link # "connecting")

=============================================================================
