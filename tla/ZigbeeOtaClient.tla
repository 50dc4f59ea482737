--------------------------- MODULE ZigbeeOtaClient ---------------------------
(***************************************************************************)
(* The OTA part of the Zigbee end devices, esp_ota_client.c: the upgrade   *)
(* value callback zb_ota_upgrade_status_handler, one operator for each     *)
(* upgrade status, on the statics and the flash of each device.            *)
(*                                                                         *)
(* A callback whose info.status is not SUCCESS does nothing and returns    *)
(* ESP_OK; UpgradeIgnored is that branch.                                  *)
(***************************************************************************)
EXTENDS OtaFlash

CONSTANTS
    Clients,    \* the end devices that run this firmware
    Modulus     \* the counters are uint32_t: 2^32 in the program

ASSUME ModulusAssumption == Modulus \in Nat /\ Modulus > ImageSize

VARIABLES
    s_ota_partition,    \* the slot of the last START, NoSlot for NULL
    s_ota_handle,       \* the slot the handle may write, NoSlot if not open
    total_size,         \* static of zb_ota_upgrade_status_handler
    offset,             \* static of zb_ota_upgrade_status_handler
    flash,              \* flash[c][s]: what slot s of device c holds
    boot,               \* boot[c]: the slot otadata selects
    running             \* running[c]: the slot the device runs from

ramVars    == <<s_ota_partition, s_ota_handle, total_size, offset>>
clientVars == <<ramVars, flash, boot, running>>

ClientTypeOK ==
    /\ s_ota_partition \in [Clients -> Slots \cup {NoSlot}]
    /\ s_ota_handle \in [Clients -> Slots \cup {NoSlot}]
    /\ total_size \in [Clients -> 0 .. Modulus - 1]
    /\ offset \in [Clients -> 0 .. Modulus - 1]
    /\ flash \in [Clients -> [Slots -> Content]]
    /\ boot \in [Clients -> Slots]
    /\ running \in [Clients -> Slots]

-----------------------------------------------------------------------------
(* Faulty variants of the definitions below, with which the properties are *)
(* seen to fail.  No specification uses them.                              *)

(* START always takes the same slot. *)
UpgradeStartFixedSlot(c) ==
    /\ s_ota_partition' = [s_ota_partition EXCEPT ![c] = "ota_0"]
    /\ s_ota_handle' = [s_ota_handle EXCEPT ![c] = "ota_0"]
    /\ flash' = [flash EXCEPT ![c]["ota_0"] = Blank]
    /\ UNCHANGED <<total_size, offset, boot, running>>

(* CHECK is off by one. *)
CheckPassesBelow(c) == offset[c] < total_size[c]

(* FINISH goes on when esp_ota_end reports an error. *)
OtaEndIgnored(c) == s_ota_handle[c] # NoSlot

(* FINISH restarts without selecting the slot. *)
UpgradeFinishNoSelect(c) ==
    /\ s_ota_handle[c] # NoSlot
    /\ s_ota_partition' = [s_ota_partition EXCEPT ![c] = NoSlot]
    /\ s_ota_handle' = [s_ota_handle EXCEPT ![c] = NoSlot]
    /\ total_size' = [total_size EXCEPT ![c] = 0]
    /\ offset' = [offset EXCEPT ![c] = 0]
    /\ UNCHANGED <<flash, boot, running>>

(* FINISH selects the slot before esp_ota_end has verified it. *)
UpgradeFinishSelectsFirst(c) ==
    /\ s_ota_handle' = [s_ota_handle EXCEPT ![c] = NoSlot]
    /\ boot' = [boot EXCEPT ![c] = s_ota_partition[c]]
    /\ UNCHANGED <<s_ota_partition, total_size, offset, flash, running>>

-----------------------------------------------------------------------------
(* The device as flashed: the factory slot runs, the OTA slots are blank. *)
ClientInit ==
    /\ s_ota_partition = [c \in Clients |-> NoSlot]
    /\ s_ota_handle = [c \in Clients |-> NoSlot]
    /\ total_size = [c \in Clients |-> 0]
    /\ offset = [c \in Clients |-> 0]
    /\ flash = [c \in Clients |->
                  [s \in Slots |-> IF s = "factory" THEN OldImage ELSE Blank]]
    /\ boot = [c \in Clients |-> "factory"]
    /\ running = [c \in Clients |-> "factory"]

UpgradeIgnored(c) == UNCHANGED clientVars

(* ESP_ZB_ZCL_OTA_UPGRADE_STATUS_START.  offset is not reset. *)
UpgradeStart(c) ==
    LET p == NextUpdate(running[c])
    IN  /\ s_ota_partition' = [s_ota_partition EXCEPT ![c] = p]
        /\ s_ota_handle' = [s_ota_handle EXCEPT ![c] = p]
        /\ flash' = [flash EXCEPT ![c][p] = Blank]
        /\ UNCHANGED <<total_size, offset, boot, running>>

(* esp_ota_begin fails, before or after it erased the slot; the handle of  *)
(* an earlier session, if there was one, stays as it was.                  *)
UpgradeStartFails(c) ==
    LET p == NextUpdate(running[c])
    IN  /\ s_ota_partition' = [s_ota_partition EXCEPT ![c] = p]
        /\ \/ flash' = [flash EXCEPT ![c][p] = Erased(@)]
           \/ UNCHANGED flash
        /\ UNCHANGED <<s_ota_handle, total_size, offset, boot, running>>

(* ESP_ZB_ZCL_OTA_UPGRADE_STATUS_RECEIVE: the payload is counted first. *)
Count(c, n) ==
    /\ total_size' = [total_size EXCEPT ![c] = ImageSize]
    /\ offset' = [offset EXCEPT ![c] = (@ + n) % Modulus]

UpgradeReceive(c, from, n) ==
    /\ s_ota_handle[c] # NoSlot
    /\ Count(c, n)
    /\ flash' = [flash EXCEPT ![c][s_ota_handle[c]] = Program(@, from, n)]
    /\ UNCHANGED <<s_ota_partition, s_ota_handle, boot, running>>

(* esp_ota_write fails: the payload is counted and not written. *)
UpgradeReceiveFails(c, n) ==
    /\ Count(c, n)
    /\ UNCHANGED <<s_ota_partition, s_ota_handle, flash, boot, running>>

(* ESP_ZB_ZCL_OTA_UPGRADE_STATUS_CHECK returns ESP_OK. *)
CheckPasses(c) == offset[c] = total_size[c]

UpgradeCheck(c) == UNCHANGED clientVars

(* ESP_ZB_ZCL_OTA_UPGRADE_STATUS_APPLY only logs. *)
UpgradeApply(c) == UNCHANGED clientVars

(* A restart, by esp_restart or a power cycle: the statics are zeroed. *)
Reboot(c) ==
    /\ s_ota_partition' = [s_ota_partition EXCEPT ![c] = NoSlot]
    /\ s_ota_handle' = [s_ota_handle EXCEPT ![c] = NoSlot]
    /\ total_size' = [total_size EXCEPT ![c] = 0]
    /\ offset' = [offset EXCEPT ![c] = 0]
    /\ UNCHANGED flash

PowerCycle(c) ==
    /\ Reboot(c)
    /\ running' = [running EXCEPT ![c] = boot[c]]
    /\ UNCHANGED boot

(* ESP_ZB_ZCL_OTA_UPGRADE_STATUS_FINISH.  esp_ota_end succeeds only on an  *)
(* open handle whose slot it has verified ...                              *)
OtaEndSucceeds(c) ==
    /\ s_ota_handle[c] # NoSlot
    /\ Bootable(flash[c][s_ota_handle[c]])

(* ... then s_ota_partition is selected and the device restarts into it. *)
UpgradeFinish(c) ==
    /\ OtaEndSucceeds(c)
    /\ boot' = [boot EXCEPT ![c] = s_ota_partition[c]]
    /\ running' = [running EXCEPT ![c] = s_ota_partition[c]]
    /\ Reboot(c)

(* esp_ota_end or esp_ota_set_boot_partition fails: the handle is closed. *)
UpgradeFinishFails(c) ==
    /\ s_ota_handle' = [s_ota_handle EXCEPT ![c] = NoSlot]
    /\ UNCHANGED <<s_ota_partition, total_size, offset, flash, boot, running>>

=============================================================================
