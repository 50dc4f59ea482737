--------------------------- MODULE ZigbeeOtaServer ---------------------------
(***************************************************************************)
(* The OTA part of the Zigbee coordinator, esp_ota_server.c: the callbacks *)
(* the Zigbee stack invokes, one at a time, from its main loop.  The whole *)
(* transfer state is one static counter, whichever device is served.       *)
(***************************************************************************)
EXTENDS OtaFlash

VARIABLES
    s_ota_image_offset, \* next byte of the embedded image to hand to the stack
    imageAdded          \* the image is in the stack's OTA table

serverVars == <<s_ota_image_offset, imageAdded>>

ServerTypeOK ==
    /\ s_ota_image_offset \in Nat
    /\ imageAdded \in BOOLEAN

-----------------------------------------------------------------------------
(* Faulty variants of the definitions below, with which the properties are *)
(* seen to fail.  No specification uses them.                              *)

(* The image type of the query is not looked at. *)
QueryAcceptedFromAnyone(status, ourImage) == status

(* The query handler forgets to restart the counter. *)
QueryImageKeepsOffset(status, ourImage) == UNCHANGED serverVars

(* The counter is never wrapped ... *)
NextDataNoWrap(size) ==
    /\ s_ota_image_offset' = s_ota_image_offset + size
    /\ UNCHANGED imageAdded

(* ... or only when it is past the end. *)
NextDataLateWrap(size) ==
    /\ s_ota_image_offset' = IF s_ota_image_offset + size > ImageSize
                             THEN 0 ELSE s_ota_image_offset + size
    /\ UNCHANGED imageAdded

(* The announcement is answered, but the image is not added. *)
DeviceAnnceNoImage == UNCHANGED serverVars

-----------------------------------------------------------------------------
(* After a (re)start: the counter is a zeroed static, and the table is     *)
(* filled only by a notify request.                                        *)
ServerInit ==
    /\ s_ota_image_offset = 0
    /\ imageAdded = FALSE

(* The server takes no transfer to be in progress when the counter is 0. *)
NotInOtaProcess == s_ota_image_offset = 0

(* esp_zb_app_signal_handler, ESP_ZB_ZDO_SIGNAL_DEVICE_ANNCE: with         *)
(* notify_on the request adds the image to the table and broadcasts it.    *)
DeviceAnnce ==
    /\ imageAdded' = (imageAdded \/ NotInOtaProcess)
    /\ UNCHANGED s_ota_image_offset

(* zb_ota_upgrade_server_query_image_handler returns ESP_OK ... *)
QueryAccepted(status, ourImage) == status /\ ourImage

(* ... and, when it does, the counter restarts, whoever asks. *)
QueryImage(status, ourImage) ==
    /\ s_ota_image_offset' = IF QueryAccepted(status, ourImage)
                             THEN 0 ELSE s_ota_image_offset
    /\ UNCHANGED imageAdded

(* zb_ota_next_data_handler: the stack is handed the `size` bytes at the   *)
(* counter; the position the device asked for is not an argument.          *)
NextData(size) ==
    /\ s_ota_image_offset' = IF s_ota_image_offset + size >= ImageSize
                             THEN 0 ELSE s_ota_image_offset + size
    /\ UNCHANGED imageAdded

(* zb_ota_upgrade_server_status_handler. *)
ServerStatus(status, server_status) ==
    /\ s_ota_image_offset' = IF status /\ server_status \in {"ABORTED", "END"}
                             THEN 0 ELSE s_ota_image_offset
    /\ UNCHANGED imageAdded

(* A power cycle of the coordinator: the statics and the table are lost. *)
ServerReboot ==
    /\ s_ota_image_offset' = 0
    /\ imageAdded' = FALSE

-----------------------------------------------------------------------------
(* The counter stays a position inside the image, so that a transfer which *)
(* starts without a query starts at a byte of the image: after the last    *)
(* block zb_ota_next_data_handler (lines 128-130) wraps it to 0.           *)
OffsetInImage == s_ota_image_offset < ImageSize

=============================================================================
