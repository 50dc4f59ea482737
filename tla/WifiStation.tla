---------------------------- MODULE WifiStation ----------------------------
(***************************************************************************)
(* The WiFi station, wifi.c: connect_to_wifi in the main task, and the     *)
(* event handlers, which the task of the event loop calls one at a time in *)
(* the order of the events.  They meet at a binary semaphore and at the    *)
(* retry counter, which both of them read.                                 *)
(*                                                                         *)
(* The driver and the DHCP client are not part of the repository: each     *)
(* posts its events from a task of its own, and the DHCP client goes on    *)
(* until the event loop has told it of a disconnection.                    *)
(***************************************************************************)
EXTENDS Naturals, Sequences

CONSTANT MaxRetry       \* WIFI_CONN_MAX_RETRY

ASSUME RetryAssumption == MaxRetry \in Nat

VARIABLES
    s_retry_num,        \* disconnections since the last address
    semaphore,          \* s_semph_get_ip_addrs
    registered,         \* the handlers are registered
    events,             \* the event loop's queue
    link,               \* the driver: stopped, idle (nobody connects),
                        \* connecting, associated, or up with an address
    dhcp                \* the DHCP client is waiting for an address

stationVars == <<s_retry_num, semaphore, registered, events, link, dhcp>>

StationTypeOK ==
    /\ s_retry_num \in 0 .. MaxRetry + 1
    /\ semaphore \in {"none", "empty", "full", "deleted"}
    /\ registered \in BOOLEAN
    /\ events \in Seq({"disconnected", "gotIp"})
    /\ link \in {"stopped", "idle", "connecting", "associated", "up"}
    /\ dhcp \in BOOLEAN

(* There is no connection, and nobody tries to make one. *)
Down == link \in {"stopped", "idle"}

-----------------------------------------------------------------------------
(* Faulty variants of the definitions below, with which the properties are *)
(* seen to fail.  No specification uses them.                              *)

(* The retry that gives up does not wake connect_to_wifi. *)
StopReconnectSilently == UNCHANGED <<semaphore, link>>

(* The retry that gives up connects all the same. *)
StopReconnectAndGoOn ==
    /\ semaphore' = IF semaphore = "empty" THEN "full" ELSE semaphore
    /\ link' = "connecting"

(* The semaphore is deleted before the handlers are unregistered. *)
UnregisterHandlersLast ==
    /\ semaphore' = "deleted"
    /\ UNCHANGED <<s_retry_num, registered, events, link, dhcp>>

-----------------------------------------------------------------------------
StationInit ==
    /\ s_retry_num = 0
    /\ semaphore = "none"
    /\ registered = FALSE
    /\ events = <<>>
    /\ link = "stopped"
    /\ dhcp = FALSE

(* A restart of the device. *)
StationReset ==
    /\ s_retry_num' = 0
    /\ semaphore' = "none"
    /\ registered' = FALSE
    /\ events' = <<>>
    /\ link' = "stopped"
    /\ dhcp' = FALSE

(* wifi_start, and wifi_sta_do_connect up to where it waits. *)
DoConnect ==
    /\ semaphore' = "empty"
    /\ s_retry_num' = 0
    /\ registered' = TRUE
    /\ link' = "connecting"
    /\ UNCHANGED <<events, dhcp>>

(* ... the wait itself ... *)
TakeSemaphore ==
    /\ semaphore = "full"
    /\ semaphore' = "empty"
    /\ UNCHANGED <<s_retry_num, registered, events, link, dhcp>>

(* ... and what it returns: the counter is read after the wait. *)
ConnectFailed == s_retry_num > MaxRetry

(* wifi_shutdown calls wifi_sta_do_disconnect ... *)
UnregisterHandlers ==
    /\ registered' = FALSE
    /\ UNCHANGED <<s_retry_num, semaphore, events, link, dhcp>>

DeleteSemaphore ==
    /\ semaphore' = IF semaphore = "none" THEN "none" ELSE "deleted"
    /\ UNCHANGED <<s_retry_num, registered, events, link, dhcp>>

(* A connection that ends is reported. *)
PostIfUp == events' = IF Down THEN events ELSE Append(events, "disconnected")

(* ... whose last call is esp_wifi_disconnect ... *)
DisconnectStation ==
    /\ PostIfUp
    /\ link' = IF Down THEN link ELSE "idle"
    /\ UNCHANGED <<s_retry_num, semaphore, registered, dhcp>>

(* ... and wifi_stop. *)
StopStation ==
    /\ PostIfUp
    /\ link' = "stopped"
    /\ dhcp' = FALSE
    /\ UNCHANGED <<s_retry_num, semaphore, registered>>

-----------------------------------------------------------------------------
(* The event loop's task. *)

Give ==
    semaphore' = IF semaphore = "empty" THEN "full" ELSE semaphore

(* handler_on_sta_got_ip. *)
HandleGotIp ==
    /\ events # <<>>
    /\ Head(events) = "gotIp"
    /\ events' = Tail(events)
    /\ IF registered
       THEN s_retry_num' = 0 /\ Give
       ELSE UNCHANGED <<s_retry_num, semaphore>>
    /\ UNCHANGED <<registered, link, dhcp>>

StopReconnect == Give /\ UNCHANGED link

(* esp_wifi_connect, which does nothing for a driver that is stopped. *)
Reconnect ==
    /\ link' = IF link = "stopped" THEN "stopped" ELSE "connecting"
    /\ UNCHANGED semaphore

(* handler_on_wifi_disconnectwifi_sta_do_connect.  The DHCP client's own   *)
(* handler was registered before and stops it.                             *)
HandleDisconnected ==
    /\ events # <<>>
    /\ Head(events) = "disconnected"
    /\ events' = Tail(events)
    /\ dhcp' = FALSE
    /\ IF registered
       THEN /\ s_retry_num' = s_retry_num + 1
            /\ IF s_retry_num' > MaxRetry THEN StopReconnect ELSE Reconnect
       ELSE UNCHANGED <<s_retry_num, semaphore, link>>
    /\ UNCHANGED registered

HandleEvent == HandleGotIp \/ HandleDisconnected

(* The next event makes a handler connect. *)
Reconnecting ==
    /\ registered
    /\ events # <<>>
    /\ Head(events) = "disconnected"
    /\ s_retry_num < MaxRetry
    /\ link # "stopped"

-----------------------------------------------------------------------------
(* The driver and the DHCP client. *)

Associate ==
    /\ link = "connecting"
    /\ link' = "associated"
    /\ dhcp' = TRUE
    /\ UNCHANGED <<s_retry_num, semaphore, registered, events>>

(* An attempt fails, or the connection is lost. *)
Disconnect ==
    /\ ~Down
    /\ link' = "idle"
    /\ events' = Append(events, "disconnected")
    /\ UNCHANGED <<s_retry_num, semaphore, registered, dhcp>>

(* An address that was on its way when the connection was lost is posted   *)
(* behind the disconnection.                                               *)
LeaseArrives ==
    /\ dhcp
    /\ dhcp' = FALSE
    /\ events' = Append(events, "gotIp")
    /\ link' = IF link = "associated" THEN "up" ELSE link
    /\ UNCHANGED <<s_retry_num, semaphore, registered>>

-----------------------------------------------------------------------------
(* Once it gave up (line 56), the station stays away: nobody connects, and *)
(* no disconnection is left that would count again.                        *)
GaveUpForGood ==
    s_retry_num > MaxRetry =>
       Down /\ \A i \in 1 .. Len(events) : events[i] = "gotIp"

(* No handler gives a semaphore that was deleted (line 140): by then none  *)
(* is registered.                                                          *)
SemaphoreAlive == registered => semaphore \in {"empty", "full"}

=============================================================================
