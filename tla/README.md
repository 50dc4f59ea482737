# Over-the-air updates on ESP32, in TLA+

The repository holds three independent examples of updating the firmware of an
ESP32 over the air: over **Zigbee** (`src/ESP32-OTA-ZIGBEE`), over **Bluetooth
Low Energy** (`src/ESP32-OTA-BLE`) and over **WiFi/HTTPS**
(`src/ESP32-OTA-WIFI`). They share no code, but the same thing matters in each:
a device that is interrupted, fed wrong bytes or restarted in the middle must
come up again in a complete image, and a device that was given a complete image
should come to run it. These modules model the code that decides this, check it
with TLC on small instances, and prove most of the safety part with TLAPS for
every instance.

1. [The system](#1-the-system)
2. [Modules, and how they correspond to the code](#2-modules-and-how-they-correspond-to-the-code)
3. [Runs, bounds and fairness](#3-runs-bounds-and-fairness)
4. [What the runs found](#4-what-the-runs-found)
5. [Proofs](#5-proofs)
6. [What is not modelled](#6-what-is-not-modelled)
7. [Plan](#7-plan)

## 1. The system

### Components

| Component | State it keeps | Operations |
|---|---|---|
| **Zigbee server**, `esp_ota_server.c`: the coordinator | one static, `s_ota_image_offset`; whether the image is in the stack's table | device announcement, query image, next data, server status; forming and opening the network |
| **Zigbee client**, `esp_ota_client.c`: an end device | `s_ota_partition`, `s_ota_handle`; the handler's statics `total_size`, `offset` | START, RECEIVE, CHECK, APPLY, FINISH; query response; joining the network |
| **Zigbee stack** (ZBOSS, external) | sessions, block positions, the messages in flight | queries, block requests, retries, callbacks |
| **BLE device**, `app_main.c` | the ring buffer; `recv_len`, the update handle, where `ota_task` is | `write_to_ringbuf` in the host task, `ota_task` |
| **BLE service** (component, external) | the announced length, the sector being put together | START, sector, STOP |
| **BLE sender**, `python/main.py` | `sector_index`, `packet_seq` | START, sectors cut into packets, STOP |
| **WiFi station**, `wifi.c` | retry counter, a semaphore, the interface | connect, disconnect and address events, retries, shutdown |
| **HTTPS update**, `ota.c`, `wifi_ota.c` | the response buffer, the parameters of the task | HTTP events, version check, update, restart |
| **HTTPS server**, `python_server.py` | the published files | GET |
| **Flash** (`esp_ota_ops` and the boot loader, external) | the app slots, the selected slot | begin, write, end, set boot partition, restart |
| **Boot banner**, `boot.c` | none | prints the image's hash |

### Interactions

* **Zigbee.** The signal handlers of both sides start the stack's commissioning
  steps and set alarms to repeat those that fail: the server forms a network and
  opens it for three minutes, a device steers until it has joined.
  A device announces itself; a server that is not in a transfer adds
  its image to the stack's table and broadcasts *image notify*; the devices
  query, are told there is a newer version, and ask for one block after the
  other. For every block the stack calls `zb_ota_next_data_handler`, which
  hands out the bytes at the counter, *not* at the position asked for. The
  device's stack hands each block to `zb_ota_upgrade_status_handler` (RECEIVE),
  calls CHECK after the last, tells the server the result, and calls APPLY and
  FINISH. Each node has one main loop, so callbacks of one node do not overlap;
  everything interleaves across nodes.
* **BLE.** The sender announces the length (START), writes sectors, and waits for
  each to be acknowledged. The component calls back into `app_main.c` from the
  host task of the Bluetooth stack, and `write_to_ringbuf` blocks that task
  until the ring buffer (two sectors) has room. `ota_task` runs concurrently,
  taking items out and writing them to flash until as much as was announced has
  been written.
* **WiFi.** `app_main` connects, starts the update task and returns. Event
  handlers and `connect_to_wifi` meet at a semaphore; the task fetches
  `version.json`, compares it, and lets `esp_https_ota` do the update.

### What is hard, and what correctness means

| Where | Hard behaviours | What must hold |
|---|---|---|
| Flash of a device (Zigbee, BLE; over WiFi `esp_https_ota` writes it) | power fails between erase, write, end, select and restart | the slot that boots and the slot that runs always hold a complete image (`SafeUpdate`) |
| Zigbee server | one counter for all devices; queries restart it; repeated requests advance it; restarts empty the table | the counter stays inside the image; with one device it serves the bytes asked for |
| Zigbee client | statics that outlive a session; failing `esp_ota_begin`; ignored callbacks; byte counts instead of contents | handle and partition agree; a complete download is accepted and an incomplete one never selected |
| Zigbee system | losses, early timeouts, reordering, restarts on both sides | every session ends; without losses every device comes to run the image |
| Zigbee joining | steps that fail and are repeated by alarms, a network that closes, restarts of either side | one attempt at a time and always another; who looks for a network while it is open joins; who knows it comes back |
| BLE sender | slices and padding at the end of a sector | the packets make up the sector; none is longer than the link takes |
| BLE device | back-pressure, the ring buffer's end, two tasks reading one length, repeated uploads | the way to flash is a bounded stream (`ByteStream`); the host task never hangs; a finished upload is installed |
| WiFi | retries and semaphores in event handlers, late events, tasks that end in a restart, publishing in two steps | connecting ends, and gives up for good; only newer firmware is installed, and it is installed in the end |

`PROJECT.json` lists each hazard at its line, with the properties that cover it.

## 2. Modules, and how they correspond to the code

```
OtaFlash ------------------- slots, contents, what esp_ota_ops does to them
  |-- SafeUpdate ----------- abstract: what updating promises of the flash
  |     `-- SafeUpdateProofs   what that is good for, for every instance
  |-- ZigbeeOtaServer ------ the server's callbacks on its one counter
  |-- ZigbeeOtaClient ------ the client's callbacks on statics and flash
  |     `-- ZigbeeOta ------ both, the stacks, the messages, the faults
  |           |-- MCZigbeeOta ---- instances for TLC
  |           `-- ZigbeeOtaProofs  theorems for every instance
  |                 `-- ZigbeeSingleProofs  with one device, the counter
  |-- ByteStream ----------- abstract: what the way of the bytes promises
  |-- BleOta --------------- sender, host task, ring buffer, ota_task
  |     |-- MCBleOta ------- instances for TLC
  |     `-- BleOtaProofs --- the flash, for every instance
  |           `-- BleStreamProofs  packets and stream, for every instance
  |                 `-- BleUploadProofs  undisturbed uploads, from end to end
  `-- WifiOta -------------- app_main, update task, server; extends
        |    WifiStation     the station's event handlers as well
        |-- MCWifiOta ------ instances for TLC
        `-- WifiOtaProofs -- theorems for every instance
ZigbeeCommissioning -------- how the Zigbee nodes get into their network
  |-- MCZigbeeCommissioning  an instance for TLC
  `-- ZigbeeCommissioningProofs  theorems for every instance
```

**`OtaFlash`** abstracts the bytes of an image to what decides whether it is
bootable: how many bytes a slot has been given, and whether each is the image's
own byte for its place. `Program` keeps a slot intact only when the bytes
written are the ones that come next. `Bootable` is `esp_image_verify`, run by
`esp_ota_end`: the whole image and its hash. Two things are *not* assumed of
`esp_ota_ops`: that `esp_ota_set_boot_partition` verifies the image once more
(the code calls it after `esp_ota_end`; a second safety net would only hide
mistakes), and that a begin that fails did not erase the slot.

**`SafeUpdate`** is the abstract specification: slots other than the running and
the selected one are rewritten at will, a slot is selected only when its image
is bootable, and a device may restart at any time. `ZigbeeOta` and `BleOta` are shown
to implement it, and `AlwaysBoots` says what they get from that: what boots and what
runs is a complete image. Over WiFi it is `esp_https_ota` that writes, verifies and
selects, and the repository's code only decides when; a refinement there would
speak of that library alone, so there is none. Rollback is not part of it, as no
example enables it.

**`ByteStream`** is the other abstract specification: bytes that were handed over
reach the slot that is written in their order, each once, however they are cut
on the way, and at most `Capacity` of them are under way. Only a restart loses
any. `BleOta` implements it from the callback `ota_recv_fw_cb` to `esp_ota_write`,
with `pending` the received item, the ring buffer and the sector that waits.

**`ZigbeeOtaServer`** is `esp_ota_server.c:91-168`. `DeviceAnnce` is the
announcement (it notifies only when the counter is 0), `QueryImage` the query
handler (it restarts the counter for a matching type, whoever asks), `NextData`
the data handler with its wrap at the image's end, `ServerStatus` the restart
on END and ABORTED. `imageAdded` stands for the OTA table, which only a notify
request fills.

**`ZigbeeOtaClient`** is `esp_ota_client.c:78-128`, one operator per upgrade
status and one per way it fails. Kept as in the code: `offset` is never reset by
START, a payload is counted before it is written, CHECK compares counts, a
callback with a bad status does nothing and returns `ESP_OK`, FINISH ends
`s_ota_handle` and selects `s_ota_partition`, two variables. The counters are
modulo `Modulus` (2^32).

**`ZigbeeOta`** composes them. `net` is the set of messages in flight, taken in
any order. `phase` and `pos` are the device's stack: stop-and-wait block
requests, a retry or giving up when no answer came, and the end of the session
when a callback returns an error (the server is told, which is how ABORTED
arrives). Every action that calls into the code is the callback and everything
the stack does with its result. `Fault` bounds losses, timeouts that are too
early, power cycles on either side, flash errors and callbacks with a bad
status. A `Foreign` device is one of the network with another image type. The
stack is external: it is modelled from how the callbacks are used and from the
cluster's protocol.

**`ZigbeeCommissioning`** is the first part of both signal handlers
(`esp_ota_server.c:12-88`, `esp_ota_client.c:27-76`): per node, the commissioning
that its stack is doing (`bdb`), and the alarms of `esp_zb_scheduler_alarm`. The
two handlers are one action each where they are the same (`SkipStartup`, `InitOk`,
`InitFails`, `Alarm`). Time passes in `Tick` for all timers at once: alarms, the
age of a commissioning, which ends after `ScanTime` at the latest, and `permit`,
for how long the server still lets devices join. The stack is external: it does
one commissioning at a time and refuses another (the alarm's callback only logs
that), and remembers its network in flash (`known`). When a stack does not come up
(`Failed`), the code logs that and does nothing more; somebody may restart the node
then (`RestartFailed`), but nothing assumes that anybody does. The module is separate from `ZigbeeOta`: no OTA callback
depends on how a device joined, beyond that it announces itself.

**`BleOta`** is `app_main.c:132-383` and `main.py`. A byte is its position in the
image, so that the order of the stream can be stated. The sender cuts a sector
into packets (`NumPackets`, `Payload`, `LastSize` are the arithmetic of
`main.py:39-48`), one per action, and waits for the answer to the last one. The
component puts the payloads together (`sector`) and calls back; the bytes it
hands on for a short sector may include padding (`Handed`). The host task holds
the sector it could not put into the ring buffer (`host`); a received item takes
room in the buffer until it is returned (`item`); an item never goes past the end
of the buffer (`readAt`, `Contiguous`). `AppMain` is the start of the Bluetooth
host, with the errors after which nothing runs. `ota_task` is one action per
call: begin, receive, write, compare with the length (read anew each time, so
START and STOP may come in between), end, select and restart, each with its way
to `OTA_ERROR`. Every start of the device erases the other slot at once
(`OtaBegin`), as the code does. What the component does with the length at STOP is not
in the repository: with `StopMayClear` each STOP may clear it or keep it.

**`WifiStation`** is `wifi.c`: `connect_to_wifi` in the main task, and the event
handlers, which one task calls in the order of the queue `events`. They share
the semaphore and `s_retry_num`; the counter is read some time after the
semaphore was taken, as in the code. The driver (`link`) and the DHCP client
(`dhcp`) post events from tasks of their own, and the DHCP client is stopped only
when the disconnection is *handled*, so an address can be posted behind it.
`DisconnectStation` is `esp_wifi_disconnect`, the end of `wifi_sta_do_disconnect`; it
posts a disconnection for which no handler is registered any more. `StopStation` is
`wifi_stop`. To a driver that is stopped, `Reconnect` does nothing, as the handler
returns on `ESP_ERR_WIFI_NOT_STARTED`.

**`WifiOta`** puts it together with `app_main`, `ota_update_task` and the server.
A failed `ESP_ERROR_CHECK`, and a task that returns from its function (FreeRTOS
aborts then, `CONFIG_FREERTOS_TASK_FUNCTION_WRAPPER` in `sdkconfig`), restart the
device: both are `Restart`. An error of the driver is one of these, in a handler
(`ReconnectAborts`), before the wait (`ConnectAborts`) or in the shutdown
(`ShutdownAborts`). `esp_restart` goes through `wifi_shutdown` first, one
action per call. `esp_https_ota` is external and modelled as what it reports: it
erases the slot, receives, and selects the slot when the image is complete.
`response` is what `_http_event_handler` leaves in `http_rcv_buffer`: the version it
tells of, or `"overwritten"` when it came in two parts, each of which is copied to
the buffer's start. The comparison (`Parse`) is a step of its own: a new version
may be published before it. Publishing is the environment's, in the README's order.

In each module, "faulty variants" are plausible mistakes (a dropped guard, a
missing reset, a swapped order) used to see that each property fails when it
should; no specification refers to them.

## 3. Runs, bounds and fairness

| Run (`.cfg`) | Instance | Shows |
|---|---|---|
| `zigbee_one_client` (`ZigbeeOneClient`) | one device, one foreign device that asks in vain, three power cycles of the device at any moment | `BlocksInStep`: the counter serves the bytes asked for; `CheckedImageIsIntact`, `CompleteDownloadAccepted`: CHECK lets exactly the complete images pass; `FinishRestarts`: who gets to FINISH restarts into the image; `Updated`: the device comes to run it |
| `zigbee_two_clients` (`ZigbeeTwoClients`) | two devices that mix up the counter, one restart, flash error or unparsed message | `TypeOK`, `BootImageIntact`, `WritesAside`, and `SafeUpdateSpec`: the flash behaves as `SafeUpdate`, in every interleaving |
| `zigbee_faults` (`ZigbeeFaults`) | one device, any two faults of six kinds | `OffsetInImage`; `SessionEnds`: nothing that is lost, late or restarted leaves a device in a session forever |
| `zigbee_commission` (`ZigbeeCommission`) | two devices, room for both, any two of: a radio failure, a failed start of a stack, a restart of the server, of a device | `TypeOK`; `TryingOnce`: who has no network has exactly one attempt under way or scheduled; `NetworkUp`: only a stack that does not start keeps the server without a network; `JoinedInWindow`: who looks for a network while it is open joins; `Reconnected`: who knows a network comes back to it, unless its stack does not start or finds the server away |
| `ble_update` (`BleUpdate`) | up to three uploads, any two of: interruptions, power cycles, flash errors, failures of the Bluetooth start | `TypeOK`, `BootImageIntact`, `SafeUpdateSpec`; `SectorWhole`, `PacketsFit`: the packets make up the sector and are short enough; `GivesUpOnlyCutShort`: unless something failed, `ota_task` ends its loop only behind the whole image, and gives up only when a STOP cleared the length; `StreamSpec`: the way to flash is a `ByteStream`; `HostGetsOn`: the host task is not held up for ever unless `ota_task` has ended; `DoneMeansUpdated`: an upload without failures is installed unless STOP cleared the length, and never left waiting |
| `wifi_update` (`WifiUpdate`) | any four outages, failed requests, split responses, flash errors, driver errors and power cycles | `TypeOK`, `GaveUpForGood`, `SemaphoreAlive`: handlers and main task agree on when to give up and never touch a deleted semaphore; `NewerOnly`: what is selected is newer than what ran; `WaitEnds`: `connect_to_wifi` returns; `Updated`: a published version comes to run, through every restart |
| `zigbee_mixed_up`, `zigbee_stale_offset`, `zigbee_reinstall`, `ble_retry`, `wifi_late_address`, `wifi_no_ap` | see section 4 | counterexamples |

**Bounds.**
* *Image.* Zigbee: 3 bytes in two blocks of 1 and 2, so that, as in the program,
  the first block is shorter than the others, blocks taken in the wrong order
  give wrong bytes, and the last block ends at the image's end. BLE: 10 bytes,
  sectors of 4, packets of 3 and a ring buffer of 2 sectors as in
  `app_main.c:12`: two full sectors and a short one that may come padded, each
  full one in a full packet and a last one with room for the checksum
  (4096 = 8 * 511 + 8 in the program); the short sector has a single packet; the third
  sector has to wait for room. As sectors fill the ring buffer exactly, no item
  crosses its end here, as none does in the program; sizes where one does are
  covered by the proofs.
* *Counters.* `Modulus` is 8, or 4 in `zigbee_faults` where losses make the
  stale offset wrap; both are above the image's size, as 2^32 is.
* *Faults.* At most `MaxFaults` of the kinds in `Faults`. Two are needed for a
  failure inside the recovery from another, so the runs have two where the
  instance allows it, and one with two devices; `zigbee_one_client` has three, so that
  START, the download and the end of one update can each be interrupted.
* *Clients.* Two are enough for one to disturb another. `FirstUpdates` stops
  `zigbee_two_clients` when a device has finished its second update (the
  server offers the image again, see section 4) or has counted more than a
  download and a block; the devices are interchangeable, so symmetry is used,
  in a run of safety properties only.
* *Retries.* WiFi: one (`MaxRetry`), so that two failures in a row give up, and
  four faults are enough to give up twice, or once with two other faults. The
  image arrives in two pieces, so that it can be cut off in the middle.
* *Uploads.* At most three runs of the script (`MaxUploads`).
* *Time.* Joining: a commissioning takes at most 1, a device tries again after 2,
  the server after 1, and the network is open for 10, longer than three
  attempts in a row take (`OpenLongEnough`); in the program 180 s, 5 s and 1 s.

`CHECK_DEADLOCK FALSE` is given for BLE only: a device whose `ota_task` has
deleted itself and whose script is not run again does stop. The Zigbee
and WiFi instances are checked for deadlock.

**Fairness.** Zigbee (`Fairness`): each node's main loop goes on taking in the
messages that have arrived, a stack that is asked to query or to repeat a
request does so eventually, and a callback returns. `esp_zb_stack_main_loop`
never returns, so weak fairness of these actions is what the code gives. Nothing
is assumed of giving up, of faults or of foreign devices. Joining: the stack
ends what it was told to do, and time passes. That somebody restarts a node whose
stack did not come up is not assumed: the code only logs that error, so `NetworkUp`,
`JoinedInWindow` and `Reconnected` name `Failed` as their exception. BLE: the script
runs on when its write was answered, and the two tasks, which FreeRTOS schedules on
two cores, run when they have something to do. Nothing is assumed of the person
who runs the script. WiFi: the tasks run, an attempt to connect ends one way or
the other, and a station that was let in gets an address unless it is
disconnected. The last is an assumption about the access point:
`connect_to_wifi` has no timeout, and without it `WaitEnds` is false.

## 4. What the runs found

* **`zigbee_mixed_up`.** Two devices downloading at once get each other's
  blocks. The byte counts are right, CHECK passes, `esp_ota_end` rejects the
  image, and the device goes on without the restart that the README promises.
  `esp_ota_server.h` allows ten devices. The flash stays safe (section 5).
* **`zigbee_stale_offset`.** After one download that was given up, say for a lost
  block response, `offset` still counts its bytes. The next download writes the
  whole image and CHECK rejects it, until the device is power cycled.
* **`zigbee_reinstall`.** The version a device reports is a constant of
  `esp_ota_client.h`, and an image built as the README describes reports the
  old one. Such a device installs the image it already runs, over and over.
* **`ble_retry`.** `recv_len` and the handle belong to the task, not to the upload.
  A second upload is written behind the bytes of an interrupted one; the task
  fails in `esp_ota_end` and deletes itself, while the script reports that the
  update is complete.

* **`wifi_late_address`.** The handler of an address does not ask whether the
  connection it belongs to is still there. If the last permitted attempt
  associates and is disconnected at once, the address can be posted behind the
  disconnection: the retry counter is over the maximum, nobody tries again, and
  then it is cleared. `connect_to_wifi` returns `ESP_OK` for a station that is
  down and stays down. The update task then fails, returns, and the restart
  repairs it.
* **`wifi_no_ap`.** The maximum of retries does not keep the station from trying
  for ever: the failure aborts `app_main`, and the restart begins again.

A remark on `Updated` of WiFi. The update task looks for a version once, and
returns from its function, which FreeRTOS answers with an abort. It is this
abort, and the one of `ESP_ERROR_CHECK`, that makes a device look again; the
property fails as soon as one of them is made to end quietly.

More that are not runs.

* In Zigbee, an announcement in the middle of somebody's transfer is not answered
  at all, so that device depends on its query timer (`Updated` needs it).
* The server does nothing when its steering fails (`esp_ota_server.c:85`), and
  nothing opens its network again after the three minutes: a device that is
  switched on later joins only after the server was restarted. This is why
  `JoinedInWindow` speaks of devices that look while the network is open.
* A device that knows its network and starts while the server is away gets an
  error from its initialisation, which the code only logs
  (`esp_ota_client.c:53-55`), and stays away until somebody restarts it. The same is
  true of a server whose stack does not start (`esp_ota_server.c:65-67`). `NetworkUp`
  and `Reconnected` say that nothing else keeps a node out.
* The last packet of an image that leaves 510 or 511 bytes to it carries the
  checksum behind them and is one or two bytes longer than a full packet
  (`main.py:47`). `PacketsFit` has this exception; that nothing else is longer is
  proved. Whether a longer packet is taken depends on the negotiated MTU.
* What the OTA component does with the length at STOP is not in the repository.
  `ble_update` lets each STOP clear it or keep it. A STOP that clears it while
  sectors are still in the ring buffer costs the upload: `recv_len >= 0` ends the
  task's loop, and `esp_ota_end` fails. `GivesUpOnlyCutShort` says that this is the
  only way in which an undisturbed upload is lost. `ble_retry` sets `StopMayClear` to
  `FALSE`: its counterexample needs no such STOP.
* Once `ota_task` has ended, nobody empties the ring buffer, and the host task waits
  for ever when it is full. `HostGetsOn` excepts that.

## 5. Proofs

### Zigbee

`ZigbeeOtaProofs` proves, for every set of devices, every image and block size,
every modulus above the image's size and every combination and number of faults
(the named assumptions of the modules, and nothing else):

| Theorem | Statement |
|---|---|
| `TypeCorrect` | `Spec => []TypeOK` |
| `BootSafety` | `Spec => []BootImageIntact` |
| `WritesAsideSafety` | `Spec => []WritesAside` |
| `OffsetSafety` | `Spec => []OffsetInImage` |
| `Refinement` | `Spec => SafeUpdateSpec` |

*The invariant.* `BootImageIntact` alone is not inductive. FINISH verifies the
slot of `s_ota_handle` and selects `s_ota_partition`; that the verified slot is
the selected one is `WritesAside`. That in turn is kept by a START whose
`esp_ota_begin` fails (it sets the partition and leaves the handle of an earlier
session) only because every START of one run of the device chooses the same
slot: `SamePartition`, which is the strengthening. `IInv` is the conjunction,
with the type invariant and the counter's bound.

*The argument.* `StepIsClientOp`: whatever a step of the system does, to the
devices it is one of the operations of `ClientOp` or nothing. `ClientInvStep`:
each operation preserves `ClientInv`, one case per operation. `SafeStep`: each
operation is a step of `SafeUpdate` or leaves the flash alone. So the theorems
do not depend on what the server hands out, and the mixed-up blocks of section 4
can cost an update but never a device. `ServerInvInductive` and
`StackTypeInductive` are the server's counter and the messages' types.

### One Zigbee device

What the server's only counter is good for is shown by `ZigbeeSingleProofs`, for
every image, block size and modulus, any number of foreign devices and any number
of power cycles of both sides:

| Theorem | Statement |
|---|---|
| `BlocksInStepHolds` | `OneDevice` gives `Spec => []BlocksInStep` |
| `CheckedImageHolds` | `OneDevice` gives `Spec => []CheckedImageIsIntact` |
| `CompleteDownloadHolds` | `OneDevice` gives `Spec => []CompleteDownloadAccepted` |
| `FinishRestartsHolds` | `OneDevice` gives `Spec => FinishRestarts` |

*The hypothesis.* `OneDevice` says that at most one device downloads and that the
faults are among power cycles of the device and of the server; `zigbee_one_client`
runs it without the server's, because a server that has restarted offers nothing until
a device announces itself, and `Updated` would be false. It cannot be dropped: with two devices `zigbee_mixed_up` is a counterexample to `FinishRestarts`,
and with a lost message `zigbee_stale_offset` is one to `CompleteDownloadAccepted`
(section 4). Nor can flash errors or unparsed messages be let in: they end a
session with an ABORTED, and when that reaches the server in the middle of the next
session it sets the counter to 0 there, which breaks `BlocksInStep`.

*The invariant* (`SessionInv`) has three parts per device.
* `OneAtATime`: at most one message of its session is in flight, and it is the one
  that the stack's phase waits for, or the request that this answers.
* `Served`: the counter is the position of the request in flight, or behind the
  block in flight (`After`), or 0 when an offer is. A restart of the server in the
  middle breaks this, and then the second possibility holds: `Forgotten`, the table is
  empty and no announcement is on its way, so that no block can be handed out before
  the device announces itself. It announces itself only after a restart of its own,
  which loses the session.
* `Downloaded`: `offset` and the slot's length are `pos`, and what is written is
  intact; from CHECK on it is the whole image. This is where the static `offset` is
  seen to be harmless as long as every session that ends early ends in a restart.

*The argument.* `SessionInvStep` has a lemma per action (`QueryKeeps`,
`BlockReqKeeps`, `BlockKeeps`, ...), over two lemmas about the messages in flight
(`NewOutstanding`, `SameOutstanding`) and two that rebuild the invariant from them
(`Sent`, `Rested`). `FinishMeansFinished`: under the invariant `esp_ota_end` succeeds.

### Joining the Zigbee network

`ZigbeeCommissioningProofs` proves, for any number of devices, any times and any
faults, `TypeCorrect` and `TryingOnceHolds` (`TryingOnce`). `TryingOnce` is not
inductive: an alarm that is due starts a commissioning whatever the node is doing.
The strengthening (`AlarmsFit`) says what each state of the stack tells of the
alarms: only a node that came up, has no network and is doing nothing has an
alarm, and it has one. `StepKeepsInvariant` has a case per action.

### BLE

`BleOtaProofs` proves `TypeCorrect`, `BootSafety` and `Refinement` for every image,
sector, packet and ring buffer size (`SizeAssumption`, `PacketAssumption`), any number
of uploads, any faults, and both things STOP may do. The invariant adds to
`BootImageIntact` (`DeviceInv`) that a running `ota_task` writes `NextUpdate(boot)` and
that what it is about to select was verified and has not been written since.

`BleStreamProofs` proves, under the same assumptions, `SectorsArriveWhole`
(`SectorWhole`), `PacketLengths` (`PacketsFit`) and `StreamRefinement` (`StreamSpec`).

* *Packets.* The invariant is that the component holds the sector's bytes up to
  `packet * PacketSize` and that a packet is left; the division in `NumPackets` is
  bounded by its quotient, so that the last slice ends at the sector's end.
* *Lengths.* `PacketAssumption` leaves room for the checksum in a full sector's last
  packet. A short sector's last packet is the remainder, hence the exception.
* *The stream.* `WriteToRingbuf` and `Receive` leave the concatenation
  `item \o ring \o host` as it is, wherever the ring's end falls;
  `SendLastPacket` is a `Put`, `Write` a `Take`, and a restart a `Drop`.

`BleUploadProofs` proves `GivesUpOnlyCutShortHolds` (`GivesUpOnlyCutShort`): as long as
nothing fails and no upload is interrupted, `ota_task` leaves its loop only when the
whole image was handed over, and gives up only if a STOP cleared the length before
the rest of it was written; for any sizes, any padding of the last sector, any number
of uploads, one of which may begin before `ota_task` has finished the one before, and
whatever each STOP does. If no STOP clears the length it does not give up at all. This
is the safety part of `DoneMeansUpdated`.

*The invariant* (`UploadInv`) follows the bytes from one end to the other. What is
under way is the image from `recv_len` on (`InPlace`), what is written is the image up
to there (`WrittenInPlace`), and the two together (`Arrived`) end where the sender is
(`Position`), or past the image's end, after which neither padding nor a next
upload can do harm. `Announced`: before the first byte is counted the length is there,
and it can be gone again only when everything has arrived (`Complete`, which lasts:
`CompleteStays`). So the loop ends at the image's end or in the case that the
property names (`Ended`). That a sector's bytes are those of its place is `PacketInv`,
and that nothing changes order between callback and flash are the lemmas of
`StreamRefinement` (`WriteToRingbufMoves`, `ReceiveMoves`, `WriteTakes`).

### WiFi

`WifiOtaProofs` proves, for every maximum of retries, every image size and any
faults, with or without an access point, `TypeCorrect`, `GaveUpSafety`
(`GaveUpForGood`), `SemaphoreSafety` (`SemaphoreAlive`) and `NewerOnlyHolds` (`NewerOnly`,
an action property).

*The invariant.* `GaveUpForGood` says that the disconnection that exhausts the
retries is the last one. That holds because at most one disconnection is in the
event queue at a time (`AtMostOneLoss`), and none while the driver connects or is
connected (`LossMeansDown`): the handler is what makes the driver connect again.
`SemaphoreAlive` needs to know how far `wifi_shutdown` is (`ShutdownInOrder`) and
that `app_main` finds a fresh station (`Fresh`). `NewerOnly` follows from
`UpdateInv`: between the comparison and the selection neither the running slot
nor what it holds changes.

*The argument.* `EveryStepIsAStationOp`: to the station, a step of the system is
one of the operations of `WifiStation` or nothing. `HandlerStep`, `DriverStep` and
`ResetInv` treat these one by one, over two lemmas about queues
(`EventTaken`, `EventPosted`). `UpdateStep` has a case per action of the update task.

### SafeUpdate

`SafeUpdateProofs` proves `SafeBoots`, `SafeSpec => []AlwaysBoots`, for any number of
devices. Together with the refinements it says the same of the updates over Zigbee and
over Bluetooth, and of any other system that is shown to implement `SafeUpdate`.

### Only model-checked

Liveness (`Updated`, `SessionEnds`, `NetworkUp`, `JoinedInWindow`, `Reconnected`,
`HostGetsOn`, `DoneMeansUpdated`, `WaitEnds`), which is out of the prover's reach. Every
invariant, action property and refinement of a passing run is a theorem; those of
`ZigbeeSingleProofs` under the hypothesis given above.

## 6. What is not modelled

* **The reassembly of a sector and its acknowledgements** are in the OTA component,
  which is not in the repository. That the sender never reads them is listed as a
  hazard; writes are answered and in order, so no sector is lost within a
  connection.
* **Protocomm and encrypted images** (`app_main.c:23-130, 290-341, 365-376`) are not
  configured (`sdkconfig`).
* **`zb_zdo_match_desc_handler`** of the client is never registered.
* **`cJSON`** and the contents of `version.json` beyond the version: whatever is
  wrong with a response, it is not taken as newer. Lengths of responses are left out,
  and with them that up to 512 received bytes go into the 500 of `http_rcv_buffer`
  (`ota.c:29`). **`python_server.py`** only hands
  out files.
* **The parameters on `app_main`'s stack**, which the update task reads after
  `app_main` may have returned: the task has the higher priority and reads them
  first, which the model takes for granted.
* **`boot.c`** prints the running image's hash; it keeps no state.
* **The callback registered after the Bluetooth host runs** (`app_main.c:359`): a
  connection takes far longer than the calls in between.
* **Wrong bytes inside a message**: radio and GATT frames carry checksums. What
  is modelled is which bytes are sent, lost, repeated or skipped.
* **The log output, `start_time`, cost times and the version numbers printed.**

## 7. Plan

Order: what can brick a device first, then what can lose an update, then what
can keep it from starting.

1. *Done.* `OtaFlash`, `SafeUpdate`, `ByteStream`; `ZigbeeOtaServer`, `ZigbeeOtaClient`,
   `ZigbeeOta`; `BleOta` with packets and start-up; `WifiStation`, `WifiOta` with the
   response buffer, the shutdown and driver errors; `ZigbeeCommissioning`; the
   proofs of section 5.
2. *Left.* Theorems between `OneDevice` and no hypothesis at all, for instance for
   networks in which the messages of one device keep their order.

The bounds stay as small as those of section 3; three devices add nothing that two
do not.
