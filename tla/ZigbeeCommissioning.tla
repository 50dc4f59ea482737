------------------------ MODULE ZigbeeCommissioning ------------------------
(***************************************************************************)
(* How the nodes of the Zigbee example get into their network: the signal  *)
(* handlers of esp_ota_server.c and esp_ota_client.c, the commissioning    *)
(* (BDB) they start in the stack, and the alarms with which they try       *)
(* again.  The stack is outside the repository: it does one commissioning  *)
(* at a time, which ends with a signal, and remembers its network in flash.*)
(*                                                                         *)
(* Time passes in Tick, by a unit for all timers.                          *)
(***************************************************************************)
EXTENDS Naturals, Sequences, FiniteSets

CONSTANTS
    Server,         \* the coordinator
    Clients,        \* the end devices
    OpenTime,       \* how long the server lets devices join, 180 s
    FormRetryTime,  \* until the server forms a network again, 1000 ms
    JoinRetryTime,  \* until a client looks for a network again, 5000 ms
    ScanTime,       \* the longest that a commissioning takes
    MAX_CHILDREN,
    Faults,         \* the kinds of faults that may happen
    MaxFaults       \* bound on how many faults happen

ASSUME NodeAssumption == Server \notin Clients
ASSUME TimeAssumption ==
    /\ OpenTime \in Nat \ {0}
    /\ FormRetryTime \in Nat \ {0} /\ JoinRetryTime \in Nat \ {0}
    /\ ScanTime \in Nat \ {0}
ASSUME BoundAssumption ==
    /\ MAX_CHILDREN \in Nat
    /\ Faults \subseteq {"init", "radio", "serverRestart", "clientRestart"}
    /\ MaxFaults \in Nat

Nodes == Clients \cup {Server}

VARIABLES
    bdb,        \* bdb[n]: the commissioning that node n is doing
    age,        \* age[n]: for how long
    alarms,     \* alarms[n]: the alarms that are set, by the time left
    started,    \* started[n]: whether the stack of n came up
    known,      \* known[n]: whether n remembers a network: not factory new
    online,     \* online[n]: whether n takes itself to be in its network
    permit,     \* for how long the server still lets devices join
    faults      \* the number of faults so far

vars == <<bdb, age, alarms, started, known, online, permit, faults>>

Fault(kind) ==
    /\ kind \in Faults
    /\ faults < MaxFaults
    /\ faults' = faults + 1

(* The commissioning by which a factory new node gets a network. *)
FirstMode(n) == IF n = Server THEN "formation" ELSE "steering"

(* A faulty variant of the next definition, with which a property is seen  *)
(* to fail: the client's alarm comes too late for the open network.        *)
RetryTimeLong(n) == IF n = Server THEN FormRetryTime ELSE OpenTime

(* The time until a commissioning that failed is started again. *)
RetryTime(n) == IF n = Server THEN FormRetryTime ELSE JoinRetryTime

Init ==
    /\ bdb = [n \in Nodes |-> "off"]
    /\ age = [n \in Nodes |-> 0]
    /\ alarms = [n \in Nodes |-> <<>>]
    /\ started = [n \in Nodes |-> FALSE]
    /\ known = [n \in Nodes |-> FALSE]
    /\ online = [n \in Nodes |-> FALSE]
    /\ permit = 0
    /\ faults = 0

(* esp_zb_bdb_start_top_level_commissioning, which the stack refuses while *)
(* another one is going on.                                                *)
Start(n, mode) ==
    /\ bdb' = [bdb EXCEPT ![n] = mode]
    /\ age' = [age EXCEPT ![n] = 0]

Ended(n) == bdb' = [bdb EXCEPT ![n] = "none"] /\ UNCHANGED age

(* esp_zb_scheduler_alarm *)
SetAlarm(n) == alarms' = [alarms EXCEPT ![n] = Append(@, RetryTime(n))]

-----------------------------------------------------------------------------
(* Faulty variants of the definitions below, with which the properties are *)
(* seen to fail.  No specification uses them.                              *)

(* Steering that failed starts again at once and is scheduled as well. *)
JoinFailsTwice(c) ==
    /\ bdb[c] = "steering"
    /\ bdb' = bdb
    /\ age' = [age EXCEPT ![c] = 0]
    /\ SetAlarm(c)
    /\ UNCHANGED <<started, known, online, permit, faults>>

(* Formation that failed is only logged. *)
FormFailsForGood ==
    /\ bdb[Server] = "formation"
    /\ Fault("radio")
    /\ Ended(Server)
    /\ UNCHANGED <<alarms, started, known, online, permit>>

(* A device that remembers its network steers as a new one does. *)
InitOkSteers(n) ==
    /\ bdb[n] = "initialization"
    /\ started' = [started EXCEPT ![n] = TRUE]
    /\ Start(n, FirstMode(n))
    /\ UNCHANGED <<alarms, known, online, permit, faults>>

(* The client's handler starts what the server's does. *)
InitOkForms(n) ==
    /\ bdb[n] = "initialization"
    /\ started' = [started EXCEPT ![n] = TRUE]
    /\ Start(n, "formation")
    /\ UNCHANGED <<alarms, known, online, permit, faults>>

-----------------------------------------------------------------------------
(* Starting: both signal handlers are the same up to here. *)

(* SKIP_STARTUP *)
SkipStartup(n) ==
    /\ bdb[n] = "off"
    /\ Start(n, "initialization")
    /\ UNCHANGED <<alarms, started, known, online, permit, faults>>

(* FIRST_START and REBOOT with ESP_OK.  A client that remembers a network  *)
(* has found it again.                                                     *)
InitOk(n) ==
    /\ bdb[n] = "initialization"
    /\ started' = [started EXCEPT ![n] = TRUE]
    /\ \/ /\ ~known[n]
          /\ Start(n, FirstMode(n))
          /\ UNCHANGED <<online, permit>>
       \/ /\ known[n]
          /\ n = Server \/ online[Server]
          /\ Ended(n)
          /\ online' = [online EXCEPT ![n] = TRUE]
          /\ permit' = IF n = Server THEN OpenTime ELSE permit
    /\ UNCHANGED <<alarms, known, faults>>

(* FIRST_START and REBOOT with an error, which is logged. *)
InitFails(n) ==
    /\ bdb[n] = "initialization"
    /\ \/ Fault("init")
       \/ n # Server /\ known[n] /\ ~online[Server] /\ UNCHANGED faults
    /\ Ended(n)
    /\ UNCHANGED <<alarms, started, known, online, permit>>

(* Nothing is tried again then. *)
Failed(n) == bdb[n] = "none" /\ ~started[n]

-----------------------------------------------------------------------------
(* The server. *)

FormOk ==
    /\ bdb[Server] = "formation"
    /\ Start(Server, "steering")
    /\ known' = [known EXCEPT ![Server] = TRUE]
    /\ online' = [online EXCEPT ![Server] = TRUE]
    /\ UNCHANGED <<alarms, started, permit, faults>>

FormFails ==
    /\ bdb[Server] = "formation"
    /\ Fault("radio")
    /\ Ended(Server)
    /\ SetAlarm(Server)
    /\ UNCHANGED <<started, known, online, permit>>

(* Steering opens the network; when it fails, nothing is done. *)
Steered ==
    /\ bdb[Server] = "steering"
    /\ Ended(Server)
    /\ \/ permit' = OpenTime /\ UNCHANGED faults
       \/ Fault("radio") /\ UNCHANGED permit
    /\ UNCHANGED <<alarms, started, known, online>>

-----------------------------------------------------------------------------
(* A client. *)

HasRoom == Cardinality({c \in Clients : known[c]}) < MAX_CHILDREN
CanJoin == online[Server] /\ permit > 0 /\ HasRoom

JoinOk(c) ==
    /\ bdb[c] = "steering"
    /\ CanJoin
    /\ Ended(c)
    /\ known' = [known EXCEPT ![c] = TRUE]
    /\ online' = [online EXCEPT ![c] = TRUE]
    /\ UNCHANGED <<alarms, started, permit, faults>>

JoinFails(c) ==
    /\ bdb[c] = "steering"
    /\ IF CanJoin THEN Fault("radio") ELSE UNCHANGED faults
    /\ Ended(c)
    /\ SetAlarm(c)
    /\ UNCHANGED <<started, known, online, permit>>

-----------------------------------------------------------------------------
(* bdb_start_top_level_commissioning_cb, on both sides: a start that is    *)
(* refused is only logged.                                                 *)
Alarm(n) ==
    /\ alarms[n] # <<>>
    /\ Head(alarms[n]) = 0
    /\ alarms' = [alarms EXCEPT ![n] = Tail(@)]
    /\ IF bdb[n] = "none" THEN Start(n, FirstMode(n)) ELSE UNCHANGED <<bdb, age>>
    /\ UNCHANGED <<started, known, online, permit, faults>>

(* Time passes when nothing is due. *)
Busy(n) == bdb[n] \notin {"off", "none"}
Due(n) ==
    \/ alarms[n] # <<>> /\ Head(alarms[n]) = 0
    \/ Busy(n) /\ age[n] = ScanTime

Tick ==
    /\ \A n \in Nodes : ~Due(n)
    /\ age' = [n \in Nodes |-> IF Busy(n) THEN age[n] + 1 ELSE age[n]]
    /\ alarms' = [n \in Nodes |-> [i \in 1 .. Len(alarms[n]) |->
                     IF alarms[n][i] = 0 THEN 0 ELSE alarms[n][i] - 1]]
    /\ permit' = IF permit = 0 THEN 0 ELSE permit - 1
    /\ UNCHANGED <<bdb, started, known, online, faults>>

(* Only flash outlasts a restart. *)
Reboot(n) ==
    /\ bdb' = [bdb EXCEPT ![n] = "off"]
    /\ age' = [age EXCEPT ![n] = 0]
    /\ alarms' = [alarms EXCEPT ![n] = <<>>]
    /\ started' = [started EXCEPT ![n] = FALSE]
    /\ online' = [online EXCEPT ![n] = FALSE]
    /\ permit' = IF n = Server THEN 0 ELSE permit
    /\ UNCHANGED known

PowerCycle(n) ==
    /\ Fault(IF n = Server THEN "serverRestart" ELSE "clientRestart")
    /\ Reboot(n)

(* Somebody restarts a node that did not come up.  Nobody has to. *)
RestartFailed(n) ==
    /\ Failed(n)
    /\ Reboot(n)
    /\ UNCHANGED faults

-----------------------------------------------------------------------------
ServerStep == FormOk \/ FormFails \/ Steered
ClientStep(c) == JoinOk(c) \/ JoinFails(c)
NodeStep(n) == SkipStartup(n) \/ InitOk(n) \/ InitFails(n) \/ Alarm(n)

Next ==
    \/ ServerStep
    \/ \E c \in Clients : ClientStep(c)
    \/ \E n \in Nodes : NodeStep(n) \/ PowerCycle(n) \/ RestartFailed(n)
    \/ Tick

Spec == Init /\ [][Next]_vars

(* Each node's main loop runs, and time passes.  Restarts are up to people *)
(* and chance.                                                             *)
Fairness ==
    /\ WF_vars(ServerStep)
    /\ \A c \in Clients : WF_vars(ClientStep(c))
    /\ \A n \in Nodes : WF_vars(NodeStep(n))
    /\ WF_vars(Tick)

FairSpec == Spec /\ Fairness

-----------------------------------------------------------------------------
(* Every variable has its type; only the server forms a network. *)
TypeOK ==
    /\ bdb \in [Nodes -> {"off", "none", "initialization", "formation",
                          "steering"}]
    /\ \A c \in Clients : bdb[c] # "formation"
    /\ age \in [Nodes -> 0 .. ScanTime]
    /\ alarms \in [Nodes -> Seq(Nat)]
    /\ started \in [Nodes -> BOOLEAN]
    /\ known \in [Nodes -> BOOLEAN]
    /\ online \in [Nodes -> BOOLEAN]
    /\ permit \in 0 .. OpenTime
    /\ faults \in Nat

(* A node without a network is trying to get one, in exactly one way: by a *)
(* commissioning or by one alarm for the next (server lines 60-81, client  *)
(* lines 43-69).  A node that is in its network, or did not come up, has   *)
(* no alarm that would start another.                                      *)
Trying(n) == started[n] /\ ~online[n]

TryingOnce ==
    \A n \in Nodes :
       IF Trying(n)
       THEN \/ bdb[n] = FirstMode(n) /\ alarms[n] = <<>>
            \/ bdb[n] = "none" /\ Len(alarms[n]) = 1
       ELSE alarms[n] = <<>>

(* Only a stack that does not start keeps the server without a network:    *)
(* that is logged and nothing else (server lines 65-68), but a formation   *)
(* that fails is tried again (lines 78-81), and after a restart the        *)
(* network that it remembers comes back (lines 61-63).                     *)
NetworkUp == ~online[Server] ~> online[Server] \/ Failed(Server)

(* A client that is looking for a network when the server opens it joins,  *)
(* although it only looks now and then and may fail (client lines 66-69),  *)
(* unless there is no room left or it is switched off.  The server may     *)
(* restart meanwhile: if it comes up, it opens its network again (server   *)
(* line 62).                                                               *)
JoinedInWindow ==
    \A c \in Clients :
       permit = OpenTime /\ Trying(c) ~>
          known[c] \/ ~HasRoom \/ bdb[c] = "off" \/ Failed(Server)

(* A client that remembers its network gets back into it, after a restart  *)
(* of either side (client lines 43-52), except when its stack does not     *)
(* start or its server is away at that moment: nothing is tried again then *)
(* (lines 53-55).                                                          *)
Reconnected == \A c \in Clients : known[c] ~> online[c] \/ Failed(c)

=============================================================================
