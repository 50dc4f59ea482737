-------------------------- MODULE ZigbeeSingleProofs --------------------------
(***************************************************************************)
(* Proofs about ZigbeeOta with one device: what the server's only counter  *)
(* is good for.  As long as nobody else downloads and nothing is lost but  *)
(* by a power cycle of either side, the device gets the blocks that it     *)
(* asks for, and what it checks, finishes and restarts into is the image.  *)
(***************************************************************************)
EXTENDS ZigbeeOtaProofs

(* One device downloads, with any number of other devices around, and      *)
(* nothing goes wrong but power cycles of the device and of the server.    *)
OneDevice ==
    /\ \A c, d \in Clients : c = d
    /\ Faults \subseteq {"clientRestart", "serverRestart"}

(* The messages of a session.  One of them is under way at a time: the one *)
(* that the device's stack waits for or the request that it answers.       *)
SessionTypes ==
    {"query", "queryRsp", "blockReq", "blockRsp", "noImage", "endReq", "endRsp"}

Outstanding(c) == InFlight(c, SessionTypes)

Offer(c)    == QueryRsp(c, TRUE)
Refusal(c)  == QueryRsp(c, FALSE)
Complete(c) == EndReq(c, TRUE)

Fits(c, m) ==
    \/ /\ phase[c] = "query"
       /\ m \in {Query(c), Offer(c), Refusal(c)}
    \/ /\ phase[c] = "wait"
       /\ m \in {BlockReq(c, pos[c]), BlockRsp(c, pos[c], pos[c]), NoImage(c)}
    \/ /\ phase[c] = "end"
       /\ m \in {Complete(c), EndRsp(c)}

OneAtATime(c) ==
    /\ \A m \in Outstanding(c) : Fits(c, m)
    /\ \A m1, m2 \in Outstanding(c) : m1 = m2

(* A restart of the server loses the table and the announcements with it.  *)
(* Then nobody can be served before the device announces itself again.     *)
Forgotten == ~imageAdded /\ \A d \in Devices : Annce(d) \notin net

(* Otherwise the counter is where the device reads. *)
After(p) == IF p + BlockLen(p) >= ImageSize THEN 0 ELSE p + BlockLen(p)

InStep(c, m) ==
    /\ m.type # "noImage"
    /\ m = Offer(c) => imageAdded /\ s_ota_image_offset = 0
    /\ m.type = "blockReq" => imageAdded /\ s_ota_image_offset = pos[c]
    /\ m.type = "blockRsp" => imageAdded /\ s_ota_image_offset = After(pos[c])

Served(c) ==
    \/ Forgotten
    \/ /\ phase[c] \in {"query", "wait", "end"} => Outstanding(c) # {}
       /\ phase[c] \in {"idle", "query"} => offset[c] = 0
       /\ \A m \in Outstanding(c) : InStep(c, m)

(* The first n bytes of the image have been counted and written. *)
Holds(c, n) ==
    /\ s_ota_handle[c] # NoSlot
    /\ offset[c] = n
    /\ flash[c][s_ota_handle[c]].len = n
    /\ flash[c][s_ota_handle[c]].intact

Downloaded(c) ==
    /\ Offer(c) \in Outstanding(c) => offset[c] = 0
    /\ phase[c] = "wait" => pos[c] < ImageSize /\ Holds(c, pos[c])
    /\ phase[c] \in {"check", "end", "apply"} =>
          Holds(c, ImageSize) /\ total_size[c] = ImageSize

InSession(c) == OneAtATime(c) /\ Served(c) /\ Downloaded(c)

SessionInv == \A c \in Clients : InSession(c)

-----------------------------------------------------------------------------
(* What the messages of a session carry. *)
LEMMA MessageParts ==
    ASSUME NEW c
    PROVE  /\ Annce(c).type = "annce" /\ Notify(c).type = "notify"
           /\ Query(c).type = "query" /\ Query(c).dev = c
           /\ NoImage(c).type = "noImage" /\ NoImage(c).dev = c
           /\ EndRsp(c).type = "endRsp" /\ EndRsp(c).dev = c
           /\ Offer(c).type = "queryRsp" /\ Offer(c).dev = c
           /\ Refusal(c).type = "queryRsp" /\ Refusal(c).dev = c
           /\ Offer(c) # Refusal(c)
           /\ Complete(c).type = "endReq" /\ Complete(c).dev = c
           /\ Complete(c).ok
           /\ \A p : /\ BlockReq(c, p).type = "blockReq"
                     /\ BlockReq(c, p).dev = c /\ BlockReq(c, p).pos = p
           /\ \A p, f : /\ BlockRsp(c, p, f).type = "blockRsp"
                        /\ BlockRsp(c, p, f).dev = c
                        /\ BlockRsp(c, p, f).pos = p
                        /\ BlockRsp(c, p, f).from = f
  BY DEF Annce, Notify, Query, NoImage, EndRsp, BlockReq, BlockRsp, Offer,
         Refusal, Complete, QueryRsp, EndReq

(* Which message is under way tells what the device is doing. *)
LEMMA WhatIsOutstanding ==
    ASSUME NEW c, OneAtATime(c), NEW m \in Outstanding(c)
    PROVE  /\ m.type = "query" => phase[c] = "query" /\ m = Query(c)
           /\ m.type = "queryRsp" =>
                 phase[c] = "query" /\ m \in {Offer(c), Refusal(c)}
           /\ m.type = "blockReq" => phase[c] = "wait" /\ m = BlockReq(c, pos[c])
           /\ m.type = "blockRsp" =>
                 phase[c] = "wait" /\ m = BlockRsp(c, pos[c], pos[c])
           /\ m.type = "noImage" => phase[c] = "wait" /\ m = NoImage(c)
           /\ m.type = "endReq" => phase[c] = "end" /\ m = Complete(c)
           /\ m.type = "endRsp" => phase[c] = "end" /\ m = EndRsp(c)
  <1>1. Fits(c, m)
    BY DEF OneAtATime
  <1>2. CASE /\ phase[c] = "query"
             /\ m \in {Query(c), Offer(c), Refusal(c)}
    <2>1. m.type = "query" \/ m.type = "queryRsp"
      BY <1>2, MessageParts
    <2>2. m = Query(c) => m.type = "query"
      BY MessageParts
    <2>3. m.type = "query" => m = Query(c)
      BY <1>2, MessageParts
    <2> QED BY <1>2, <2>1, <2>2, <2>3
  <1>3. CASE /\ phase[c] = "wait"
             /\ m \in {BlockReq(c, pos[c]), BlockRsp(c, pos[c], pos[c]), NoImage(c)}
    BY <1>3, MessageParts
  <1>4. CASE phase[c] = "end" /\ m \in {Complete(c), EndRsp(c)}
    BY <1>4, MessageParts
  <1> QED BY <1>1, <1>2, <1>3, <1>4 DEF Fits

LEMMA NothingOutstanding ==
    ASSUME NEW c, OneAtATime(c), phase[c] \in {"idle", "check", "apply"}
    PROVE  Outstanding(c) = {}
  BY DEF OneAtATime, Fits

(* When all that was under way is taken, what is sent is under way ... *)
LEMMA NewOutstanding ==
    ASSUME NEW c, NEW taken, NEW r, Outstanding(c) \subseteq taken,
           r.dev = c, r.type \in SessionTypes,
           net' = (net \ taken) \cup {r}
    PROVE  Outstanding(c)' = {r}
  BY DEF Outstanding, InFlight

LEMMA NoneOutstanding ==
    ASSUME NEW c, NEW taken, NEW sent, Outstanding(c) \subseteq taken,
           net' = (net \ taken) \cup sent,
           \A m \in sent : m.type \notin SessionTypes
    PROVE  Outstanding(c)' = {}
  BY DEF Outstanding, InFlight

(* ... and messages of other devices, or outside a session, do not matter. *)
LEMMA SameOutstanding ==
    ASSUME NEW c, NEW taken, NEW sent, net' = (net \ taken) \cup sent,
           \A m \in taken \cup sent : m.dev # c \/ m.type \notin SessionTypes
    PROVE  Outstanding(c)' = Outstanding(c)
  BY DEF Outstanding, InFlight

(* Nobody reminds the server but a device that comes back. *)
LEMMA StillForgotten ==
    ASSUME Forgotten, ~imageAdded',
           NEW taken, NEW sent, net' = (net \ taken) \cup sent,
           \A m \in sent : m.type # "annce"
    PROVE  Forgotten'
  BY MessageParts DEF Forgotten

(* A step that leaves the device and its messages alone.  It may add the   *)
(* image to the server's table, but does not touch the counter.            *)
LEMMA Unaffected ==
    ASSUME NEW c \in Clients, InSession(c), UNCHANGED <<clientVars, phase, pos>>,
           Outstanding(c)' = Outstanding(c),
           UNCHANGED s_ota_image_offset, imageAdded => imageAdded',
           Forgotten => Forgotten'
    PROVE  InSession(c)'
  <1>1. OneAtATime(c)'
    BY DEF InSession, OneAtATime, Fits, BlockReq, BlockRsp
  <1>2. Served(c)'
    BY DEF InSession, Served, InStep, After, BlockLen, clientVars, ramVars
  <1>3. Downloaded(c)'
    BY DEF InSession, Downloaded, Holds, clientVars, ramVars
  <1> QED BY <1>1, <1>2, <1>3 DEF InSession

(* The device is waiting for what was just sent ... *)
LEMMA Sent ==
    ASSUME NEW c, NEW r, Outstanding(c)' = {r}, Fits(c, r)', Downloaded(c)',
           \/ Forgotten'
           \/ InStep(c, r)' /\ (phase'[c] = "query" => offset'[c] = 0)
    PROVE  InSession(c)'
  <1>1. OneAtATime(c)'
    BY DEF OneAtATime
  <1>2. phase'[c] # "idle"
    BY DEF Fits
  <1>3. Served(c)'
    BY <1>2 DEF Served
  <1> QED BY <1>1, <1>3 DEF InSession

(* ... or for nothing. *)
LEMMA Rested ==
    ASSUME NEW c, Outstanding(c)' = {}, Downloaded(c)',
           \/ Forgotten'
           \/ /\ phase'[c] \in {"idle", "check", "apply"}
              /\ phase'[c] = "idle" => offset'[c] = 0
    PROVE  InSession(c)'
  <1>1. OneAtATime(c)'
    BY DEF OneAtATime
  <1>2. Served(c)'
    BY DEF Served
  <1> QED BY <1>1, <1>2 DEF InSession

(* What the faults of OneDevice exclude. *)
LEMMA OnlyRestarts ==
    ASSUME OneDevice
    PROVE  /\ ~Fault("loss") /\ ~Fault("timeout")
           /\ ~Fault("flash") /\ ~Fault("garbled")
  BY DEF OneDevice, Fault

-----------------------------------------------------------------------------
(* The server answers. *)
LEMMA AnnceKeeps ==
    ASSUME OneDevice, NEW c \in Clients, InSession(c),
           NEW d \in Devices, RecvAnnce(d)
    PROVE  InSession(c)'
  <1>1. PICK sent \in SUBSET {Notify(e) : e \in Clients} : Reply(Annce(d), sent)
    BY DEF RecvAnnce
  <1>2. \A m \in {Annce(d)} \cup sent : m.type \notin SessionTypes
    BY <1>1, MessageParts DEF SessionTypes
  <1>3. Outstanding(c)' = Outstanding(c)
    BY <1>1, <1>2, SameOutstanding DEF Reply
  <1>4. ~Forgotten
    BY DEF RecvAnnce, Forgotten
  <1>5. /\ UNCHANGED <<clientVars, phase, pos>>
        /\ UNCHANGED s_ota_image_offset
    BY DEF RecvAnnce, DeviceAnnce
  <1>6. imageAdded => imageAdded'
    BY DEF RecvAnnce, DeviceAnnce
  <1> QED BY <1>3, <1>4, <1>5, <1>6, Unaffected

LEMMA ForeignQueryKeeps ==
    ASSUME OneDevice, NEW c \in Clients, InSession(c),
           NEW d \in Foreign, RecvQuery(d) \/ ForeignQuery(d)
    PROVE  InSession(c)'
  <1>1. d \notin Clients
    BY DeviceAssumption
  <1>2. PICK taken \in SUBSET {Query(d)}, sent \in SUBSET {Query(d)} :
           net' = (net \ taken) \cup sent
    <2>1. CASE RecvQuery(d)
      <3>1. net' = (net \ {Query(d)}) \cup {}
        BY <1>1, <2>1 DEF RecvQuery, Reply
      <3> QED BY <3>1
    <2>2. CASE ForeignQuery(d)
      <3>1. net' = (net \ {}) \cup {Query(d)}
        BY <2>2 DEF ForeignQuery
      <3> QED BY <3>1
    <2> QED BY <2>1, <2>2
  <1>3. \A m \in taken \cup sent : m.dev # c /\ m.type = "query"
    BY <1>1, MessageParts
  <1>4. Outstanding(c)' = Outstanding(c)
    BY <1>2, <1>3, SameOutstanding
  <1>5. /\ UNCHANGED <<clientVars, phase, pos>>
        /\ UNCHANGED s_ota_image_offset
    BY <1>1 DEF RecvQuery, ForeignQuery, QueryImage, QueryAccepted, serverVars
  <1>6. imageAdded' = imageAdded
    BY DEF RecvQuery, ForeignQuery, QueryImage, serverVars
  <1>7. Forgotten => Forgotten'
    BY <1>2, <1>3, <1>6, StillForgotten DEF Forgotten
  <1> QED BY <1>4, <1>5, <1>6, <1>7, Unaffected

LEMMA QueryKeeps ==
    ASSUME OneDevice, NEW c \in Clients, InSession(c), RecvQuery(c)
    PROVE  InSession(c)'
  <1>1. Query(c) \in Outstanding(c)
    BY MessageParts DEF RecvQuery, Outstanding, InFlight, SessionTypes
  <1>2. phase[c] = "query" /\ Outstanding(c) \subseteq {Query(c)}
    BY <1>1, WhatIsOutstanding, MessageParts DEF InSession, OneAtATime
  <1>3. s_ota_image_offset' \in {0, s_ota_image_offset} /\ imageAdded' = imageAdded
    BY DEF RecvQuery, QueryImage
  <1>4. PICK status \in BOOLEAN :
           /\ CallbackStatus(status)
           /\ QueryImage(status, c \in Clients)
           /\ Reply(Query(c),
                    {QueryRsp(c, /\ imageAdded
                                 /\ QueryAccepted(status, TRUE)
                                 /\ RunningFileVersion(c)
                                      < OTA_UPGRADE_FILE_VERSION)})
    BY DEF RecvQuery
  <1>5. status
    BY <1>4, OnlyRestarts DEF CallbackStatus
  <1>6. s_ota_image_offset' = 0
    BY <1>4, <1>5 DEF QueryImage, QueryAccepted
  <1>7. PICK r \in {Offer(c), Refusal(c)} :
           net' = (net \ {Query(c)}) \cup {r} /\ (r = Offer(c) => imageAdded)
    <2>1. CASE imageAdded
      BY <1>4, <1>5, <2>1
      DEF Reply, QueryAccepted, RunningFileVersion, OTA_UPGRADE_FILE_VERSION,
          Offer, Refusal
    <2>2. CASE ~imageAdded
      <3>1. net' = (net \ {Query(c)}) \cup {Refusal(c)}
        BY <1>4, <2>2 DEF Reply, Refusal
      <3> QED BY <3>1, MessageParts
    <2> QED BY <2>1, <2>2
  <1>8. Outstanding(c)' = {r}
    <2>1. r.dev = c /\ r.type \in SessionTypes
      BY <1>7, MessageParts DEF SessionTypes
    <2> QED BY <1>2, <1>7, <2>1, NewOutstanding
  <1>9. Fits(c, r)'
    BY <1>2, <1>7 DEF Fits, RecvQuery
  <1>10. UNCHANGED <<clientVars, phase, pos>>
    BY DEF RecvQuery
  <1>11. Forgotten => Forgotten'
    <2>1. \A m \in {r} : m.type # "annce"
      BY <1>7, MessageParts
    <2>2. Forgotten => ~imageAdded'
      BY <1>3 DEF Forgotten
    <2> QED BY <1>7, <2>1, <2>2, StillForgotten
  <1>12. ~Forgotten => offset[c] = 0
    BY <1>2 DEF InSession, Served
  <1>13. r = Offer(c) => ~Forgotten
    BY <1>7 DEF Forgotten
  <1>14. InStep(c, r)'
    BY <1>3, <1>6, <1>7, MessageParts DEF InStep
  <1>15. Downloaded(c)'
    BY <1>2, <1>7, <1>8, <1>10, <1>12, <1>13
    DEF Downloaded, clientVars, ramVars
  <1> QED
    BY <1>8, <1>9, <1>10, <1>11, <1>12, <1>14, <1>15, Sent
    DEF clientVars, ramVars

LEMMA BlockReqKeeps ==
    ASSUME OneDevice, NEW c \in Clients, InSession(c), RecvBlockReq(c)
    PROVE  InSession(c)'
  <1>1. PICK m \in InFlight(c, {"blockReq"}) :
           IF imageAdded
           THEN /\ NextData(BlockLen(m.pos))
                /\ Reply(m, {BlockRsp(c, m.pos, s_ota_image_offset)})
           ELSE /\ Reply(m, {NoImage(c)})
                /\ UNCHANGED serverVars
    BY DEF RecvBlockReq
  <1>2. m \in Outstanding(c) /\ m.type = "blockReq"
    BY DEF Outstanding, InFlight, SessionTypes
  <1>3. /\ phase[c] = "wait" /\ m.pos = pos[c]
        /\ Outstanding(c) \subseteq {m}
    BY <1>2, WhatIsOutstanding, MessageParts DEF InSession, OneAtATime
  <1>4. Forgotten \/ (imageAdded /\ s_ota_image_offset = pos[c])
    BY <1>2 DEF InSession, Served, InStep
  <1>5. UNCHANGED <<clientVars, phase, pos>>
    BY DEF RecvBlockReq
  <1>6. ASSUME NEW r, r.type \in SessionTypes, r.dev = c, r # Offer(c),
               net' = (net \ {m}) \cup {r}
        PROVE  Outstanding(c)' = {r} /\ Downloaded(c)'
    <2>1. Outstanding(c)' = {r}
      BY <1>3, <1>6, NewOutstanding
    <2>2. Downloaded(c)'
      BY <1>3, <1>5, <1>6, <2>1
      DEF InSession, Downloaded, Holds, clientVars, ramVars
    <2> QED BY <2>1, <2>2
  <1>7. CASE imageAdded
    <2> PICK r : r = BlockRsp(c, pos[c], pos[c])
      OBVIOUS
    <2>1. /\ s_ota_image_offset = pos[c]
          /\ r.type = "blockRsp" /\ r.dev = c /\ r # Offer(c)
      BY <1>4, <1>7, MessageParts DEF Forgotten
    <2>2. Outstanding(c)' = {r} /\ Downloaded(c)'
      <3>1. net' = (net \ {m}) \cup {r}
        BY <1>1, <1>3, <1>7, <2>1 DEF Reply
      <3> QED BY <1>6, <2>1, <3>1 DEF SessionTypes
    <2>3. Fits(c, r)'
      BY <1>3, <1>5 DEF Fits, BlockRsp
    <2>4. s_ota_image_offset' = After(pos[c]) /\ imageAdded' = imageAdded
      BY <1>1, <1>3, <1>7, <2>1 DEF NextData, After
    <2>5. InStep(c, r)'
      BY <1>5, <1>7, <2>1, <2>4 DEF InStep, After, BlockLen
    <2> QED BY <1>3, <1>5, <2>2, <2>3, <2>5, Sent
  <1>8. CASE ~imageAdded
    <2>1. net' = (net \ {m}) \cup {NoImage(c)}
      BY <1>1, <1>8 DEF Reply
    <2>2. Outstanding(c)' = {NoImage(c)} /\ Downloaded(c)'
      BY <1>6, <2>1, MessageParts DEF SessionTypes
    <2>3. Fits(c, NoImage(c))'
      BY <1>3, <1>5 DEF Fits
    <2>4. Forgotten'
      <3>1. Forgotten /\ ~imageAdded'
        BY <1>1, <1>4, <1>8 DEF serverVars
      <3>2. \A x \in {NoImage(c)} : x.type # "annce"
        BY MessageParts
      <3> QED BY <2>1, <3>1, <3>2, StillForgotten
    <2> QED BY <2>2, <2>3, <2>4, Sent
  <1> QED BY <1>7, <1>8

LEMMA EndReqKeeps ==
    ASSUME OneDevice, NEW c \in Clients, InSession(c), RecvEndReq(c)
    PROVE  InSession(c)'
  <1>1. PICK m \in InFlight(c, {"endReq"}) :
           Reply(m, IF m.ok THEN {EndRsp(c)} ELSE {})
    BY DEF RecvEndReq
  <1>2. m \in Outstanding(c) /\ m.type = "endReq"
    BY DEF Outstanding, InFlight, SessionTypes
  <1>3. /\ phase[c] = "end" /\ m = Complete(c)
        /\ Outstanding(c) \subseteq {m}
    BY <1>2, WhatIsOutstanding DEF InSession, OneAtATime
  <1>4. net' = (net \ {m}) \cup {EndRsp(c)}
    BY <1>1, <1>3, MessageParts DEF Reply
  <1>5. Outstanding(c)' = {EndRsp(c)}
    <2>1. EndRsp(c).dev = c /\ EndRsp(c).type \in SessionTypes
      BY MessageParts DEF SessionTypes
    <2> QED BY <1>3, <1>4, <2>1, NewOutstanding
  <1>6. UNCHANGED <<clientVars, phase, pos>> /\ imageAdded' = imageAdded
    BY DEF RecvEndReq, ServerStatus
  <1>7. Fits(c, EndRsp(c))' /\ InStep(c, EndRsp(c))'
    BY <1>3, <1>6, MessageParts DEF Fits, InStep
  <1>8. Downloaded(c)'
    BY <1>3, <1>5, <1>6, MessageParts
    DEF InSession, Downloaded, Holds, clientVars, ramVars
  <1> QED BY <1>3, <1>5, <1>6, <1>7, <1>8, Sent

(* A restart of the server costs the device its request. *)
LEMMA ServerRestartKeeps ==
    ASSUME OneDevice, NEW c \in Clients, InSession(c), ServerRestart
    PROVE  InSession(c)'
  <1>1. net' = {m \in net : m.type \in ToClient} /\ ~imageAdded'
    BY DEF ServerRestart, ServerReboot
  <1>2. Forgotten'
    BY <1>1, MessageParts DEF Forgotten, ToClient
  <1>3. Outstanding(c)' \subseteq Outstanding(c)
    BY <1>1 DEF Outstanding, InFlight
  <1>4. UNCHANGED <<clientVars, phase, pos>>
    BY DEF ServerRestart
  <1>5. OneAtATime(c)'
    BY <1>3, <1>4 DEF InSession, OneAtATime, Fits, BlockReq, BlockRsp
  <1>6. Served(c)'
    BY <1>2 DEF Served
  <1>7. Downloaded(c)'
    BY <1>3, <1>4 DEF InSession, Downloaded, Holds, clientVars, ramVars
  <1> QED BY <1>5, <1>6, <1>7 DEF InSession

-----------------------------------------------------------------------------
(* The device's stack asks. *)
LEMMA AsksAnew ==
    ASSUME OneDevice, NEW c \in Clients, TypeOK, InSession(c),
           RecvNotify(c) \/ QueryTimer(c)
    PROVE  InSession(c)'
  <1>1. /\ phase[c] = "idle" /\ phase'[c] = "query"
        /\ UNCHANGED <<serverVars, clientVars, pos>>
    BY DEF RecvNotify, QueryTimer, StartQuery, Goto, TypeOK
  <1>2. PICK taken \in SUBSET {Notify(c)} :
           net' = (net \ taken) \cup {Query(c)}
    <2>1. CASE RecvNotify(c)
      BY <2>1 DEF RecvNotify, Reply
    <2>2. CASE QueryTimer(c)
      <3>1. net' = (net \ {}) \cup {Query(c)}
        BY <2>2 DEF QueryTimer
      <3> QED BY <3>1
    <2> QED BY <2>1, <2>2
  <1>3. Outstanding(c) = {}
    BY <1>1, NothingOutstanding DEF InSession
  <1>4. Query(c).dev = c /\ Query(c).type \in SessionTypes
    BY MessageParts DEF SessionTypes
  <1>5. Outstanding(c)' = {Query(c)}
    BY <1>2, <1>3, <1>4, NewOutstanding
  <1>6. Fits(c, Query(c))'
    BY <1>1 DEF Fits
  <1>7. Downloaded(c)'
    BY <1>1, <1>5, MessageParts DEF Downloaded
  <1>8. Forgotten => Forgotten'
    <2>1. \A m \in {Query(c)} : m.type # "annce"
      BY MessageParts
    <2>2. Forgotten => ~imageAdded'
      BY <1>1 DEF Forgotten, serverVars
    <2> QED BY <1>2, <2>1, <2>2, StillForgotten
  <1>9. ~Forgotten => InStep(c, Query(c))' /\ offset'[c] = 0
    BY <1>1, MessageParts
    DEF InSession, Served, InStep, clientVars, ramVars
  <1> QED BY <1>5, <1>6, <1>7, <1>8, <1>9, Sent

(* It repeats a request or gives up only when the server was restarted.    *)
LEMMA TimeOutMeansForgotten ==
    ASSUME OneDevice, NEW c \in Clients, InSession(c), TimeOut(c)
    PROVE  /\ Forgotten /\ Outstanding(c) = {}
           /\ phase[c] \in {"query", "wait", "end"}
  <1>1. InFlight(c, AnswerTypes(c)) = {}
    BY OnlyRestarts DEF TimeOut
  <1>2. phase[c] \in {"query", "wait", "end"}
    BY DEF TimeOut
  <1>3. ASSUME NEW m \in Outstanding(c)
        PROVE  FALSE
    <2>1. m \in net /\ m.dev = c /\ Fits(c, m)
      BY DEF Outstanding, InFlight, InSession, OneAtATime
    <2>2. m.type \in AnswerTypes(c)
      <3>1. CASE phase[c] = "query"
        BY <2>1, <3>1, MessageParts DEF Fits, AnswerTypes
      <3>2. CASE phase[c] = "wait"
        BY <2>1, <3>2, MessageParts DEF Fits, AnswerTypes
      <3>3. CASE phase[c] = "end"
        BY <2>1, <3>3, MessageParts DEF Fits, AnswerTypes
      <3> QED BY <1>2, <3>1, <3>2, <3>3
    <2> QED BY <1>1, <2>1, <2>2 DEF InFlight
  <1> QED BY <1>2, <1>3 DEF InSession, Served

LEMMA TimeOutKeeps ==
    ASSUME OneDevice, NEW c \in Clients, TypeOK, InSession(c),
           RepeatRequest(c) \/ GiveUp(c)
    PROVE  InSession(c)'
  <1>1. /\ Forgotten /\ Outstanding(c) = {}
        /\ phase[c] \in {"query", "wait", "end"}
    BY TimeOutMeansForgotten DEF RepeatRequest, GiveUp
  <1>2. UNCHANGED <<serverVars, clientVars, pos>>
    BY DEF RepeatRequest, GiveUp
  <1>3. CASE RepeatRequest(c)
    <2>1. PICK r : /\ net' = net \cup {r}
                   /\ r = CASE phase[c] = "query" -> Query(c)
                            [] phase[c] = "wait"  -> BlockReq(c, pos[c])
                            [] phase[c] = "end"   -> EndReq(c, TRUE)
      BY <1>3 DEF RepeatRequest
    <2>2. \/ phase[c] = "query" /\ r = Query(c)
          \/ phase[c] = "wait" /\ r = BlockReq(c, pos[c])
          \/ phase[c] = "end" /\ r = Complete(c)
      BY <1>1, <2>1 DEF Complete
    <2>3. r.dev = c /\ r.type \in SessionTypes /\ r.type # "annce" /\ r # Offer(c)
      BY <2>2, MessageParts DEF SessionTypes
    <2>4. Outstanding(c)' = {r}
      <3>1. net' = (net \ {}) \cup {r}
        BY <2>1
      <3> QED BY <1>1, <2>3, <3>1, NewOutstanding
    <2>5. phase' = phase /\ pos' = pos
      BY <1>3 DEF RepeatRequest
    <2>6. Fits(c, r)'
      BY <2>2, <2>5 DEF Fits, BlockReq
    <2>7. Downloaded(c)'
      BY <1>2, <2>3, <2>4, <2>5
      DEF InSession, Downloaded, Holds, clientVars, ramVars
    <2>8. Forgotten'
      <3>1. net' = (net \ {}) \cup {r} /\ ~imageAdded'
        BY <1>1, <1>2, <2>1 DEF Forgotten, serverVars
      <3>2. \A m \in {r} : m.type # "annce"
        BY <2>3
      <3> QED BY <1>1, <3>1, <3>2, StillForgotten
    <2> QED BY <2>4, <2>6, <2>7, <2>8, Sent
  <1>4. CASE GiveUp(c)
    <2>1. phase'[c] = "idle" /\ net' = net
      BY <1>4 DEF GiveUp, Goto, TypeOK
    <2>2. Outstanding(c)' = {} /\ Forgotten'
      BY <1>1, <1>2, <2>1 DEF Outstanding, InFlight, Forgotten, serverVars
    <2>3. Downloaded(c)'
      BY <2>1, <2>2 DEF Downloaded
    <2> QED BY <2>2, <2>3, Rested
  <1> QED BY <1>3, <1>4

(* It waits for everything that is sent to it but notifications. *)
LEMMA DropStaleKeeps ==
    ASSUME OneDevice, NEW c \in Clients, InSession(c), DropStale(c)
    PROVE  InSession(c)'
  <1>1. PICK m \in InFlight(c, ToClient) :
           ~Expected(c, m) /\ net' = net \ {m}
    BY DEF DropStale
  <1>2. m.type \notin SessionTypes /\ m.type # "annce"
    <2>1. m \in Outstanding(c) => Fits(c, m)
      BY DEF InSession, OneAtATime
    <2>2. m \notin Outstanding(c)
      BY <1>1, <2>1, MessageParts
      DEF Fits, Expected, InFlight, ToClient
    <2> QED BY <2>2 DEF Outstanding, InFlight, ToClient
  <1>3. Outstanding(c)' = Outstanding(c)
    BY <1>1, <1>2 DEF Outstanding, InFlight
  <1>4. UNCHANGED <<serverVars, clientVars, phase, pos>>
    BY DEF DropStale
  <1>5. Forgotten => Forgotten'
    BY <1>1, <1>4 DEF Forgotten, serverVars
  <1> QED BY <1>3, <1>4, <1>5, Unaffected DEF serverVars

-----------------------------------------------------------------------------
(* The callbacks.  After the last block, or another one, the stack goes on *)
(* from where the counters are.                                            *)
LEMMA BlockRequested ==
    ASSUME TypeOK, NEW c \in Clients, NEW m, NEW next \in Nat,
           Outstanding(c) \subseteq {m},
           next <= ImageSize, RequestBlock(c, next, m), Holds(c, next)',
           next = ImageSize => total_size'[c] = ImageSize,
           imageAdded' = imageAdded,
           Forgotten \/ (imageAdded /\ (next < ImageSize => s_ota_image_offset' = next))
    PROVE  InSession(c)'
  <1>1. pos'[c] = next
    BY DEF RequestBlock, TypeOK
  <1>2. CASE next < ImageSize
    <2> PICK r : r = BlockReq(c, next)
      OBVIOUS
    <2>0. r.type = "blockReq" /\ r.dev = c
      BY DEF BlockReq
    <2>1. /\ r.type = "blockReq" /\ r.dev = c /\ r # Offer(c)
          /\ r.type \in SessionTypes
      BY <2>0, MessageParts DEF SessionTypes
    <2>2. phase'[c] = "wait" /\ net' = (net \ {m}) \cup {r}
      BY <1>2 DEF RequestBlock, Goto, Reply, TypeOK
    <2>3. Outstanding(c)' = {r}
      BY <2>1, <2>2, NewOutstanding
    <2>4. Fits(c, r)'
      BY <1>1, <2>2 DEF Fits, BlockReq
    <2>5. Downloaded(c)'
      BY <1>1, <1>2, <2>1, <2>2, <2>3 DEF Downloaded, Holds
    <2>6. Forgotten => Forgotten'
      <3>1. Forgotten => ~imageAdded'
        BY DEF Forgotten
      <3>2. \A x \in {r} : x.type # "annce"
        BY <2>1
      <3> QED BY <2>2, <3>1, <3>2, StillForgotten
    <2>7. ~Forgotten => InStep(c, r)'
      BY <1>1, <1>2, <2>1 DEF InStep
    <2> QED BY <2>2, <2>3, <2>4, <2>5, <2>6, <2>7, Sent
  <1>3. CASE next = ImageSize
    <2>1. phase'[c] = "check" /\ net' = net \ {m}
      BY <1>3, ImageSizeAssumption DEF RequestBlock, Goto, Reply, TypeOK
    <2>2. Outstanding(c)' = {}
      BY <2>1 DEF Outstanding, InFlight
    <2>3. Downloaded(c)'
      BY <1>3, <2>1, <2>2 DEF Downloaded, Holds
    <2> QED BY <2>1, <2>2, <2>3, Rested
  <1> QED BY <1>2, <1>3, ImageSizeAssumption

(* START finds the counter of the device at 0, because only a restart lets *)
(* a session fail that had begun.                                          *)
LEMMA StartKeeps ==
    ASSUME OneDevice, NEW c \in Clients, TypeOK, InSession(c), StartDownload(c)
    PROVE  InSession(c)'
  <1>1. /\ UpgradeStart(c) /\ UNCHANGED serverVars
        /\ RequestBlock(c, 0, Offer(c)) /\ Offer(c) \in net
    BY OnlyRestarts DEF StartDownload, Offer
  <1>2. Offer(c) \in Outstanding(c)
    BY <1>1, MessageParts DEF Outstanding, InFlight, SessionTypes
  <1>3. /\ Outstanding(c) \subseteq {Offer(c)} /\ offset[c] = 0
        /\ Forgotten \/ (imageAdded /\ s_ota_image_offset = 0)
    BY <1>2, MessageParts
    DEF InSession, OneAtATime, Downloaded, Served, InStep
  <1>4. NextUpdate(running[c]) \in Slots
    BY NextUpdateAside DEF TypeOK, ClientTypeOK
  <1>5. Holds(c, 0)'
    BY <1>1, <1>3, <1>4, NoSlotIsNone
    DEF UpgradeStart, Holds, Blank, TypeOK, ClientTypeOK
  <1> QED
    BY <1>1, <1>3, <1>5, BlockRequested, ImageSizeAssumption DEF serverVars

(* RECEIVE counts and writes the block that was asked for. *)
LEMMA BlockKeeps ==
    ASSUME OneDevice, NEW c \in Clients, TypeOK, InSession(c), RecvBlock(c)
    PROVE  InSession(c)'
  <1> DEFINE n == BlockLen(pos[c])
  <1>1. phase[c] = "wait" /\ UNCHANGED serverVars
    BY DEF RecvBlock
  <1>2. Holds(c, pos[c]) /\ pos[c] < ImageSize /\ pos[c] \in 0 .. ImageSize
    BY <1>1 DEF InSession, Downloaded, TypeOK
  <1>3. n \in Nat /\ pos[c] + n \in 0 .. ImageSize
    BY <1>2, BlockLenType
  <1>4. PICK m \in InFlight(c, {"blockRsp"}) :
           /\ UpgradeReceive(c, m.from, n)
           /\ RequestBlock(c, pos[c] + n, m)
    BY <1>2, OnlyRestarts DEF RecvBlock, Holds
  <1>5. m \in Outstanding(c) /\ m.type = "blockRsp"
    BY DEF Outstanding, InFlight, SessionTypes
  <1>6. m.from = pos[c] /\ Outstanding(c) \subseteq {m}
    BY <1>5, WhatIsOutstanding, MessageParts DEF InSession, OneAtATime
  <1>7. Forgotten \/ (imageAdded /\ s_ota_image_offset = After(pos[c]))
    BY <1>5 DEF InSession, Served, InStep
  <1> DEFINE h == s_ota_handle[c]
             x == flash[c][h]
             y == Program(x, pos[c], n)
  <1>8. h \in Slots /\ x.len = pos[c] /\ x.intact /\ offset[c] = pos[c]
    BY <1>2 DEF Holds, TypeOK, ClientTypeOK
  <1>9. y.len = pos[c] + n /\ y.intact
    BY <1>8 DEF Program
  <1>10. s_ota_handle' = s_ota_handle /\ flash'[c][h] = y
    BY <1>4, <1>6, <1>8 DEF UpgradeReceive, TypeOK, ClientTypeOK
  <1>11. total_size'[c] = ImageSize /\ offset'[c] = (pos[c] + n) % Modulus
    BY <1>4, <1>8 DEF UpgradeReceive, Count, TypeOK, ClientTypeOK
  <1>12. offset'[c] = pos[c] + n
    BY <1>3, <1>11, ModulusAssumption, ImageSizeAssumption
  <1> PICK next : next = pos[c] + n
    OBVIOUS
  <1>13. Holds(c, next)'
    BY <1>8, <1>9, <1>10, <1>12, NoSlotIsNone DEF Holds
  <1>14. next \in Nat /\ next <= ImageSize
    BY <1>3, ImageSizeAssumption
  <1>15. Forgotten \/ (imageAdded /\ (next < ImageSize => s_ota_image_offset' = next))
    BY <1>1, <1>3, <1>7, ImageSizeAssumption DEF After, serverVars
  <1>16. RequestBlock(c, next, m) /\ imageAdded' = imageAdded
    BY <1>1, <1>4 DEF serverVars
  <1> QED
    BY <1>6, <1>11, <1>13, <1>14, <1>15, <1>16, BlockRequested

LEMMA AnswerKeeps ==
    ASSUME OneDevice, NEW c \in Clients, TypeOK, InSession(c),
           QueryRefused(c) \/ RecvNoImage(c) \/ RecvEndRsp(c)
    PROVE  InSession(c)'
  <1>1. PICK m \in {Refusal(c), NoImage(c), EndRsp(c)} :
           /\ m \in net /\ net' = net \ {m}
           /\ m = Refusal(c) => phase[c] = "query"
           /\ phase'[c] = IF m = EndRsp(c) THEN "apply" ELSE "idle"
           /\ m = EndRsp(c) => phase[c] = "end"
    <2>1. CASE QueryRefused(c)
      <3>1. /\ Refusal(c) \in net /\ net' = net \ {Refusal(c)}
            /\ phase[c] = "query" /\ phase'[c] = "idle"
        BY <2>1 DEF QueryRefused, Reply, Goto, TypeOK, Refusal
      <3> QED BY <3>1, MessageParts
    <2>2. CASE RecvNoImage(c)
      <3>1. /\ NoImage(c) \in net /\ net' = net \ {NoImage(c)}
            /\ phase'[c] = "idle"
        BY <2>2 DEF RecvNoImage, Reply, Goto, TypeOK
      <3> QED BY <3>1, MessageParts
    <2>3. CASE RecvEndRsp(c)
      <3>1. /\ EndRsp(c) \in net /\ net' = net \ {EndRsp(c)}
            /\ phase[c] = "end" /\ phase'[c] = "apply"
        BY <2>3 DEF RecvEndRsp, Reply, Goto, TypeOK
      <3> QED BY <3>1, MessageParts
    <2> QED BY <2>1, <2>2, <2>3
  <1>2. m.dev = c /\ m.type \in {"queryRsp", "noImage", "endRsp"}
    BY <1>1, MessageParts
  <1>3. m \in Outstanding(c)
    BY <1>1, <1>2 DEF Outstanding, InFlight, SessionTypes
  <1>4. Outstanding(c)' = {}
    BY <1>1, <1>3 DEF InSession, OneAtATime, Outstanding, InFlight
  <1>5. UNCHANGED <<serverVars, clientVars, pos>>
    BY DEF QueryRefused, RecvNoImage, RecvEndRsp, UpgradeApply
  <1>6. Downloaded(c)'
    BY <1>1, <1>4, <1>5
    DEF InSession, Downloaded, Holds, clientVars, ramVars
  <1>7. Forgotten => Forgotten'
    BY <1>1, <1>5 DEF Forgotten, serverVars
  <1>8. ~Forgotten => (phase'[c] = "idle" => offset'[c] = 0)
    BY <1>1, <1>3, <1>5, MessageParts
    DEF InSession, Served, InStep, clientVars, ramVars
  <1> QED BY <1>1, <1>4, <1>6, <1>7, <1>8, Rested

(* CHECK passes: what was counted is the image's size. *)
LEMMA CheckKeeps ==
    ASSUME OneDevice, NEW c \in Clients, TypeOK, InSession(c), CheckImage(c)
    PROVE  InSession(c)'
  <1>1. phase[c] = "check" /\ Holds(c, ImageSize) /\ total_size[c] = ImageSize
    BY DEF CheckImage, InSession, Downloaded
  <1>2. /\ phase'[c] = "end" /\ net' = net \cup {Complete(c)}
        /\ UNCHANGED <<serverVars, clientVars, pos>>
    BY <1>1 DEF CheckImage, CheckPasses, UpgradeCheck, Holds, Goto, Complete, TypeOK
  <1>3. Outstanding(c) = {}
    BY <1>1, NothingOutstanding DEF InSession
  <1>4. /\ Complete(c).dev = c /\ Complete(c).type = "endReq"
        /\ Complete(c) # Offer(c)
    BY MessageParts
  <1>5. Outstanding(c)' = {Complete(c)}
    BY <1>2, <1>3, <1>4 DEF Outstanding, InFlight, SessionTypes
  <1>6. Fits(c, Complete(c))' /\ InStep(c, Complete(c))'
    BY <1>2, <1>4 DEF Fits, InStep
  <1>7. Downloaded(c)'
    BY <1>1, <1>2, <1>4, <1>5 DEF Downloaded, Holds, clientVars, ramVars
  <1> QED BY <1>2, <1>5, <1>6, <1>7, Sent

(* A device that comes back starts from nothing, as does its session. *)
LEMMA ComeBackKeeps ==
    ASSUME NEW c \in Clients, TypeOK, ComeBack(c), Reboot(c)
    PROVE  InSession(c)'
  <1>1. phase'[c] = "idle" /\ offset'[c] = 0
    BY DEF ComeBack, Reboot, Goto, TypeOK, ClientTypeOK
  <1>2. Outstanding(c)' = {}
    BY MessageParts
    DEF ComeBack, Outstanding, InFlight, SessionTypes, ToServer, ToClient
  <1>3. Downloaded(c)'
    BY <1>1, <1>2 DEF Downloaded
  <1> QED BY <1>1, <1>2, <1>3, Rested

(* FINISH restarts the device: esp_ota_end finds a complete image. *)
LEMMA FinishMeansFinished ==
    ASSUME OneDevice, NEW c \in Clients, InSession(c), Finish(c)
    PROVE  UpgradeFinish(c) /\ ComeBack(c)
  <1>1. OtaEndSucceeds(c)
    BY ImageSizeAssumption
    DEF Finish, InSession, Downloaded, Holds, OtaEndSucceeds, Bootable
  <1> QED BY <1>1, OnlyRestarts DEF Finish

-----------------------------------------------------------------------------
(* Together. *)
LEMMA SessionInvInit == Init => SessionInv
  <1> SUFFICES ASSUME Init, NEW c \in Clients
               PROVE  InSession(c)
    BY DEF SessionInv
  <1>1. phase[c] = "idle" /\ offset[c] = 0
    BY DEF Init, ClientInit
  <1>2. Outstanding(c) = {}
    BY MessageParts DEF Init, Outstanding, InFlight, SessionTypes
  <1> QED
    BY <1>1, <1>2 DEF InSession, OneAtATime, Served, Downloaded

LEMMA SessionInvStep ==
    ASSUME OneDevice, TypeOK, SessionInv, [Next]_vars
    PROVE  SessionInv'
  <1> SUFFICES ASSUME NEW c \in Clients
               PROVE  InSession(c)'
    BY DEF SessionInv
  <1>1. InSession(c) /\ \A d \in Clients : d = c
    BY DEF SessionInv, OneDevice
  <1>2. ASSUME NEW d \in Devices, RecvAnnce(d) \/ RecvQuery(d)
        PROVE  InSession(c)'
    BY <1>1, <1>2, AnnceKeeps, QueryKeeps, ForeignQueryKeeps DEF Devices
  <1>3. ASSUME NEW d \in Clients, RecvBlockReq(d) \/ RecvEndReq(d)
        PROVE  InSession(c)'
    BY <1>1, <1>3, BlockReqKeeps, EndReqKeeps
  <1>4. CASE ServerRestart
    BY <1>1, <1>4, ServerRestartKeeps
  <1>5. ASSUME NEW d \in Clients, StackStep(d) \/ GiveUp(d)
        PROVE  InSession(c)'
    BY <1>1, <1>5, AsksAnew, TimeOutKeeps, DropStaleKeeps DEF StackStep
  <1>6. ASSUME NEW d \in Clients, CallbackStep(d)
        PROVE  InSession(c)'
    <2>1. CASE Finish(d)
      BY <1>1, <2>1, FinishMeansFinished, ComeBackKeeps DEF UpgradeFinish
    <2> QED
      BY <1>1, <1>6, <2>1, StartKeeps, BlockKeeps, AnswerKeeps, CheckKeeps
      DEF CallbackStep
  <1>7. ASSUME NEW d \in Clients, ClientRestart(d)
        PROVE  InSession(c)'
    BY <1>1, <1>7, ComeBackKeeps DEF ClientRestart, PowerCycle
  <1>8. CASE \E d \in Foreign : ForeignQuery(d)
    BY <1>1, <1>8, ForeignQueryKeeps
  <1>9. ~LoseMessage
    BY OnlyRestarts DEF LoseMessage
  <1>10. CASE UNCHANGED vars
    <2>1. UNCHANGED <<serverVars, clientVars, phase, pos, net>>
      BY <1>10 DEF vars, stackVars
    <2>2. Outstanding(c)' = Outstanding(c) /\ (Forgotten => Forgotten')
      BY <2>1 DEF Outstanding, InFlight, Forgotten, serverVars
    <2> QED BY <1>1, <2>1, <2>2, Unaffected DEF serverVars
  <1> QED
    BY <1>2, <1>3, <1>4, <1>5, <1>6, <1>7, <1>8, <1>9, <1>10
    DEF Next, ServerStep

(* The inductive invariant of a network with one device that downloads. *)
THEOREM SessionInvariant ==
    ASSUME OneDevice
    PROVE  Spec => []SessionInv
  <1>1. IInv /\ SessionInv /\ [Next]_vars => SessionInv'
    BY OneDevice, SessionInvStep DEF IInv
  <1> QED
    BY <1>1, SessionInvInit, InductiveInvariant, PTL DEF Spec

(* Every block that is handed out is the one that was asked for: the       *)
(* server's counter (esp_ota_server.c line 120) follows the one device     *)
(* that reads, through queries of other devices, announcements in the      *)
(* middle of a transfer, and power cycles of both sides.                   *)
THEOREM BlocksInStepHolds ==
    ASSUME OneDevice
    PROVE  Spec => []BlocksInStep
  <1>1. IInv /\ SessionInv => BlocksInStep
    <2> SUFFICES ASSUME IInv, SessionInv, NEW m \in net, m.type = "blockRsp"
                 PROVE  m.from = m.pos
      BY DEF BlocksInStep
    <2>1. m.dev \in Clients
      BY DEF IInv, TypeOK, Messages, Annce, Query, Notify, NoImage, EndRsp,
             EndReq, QueryRsp, BlockReq, BlockRsp
    <2>2. m \in Outstanding(m.dev) /\ OneAtATime(m.dev)
      BY <2>1 DEF Outstanding, InFlight, SessionTypes, SessionInv, InSession
    <2>3. m = BlockRsp(m.dev, pos[m.dev], pos[m.dev])
      BY <2>2, WhatIsOutstanding
    <2> QED BY <2>3 DEF BlockRsp
  <1> QED
    BY <1>1, SessionInvariant, InductiveInvariant, OneDevice, PTL

(* What CHECK (esp_ota_client.c line 108) lets pass, by its byte counts,   *)
(* is the complete image.                                                  *)
THEOREM CheckedImageHolds ==
    ASSUME OneDevice
    PROVE  Spec => []CheckedImageIsIntact
  <1>1. SessionInv => CheckedImageIsIntact
    BY ImageSizeAssumption
    DEF SessionInv, InSession, Downloaded, Holds, CheckedImageIsIntact, Bootable
  <1> QED BY <1>1, SessionInvariant, OneDevice, PTL

(* A complete download is never refused because of a count that an earlier *)
(* session left behind: START (line 87) does not reset it, but whatever    *)
(* interrupts a session here ends in a restart before the next one.        *)
THEOREM CompleteDownloadHolds ==
    ASSUME OneDevice
    PROVE  Spec => []CompleteDownloadAccepted
  <1>1. SessionInv => CompleteDownloadAccepted
    BY DEF SessionInv, InSession, Downloaded, Holds, CompleteDownloadAccepted,
           CheckPasses
  <1> QED BY <1>1, SessionInvariant, OneDevice, PTL

(* A session that reaches FINISH (lines 111-122) ends in a restart into    *)
(* the image that it downloaded: without a flash error, esp_ota_end        *)
(* succeeds on what it verifies.                                           *)
THEOREM FinishRestartsHolds ==
    ASSUME OneDevice
    PROVE  Spec => FinishRestarts
  <1> DEFINE Restarted ==
                \A c \in Clients : Finish(c) => running'[c] = s_ota_partition[c]
  <1>1. IInv /\ SessionInv /\ [Next]_vars => [Restarted]_vars
    <2> SUFFICES ASSUME IInv, SessionInv, NEW c \in Clients, Finish(c)
                 PROVE  running'[c] = s_ota_partition[c]
      OBVIOUS
    <2>1. UpgradeFinish(c)
      BY OneDevice, FinishMeansFinished DEF SessionInv
    <2> QED BY <2>1 DEF UpgradeFinish, IInv, TypeOK, ClientTypeOK
  <1> QED
    BY <1>1, SessionInvariant, InductiveInvariant, OneDevice, PTL
    DEF Spec, FinishRestarts

=============================================================================
