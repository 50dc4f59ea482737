--------------------- MODULE ZigbeeCommissioningProofs ---------------------
(***************************************************************************)
(* Proofs that every node without a network tries to get one in exactly    *)
(* one way, for any number of nodes, any times and any number of faults.   *)
(***************************************************************************)
EXTENDS ZigbeeCommissioning, SequenceTheorems, TLAPS

(* What the state of a node says about its alarms: only a node that came   *)
(* up, has no network and is doing nothing has one, and it has one only.   *)
AlarmsFit ==
    \A n \in Nodes :
       /\ bdb[n] \in {"off", "initialization"} => ~started[n]
       /\ bdb[n] = "formation" => Trying(n)
       /\ bdb[n] = "steering" => started[n] /\ (online[n] <=> n = Server)
       /\ online[n] => started[n]
       /\ IF bdb[n] = "none" /\ Trying(n)
          THEN Len(alarms[n]) = 1
          ELSE alarms[n] = <<>>

IInv == TypeOK /\ AlarmsFit

-----------------------------------------------------------------------------
(* The lists of alarms. *)

LEMMA Appended ==
    ASSUME NEW k \in Nat
    PROVE  Append(<<>>, k) \in Seq(Nat) /\ Len(Append(<<>>, k)) = 1
OBVIOUS

LEMMA TailOfOne ==
    ASSUME NEW s \in Seq(Nat), Len(s) = 1
    PROVE  s # <<>> /\ Tail(s) = <<>>
<1>1. s # <<>>
  <2> SUFFICES ASSUME s = <<>>
               PROVE  FALSE
    OBVIOUS
  <2>1. Len(s) = 0
    BY EmptySeq, Zenon
  <2> QED
    BY <2>1
<1>2. Tail(s) \in Seq(Nat) /\ Len(Tail(s)) = 0
  BY <1>1, HeadTailProperties
<1> QED
  BY <1>1, <1>2, EmptySeq

(* A Tick makes the alarms' times shorter, not their list. *)
Shorter(s) == [i \in 1 .. Len(s) |-> IF s[i] = 0 THEN 0 ELSE s[i] - 1]

LEMMA SameLength ==
    ASSUME NEW s \in Seq(Nat)
    PROVE  /\ Shorter(s) \in Seq(Nat)
           /\ Len(Shorter(s)) = Len(s)
           /\ s = <<>> => Shorter(s) = <<>>
<1>1. Len(s) \in Nat /\ \A i \in 1 .. Len(s) : s[i] \in Nat
  OBVIOUS
<1>2. Shorter(s) \in Seq(Nat)
  BY <1>1 DEF Shorter
<1>3. Len(Shorter(s)) = Len(s)
  BY <1>1, <1>2 DEF Shorter
<1>4. s = <<>> => Shorter(s) = <<>>
  BY <1>2, <1>3, EmptySeq
<1> QED
  BY <1>2, <1>3, <1>4

-----------------------------------------------------------------------------
(* Every variable has its type, whatever happens. *)
LEMMA TypeInit == Init => TypeOK
BY NodeAssumption, TimeAssumption, BoundAssumption DEF Init, TypeOK, Nodes

LEMMA AlarmsInit == Init => AlarmsFit
BY DEF Init, AlarmsFit, Trying

-----------------------------------------------------------------------------
(* Each action keeps the invariant. *)

LEMMA TypeOfTime ==
    /\ \A n \in Nodes : RetryTime(n) \in Nat
    /\ Server \in Nodes /\ Clients \subseteq Nodes
    /\ \A n \in Nodes : n \in Clients <=> n # Server
BY NodeAssumption, TimeAssumption DEF RetryTime, Nodes

LEMMA StepKeepsInvariant == IInv /\ [Next]_vars => IInv'
<1> SUFFICES ASSUME IInv, [Next]_vars
             PROVE  IInv'
  OBVIOUS
<1> USE TypeOfTime, TimeAssumption DEF IInv, TypeOK, AlarmsFit, Trying
<1>1. ASSUME NEW n \in Nodes, SkipStartup(n)
      PROVE  IInv'
  BY <1>1 DEF SkipStartup, Start
<1>2. ASSUME NEW n \in Nodes, InitOk(n)
      PROVE  IInv'
  <2>1. CASE ~known[n] /\ n = Server
    <3>1. Start(n, "formation")
      BY <1>2, <2>1 DEF InitOk, FirstMode
    <3>2. TypeOK'
      BY <1>2, <2>1, <3>1 DEF InitOk, Start
    <3>3. AlarmsFit'
      BY <1>2, <2>1, <3>1 DEF InitOk, Start
    <3> QED
      BY <3>2, <3>3
  <2>2. CASE ~known[n] /\ n # Server
    <3>1. Start(n, "steering")
      BY <1>2, <2>2 DEF InitOk, FirstMode
    <3>2. TypeOK'
      BY <1>2, <2>2, <3>1 DEF InitOk, Start
    <3>3. AlarmsFit'
      BY <1>2, <2>2, <3>1 DEF InitOk, Start
    <3> QED
      BY <3>2, <3>3
  <2>3. CASE known[n]
    <3>1. TypeOK'
      <4>1. permit' \in 0 .. OpenTime
        BY <1>2, <2>3 DEF InitOk
      <4>2. /\ bdb' \in [Nodes -> {"off", "none", "initialization",
                                    "formation", "steering"}]
            /\ \A c \in Clients : bdb'[c] # "formation"
        BY <1>2, <2>3 DEF InitOk, Ended
      <4> QED
        BY <1>2, <2>3, <4>1, <4>2 DEF InitOk, Ended
    <3>2. AlarmsFit'
      BY <1>2, <2>3 DEF InitOk, Ended
    <3> QED
      BY <3>1, <3>2
  <2> QED
    BY <2>1, <2>2, <2>3
<1>3. ASSUME NEW n \in Nodes, InitFails(n)
      PROVE  IInv'
  BY <1>3 DEF InitFails, Ended, Fault
<1>4. CASE FormOk
  <2>1. TypeOK'
    BY <1>4 DEF FormOk, Start
  <2>2. AlarmsFit'
    BY <1>4 DEF FormOk, Start
  <2> QED
    BY <2>1, <2>2
<1>5. CASE FormFails
  BY <1>5, Appended DEF FormFails, Fault, Ended, SetAlarm
<1>6. CASE Steered
  <2>1. TypeOK'
    BY <1>6 DEF Steered, Fault, Ended
  <2>2. AlarmsFit'
    BY <1>6 DEF Steered, Fault, Ended
  <2> QED
    BY <2>1, <2>2
<1>7. ASSUME NEW c \in Clients, JoinOk(c)
      PROVE  IInv'
  BY <1>7 DEF JoinOk, Ended
<1>8. ASSUME NEW c \in Clients, JoinFails(c)
      PROVE  IInv'
  BY <1>8, Appended DEF JoinFails, Fault, Ended, SetAlarm
<1>9. ASSUME NEW n \in Nodes, Alarm(n)
      PROVE  IInv'
  <2>1. bdb[n] = "none" /\ Tail(alarms[n]) = <<>> /\ <<>> \in Seq(Nat)
    BY <1>9, TailOfOne DEF Alarm
  <2>2. TypeOK'
    <3>1. alarms' \in [Nodes -> Seq(Nat)]
      BY <1>9, <2>1 DEF Alarm
    <3>2. CASE n = Server
      <4>1. Start(n, "formation")
        BY <1>9, <2>1, <3>2 DEF Alarm, FirstMode
      <4> QED
        BY <1>9, <3>1, <3>2, <4>1 DEF Alarm, Start
    <3>3. CASE n # Server
      <4>1. Start(n, "steering")
        BY <1>9, <2>1, <3>3 DEF Alarm, FirstMode
      <4> QED
        BY <1>9, <3>1, <3>3, <4>1 DEF Alarm, Start
    <3> QED
      BY <3>2, <3>3
  <2>3. AlarmsFit'
    BY <1>9, <2>1 DEF Alarm, Start, FirstMode
  <2> QED
    BY <2>2, <2>3
<1>10. CASE Tick
  BY <1>10, SameLength DEF Tick, Due, Busy, Shorter
<1>11. ASSUME NEW n \in Nodes, PowerCycle(n)
       PROVE  IInv'
  BY <1>11 DEF PowerCycle, Fault, Reboot
<1>12. ASSUME NEW n \in Nodes, RestartFailed(n)
       PROVE  IInv'
  BY <1>12 DEF RestartFailed, Reboot
<1>13. CASE UNCHANGED vars
  BY <1>13 DEF vars
<1> QED
  BY <1>1, <1>2, <1>3, <1>4, <1>5, <1>6, <1>7, <1>8, <1>9, <1>10, <1>11,
     <1>12, <1>13
     DEF Next, ServerStep, ClientStep, NodeStep

-----------------------------------------------------------------------------
(* The invariant holds in every state the nodes can reach. *)
THEOREM InductiveInvariant == Spec => []IInv
<1>1. Init => IInv
  BY TypeInit, AlarmsInit DEF IInv
<1> QED
  BY <1>1, StepKeepsInvariant, PTL DEF Spec

(* Every variable has its type, and only the server forms a network: the   *)
(* two handlers are near copies of each other.                             *)
THEOREM TypeCorrect == Spec => []TypeOK
<1>1. IInv => TypeOK
  BY DEF IInv
<1> QED
  BY <1>1, InductiveInvariant, PTL

(* A node without a network always has exactly one attempt under way or    *)
(* one alarm set for the next, and no other node has an alarm.             *)
THEOREM TryingOnceHolds == Spec => []TryingOnce
<1>1. IInv => TryingOnce
  BY TypeOfTime DEF IInv, TypeOK, AlarmsFit, TryingOnce, Trying, FirstMode
<1> QED
  BY <1>1, InductiveInvariant, PTL

=============================================================================
