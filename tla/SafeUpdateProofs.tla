--------------------------- MODULE SafeUpdateProofs ---------------------------
(***************************************************************************)
(* What SafeUpdate promises, for any number of devices: whatever it takes  *)
(* to implement it, a device that does always boots.                       *)
(***************************************************************************)
EXTENDS SafeUpdate, TLAPS

SafeInv ==
    /\ flash \in [Clients -> [Slots -> Content]]
    /\ boot \in [Clients -> Slots]
    /\ running \in [Clients -> Slots]
    /\ AlwaysBoots

LEMMA SafeInvInit == SafeInit => SafeInv
  BY DEF SafeInit, SafeInv, AlwaysBoots

LEMMA SafeInvStep == SafeInv /\ [SafeNext]_svars => SafeInv'
  <1> SUFFICES ASSUME SafeInv, [SafeNext]_svars PROVE SafeInv'
    OBVIOUS
  <1> USE DEF SafeInv, AlwaysBoots
  <1>1. ASSUME NEW c \in Clients, Rewrite(c)
        PROVE  SafeInv'
    <2>1. \A d \in Clients : /\ flash'[d][boot'[d]] = flash[d][boot[d]]
                             /\ flash'[d][running'[d]] = flash[d][running[d]]
      BY <1>1 DEF Rewrite
    <2> QED BY <1>1, <2>1 DEF Rewrite, Bootable
  <1>2. ASSUME NEW c \in Clients, Select(c)
        PROVE  SafeInv'
    <2> PICK s \in Slots : /\ Bootable(flash[c][s])
                           /\ boot' = [boot EXCEPT ![c] = s]
                           /\ running' \in {running, [running EXCEPT ![c] = s]}
      BY <1>2 DEF Select
    <2>1. UNCHANGED flash
      BY <1>2 DEF Select
    <2> QED BY <2>1 DEF Bootable
  <1>3. ASSUME NEW c \in Clients, Reset(c)
        PROVE  SafeInv'
    BY <1>3 DEF Reset, Bootable
  <1>4. CASE UNCHANGED svars
    BY <1>4 DEF svars, Bootable
  <1> QED BY <1>1, <1>2, <1>3, <1>4 DEF SafeNext

THEOREM SafeInvariant == SafeSpec => []SafeInv
  BY SafeInvInit, SafeInvStep, PTL DEF SafeSpec

(* A device that restarts at any moment comes up in a complete image: this *)
(* is what the refinements of SafeUpdate by ZigbeeOta and BleOta are worth.*)
THEOREM SafeBoots == SafeSpec => []AlwaysBoots
  <1>1. SafeInv => AlwaysBoots
    BY DEF SafeInv
  <1> QED BY <1>1, SafeInvariant, PTL

=============================================================================
