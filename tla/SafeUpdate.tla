----------------------------- MODULE SafeUpdate -----------------------------
(***************************************************************************)
(* What over-the-air updating promises of each device, whatever the        *)
(* transport: the slot that boots always holds a bootable image, the       *)
(* running image and the selected one are never written to, and another    *)
(* slot is selected only when its image is bootable.                       *)
(***************************************************************************)
EXTENDS OtaFlash

CONSTANT Clients        \* the devices that are updated

VARIABLES
    flash,      \* flash[c][s]: what slot s of device c holds
    boot,       \* boot[c]: the slot otadata selects
    running     \* running[c]: the slot the device runs from

svars == <<flash, boot, running>>

SafeInit ==
    /\ flash \in [Clients -> [Slots -> Content]]
    /\ boot = running
    /\ running \in [Clients -> Slots]
    /\ \A c \in Clients : Bootable(flash[c][boot[c]])

(* Erase or program slots that are neither running nor selected. *)
Rewrite(c) ==
    /\ flash' \in [Clients -> [Slots -> Content]]
    /\ \A d \in Clients, s \in Slots :
          d # c \/ s \in {boot[c], running[c]} => flash'[d][s] = flash[d][s]
    /\ UNCHANGED <<boot, running>>

(* Select a slot with a bootable image, and perhaps restart into it. *)
Select(c) ==
    /\ \E s \in Slots :
          /\ Bootable(flash[c][s])
          /\ boot' = [boot EXCEPT ![c] = s]
          /\ running' \in {running, [running EXCEPT ![c] = s]}
    /\ UNCHANGED flash

(* Restart, at any time. *)
Reset(c) ==
    /\ running' = [running EXCEPT ![c] = boot[c]]
    /\ UNCHANGED <<flash, boot>>

SafeNext == \E c \in Clients : Rewrite(c) \/ Select(c) \/ Reset(c)

SafeSpec == SafeInit /\ [][SafeNext]_svars

-----------------------------------------------------------------------------
(* What that is good for: a device that restarts at any moment comes up in *)
(* a complete image, and so is the one that it runs from.                  *)
AlwaysBoots ==
    \A c \in Clients :
       Bootable(flash[c][boot[c]]) /\ Bootable(flash[c][running[c]])

=============================================================================
