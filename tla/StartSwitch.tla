---------------------------- MODULE StartSwitch ----------------------------
(***************************************************************************)
(* What the whole system promises, without radio, packets or page: a       *)
(* switch of two slots.  A slot is assigned to a device and is toggled by  *)
(* the presses of that device, each used at most once per slot; it may     *)
(* fall back to inactive at any time, and does when it is assigned anew.   *)
(* READY is announced only while two different devices hold both slots     *)
(* active, and is withdrawn together with what it rests on.  Presses may   *)
(* be missed.                                                              *)
(*                                                                         *)
(* DualStart implements this: DualStartRefinement.                         *)
(***************************************************************************)
EXTENDS Integers

CONSTANTS
    Slots,
    Devices,
    None        \* no device

VARIABLES
    owner,      \* the device of each slot
    active,     \* is the slot active?
    presses,    \* how many presses each device has made
    used,       \* the last press of each device that toggled each slot
    ready       \* READY is announced

vars == <<owner, active, presses, used, ready>>

\* READY rests on two active slots of two devices.
Justified ==
    /\ \A s \in Slots : active[s] /\ owner[s] # None
    /\ \A s, t \in Slots : owner[s] = owner[t] => s = t

\* After every step, READY is announced only if it is justified.
Announce == ready' \in {FALSE, Justified'}

Press(d) ==
    /\ presses' = [presses EXCEPT ![d] = @ + 1]
    /\ UNCHANGED <<owner, active, used, ready>>

\* Press k of the device d reaches some of the slots it is assigned to.
Toggle(d, slots, k) ==
    /\ slots # {}
    /\ \A s \in slots : owner[s] = d /\ used[s][d] < k
    /\ active' = [s \in Slots |-> IF s \in slots THEN ~ active[s] ELSE active[s]]
    /\ used' = [s \in Slots |-> IF s \in slots THEN [used[s] EXCEPT ![d] = k]
                                ELSE used[s]]
    /\ UNCHANGED <<owner, presses>>
    /\ Announce

\* The given slots fall back to inactive, and may be assigned anew.
Reset(slots) ==
    /\ active' = [s \in Slots |-> s \notin slots /\ active[s]]
    /\ \A s \in Slots \ slots : owner'[s] = owner[s]
    /\ UNCHANGED <<presses, used>>
    /\ Announce

Init ==
    /\ owner \in [Slots -> Devices \cup {None}]
    /\ active = [s \in Slots |-> FALSE]
    /\ presses = [d \in Devices |-> 0]
    /\ used = [s \in Slots |-> [d \in Devices |-> 0]]
    /\ ready = FALSE

Next ==
    \/ \E d \in Devices : Press(d)
    \/ \E d \in Devices, slots \in SUBSET Slots :
           \E k \in 1 .. presses[d] : Toggle(d, slots, k)
    \/ \E slots \in SUBSET Slots : Reset(slots)

Spec == Init /\ [][Next]_vars
=============================================================================
