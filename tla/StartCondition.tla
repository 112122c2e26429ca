--------------------------- MODULE StartCondition ---------------------------
(***************************************************************************)
(* The pure functions of the host: a slot's Active tracker and the start   *)
(* condition of the pair.                                                  *)
(*                                                                         *)
(* A tracker is [active, prev]; prev is the last sample of the button the  *)
(* tracker saw, "unknown" where the code has null.  An entry is what the   *)
(* host keeps of a device: None where the code has null or undefined, or   *)
(* [connected, state, fresh] with state None until the first ButtonState.  *)
(* fresh stands for now - lastReceivedAt <= staleMs.                       *)
(*                                                                         *)
(* Source: web-debug/active-state.js, start-condition.js                   *)
(***************************************************************************)
CONSTANT None

Sample(pressed) == IF pressed THEN "down" ELSE "up"

resetActive(prev) == [active |-> FALSE, prev |-> prev]

INITIAL_ACTIVE == resetActive("unknown")

Trackers == [active: BOOLEAN, prev: {"unknown", "up", "down"}]

DownEdge(tracker, pressed) == tracker.prev = "up" /\ pressed

reduceActive(tracker, pressed) ==
    [active |-> IF DownEdge(tracker, pressed) THEN ~ tracker.active
                ELSE tracker.active,
     prev   |-> Sample(pressed)]

\* Mutant: the device-link is compared by group only.
SlotSoundByGroup(group, record, slot, e) ==
    /\ record # None /\ e # None /\ e.connected /\ e.state # None
    /\ e.state.group = group /\ e.state.armed

\* What evaluateStartCondition asks of one slot, its freshness and its Active
\* apart: a connected entry whose last state names this pair and this slot.
SlotSound(group, record, slot, e) ==
    /\ record # None
    /\ e # None
    /\ e.connected
    /\ e.state # None
    /\ e.state.group = group
    /\ e.state.slot = slot
    /\ e.state.armed

SlotFresh(e) == e # None /\ e.fresh

(***************************************************************************)
(* pair is [group, record]; entry and tracker are functions from slots.    *)
(* The code tests the clauses one by one to name the first that fails; the *)
(* verdict is their conjunction.                                           *)
(***************************************************************************)
evaluateStartCondition(pair, entry, tracker) ==
    \A s \in {1, 2} : /\ SlotSound(pair.group, pair.record[s], s, entry[s])
                      /\ SlotFresh(entry[s])
                      /\ tracker[s].active
=============================================================================
