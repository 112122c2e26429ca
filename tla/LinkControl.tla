---------------------------- MODULE LinkControl ----------------------------
(***************************************************************************)
(* The link state machine of the firmware: what evaluateControl() decides  *)
(* for a Control packet, given the current link state.  The code is pure   *)
(* (no NVS, no BLE, no LED), so the module has no variables: the modules   *)
(* of the device apply the outcome it returns.                             *)
(*                                                                         *)
(* Source: firmware/pio/include/link_control.h, control_replay.h           *)
(***************************************************************************)
EXTENDS Integers, Sequences

CONSTANTS
    Groups,     \* the nonzero group ids in play
    NoGroup,    \* group_id 0
    GenMod      \* 2^32 in the code: link_generation is a uint32_t

ASSUME GroupsAssumption == NoGroup \notin Groups
ASSUME GenModAssumption == GenMod \in Nat \ {0}

Slots == {1, 2}

GroupIds == Groups \cup {NoGroup}

LinkState == [group: GroupIds, slot: Slots \cup {0}, gen: 0 .. GenMod - 1,
              armed: BOOLEAN]

Commands == {"LINK", "UNLINK", "SET_ARMED", "IDENTIFY", "FACTORY_RESET_LINK"}

(***************************************************************************)
(* A decoded Control packet.  "undecodable" stands for a packet of the     *)
(* wrong length or version, "unknown" for a command byte out of range;     *)
(* slot 3 stands for every slot byte above 2.                              *)
(***************************************************************************)
Packets == [command: Commands \cup {"undecodable", "unknown"},
            slot: Slots \cup {0, 3}, flag0: BOOLEAN, group: GroupIds]

Orders == {"ResultPublishBlink", "ResultBlinkPublish", "BlinkPublishResult"}

(***************************************************************************)
(* ControlOutcome without the message text and the blink's colour and      *)
(* duration.  aux is the error code of a reject and 0 otherwise.           *)
(***************************************************************************)
ControlOutcome == [ok: BOOLEAN, cmd: Commands \cup {"unknown", "undecodable"},
                   state: LinkState, persist: BOOLEAN,
                   type: {"State", "Link", "Error"}, aux: 0 .. 7,
                   blink: BOOLEAN, order: Orders]

makeReject(current, cmd, aux) ==
    [ok |-> FALSE, cmd |-> cmd, state |-> current, persist |-> FALSE,
     type |-> "Error", aux |-> aux, blink |-> TRUE,
     order |-> "ResultPublishBlink"]

\* What every accepted command that leaves the link alone has in common.
Accept(current, cmd, type, blink, order) ==
    [ok |-> TRUE, cmd |-> cmd, state |-> current, persist |-> FALSE,
     type |-> type, aux |-> 0, blink |-> blink, order |-> order]

\* Mutant: a counter that does not wrap at its width.
RelinkUnwrapped(current, group, slot) ==
    [current EXCEPT !.group = group, !.slot = slot, !.gen = @ + 1]

\* A new (group, slot) always comes with the next generation, and is saved.
Relink(current, group, slot) ==
    [current EXCEPT !.group = group, !.slot = slot,
                    !.gen = (@ + 1) % GenMod]

makeClear(current, cmd) ==
    [Accept(Relink(current, NoGroup, 0), cmd, "Link", TRUE,
            "BlinkPublishResult") EXCEPT !.persist = TRUE]

\* Another group holds the device and the command does not force its way.
Conflict(p, current) ==
    /\ current.group # NoGroup
    /\ p.group # current.group
    /\ ~ p.flag0

EvaluateLink(p, current) ==
    IF p.group = NoGroup THEN makeReject(current, "LINK", 2)
    ELSE IF p.slot \notin Slots THEN makeReject(current, "LINK", 3)
    ELSE IF Conflict(p, current) THEN makeReject(current, "LINK", 4)
    ELSE [Accept(Relink(current, p.group, p.slot), "LINK", "Link", TRUE,
                 "ResultBlinkPublish") EXCEPT !.persist = TRUE]

\* UNLINK of an unlinked device succeeds, saves nothing and does not blink.
EvaluateUnlink(p, current) ==
    IF current.group = NoGroup
    THEN Accept(current, "UNLINK", "Link", FALSE, "ResultPublishBlink")
    ELSE IF p.group # NoGroup /\ Conflict(p, current)
    THEN makeReject(current, "UNLINK", 5)
    ELSE makeClear(current, "UNLINK")

EvaluateSetArmed(p, current) ==
    Accept([current EXCEPT !.armed = p.flag0], "SET_ARMED", "State", TRUE,
           "ResultPublishBlink")

EvaluateFactoryReset(p, current) ==
    IF p.flag0 THEN makeClear(current, "FACTORY_RESET_LINK")
    ELSE makeReject(current, "FACTORY_RESET_LINK", 6)

evaluateControl(p, current) ==
    CASE p.command = "undecodable"        -> makeReject(current, p.command, 1)
      [] p.command = "LINK"               -> EvaluateLink(p, current)
      [] p.command = "UNLINK"             -> EvaluateUnlink(p, current)
      [] p.command = "SET_ARMED"          -> EvaluateSetArmed(p, current)
      [] p.command = "IDENTIFY"           ->
             Accept(current, p.command, "State", TRUE, "ResultBlinkPublish")
      [] p.command = "FACTORY_RESET_LINK" -> EvaluateFactoryReset(p, current)
      [] p.command = "unknown"            -> makeReject(current, p.command, 7)

(***************************************************************************)
(* replayControlOutcome() emits ControlResult (R) and ButtonState (P) in   *)
(* the outcome's order; the blink between them is on no wire.              *)
(***************************************************************************)
Emissions(o) ==
    IF o.order = "BlinkPublishResult" THEN <<"P", "R">> ELSE <<"R", "P">>

\* An unlinked state has neither a group nor a slot (main.cpp loadLink).
Normal(link) == (link.group = NoGroup) <=> (link.slot = 0)
=============================================================================
