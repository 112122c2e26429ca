---------------------------- MODULE MCDualStart ----------------------------
(***************************************************************************)
(* Small instances of DualStart for TLC.                                   *)
(***************************************************************************)
EXTENDS DualStartInv
CONSTANTS d1, d2, gx

\* What the page finds in localStorage: nothing, one device, both devices.
NoRecords == {[s \in Slots |-> None]}
OneRecord == {<<d1, None>>}
BothRecords == {<<d1, d2>>}

\* What another phone does to a free device: nothing, or link it by force.
NoPackets == {}
Takeover == {[command |-> "LINK", slot |-> 1, flag0 |-> TRUE, group |-> gx]}

HostGroups == Permutations(Groups \ {gx})

(***************************************************************************)
(* seq counts modulo SeqWrap and is only ever compared for equality within *)
(* one connection, so a state stands for all its rotations, and the packet *)
(* that a disconnected entry still holds tells nothing apart.              *)
(***************************************************************************)
Age(d, state) == [state EXCEPT !.seq = (seq[d] - @) % SeqWrap]

AgedInbox(d) ==
    [i \in DOMAIN inbox[d] |->
        IF inbox[d][i].kind \in {"state", "read"}
        THEN [inbox[d][i] EXCEPT !.state = Age(d, @)] ELSE inbox[d][i]]

AgedEntry(d) ==
    IF ~ Online(d) THEN None
    ELSE IF entry[d].state = None THEN [entry[d] EXCEPT !.fresh = FALSE]
    ELSE [entry[d] EXCEPT !.state = Age(d, @)]

View ==
    <<link, pressed, cleared, connected, presses,
      [d \in Devices |-> Age(d, stateChr[d])], [d \in Devices |-> AgedInbox(d)],
      write, phase, pair, stored, [d \in Devices |-> AgedEntry(d)], attempts,
      slotActive, shown, missed, ghostVars, budgetVars>>

(***************************************************************************)
(* A later start: the page is connected to its devices, has just read      *)
(* their state and nothing is on its way.  The button of slot 1 has made   *)
(* the given number of presses, that of slot 2 none.                       *)
(***************************************************************************)
Up(made) ==
    /\ pair \in [group: Groups \ ForeignGroups, record: LoadedRecords]
    /\ stored = pair
    /\ link = [d \in Devices |->
                  [Unlinked EXCEPT
                     !.group = pair.group,
                     !.slot = CHOOSE s \in Slots : pair.record[s] = d]]
    /\ accepted = [d \in Devices |-> {<<pair.group, link[d].slot>>}]
    /\ spent = {pair.group} \cup ForeignGroups
    /\ pressed = [d \in Devices |-> FALSE]
    /\ cleared = [d \in Devices |-> FALSE]
    /\ connected = [d \in Devices |-> TRUE]
    /\ seq = [d \in Devices |-> 2]
    /\ presses = [d \in Devices |-> IF pair.record[1] = d THEN made ELSE 0]
    /\ stateChr = [d \in Devices |-> ButtonState(d)]
    /\ inbox = [d \in Devices |-> <<>>]
    /\ write = [d \in Devices |-> None]
    /\ phase = [d \in Devices |-> "up"]
    /\ entry = [d \in Devices |->
                   [connected |-> TRUE, state |-> stateChr[d], fresh |-> TRUE]]
    /\ attempts = [d \in Devices |-> <<>>]
    /\ slotActive = [s \in Slots |->
                        [active |-> s = 1 /\ made % 2 = 1, prev |-> "up"]]
    /\ shown = FALSE
    /\ toggled = [s \in Slots |->
                     [d \in Devices |-> IF s = 1 THEN presses[d] ELSE 0]]
    /\ atConnect = [d \in Devices |-> 0]
    /\ missed = [d \in Devices |-> FALSE]

(***************************************************************************)
(* Two starts of a run share its bounds: in one of them some are used up.  *)
(***************************************************************************)

\* READY is one press of slot 2 away, and a command or a fault may come.
InitUp ==
    /\ Up(MaxPress)
    /\ \/ cmds = 0 /\ faults = MaxFaults
       \/ cmds = MaxCmds /\ faults = 0

\* The devices may fall silent at any moment: only the page's timer is fair.
TimerSpecUp == InitUp /\ [][Next]_vars /\ WF_vars(Tick)

\* A fault may come, with a press or with a command.
InitLive ==
    /\ \/ Up(0) /\ cmds = MaxCmds
       \/ Up(MaxPress) /\ cmds = 0
    /\ faults = 0

FairSpecUp == InitLive /\ [][Next]_vars /\ Fairness
=============================================================================
