----------------------------- MODULE DualStart -----------------------------
(***************************************************************************)
(* The whole system: one host (the web-debug page), the devices, and the   *)
(* BLE connection between them.                                            *)
(*                                                                         *)
(* Every handler of the firmware (a BLE callback, or a pass of loop() that *)
(* finds something to do) and every task of the page (an event listener    *)
(* with the promise continuations it releases) is one action.  What        *)
(* happens when two handlers of one device overlap is DeviceTasks' matter. *)
(*                                                                         *)
(* Device d sends notifications and read responses to the host over one    *)
(* FIFO, inbox[d], as an ATT bearer does; a lost connection shows there as *)
(* a final "gone".  At most one GATT write per device is in flight.        *)
(*                                                                         *)
(* Source: firmware/pio/src/main.cpp, web-debug/app.js                     *)
(***************************************************************************)
EXTENDS LinkControl, FiniteSets, SequencesExt

CONSTANTS
    Devices,        \* the devices, named by their device_id
    None,           \* null, undefined, nothing
    ForeignPackets, \* what other phones may write to a free device
    SeqWrap,         \* 2^16 in the code: ButtonState.seq is a uint16_t
    InboxCap,       \* bound: events in flight from one device
    LoadedRecords,  \* the slot records the page may find in localStorage
    MaxCmds,        \* bound: commands the user gives
    MaxPress,       \* bound: presses of one button
    MaxFaults       \* bound: losses, disconnects, reboots, reloads, ...

ASSUME DevicesAssumption == None \notin Devices
ASSUME ForeignAssumption == ForeignPackets \subseteq Packets
ASSUME RecordsAssumption ==
    LoadedRecords \subseteq [Slots -> Devices \cup {None}]
ASSUME BoundsAssumption ==
    /\ InboxCap \in Nat /\ MaxCmds \in Nat
    /\ MaxPress \in Nat /\ MaxFaults \in Nat
\* Between two samples that the host compares, fewer packets are published
\* than it takes seq to come round (in the code, uptimeMs tells them apart).
ASSUME SeqAssumption == SeqWrap \in Nat /\ SeqWrap > InboxCap + MaxFaults + 1

INSTANCE StartCondition
INSTANCE ResultCorrelator

VARIABLES
    \* each device
    link,       \* linkGroupId, linkSlot, linkGeneration, armed
    pressed,    \* stablePressed
    cleared,    \* longHoldResetTriggered
    connected,  \* connected
    seq,        \* seq
    stateChr,   \* the value of the ButtonState characteristic
    presses,    \* history: how many times the button was pressed
    \* the connection of each device with the host
    inbox,      \* events on their way to the host
    write,      \* the GATT write in flight, None if there is none
    phase,      \* how far connectBluetoothDevice() got
    \* the host
    pair,       \* pair: the group and the device of each slot
    stored,     \* localStorage 'dsb.pair'
    entry,      \* devices: what the host keeps of each device
    attempts,   \* entry.correlator and the callers of writeConfirmed()
    slotActive, \* slotActive
    shown,      \* the page shows READY / START
    \* history and bounds
    accepted,   \* the <<group, slot>> that each device accepted
    toggled,    \* the last press of each device that toggled each slot
    atConnect,  \* presses when the device's current connection was made
    missed,     \* the last published ButtonState was lost
    spent,      \* groups that newGroupId() does not return any more
    cmds, faults

deviceVars == <<link, pressed, cleared, connected, seq, stateChr, presses>>
channelVars == <<inbox, write, phase>>
hostVars == <<pair, stored, entry, attempts, slotActive, shown>>
ghostVars == <<accepted, toggled, atConnect, spent>>
budgetVars == <<cmds, faults>>
vars == <<deviceVars, channelVars, hostVars, missed, ghostVars, budgetVars>>

Phases == {"off", "gatt", "entry", "results", "states", "reading", "up"}

(***************************************************************************)
(* Device: what publishState() and the handlers that call it do.           *)
(***************************************************************************)

\* The fields of a ButtonState the host acts on; press is history.
ButtonState(d) ==
    [seq |-> seq[d], pressed |-> pressed[d], press |-> presses[d],
     armed |-> link[d].armed, group |-> link[d].group, slot |-> link[d].slot]

StateEvent(state) == [kind |-> "state", state |-> state]

ResultEvent(o) ==
    [kind |-> "result", ok |-> o.ok, cmd |-> o.cmd,
     group |-> o.state.group, slot |-> o.state.slot]

Gone == [kind |-> "gone"]

\* The characteristics whose notifications the host has turned on.
Subscribed(d) ==
    (IF phase[d] \in {"results", "states", "reading", "up"}
     THEN {"result"} ELSE {})
    \cup
    (IF phase[d] \in {"states", "reading", "up"} THEN {"state"} ELSE {})

\* What the host hears of an event: nothing unless it subscribed.
Heard(d, e) ==
    IF connected'[d] /\ e.kind \in Subscribed(d) THEN <<e>> ELSE <<>>

\* notify()
Notify(d, heard) ==
    /\ Len(inbox[d]) + Len(heard) <= InboxCap
    /\ inbox' = [inbox EXCEPT ![d] = @ \o heard]

\* Mutant: the snapshot is taken before the handler's change.
publishOldState(d) ==
    /\ seq' = [seq EXCEPT ![d] = (@ + 1) % SeqWrap]
    /\ stateChr' = [stateChr EXCEPT ![d] = [ButtonState(d) EXCEPT !.seq = seq'[d]]]
    /\ missed' = [missed EXCEPT ![d] = FALSE]

\* publishState(): the next seq, and a snapshot of the state as it is now.
publishState(d) ==
    /\ seq' = [seq EXCEPT ![d] = (@ + 1) % SeqWrap]
    /\ stateChr' = [stateChr EXCEPT ![d] = ButtonState(d)']
    /\ missed' = [missed EXCEPT ![d] = FALSE]

\* publishState() as the last effect of a handler.
PublishAndNotify(d) ==
    /\ publishState(d)
    /\ Notify(d, Heard(d, StateEvent(stateChr'[d])))

\* replayControlOutcome(): the new link, then R and P in the outcome's order.
applyControlOutcome(d, o) ==
    /\ link' = [link EXCEPT ![d] = o.state]
    /\ publishState(d)
    /\ LET R == Heard(d, ResultEvent(o))
           P == Heard(d, StateEvent(stateChr'[d]))
       IN  Notify(d, IF Emissions(o) = <<"R", "P">> THEN R \o P ELSE P \o R)

\* updateButton(), a debounced edge of the button.
ButtonDown(d) ==
    /\ ~ pressed[d] /\ presses[d] < MaxPress
    /\ pressed' = [pressed EXCEPT ![d] = TRUE]
    /\ cleared' = [cleared EXCEPT ![d] = FALSE]
    /\ presses' = [presses EXCEPT ![d] = @ + 1]
    /\ UNCHANGED <<link, connected>>
    /\ PublishAndNotify(d)
    /\ UNCHANGED <<write, phase, hostVars, ghostVars, budgetVars>>

ButtonUp(d) ==
    /\ pressed[d]
    /\ pressed' = [pressed EXCEPT ![d] = FALSE]
    /\ UNCHANGED <<link, cleared, connected, presses>>
    /\ PublishAndNotify(d)
    /\ UNCHANGED <<write, phase, hostVars, ghostVars, budgetVars>>

\* updateButton(), the button held for DSB_LONG_HOLD_RESET_MS.
LongHoldReset(d) ==
    /\ pressed[d] /\ ~ cleared[d]
    /\ cleared' = [cleared EXCEPT ![d] = TRUE]
    /\ UNCHANGED <<pressed, connected, presses>>
    /\ applyControlOutcome(d, makeClear(link[d], "FACTORY_RESET_LINK"))
    /\ UNCHANGED <<write, phase, hostVars, ghostVars, budgetVars>>

\* Mutant: the heartbeat sets the characteristic and notifies nobody.
quietHeartbeat(d) ==
    /\ UNCHANGED <<link, pressed, cleared, connected, presses>>
    /\ publishState(d)
    /\ UNCHANGED <<channelVars, hostVars, ghostVars, budgetVars>>

heartbeat(d) ==
    /\ UNCHANGED <<link, pressed, cleared, connected, presses>>
    /\ PublishAndNotify(d)
    /\ UNCHANGED <<write, phase, hostVars, ghostVars, budgetVars>>

\* ControlCallbacks::onWrite().  The write's response is on its way when the
\* callback returns, after the notifications the callback sent.
onWrite(d) ==
    /\ connected[d] /\ write[d] # None /\ ~ write[d].handled
    /\ LET o == evaluateControl(write[d].packet, link[d])
       IN  /\ UNCHANGED <<pressed, cleared, connected, presses>>
           /\ applyControlOutcome(d, o)
           /\ accepted' =
                IF o.ok /\ o.cmd = "LINK"
                THEN [accepted EXCEPT ![d] =
                        @ \cup {<<o.state.group, o.state.slot>>}]
                ELSE accepted
    /\ write' = [write EXCEPT ![d].handled = TRUE]
    /\ UNCHANGED <<phase, hostVars, toggled, atConnect, spent, budgetVars>>

\* A device no host is connected to is linked, unlinked or armed by another
\* phone: that phone's connection, its command and its disconnection.
ForeignControl(d) ==
    /\ faults < MaxFaults
    /\ ~ connected[d]
    /\ \E p \in ForeignPackets :
           link' = [link EXCEPT ![d] = evaluateControl(p, @).state]
    /\ UNCHANGED <<pressed, cleared, connected, presses>>
    /\ publishState(d)
    /\ faults' = faults + 1
    /\ UNCHANGED <<channelVars, hostVars, ghostVars, cmds>>

(***************************************************************************)
(* The connection.                                                         *)
(***************************************************************************)

\* The page believes the device connected.
Online(d) == entry[d] # None /\ entry[d].connected

\* gatt.connect() succeeds, and onConnect() runs.  Every published packet is
\* still unheard: the host subscribes later.
GattConnect(d) ==
    /\ phase[d] = "off" /\ ~ connected[d] /\ ~ Online(d)
    /\ phase' = [phase EXCEPT ![d] = "gatt"]
    /\ connected' = [connected EXCEPT ![d] = TRUE]
    /\ UNCHANGED <<link, pressed, cleared, presses>>
    /\ publishState(d)
    /\ atConnect' = [atConnect EXCEPT ![d] = presses[d]]
    /\ UNCHANGED <<inbox, write, hostVars, accepted, toggled, spent,
                   budgetVars>>

\* startNotifications() on ControlResult, then on ButtonState.
SubscribeResult(d) ==
    /\ phase[d] = "entry" /\ connected[d]
    /\ phase' = [phase EXCEPT ![d] = "results"]
    /\ UNCHANGED <<deviceVars, inbox, write, hostVars, missed, ghostVars,
                   budgetVars>>

SubscribeState(d) ==
    /\ phase[d] = "results" /\ connected[d]
    /\ phase' = [phase EXCEPT ![d] = "states"]
    /\ UNCHANGED <<deviceVars, inbox, write, hostVars, missed, ghostVars,
                   budgetVars>>

\* The device answers stateChar.readValue().
AnswerRead(d) ==
    /\ phase[d] = "states" /\ connected[d]
    /\ Len(inbox[d]) < InboxCap
    /\ inbox' = [inbox EXCEPT ![d] =
                    Append(@, [kind |-> "read", state |-> stateChr[d]])]
    /\ phase' = [phase EXCEPT ![d] = "reading"]
    /\ UNCHANGED <<deviceVars, write, hostVars, missed, ghostVars, budgetVars>>

\* A notification that does not reach the page.
LoseNotification(d) ==
    /\ faults < MaxFaults
    /\ inbox[d] # <<>> /\ Last(inbox[d]).kind \in {"state", "result"}
    /\ inbox' = [inbox EXCEPT ![d] = Front(@)]
    /\ missed' = [missed EXCEPT ![d] =
                     @ \/ Last(inbox[d]).kind = "state"]
    /\ faults' = faults + 1
    /\ UNCHANGED <<deviceVars, write, phase, hostVars, ghostVars, cmds>>

\* The connection of d ends: the host gets part of what was on its way, then
\* hears of the end.
EndConnection(d) ==
    \E n \in 0 .. Len(inbox[d]) :
        inbox' = [inbox EXCEPT ![d] = Append(SubSeq(@, 1, n), Gone)]

\* Out of range, or a disconnect by the user: onDisconnect() on the device.
Drop(d) ==
    /\ faults < MaxFaults
    /\ connected[d]
    /\ connected' = [connected EXCEPT ![d] = FALSE]
    /\ EndConnection(d)
    /\ faults' = faults + 1
    /\ UNCHANGED <<link, pressed, cleared, seq, stateChr, presses, write,
                   phase, hostVars, missed, ghostVars, cmds>>

\* Power cycle: setup() loads the link, arms the device and publishes Boot.
Reboot(d) ==
    /\ faults < MaxFaults
    /\ link' = [link EXCEPT ![d].armed = TRUE]
    /\ pressed' = [pressed EXCEPT ![d] = FALSE]
    /\ cleared' = [cleared EXCEPT ![d] = FALSE]
    /\ connected' = [connected EXCEPT ![d] = FALSE]
    /\ seq' = [seq EXCEPT ![d] = 1]
    /\ UNCHANGED presses
    /\ stateChr' = [stateChr EXCEPT ![d] = ButtonState(d)']
    /\ IF connected[d] THEN EndConnection(d) ELSE UNCHANGED inbox
    /\ faults' = faults + 1
    /\ UNCHANGED <<write, phase, hostVars, missed, ghostVars, cmds>>

(***************************************************************************)
(* Host: helpers of app.js.                                                *)
(***************************************************************************)

slotEntry(slot) ==
    IF pair.record[slot] = None THEN None ELSE entry[pair.record[slot]]

linkedSlotsOf(d) == {s \in Slots : pair.record[s] = d}

computeStartCondition ==
    evaluateStartCondition(pair, [s \in Slots |-> slotEntry(s)], slotActive)

okLink(state, slot) == state.group = pair.group /\ state.slot = slot

\* What the panel of a slot says, the button apart.  It does not ask whether
\* the entry is connected.
slotContent(slot) ==
    LET e == slotEntry(slot)
        known == e # None /\ e.state # None
    IN  [active |-> e # None /\ slotActive[slot].active,
         armed |-> known /\ e.state.armed,
         fresh |-> known /\ e.fresh,
         link |-> known /\ okLink(e.state, slot)]

\* The last thing most tasks do: the page shows the state the task leaves.
render == shown' = computeStartCondition'

\* Mutants: the baseline after a reset is the last state of an entry that may
\* be disconnected, always unknown, or always up.
resetFromAnyEntry(slot) ==
    LET e == slotEntry(slot)
    IN  resetActive(IF e # None /\ e.state # None
                    THEN Sample(e.state.pressed) ELSE "unknown")

resetToUnknown(slot) == resetActive("unknown")

resetToUp(slot) == resetActive("up")

\* resetSlotActive(): the baseline is the button as the host last saw it,
\* where a connected entry with a state tells.
resetSlotActive(slot) ==
    LET e == slotEntry(slot)
    IN  resetActive(IF e # None /\ e.connected /\ e.state # None
                    THEN Sample(e.state.pressed) ELSE "unknown")

\* Mutant: setSlotRecord() without savePair().
SetRecordsUnsaved(slots, d) ==
    /\ pair' = [pair EXCEPT !.record =
                   [s \in Slots |-> IF s \in slots THEN d ELSE @[s]]]
    /\ UNCHANGED stored
    /\ slotActive' = [s \in Slots |-> IF s \in slots THEN resetSlotActive(s)'
                                      ELSE slotActive[s]]

\* setSlotRecord() on each of the slots, and its savePair().
SetRecords(slots, d) ==
    /\ pair' = [pair EXCEPT !.record =
                   [s \in Slots |-> IF s \in slots THEN d ELSE @[s]]]
    /\ stored' = pair'
    /\ slotActive' = [s \in Slots |-> IF s \in slots THEN resetSlotActive(s)'
                                      ELSE slotActive[s]]

(***************************************************************************)
(* Host: the steps of connectBluetoothDevice() and the events of BLE.      *)
(***************************************************************************)

\* DeviceInfo has been read: a new entry, with a new correlator, replaces the
\* old one.  Attempts of the old entry can only time out, to no effect.
CreateEntry(d) ==
    /\ phase[d] = "gatt"
    /\ phase' = [phase EXCEPT ![d] = "entry"]
    /\ entry' = [entry EXCEPT ![d] =
                    [connected |-> TRUE, state |-> None, fresh |-> FALSE]]
    /\ attempts' = [attempts EXCEPT ![d] = <<>>]
    /\ UNCHANGED <<deviceVars, inbox, write, pair, stored, slotActive, shown,
                   missed, ghostVars, budgetVars>>

\* The next event for the page is one of the given kinds.
Receive(d, kinds) ==
    /\ inbox[d] # <<>> /\ Head(inbox[d]).kind \in kinds
    /\ inbox' = [inbox EXCEPT ![d] = Tail(@)]

\* The promise of readValue() resolves when the answer is in.
ReadDone(d) ==
    phase' = IF Head(inbox[d]).kind = "read"
             THEN [phase EXCEPT ![d] = "up"] ELSE phase

\* applyState() keeps the packet unless it is the one it already has.
IsDuplicate(d) ==
    /\ entry[d].state # None
    /\ entry[d].state.seq = Head(inbox[d]).state.seq

ApplyState(d) ==
    /\ Receive(d, {"state", "read"}) /\ ~ IsDuplicate(d)
    /\ LET next == Head(inbox[d]).state
       IN  /\ entry' = [entry EXCEPT ![d].state = next, ![d].fresh = TRUE]
           /\ slotActive' =
                [s \in Slots |->
                    IF s \in linkedSlotsOf(d)
                    THEN reduceActive(slotActive[s], next.pressed)
                    ELSE slotActive[s]]
           /\ toggled' =
                [s \in Slots |->
                    IF s \in linkedSlotsOf(d)
                       /\ DownEdge(slotActive[s], next.pressed)
                    THEN [toggled[s] EXCEPT ![d] = next.press]
                    ELSE toggled[s]]
    /\ ReadDone(d)
    /\ UNCHANGED <<pair, stored, attempts>>
    /\ render
    /\ UNCHANGED <<deviceVars, write, missed, accepted, atConnect, spent,
                   budgetVars>>

\* Only the end of connectBluetoothDevice() renders after a duplicate.
IgnoreState(d) ==
    /\ Receive(d, {"state", "read"}) /\ IsDuplicate(d)
    /\ ReadDone(d)
    /\ UNCHANGED <<pair, stored, entry, attempts, slotActive>>
    /\ IF Head(inbox[d]).kind = "read" THEN render ELSE UNCHANGED shown
    /\ UNCHANGED <<deviceVars, write, missed, ghostVars, budgetVars>>

\* Mutant: the entry of a lost device is not marked.
EntryLeftOnline(e) ==
    [e EXCEPT !.state = IF @ = None THEN None ELSE [@ EXCEPT !.pressed = FALSE]]

\* What a disconnection leaves of an entry.
OfflineEntry(e) ==
    [e EXCEPT !.connected = FALSE,
              !.state = IF @ = None THEN None ELSE [@ EXCEPT !.pressed = FALSE]]

\* Mutant: the listener marks the entry and leaves the slots' Active alone.
DisconnectedUnreset(d) ==
    /\ Receive(d, {"gone"})
    /\ phase' = [phase EXCEPT ![d] = "off"]
    /\ write' = [write EXCEPT ![d] = None]
    /\ attempts' = [attempts EXCEPT ![d] = cancel(@)]
    /\ UNCHANGED <<pair, stored, slotActive>>
    /\ IF entry[d] = None
       THEN UNCHANGED <<entry, shown>>
       ELSE /\ entry' = [entry EXCEPT ![d] = OfflineEntry(@)]
            /\ render
    /\ UNCHANGED <<deviceVars, missed, ghostVars, budgetVars>>

\* 'gattserverdisconnected'; the GATT operation in flight is rejected.
HostDisconnected(d) ==
    /\ Receive(d, {"gone"})
    /\ phase' = [phase EXCEPT ![d] = "off"]
    /\ write' = [write EXCEPT ![d] = None]
    /\ attempts' = [attempts EXCEPT ![d] = cancel(@)]
    /\ UNCHANGED <<pair, stored>>
    /\ IF entry[d] = None
       THEN UNCHANGED <<entry, slotActive, shown>>
       ELSE /\ entry' = [entry EXCEPT ![d] = OfflineEntry(@)]
            /\ slotActive' = [s \in Slots |->
                                 IF s \in linkedSlotsOf(d)
                                 THEN resetSlotActive(s)' ELSE slotActive[s]]
            /\ render
    /\ UNCHANGED <<deviceVars, missed, ghostVars, budgetVars>>

(***************************************************************************)
(* Host: commands and their results.                                       *)
(***************************************************************************)

\* linkAsSlot() and unlinkDevice() from the result on.
Conclude(d, a) ==
    IF a.cmd = "LINK" /\ confirmsLink(a.result, pair.group, a.slot)
    THEN SetRecords({a.slot}, d)
    ELSE IF a.cmd = "UNLINK" /\ a.result.ok
    THEN SetRecords(linkedSlotsOf(d), None)
    ELSE UNCHANGED <<pair, stored, slotActive>>

\* The caller of an attempt goes on once its write is acknowledged and its
\* result is in; whatever the result says, it renders.
GoOn(d, table) ==
    IF Settled(table) = {}
    THEN /\ attempts' = [attempts EXCEPT ![d] = table]
         /\ UNCHANGED <<pair, stored, slotActive>>
    ELSE \E i \in Settled(table) :
            /\ attempts' = [attempts EXCEPT ![d] = remove(table, i)]
            /\ Conclude(d, table[i])

\* 'characteristicvaluechanged' on ControlResult.
DeliverResult(d) ==
    /\ Receive(d, {"result"})
    /\ UNCHANGED entry
    /\ GoOn(d, deliver(attempts[d], Head(inbox[d])))
    /\ render
    /\ UNCHANGED <<deviceVars, write, phase, missed, ghostVars, budgetVars>>

\* writeValueWithResponse() resolves.
WriteDone(d) ==
    /\ write[d] # None /\ write[d].handled
    /\ write' = [write EXCEPT ![d] = None]
    /\ UNCHANGED entry
    /\ GoOn(d, acknowledge(attempts[d]))
    /\ IF Settled(acknowledge(attempts[d])) = {} THEN UNCHANGED shown
       ELSE render
    /\ UNCHANGED <<deviceVars, inbox, phase, missed, ghostVars, budgetVars>>

\* writeValueWithResponse() rejects; the device may have seen the write.
WriteFail(d) ==
    /\ faults < MaxFaults
    /\ write[d] # None
    /\ write' = [write EXCEPT ![d] = None]
    /\ attempts' = [attempts EXCEPT ![d] = cancel(@)]
    /\ faults' = faults + 1
    /\ UNCHANGED <<deviceVars, inbox, phase, pair, stored, entry, slotActive,
                   shown, missed, ghostVars, cmds>>

\* A button of a device's card: one GATT operation at a time.
Command(d, command, slot, flag) ==
    /\ cmds < MaxCmds
    /\ Online(d)
    /\ write[d] = None
    /\ write' = [write EXCEPT ![d] =
                    [packet |-> [command |-> command, slot |-> slot,
                                 flag0 |-> flag, group |-> pair.group],
                     handled |-> FALSE]]
    /\ cmds' = cmds + 1
    /\ UNCHANGED <<deviceVars, inbox, phase, pair, stored, entry, slotActive,
                   shown, missed, ghostVars, faults>>

\* runDeviceAction() keeps a button disabled until its action has settled.
Busy(d, cmd, slot) ==
    \E i \in DOMAIN attempts[d] : /\ attempts[d][i].cmd = cmd
                                  /\ attempts[d][i].slot = slot

Confirmed(d, cmd, slot) ==
    /\ ~ Busy(d, cmd, slot)
    /\ attempts' = [attempts EXCEPT ![d] = expect(@, cmd, slot)]

linkAsSlot(d) ==
    \E slot \in Slots, force \in BOOLEAN :
        /\ Command(d, "LINK", slot, force)
        /\ Confirmed(d, "LINK", slot)

unlinkDevice(d) ==
    \E force \in BOOLEAN :
        /\ Command(d, "UNLINK", 0, force)
        /\ Confirmed(d, "UNLINK", 0)

setArmed(d) ==
    /\ \E armed \in BOOLEAN : Command(d, "SET_ARMED", 0, armed)
    /\ UNCHANGED attempts

identifyDevice(d) ==
    /\ Command(d, "IDENTIFY", 0, FALSE)
    /\ UNCHANGED attempts

\* Mutant: the timer guards the write and not the result.
TimeoutOfWrite(d) ==
    /\ \E i \in DOMAIN attempts[d] :
           /\ ~ attempts[d][i].written /\ Pending(attempts[d][i])
           /\ attempts' = [attempts EXCEPT ![d] = remove(@, i)]
    /\ UNCHANGED <<deviceVars, channelVars, pair, stored, entry, slotActive,
                   shown, missed, ghostVars, budgetVars>>

\* No ControlResult within CONTROL_RESULT_TIMEOUT_MS.
Timeout(d) ==
    /\ \E i \in DOMAIN attempts[d] :
           /\ Pending(attempts[d][i])
           /\ attempts' = [attempts EXCEPT ![d] = remove(@, i)]
    /\ UNCHANGED <<deviceVars, channelVars, pair, stored, entry, slotActive,
                   shown, missed, ghostVars, budgetVars>>

(***************************************************************************)
(* Host: the page.                                                         *)
(***************************************************************************)

\* The 'New Group' button; the group is random, so none seen before.
NewGroup ==
    /\ \E g \in Groups \ spent :
           /\ pair' = [group |-> g, record |-> [s \in Slots |-> None]]
           /\ spent' = spent \cup {g}
    /\ stored' = pair'
    /\ UNCHANGED <<entry, attempts>>
    /\ slotActive' = [s \in Slots |-> resetSlotActive(s)']
    /\ render
    /\ UNCHANGED <<deviceVars, channelVars, missed, accepted, toggled,
                   atConnect, budgetVars>>

\* Mutant: the reset is not rendered.
ResetActiveUnrendered ==
    /\ slotActive' = [s \in Slots |-> resetSlotActive(s)]
    /\ UNCHANGED <<pair, stored, entry, attempts, shown>>
    /\ UNCHANGED <<deviceVars, channelVars, missed, ghostVars, budgetVars>>

\* The 'Reset Active' button.
ResetActive ==
    /\ slotActive' = [s \in Slots |-> resetSlotActive(s)]
    /\ UNCHANGED <<pair, stored, entry, attempts>>
    /\ render
    /\ UNCHANGED <<deviceVars, channelVars, missed, ghostVars, budgetVars>>

\* STALE_MS pass without a new ButtonState.  Time is not a task: nothing is
\* rendered.
Expire(d) ==
    /\ entry[d] # None /\ entry[d].fresh
    /\ entry' = [entry EXCEPT ![d].fresh = FALSE]
    /\ UNCHANGED <<deviceVars, channelVars, pair, stored, attempts,
                   slotActive, shown, missed, ghostVars, budgetVars>>

\* Mutant: no setInterval.
NoTick == FALSE /\ UNCHANGED vars

\* setInterval(render, 1000)
Tick ==
    /\ UNCHANGED <<pair, stored, entry, attempts, slotActive>>
    /\ render
    /\ UNCHANGED <<deviceVars, channelVars, missed, ghostVars, budgetVars>>

\* The page is reloaded: its connections end, its memory is gone, and the
\* pair comes back from localStorage.
PageReload ==
    /\ faults < MaxFaults
    /\ connected' = [d \in Devices |-> FALSE]
    /\ inbox' = [d \in Devices |-> <<>>]
    /\ write' = [d \in Devices |-> None]
    /\ phase' = [d \in Devices |-> "off"]
    /\ entry' = [d \in Devices |-> None]
    /\ attempts' = [d \in Devices |-> <<>>]
    /\ slotActive' = [s \in Slots |-> INITIAL_ACTIVE]
    /\ pair' = stored
    /\ UNCHANGED stored
    /\ render
    /\ faults' = faults + 1
    /\ UNCHANGED <<link, pressed, cleared, seq, stateChr, presses, missed,
                   ghostVars, cmds>>

(***************************************************************************)
(* The specification.                                                      *)
(***************************************************************************)

Unlinked == [group |-> NoGroup, slot |-> 0, gen |-> 0, armed |-> TRUE]

\* The groups that only other phones use.
ForeignGroups == {p.group : p \in ForeignPackets}

\* The page has just been loaded; a recorded device still has the link it got
\* when it was recorded.
InitPair ==
    /\ \E g \in Groups \ ForeignGroups, record \in LoadedRecords :
           /\ pair = [group |-> g, record |-> record]
           /\ link = [d \in Devices |->
                         IF \E s \in Slots : record[s] = d
                         THEN [Unlinked EXCEPT
                                 !.group = g,
                                 !.slot = CHOOSE s \in Slots : record[s] = d]
                         ELSE Unlinked]
           /\ accepted = [d \in Devices |->
                             {<<g, s>> : s \in {t \in Slots : record[t] = d}}]
           /\ spent = {g} \cup ForeignGroups
    /\ stored = pair

\* Every device is free and has published Boot.
InitIdle ==
    /\ pressed = [d \in Devices |-> FALSE]
    /\ cleared = [d \in Devices |-> FALSE]
    /\ connected = [d \in Devices |-> FALSE]
    /\ seq = [d \in Devices |-> 1]
    /\ presses = [d \in Devices |-> 0]
    /\ stateChr = [d \in Devices |-> ButtonState(d)]
    /\ inbox = [d \in Devices |-> <<>>]
    /\ write = [d \in Devices |-> None]
    /\ phase = [d \in Devices |-> "off"]
    /\ entry = [d \in Devices |-> None]
    /\ attempts = [d \in Devices |-> <<>>]
    /\ slotActive = [s \in Slots |-> INITIAL_ACTIVE]
    /\ shown = FALSE
    /\ toggled = [s \in Slots |-> [d \in Devices |-> 0]]
    /\ atConnect = [d \in Devices |-> 0]
    /\ missed = [d \in Devices |-> FALSE]
    /\ cmds = 0
    /\ faults = 0

Init == InitPair /\ InitIdle

DeviceStep(d) ==
    \/ ButtonDown(d) \/ ButtonUp(d) \/ LongHoldReset(d) \/ heartbeat(d)
    \/ onWrite(d) \/ ForeignControl(d) \/ Reboot(d)

ConnectionStep(d) ==
    \/ GattConnect(d) \/ CreateEntry(d) \/ SubscribeResult(d)
    \/ SubscribeState(d) \/ AnswerRead(d) \/ LoseNotification(d) \/ Drop(d)

HostStep(d) ==
    \/ ApplyState(d) \/ IgnoreState(d) \/ HostDisconnected(d)
    \/ DeliverResult(d) \/ WriteDone(d) \/ WriteFail(d) \/ Timeout(d)
    \/ linkAsSlot(d) \/ unlinkDevice(d) \/ setArmed(d) \/ identifyDevice(d)
    \/ Expire(d)

PageStep == NewGroup \/ ResetActive \/ Tick \/ PageReload

Next ==
    \/ \E d \in Devices : DeviceStep(d) \/ ConnectionStep(d) \/ HostStep(d)
    \/ PageStep

Spec == Init /\ [][Next]_vars

(***************************************************************************)
(* What the code's scheduling guarantees: loop() runs for ever, BLE events *)
(* and answers in flight arrive or the connection ends, timers fire.  The  *)
(* user and the radio promise nothing.  onWrite waits for room in the      *)
(* inbox, which is a bound of the model and not of the code: strong        *)
(* fairness keeps heartbeats from taking the room each time.               *)
(***************************************************************************)
Fairness ==
    /\ WF_vars(Tick)
    /\ \A d \in Devices :
           /\ WF_vars(heartbeat(d))
           /\ SF_vars(onWrite(d))
           /\ WF_vars(ApplyState(d) \/ IgnoreState(d) \/ DeliverResult(d)
                      \/ HostDisconnected(d))
           /\ WF_vars(WriteDone(d))
           /\ WF_vars(Timeout(d))

FairSpec == Spec /\ Fairness

(***************************************************************************)
(* Types.                                                                  *)
(***************************************************************************)

States == [seq: 0 .. SeqWrap - 1, pressed: BOOLEAN, press: 0 .. MaxPress,
           armed: BOOLEAN, group: GroupIds, slot: Slots \cup {0}]

Results == [kind: {"result"}, ok: BOOLEAN,
            cmd: Commands \cup {"unknown", "undecodable"},
            group: GroupIds, slot: Slots \cup {0}]

Events == [kind: {"state", "read"}, state: States] \cup Results \cup {Gone}

Pairs == [group: Groups, record: [Slots -> Devices \cup {None}]]

Entries == [connected: BOOLEAN, state: States \cup {None}, fresh: BOOLEAN]

Attempts == [cmd: {"LINK", "UNLINK"}, slot: Slots \cup {0}, written: BOOLEAN,
             result: Results \cup {None}]

\* null is no entry and no packet.
ASSUME NoneAssumption == None \notin Entries \cup States

\* Every variable has its type.
TypeOK ==
    /\ link \in [Devices -> LinkState]
    /\ pressed \in [Devices -> BOOLEAN]
    /\ cleared \in [Devices -> BOOLEAN]
    /\ connected \in [Devices -> BOOLEAN]
    /\ seq \in [Devices -> 0 .. SeqWrap - 1]
    /\ presses \in [Devices -> 0 .. MaxPress]
    /\ stateChr \in [Devices -> States]
    /\ inbox \in [Devices -> Seq(Events)]
    /\ write \in [Devices -> [packet: Packets, handled: BOOLEAN] \cup {None}]
    /\ phase \in [Devices -> Phases]
    /\ pair \in Pairs /\ stored \in Pairs
    /\ entry \in [Devices -> Entries \cup {None}]
    /\ attempts \in [Devices -> Seq(Attempts)]
    /\ slotActive \in [Slots -> Trackers]
    /\ shown \in BOOLEAN
    /\ accepted \in [Devices -> SUBSET (Groups \X Slots)]
    /\ toggled \in [Slots -> [Devices -> 0 .. MaxPress]]
    /\ atConnect \in [Devices -> 0 .. MaxPress]
    /\ missed \in [Devices -> BOOLEAN]
    /\ spent \in SUBSET GroupIds
    /\ cmds \in 0 .. MaxCmds /\ faults \in 0 .. MaxFaults

(***************************************************************************)
(* Safety.                                                                 *)
(***************************************************************************)

\* The page takes a device for connected only while connectBluetoothDevice()
\* has an entry for the connection, and no packet can reach the page before
\* the entry it is applied to exists.
EntryFollowsConnection ==
    \A d \in Devices :
        /\ phase[d] \in {"off", "gatt"} => ~ Online(d)
        /\ entry[d] = None => /\ phase[d] \in {"off", "gatt"}
                             /\ inbox[d] \in Seq({Gone})

\* While the page shows READY, everything it demands of the two slots but
\* their freshness still holds: no task leaves READY on the page after it took
\* away a record, a connection, the armed flag, a device-link or an Active.
ShownJustified ==
    shown => \A s \in Slots :
                 /\ SlotSound(pair.group, pair.record[s], s, slotEntry(s))
                 /\ slotActive[s].active

\* READY takes two buttons: never one device that is recorded in both slots.
ReadyTwoDevices ==
    shown => /\ None \notin {pair.record[1], pair.record[2]}
             /\ pair.record[1] # pair.record[2]

\* The panels of the two slots and the verdict below them come from different
\* code and agree: both panels are all YES, fresh and ok exactly when the page
\* says READY.  The panels never test the connection; that the disconnection
\* takes Active away makes up for it.
PanelsAgree ==
    (\A s \in Slots : LET p == slotContent(s)
                      IN  p.active /\ p.armed /\ p.fresh /\ p.link)
        <=> computeStartCondition

\* A slot is active only through a press that its device made after the
\* current connection to it was set up (SPEC 12: a button held down at connect
\* does not flip the slot, a disconnect resets it).
ActiveEarned ==
    \A s \in Slots : slotActive[s].active =>
        LET d == pair.record[s]
        IN  d # None /\ Online(d) /\ toggled[s][d] > atConnect[d]

\* However packets are repeated, lost or read again, however often Active is
\* reset or the device relinked: one press toggles a slot at most once.
ToggledOnce ==
    [][\A d \in Devices, s \in Slots :
          /\ slotActive'[s].active # slotActive[s].active
          /\ inbox[d] # <<>> /\ Head(inbox[d]).kind \in {"state", "read"}
          /\ inbox'[d] = Tail(inbox[d]) /\ phase'[d] # "off"
          /\ pair.record[s] = d
          => Head(inbox[d]).state.press > toggled[s][d]]_vars

\* The baseline of a slot is the button as the card of its device shows it, so
\* the next press toggles, whatever reset the slot (SPEC 12: the baseline is
\* seeded after a reset or a relink).
BaselineCurrent ==
    \A s \in Slots :
        LET e == slotEntry(s)
        IN  e # None /\ e.connected /\ e.state # None
                => slotActive[s].prev = Sample(e.state.pressed)

\* The page records a device in a slot of its group only if that device
\* accepted a LINK to that very group and slot (SPEC 11.2: the record is
\* written after ok:true), however late or lost the results are, and whatever
\* group the page moved to while it waited.
RecordConfirmed ==
    \A s \in Slots, d \in Devices :
        pair.record[s] = d => <<pair.group, s>> \in accepted[d]

\* When a connection is up, nothing is on its way and the last packet was not
\* lost, the page sees the device as it is: every handler that changes the
\* link, the armed flag or the button publishes it, in the right order.
InSync ==
    \A d \in Devices :
        phase[d] = "up" /\ connected[d] /\ inbox[d] = <<>> /\ ~ missed[d] =>
            LET e == entry[d]
            IN  /\ e.connected /\ e.state # None
                /\ e.state.pressed = pressed[d]
                /\ e.state.armed = link[d].armed
                /\ e.state.group = link[d].group
                /\ e.state.slot = link[d].slot

\* A reload of the page changes neither the group nor the records.
ReloadKeepsPair == [][PageReload => UNCHANGED pair]_vars

(***************************************************************************)
(* Liveness, under FairSpec; StaleReadyGoes under the fairness of Tick.    *)
(***************************************************************************)

\* SPEC 12: a down notification that is lost is made up for by the next
\* heartbeat, as long as the button stays down and the connection up.
PressSeen ==
    \A d \in Devices :
        pressed[d] /\ connected[d] /\ phase[d] = "up"
            ~> \/ ~ pressed[d] \/ ~ connected[d] \/ phase[d] # "up"
               \/ entry[d].state.pressed

\* Every command comes to an end: a result, a failed write or the timeout.
AttemptsSettle ==
    \A d \in Devices : attempts[d] # <<>> ~> attempts[d] = <<>>

\* A READY that is out of date goes away, if freshness does not come back,
\* also when a device has fallen silent for good: the timer suffices.
StaleReadyGoes ==
    shown /\ ~ computeStartCondition ~> ~ shown \/ computeStartCondition

(***************************************************************************)
(* What the documents say and the code does not do.                        *)
(***************************************************************************)

\* SPEC 17.2, "Force relink": the device moves to the selected slot.
DeviceInOneSlot ==
    \A d \in Devices : Cardinality(linkedSlotsOf(d)) <= 1
=============================================================================
