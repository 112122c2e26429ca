# Dual Start Button: verification project

The repository builds a two-button start switch. Two M5 devices with a button (firmware, C++, on
NimBLE/Arduino) talk over BLE to one web page (`web-debug/`). The page shows **READY / START** when
both devices are connected, linked to the page's group in the right slot, armed, fresh, and
*Active*, i.e. toggled on by a press. This directory holds TLA+ models of that protocol, TLC
configurations that check them on small instances, and TLAPS proofs.

All paths below are relative to `src/`.

## 1. The system

| Part | State | Operations |
|---|---|---|
| Link state machine (`firmware/pio/include/link_control.h`, `control_replay.h`) | none (pure) | `evaluateControl`, `makeClear`, `makeReject`; the replay order of persist, result, state, blink |
| Firmware handlers (`firmware/pio/src/main.cpp`) | link globals, `armed`, button debounce, `seq`, the ButtonState / DeviceInfo / ControlResult characteristics, `connected`, `shouldStartAdvertising` | `onWrite`, `onConnect`, `onDisconnect` on the NimBLE host task; `updateButton`, long hold, heartbeat, advertising restart on `loop()` |
| Persistence (`saveLink`, `loadLink`) | NVS keys `group`, `slot`, `gen` | three puts; load and normalise at boot |
| Host page (`web-debug/app.js`) | `pair`, `localStorage['dsb.pair']`, `devices`, `slotActive`, the text on the page | connection set-up, three event listeners, the buttons of the page and of each card, `setInterval(render)` |
| Result correlation (`web-debug/control-result.js`) | list of pending expectations | `expect`, `cancel`, `deliver`, timeout, `confirmsLink` |
| Start condition, Active (`web-debug/start-condition.js`, `active-state.js`) | none (pure) | `evaluateStartCondition`, `reduceActive`, `resetActive` |
| Wire format (`protocol.h`, `state_packet.h`, `protocol.js`, `tools/decode_state.py`) | none | encode / decode of ButtonState and Control |
| Display and advertising (`updateDisplay`, tail of `loop()`) | last snapshot drawn, `shouldStartAdvertising` | redraw on change, restart after a disconnection |
| Status LED, device names, web flasher, CI | - | outside the start protocol |

**How they interact.** The page writes the Control characteristic. `onWrite` evaluates the packet
against the link globals, stores and saves the new link, notifies ControlResult and ButtonState.
Both notifications and the answer of `readValue()` reach event listeners of the page, which update
the device's entry and the slot's tracker and render. Results carry no request id, so the correlator
matches them by command, oldest first. The pair lives in `localStorage`, the device's half of the
link in its NVS, and the two can disagree at any time: another phone may relink a free device.

**What is hard.** (a) Awaited results that come late, twice or never, after the group, the records
or the connection changed. (b) Notifications that arrive between subscribing and the first read.
(c) Disconnects, reboots, reloads and takeovers between any two steps; Active must not survive them
or be earned by a press that was made before. (d) A page that shows what it computed at its last
render. (e) Two tasks of the firmware that share globals without a lock, and an NVS save that is
three writes. (f) Counters that wrap (`seq`, `link_generation`, `millis()`).
`PROJECT.json` lists these as hazards, each at its line with the properties that watch it.

**What makes each part correct.**

- Link machine: well-formed outcomes; the group or slot changes only with an accepted, saved command
  and the next generation; no command makes half a link.
- Firmware and NVS: between handlers, a power loss changes nothing; a result that was sent survives
  a power loss; the link is whole.
- Correlator: every attempt ends; only a device's own confirmation is recorded.
- Wire: each reader reads what was written. Clock: debounce, hold and heartbeat agree with real time across a wrap.
- Both tasks: the host catches up with the device whatever overlapped; a free device becomes reachable.
- Page: READY is justified and needs two devices; Active is earned by one press each, after the
  connection; the page sees each quiescent device as it is; a reload keeps the pair.

## 2. The modules

| Module | Models | Extends / instantiates |
|---|---|---|
| `LinkControl` | `evaluateControl()` and the replay order, as operators | - |
| `StartCondition` | tracker and start condition, as operators | - |
| `ResultCorrelator` | the correlator and `writeConfirmed()`, as operators on a table | - |
| `DualStart` | the whole system: devices, connections, page | extends `LinkControl`, instantiates the other two |
| `DeviceTasks` | one device from inside: two tasks, NVS, power loss | extends `LinkControl` |
| `StartSwitch` | abstract specification: a switch of two slots toggled by presses | - |
| `DualStartRefinement` | the mapping under which `DualStart` implements `StartSwitch` | extends `DualStart`, instantiates `StartSwitch` |
| `DualStartInv` | the inductive invariants of `DualStart`, for TLC and for the proofs | extends `DualStartRefinement` |
| `HostConnect` | connection set-up with several clicks under way, and failures at each await | instantiates `StartCondition` |
| `StatePublish` | `publishState()` from the inside, on both tasks | - |
| `DeviceLoop` | advertising restart and display, between `loop()` and the callbacks | - |
| `ButtonTiming` | debounce, long hold, heartbeat, hold time on a wrapping clock | - |
| `WireFormat` | both packets in bytes, written and read by three programs | - |
| `MCDualStart`, `MCDeviceTasks`, `MCHostConnect`, `MCWireFormat` | inputs, views, symmetry and further initial states for TLC | the module they are named for (`MCDualStart`: `DualStartInv`) |
| `LinkControlProofs`, `DualStartProofs`, `PageProofs`, `TasksProofs`, `PublishProofs`, `ButtonProofs`, `WireProofs`, `ConnectProofs` | theorems and proofs, section 4 | the module they are about; `PageProofs`: `DualStartProofs` |

`DualStart` is the composition; the modules for one device or one flow open up what it takes as a single step,
and each says at its head what it reduces in return.

### DualStart

Each handler of the firmware and each task of the page (a listener with the promise continuations it
releases) is one action; the name is the code's where the code has one.

| Action | Code |
|---|---|
| `ButtonDown`, `ButtonUp`, `LongHoldReset` | `updateButton()`: the debounced edges and the long hold |
| `heartbeat` | the heartbeat branch of `loop()` |
| `onWrite` | `ControlCallbacks::onWrite` to the end of `replayControlOutcome()` |
| `Reboot` | power loss and `setup()` |
| `ForeignControl` | another phone connects to a free device, writes one packet, leaves |
| `GattConnect`, `CreateEntry`, `SubscribeResult`, `SubscribeState`, `AnswerRead` | the awaits of `connectBluetoothDevice()`, with `onConnect()` on the device |
| `LoseNotification`, `Drop` | a notification or the connection is lost |
| `ApplyState`, `IgnoreState` | `applyState()`: a new packet, a duplicate |
| `DeliverResult`, `WriteDone`, `WriteFail`, `Timeout` | the four things that can happen to a `writeConfirmed()` |
| `HostDisconnected` | the `gattserverdisconnected` listener |
| `linkAsSlot`, `unlinkDevice`, `setArmed`, `identifyDevice` | the buttons of a card |
| `NewGroup`, `ResetActive`, `Tick`, `PageReload` | the buttons of the page, `setInterval(render, 1000)`, reload |
| `Expire` | `STALE_MS` pass; not a task, so nothing is rendered |

How the data is abstracted:

- A ButtonState is the fields the host acts on (`seq`, pressed, armed, group, slot) and a history
  field `press`, the number of the last press, which no action of the page's code reads.
- `inbox[d]` is the ATT bearer: notifications and read answers of one device arrive in order, and the
  end of a connection comes last, after a prefix of what was under way. Across devices there is no order.
- One GATT operation per device is in flight, as Web Bluetooth demands: a second is rejected at once
  and `writeConfirmed()` cancels its expectation in the same task, so a rejected click is no step.
- Freshness is a flag that time may clear (`Expire`) and a packet sets.
- A set-up that fails halfway and stays connected is a set-up that never takes its next step; the next
  thing that happens to it is the end of the connection.
- `accepted`, `toggled`, `atConnect`, `presses`, `missed`, `spent` are history variables.
- New groups are fresh: `newGroupId()` draws 32 random bits.

### DeviceTasks

`DualStart` takes a handler as one step; `DeviceTasks` splits it. A handler is a program, the sequence
of steps that `handleControlBytes()` or the long-hold branch will run: the four loads of `LinkState
current{...}`, the decision, the four stores of `applyLinkState()`, the three puts of `saveLink()`, the
refresh of DeviceInfo and the two notifications. `PowerCycle` falls between any two steps, and the NimBLE task and
`loop()` interleave freely, as nothing in the code keeps them apart. The code does not survive every interleaving
(`lost_reset`), and the history `raced` says which: it records that a task stored the link while the other was between its
first read of it and the last step of its change. The next change that is decided on, or the next boot, makes up for it.
`WakesAsIs`, `LinkIsWhole` and `ResultSurvives` hold whenever no task is changing the link and `raced` is false, so also where
handlers overlap in any other way: one reads or stores while the other emits, or reads while the other saves.
The three reads of `refreshDeviceInfoCharacteristic()` and of `sendControlResult()` are one step each: the
properties look at what a host was told only where that is coarse enough to hold in the code.

### StartSwitch and the refinement

`StartSwitch` knows owners, one Active bit per slot, presses, and READY. The mapping takes `owner` from
`pair.record`, `active` from `slotActive`, `used` from the history `toggled` and `ready` from the text on the page
(`shown`). Everything else the system does is a stutter: packets, set-ups, results, timeouts. What is promised: a
step toggles slots only with one press of their device that has not toggled them yet; a slot whose record changes
falls back; READY stands only while two different devices hold both slots active, and goes in the very step that takes
one of these away. `ShownJustified` says which conditions of the code READY rests on, the refinement what they amount to.

### HostConnect

A flow is one click on Add or Reconnect, with the devices it has still to connect and the await it is at; `Call`,
`Connected`, `InfoRead`, `ResultsOn`, `StatesOn`, `StateRead` are the pieces of `connectBluetoothDevice()` between awaits
(`web-debug/app.js:131-198`), `Rejected` the catch of its callers, `Drop` the `gattserverdisconnected` listener.
Two flows of one device share its characteristic objects, so each packet runs both listeners (`Hear`), each with the
entry its own flow made, and both feed the same `slotActive` (`AllFollow`).

### StatePublish

A handler is a program again: the load and the store of `seq`, the reads of the snapshot, `setValue()`, `notify()`, and
before them what the handler changes. The tasks interleave freely. The history `replaced` records the one way to lose a press, the
NimBLE task setting the value between `loop()`'s `setValue()` and `notify()` of it; `PressSent` says that there is no other, and
`EveryPressSent`, the same without the exception, is violated (`PublishReplaced.cfg`, section 6). `LongPressedHonest` exempts a packet put
together between the stores of `stablePressed` and `pressStartedAtMs`, and no other; `HostCatchesUp` exempts nothing.

### DeviceLoop, ButtonTiming, WireFormat

`DeviceLoop` has one action per access of either task to `shouldStartAdvertising` and to what the display shows; the
radio stops advertising when a host connects. `ButtonTiming` has one action per function (`updateButton`, `heartbeat`), time going on by
a nondeterministic amount before each; the code's variables hold times modulo `ClockWrap`, the histories real ages. `WireFormat` has
the writers and readers of `protocol.h`, `protocol.js` and `decode_state.py` over sequences of bytes.

## 3. The runs

Every cfg gives the constants and replaces no definition. The smallest instance in which the case occurs is used.
A name that ends in `Inv` is the inductive invariant behind the run's properties (section 4); it includes the types.

| Run | Instance | Shows |
|---|---|---|
| `link` | 1 device, 2 groups, 2 commands, 1 fault, no press | `RecordConfirmed`: with two overlapping LINK/UNLINK attempts, late results of timed-out ones, New Group and reload in between, a record names a (group, slot) the device accepted. `EntryFollowsConnection`, `ReloadKeepsPair`, `TypeOK`; `RecordInv` |
| `reconnect` | 1 recorded device, 2 presses, 2 faults, a takeover | `ActiveEarned`, `ToggledOnce`, `BaselineCurrent`: presses before, during and after a reconnect, reboot, reload or takeover. `ImplementsSwitch`: from `Init`, every behaviour is one of the switch; `ActiveInv` |
| `ready` | 2 connected devices, slot 1 active, 1 press, and 1 command or 1 fault; only `Tick` fair | `ShownJustified`, `ReadyTwoDevices`, `InSync`; `PanelsAgree`: the slot panels and the verdict, computed by different code, say the same; `StepsAsSwitch`; `StaleReadyGoes`, also when a device has fallen silent; `SyncInv` |
| `live` | 1 device, 1 fault, and 1 press or 1 command; fair | `PressSeen`: a lost press notification is made up for by a heartbeat. `AttemptsSettle` |
| `crash` | every command, 3 handlers of either task in any interleaving, 2 power losses, generation modulo 2 | `WakesAsIs`: between changes a power loss changes nothing. `LinkIsWhole`; `ResultSurvives`: a reported link is safe. All three but for `raced`; `DeviceInv` |
| `connect` | 1 device, 2 flows, 2 presses, 2 drops, a failure at any await | `EdgeTogglesOnce`: however many listeners were left behind, an edge toggles once. `CardCurrent`: whichever flow's entry is in the map, the card shows the last packet; `ConnectInv` |
| `publish` | both tasks, 1 press, 1 handler of the NimBLE task, `seq` modulo 3; fair | `PressSent`: a press is sent, or replaced in one moment. `LongPressedHonest`; `HostCatchesUp`: the heartbeats make up for everything; `PublishInv` |
| `loop` | all of `DeviceLoop`; fair | `Reachable`: a device without a host can be connected to again. `RestartsWhenFree` |
| `button` | clock modulo 10, steps of 1 or 2, any bouncing | `Debounced`, `OneResetPerHold`, `HoldTimeHonest`; `BeatInTime`: two heartbeats are at least the interval apart and less than the interval and two readings of the clock; `ButtonInv` |
| `wire` | every flag, type, slot and command; ends and middle of each counter | `StateReadBack`; `CommandReadBack`: also, what the device accepts of another program's packets (wrong length, wrong version among them) is what the page would write; `ToolAgrees`: every field, version and type included |
| `lost_reset`, `connect_unfed` | as small as the case | violations, section 6 |

**Bounds and why they are enough.**

- `MaxCmds = 2` (`link`) overlaps a timed-out attempt with its retry, the only way two attempts of one
  command meet. Busy buttons allow one attempt per (command, slot).
- `MaxPress = 2` gives a press before and one after a reset; Active is a toggle of period two.
- `MaxFaults = 2` covers a loss with a second fault during recovery. `InboxCap = 2` holds the two notifications of one
  outcome, the most a handler emits.
- `SeqWrap` stands for 2^16. The host compares two sequence numbers of one connection; `SeqAssumption` says that fewer
  packets than a full round lie between them, and TLC checks it on every run. `View` (of `MCDualStart` and
  `MCHostConnect`) identifies states that differ only by a rotation of `seq`, or by a packet a disconnected entry still holds:
  such states have the same steps up to the same rotation and no property of these runs tells them apart. `live` runs without it.
- `SYMMETRY`: over the groups in `link` (the one of `ForeignPackets` left out) and over the flows in `connect`; no formula of
  those runs names one of them and none is a liveness property.
- `GenMod = 1` in `DualStart` runs: the generation is not on any wire the host acts on. `crash` lets it wrap.
- `Up` (runs `ready`, `live`) starts from a page that is connected to its devices, in `ready` with slot 1 toggled on by its one
  press; `Init` reaches it through the five set-up actions of each device and that press. The second press makes READY; the
  two slots have the same code, so a press of one of them is enough. `InitUp` and `InitLive` have two starts
  each, which share the bounds: one has the command left, the other the fault (`ready`), one the command, the other the press (`live`).
- `connect`: more than two flows only add further listeners to the list that two make longer than one; two drops leave a flow over from
  a connection before the last. One device, because devices share nothing but the flows that visit them in turn.
- `crash`: three handlers are a change on either task and a third that finds what they left; `View` (of `MCDeviceTasks`) leaves out
  the histories that no formula of the run reads, and what a task read before it decided. A generation of two values wraps.
- `publish`: one press against one connect, write or disconnect is every pair of handlers the two tasks can be in.
- `button`: `ClockAssumption` keeps each interval, with the longest pass on either side, within a round, as in the code (49 days); the
  clock still comes round during a hold. Histories stop at one round.
- `wire`: bytes of 64 values keep the six flags apart and let a four-byte counter fit TLC's integers.
- Runs of `DeviceTasks` are finite by their bounds, so `CHECK_DEADLOCK FALSE`: the model stops when the handlers
  and power losses are used up. The other models never stop, and deadlock is checked.

**Fairness.** Weak fairness of `Tick` (`setInterval`), of `heartbeat` (`loop()` runs for ever), of the
next event of each inbox (the browser's event loop), of `WriteDone` and of `Timeout` (`setTimeout`).
`onWrite` has strong fairness: it waits for room in the inbox, which is a bound of the model, and weak
fairness would let heartbeats take the room for ever. Nothing is assumed of the user, the radio, losses,
presses, or of the set-up steps of a connection. The run `ready` assumes the fairness of `Tick` alone, since a
silent device is what freshness is for. `publish` and `loop` assume that each of the two tasks goes on with its handler, that `loop()` comes
by its heartbeat, and, in `publish`, that a host that connected subscribes. `connect_unfed` grants the code more than it can claim, a user who
clicks Reconnect for ever, so that its counterexample does not rest on anyone stopping.

**Mutants.** Every property of a passing run has a plausible bug of the code that breaks it: a generation
that does not wrap, a confirmation that ignores group and slot, a record that is not saved, a disconnect
that leaves its entry online or the slots' Active alone, a baseline from a stale, unknown or fixed sample, a reset that is not rendered, a
start condition without the slot, a snapshot taken before the change, a heartbeat without a notification,
a timer that guards the write, no `setInterval`, a save without the generation, a load without
normalisation, a result before the save; an edge detector that looks at its own entry, a listener that replaces the last; a
notification before the value, a press published before its start is noted; a flag that is kept, or cleared too late; deadlines
compared as absolute times, a latch that is never reset, a hold time that wraps; swapped halves, a signed group,
exchanged fields. They stand in the modules, marked `Mutant`, and no action uses them.

## 4. What is proved

Every safety invariant and every safety action property of a run is a theorem, with the one exception of `RestartsWhenFree`, and
so is the refinement. The theorems hold for all values of the constants that meet the named assumptions: any devices, groups,
packets, records, clicks and bounds. The assumptions are

- `None` and the like lie outside the types they are distinguished from; bounds are natural numbers; constants that are sets
  of packets or commands are sets of those;
- `SeqAssumption` (`DualStart`): `SeqWrap > InboxCap + MaxFaults + 1`, as in section 3; 2^16 in the code;
- `ClockAssumption`, `StepAssumption` (`ButtonTiming`): the three intervals, with a pass of `loop()` on either side, fit into one
  round of the clock, and time goes on between passes;
- `ByteAssumption` (`WireFormat`): a byte has at least 64 values, for the six flags;
- `BrowsedAssumption` (`HostConnect`): the browser knows finitely many devices.

### The link (`LinkControlProofs`)

`EvaluateType`: an outcome is well-formed for every packet and link. `LinkChange`: the group or slot changes only in an accepted
outcome, which is saved and has the next generation. `StaysNormal`: a link with a group and a slot, or neither, stays one.

### The whole system (`DualStartProofs`, `PageProofs`; invariants in `DualStartInv`)

- `TypeCorrect`: `TypeOK /\ EntryFollowsConnection`. Neither is inductive alone: `applyState()` reads the entry of the packet's
  device, so its result has a type only if no packet comes before the entry exists.
- `ReadyJustified`, `ReadyNeedsTwoDevices`: tasks that render leave on the page what their own final state justifies; the others
  do not touch what READY rests on. `CreateEntry` replaces an entry, but an offline one; `Expire` changes only freshness, which
  `ShownJustified` leaves out. Two devices follow, because both slots name a connected entry whose last packet names that slot.
- `PanelsAlwaysAgree`: the same case split, between the panels' text and the verdict.
- `ActiveInvariant`, from which `ActiveIsEarned`, `BaselineIsCurrent` and `PressTogglesOnce`. That a toggle stands for a press after the
  connection says nothing by itself about the next packet. `ActiveInv` adds: nothing is under way from an earlier connection
  (`ChannelInOrder`); of two packets in the order of the inbox, of what the page knows and of the characteristic, an up before a down means a
  press in between (`PacketsInOrder`); no slot has used a press later than the one the page knows (`PressesUsed`); and the tracker compares
  with what the page knows and nothing older (`Baseline`). A toggle is then a down after a known up, hence a press later than any used.
- `EveryStepIsASwitchStep`, `SystemImplementsSwitch`: `Spec => Switch!Spec`. Initial states map to initial states; each action maps to a step of
  the switch or a stutter, from `ShownJustified`, `ReadyTwoDevices` and `ActiveInv`.
- `RecordInvariant`, from which `RecordsAreConfirmed` and `ReloadKeepsThePair`. A record is written from a result got by an attempt, possibly
  long after; `RecordInv` says that results on their way and results got tell the truth about what the device accepted, in
  whatever order they come and whichever attempt they are matched to, and that storage has the pair.
- `SyncInvariant`, from which `PageIsInSync`. The page drops a packet whose `seq` it has, so a packet must not share its `seq` with a different one. `SyncInv`
  says that the copies of the characteristic on the page and in the inbox are recent (`CopiesRecent`: each later `seq` is a copy that
  follows, or was lost on a fault), hence, by `SeqAssumption`, that a `seq` stands for one packet (`SeqsUnique`), and that the last copy is the
  characteristic once the page has asked for it, unless a notification was lost since (`LastCurrent`).

### Inside one device (`TasksProofs`, `PublishProofs`, `ButtonProofs`)

- `DeviceTypes`, `PublishTypes`: types, and each task is somewhere in a program of its own, however the two interleave.
- `DeviceInvariant`, from which `DeviceWakesAsIs`, `DeviceLinkIsWhole` and `ReportedLinkSurvives`: how far each task has come tells which link globals it has read or
  stored and which keys it has put. The three say what holds between changes and at the result; a power loss falls on any step, so the
  invariant has to say it for every step. It has three cases (`HandlerInv`): the link is saved and shown, and what either task has read or
  decided still fits it; or one task is on its way through a change, and from the first put on the other still fits; or a store fell into
  the other's change (`raced`). No theorem assumes that handlers exclude each other; `lost_reset` and `TasksTornLink.cfg` show the third case.
- `PublishInvariant`, from which `PressIsSent` and `LongPressIsHonest`: a press that the host is owed is in `loop()`'s snapshot from the read on, and
  in the value from `setValue()` on, whatever the other task does meanwhile, unless that value is `replaced`; and a press counts as
  long before its time in no other step than the one between the two stores (`RipeInTime`).
- `ButtonInvariant`, from which `ResetsOncePerHold`, `BeatsInTime`, `HoldTimeIsHonest` and `EdgesAreDebounced`: a difference of clock readings modulo `ClockWrap` is the real age
  of the stored one, up to the age at which the code asks. A beat falls in the first pass that finds the interval over (`BeatIsDue`), and that pass
  reads the clock up to twice after the last one that did not. The proof is arithmetic with `%`, once, in a few lemmas (`Since...`), and then cases.

### The wire (`WireProofs`)

`PageReadsState`, `ToolReadsState`, `DeviceReadsCommand`: each reader gives back every field that was written, for all values of every field and every
size of a byte; the three theorems about `Spec` are these, along the way of a packet. `ReadIsWritten` is the converse: bytes
that the firmware accepts are those `makeCommand()` writes for what it read, since two and four bytes are determined by the number they stand for.

### Connection set-up (`ConnectProofs`)

`ConnectInvariant`, from which `EdgesToggleOnce` and `CardsAreCurrent`, for any number of devices and of clicks, each of which may fail at any await. `ConnectInv` says
that a flow holds on to a live connection and has a listener from one await on (`FlowInOrder`), that an entry which listens has
heard what the page heard last, or nothing (`CardFed`), and that the tracker has followed that packet (`HeardInOrder`). The first listener that
takes a packet moves the tracker, the others leave it. Listeners are folded over in order (`AllFollow`); the proof takes the least number of listeners at
which the fold could go wrong (`FoldFollowed`, by `WFMin`), since the library's induction theorems cannot be instantiated here.

### Only model-checked

- Liveness: `PressSeen`, `AttemptsSettle`, `StaleReadyGoes`, `HostCatchesUp`, `Reachable`. The prover has no rules for fairness and ENABLED.
- `RestartsWhenFree`: `DeviceLoop` has no bound and no parameter but `None`, so the run `loop` covers every state it has.
- The violations of section 6: TLC gives the counterexample.

## 5. What is not modelled

- The status LED and its blink timer (`DeviceAdapter.cpp`): an output for the eye that nothing else reads. Two weaknesses read in
  its code: `update()` compares `blinkUntilMs_ > now` as absolute times, so a blink whose deadline lies beyond the wrap of `millis()`
  is not shown; and both tasks choose and apply the colour without a lock.
- Message texts, device names, the activity log, the DeviceInfo fields of a card and
  their being read again after each result (`refreshInfo()`, `app.js:184`), how cards are bound to the document.
- `fnv1a32()`: nothing compares its value. The generator of `test-vectors/`, `web-flasher/`, CI: no part in the protocol.
- The drivers of M5, NimBLE and the browser, except for what the code relies on: order and loss of notifications, one
  GATT operation at a time, the end of advertising at a connection, and that `advertising->start()` succeeds (`main.cpp:364` ignores its result).

## 6. Where the documents and the code disagree

Runs that expect a violation:

- `lost_reset`: a SET_ARMED that loaded the link before a long hold stores it back after (`main.cpp:221`). README of
  the firmware, line 69: the hold "clears only device-side link information". It needs two tasks inside their
  handlers at the same moment, a window of microseconds to milliseconds (the puts). `crash` shows that any other interleaving leaves the link whole and saved.
- `connect_unfed`: the entry counts as connected before it is fed (`app.js:173`); when a `startNotifications()` (lines 187, 192) then
  rejects and the connection stays, the card stays connected without a state, and Reconnect leaves it so (`app.js:133`).
  A rejecting `readValue()` does no harm: by then the next heartbeat feeds the card.
  SPEC.md:597: "Display live active/pressed/armed/stale state."

Further ones, with a configuration to run by hand where one is named:

- `tlc -config DualStartRelink.cfg MCDualStart` violates `DeviceInOneSlot`: `linkAsSlot()` sets the record of the new slot and keeps that of the old
  (`app.js:124`), so a device moved from slot 1 to slot 2 is recorded in both. SPEC.md:653: "Device moves to
  selected slot". READY is not affected (`ReadyTwoDevices`).
- `TasksTornSave.cfg`, `GenNamesLink`: a power loss between the puts of `saveLink()` (`firmware/pio/src/main.cpp:63`) changes the link
  under an old generation. SPEC.md:320: "`link_generation` is monotonic across all link mutations".
- `TasksTornLink.cfg`, `LinkAlwaysWhole` (`LinkIsWhole` without `raced`): a Control write and a long hold interleave their stores (`main.cpp:197`) and leave a group
  without a slot in RAM, which the comment at `main.cpp:73` excludes.
- `tlc -config LoopDisplay.cfg DeviceLoop` violates `DisplaySettles`: `updateDisplay()` reads the globals once to remember and again to draw (`main.cpp:182`);
  a change in between that is undone before the next pass leaves an old text.
- `tlc -config PublishReplaced.cfg StatePublish` violates `EveryPressSent`: the value that the NimBLE task sets between `loop()`'s `setValue()` and
  `notify()` of a press goes out in its place (`main.cpp:122`), and if it was put together before the press, the host is not sent the press.
  SPEC.md:258: "Device sends ButtonState Notify:", and in the list below it (261) "on button down". The next heartbeat
  corrects it (`HostCatchesUp`), unless the press is over by then.
- The exception of `LongPressedHonest`: a packet of the NimBLE task put together between the stores of `stablePressed` and
  `pressStartedAtMs` (`main.cpp:300`) reports `long_pressed` for a fresh press. The next packet corrects it.

## 7. Plan

Done: the core protocol, one device's tasks, publishing, loop, clock, wire, connection set-up, the abstract switch; every safety
property and the refinement proved, but for `RestartsWhenFree`.

Left: `RestartsWhenFree`, for the sake of completeness; the safety part of `AttemptsSettle` (an attempt that waits has a timer or a write
under way) as an invariant; fewer and shorter steps in the longest proofs, `DualStartProofs` first.

## 8. Running it

    tlc -config DualStartLink.cfg MCDualStart
    tlc -config TasksCrash.cfg MCDeviceTasks
    tlc -config HostConnect.cfg MCHostConnect
    tlc -config PublishState.cfg StatePublish
    tlapm DualStartProofs.tla

The other runs are named in `PROJECT.json`; each takes a minute or two at most. `DualStartProofs` and `PageProofs` take
several minutes each from nothing, the other proof modules less.
