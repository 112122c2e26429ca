---------------------------- MODULE HostConnect ----------------------------
(***************************************************************************)
(* The page's connection set-up, when several run at once.                 *)
(*                                                                         *)
(* "Add Device" connects one device, "Reconnect Granted Devices" all of    *)
(* them in turn, and nothing keeps the user from clicking again before the *)
(* first click is done.  A flow is one such click; each await of           *)
(* connectBluetoothDevice() is a place where the others go on.             *)
(*                                                                         *)
(* All flows of one connection share the browser's characteristic objects, *)
(* so one notification runs every listener they added.  An entry is named  *)
(* by the flow that made it; entries of an ended connection matter only    *)
(* while they stand in the map.                                            *)
(*                                                                         *)
(* DualStart has the queue of events under way and every other reset of a  *)
(* slot.  Here an event is handled when it is sent, and each device keeps  *)
(* its record in a slot of its own.                                        *)
(*                                                                         *)
(* Source: web-debug/app.js                                                *)
(***************************************************************************)
EXTENDS Integers, SequencesExt

CONSTANTS
    Browsed,    \* the devices the user has granted, as the browser names them
    Flows,      \* bound: clicks whose set-up can be under way at once
    None,       \* null, nothing
    SeqWrap,    \* 2^16 in the code
    MaxPress,   \* bound: presses of one button
    MaxDrops    \* bound: connections lost

ASSUME FlowsAssumption == None \notin Flows
ASSUME BrowsedAssumption == IsFiniteSet(Browsed)
ASSUME BoundsAssumption ==
    SeqWrap \in Nat /\ SeqWrap > 1 /\ MaxPress \in Nat /\ MaxDrops \in Nat

\* A ButtonState packet, as far as it is modelled here.
PacketType == [seq: 0 .. SeqWrap - 1, pressed: BOOLEAN]

ASSUME NoneAssumption == None \notin PacketType

INSTANCE StartCondition

VARIABLES
    gatt,       \* device: it is connected to this page
    pressed,    \* device: stablePressed
    presses,    \* device: how often the button was pressed
    seq,        \* device: seq
    notifying,  \* device: ButtonState notifications are turned on
    flow,       \* the devices each flow has still to connect, and where it is
    devices,    \* devices: the flow that made the device's entry
    entry,      \* what each flow made for each device
    listeners,  \* the flows whose entries the notifications feed, in order
    tracker,    \* slotActive of the slot the device is recorded in
    heard,      \* history: the last packet heard on this connection
    edges,      \* history: down-edges heard on this connection, modulo 2
    drops

deviceVars == <<gatt, pressed, presses, seq, notifying>>
pageVars == <<devices, entry, listeners, tracker>>
historyVars == <<heard, edges>>
vars == <<deviceVars, flow, pageVars, historyVars, drops>>

(***************************************************************************)
(* The page: what a ButtonState does.                                      *)
(***************************************************************************)

\* The page holds the device for connected.
Online(b) == devices[b] # None /\ entry[devices[b]][b].connected

\* applyState() keeps a packet unless the entry has it already.
Takes(own, packet) == own = None \/ own.seq # packet.seq

\* Mutant: the edge is taken from the entry's own last packet.
FollowsOwn(t, own, packet) ==
    IF ~ Takes(own, packet) THEN t
    ELSE [active |-> IF own # None /\ ~ own.pressed /\ packet.pressed
                     THEN ~ t.active ELSE t.active,
          prev |-> Sample(packet.pressed)]

\* What the slot's tracker becomes when an entry with the state own is fed.
Follows(t, own, packet) ==
    IF Takes(own, packet) THEN reduceActive(t, packet.pressed) ELSE t

\* What all the listeners make of the slot's tracker, in turn.
AllFollow(b, packet) ==
    FoldLeft(LAMBDA t, f : Follows(t, entry[f][b].state, packet), tracker[b], listeners[b])

\* 'characteristicvaluechanged' on ButtonState: every listener in turn.
Hear(b, packet) ==
    /\ entry' = [f \in Flows |->
                    IF f \in ToSet(listeners[b]) /\ Takes(entry[f][b].state, packet)
                    THEN [entry[f] EXCEPT ![b].state = packet] ELSE entry[f]]
    /\ tracker' = [tracker EXCEPT ![b] = AllFollow(b, packet)]
    /\ heard' = [heard EXCEPT ![b] = packet]
    /\ edges' = [edges EXCEPT ![b] =
                    IF heard[b] # None /\ ~ heard[b].pressed /\ packet.pressed
                    THEN 1 - @ ELSE @]
    /\ UNCHANGED <<devices, listeners>>

(***************************************************************************)
(* The device: publishState() after a button edge or on a heartbeat.       *)
(***************************************************************************)

Packet(b) == [seq |-> seq[b], pressed |-> pressed[b]]

Publish(b) ==
    /\ seq' = [seq EXCEPT ![b] = (@ + 1) % SeqWrap]
    /\ IF notifying[b] /\ listeners[b] # <<>> THEN Hear(b, Packet(b)')
       ELSE UNCHANGED <<pageVars, historyVars>>
    /\ UNCHANGED <<gatt, notifying, flow, drops>>

Press(b) ==
    /\ ~ pressed[b] /\ presses[b] < MaxPress
    /\ pressed' = [pressed EXCEPT ![b] = TRUE]
    /\ presses' = [presses EXCEPT ![b] = @ + 1]
    /\ Publish(b)

Release(b) ==
    /\ pressed[b]
    /\ pressed' = [pressed EXCEPT ![b] = FALSE]
    /\ UNCHANGED presses
    /\ Publish(b)

heartbeat(b) ==
    /\ UNCHANGED <<pressed, presses>>
    /\ Publish(b)

(***************************************************************************)
(* The flows.                                                              *)
(***************************************************************************)

Idle(f) == flow[f].todo = <<>>

\* The flow waits at the given await, for the given device.
At(f, b, await) == ~ Idle(f) /\ Head(flow[f].todo) = b /\ flow[f].at = await

GoesTo(f, await) == flow' = [flow EXCEPT ![f].at = await]

\* The device is done with; the loop of reconnectGrantedDevices() goes on.
Rest(w) == [todo |-> Tail(w.todo), at |-> "call"]

\* The catch of reconnectGrantedDevices(), and of addDevice()'s listener.
Failed(w) == Rest(w)

Begin(f, todo) ==
    /\ Idle(f)
    /\ flow' = [flow EXCEPT ![f] = [todo |-> todo, at |-> "call"]]
    /\ UNCHANGED <<deviceVars, pageVars, historyVars, drops>>

addDevice(f) == \E b \in Browsed : Begin(f, <<b>>)

reconnectGrantedDevices(f) == Begin(f, SetToSeq(Browsed))

\* Mutant: a connected device is set up again.
ConnectAgain(b) == FALSE

\* existing?.connected
AlreadyConnected(b) == Online(b)

\* connectBluetoothDevice() leaves a connected device alone.
Call(f, b) ==
    /\ At(f, b, "call")
    /\ flow' = [flow EXCEPT ![f] = IF AlreadyConnected(b) THEN Rest(@)
                                   ELSE [@ EXCEPT !.at = "connect"]]
    /\ UNCHANGED <<deviceVars, pageVars, historyVars, drops>>

\* gatt.connect() resolves, at once if the device is connected already.
Connected(f, b) ==
    /\ At(f, b, "connect")
    /\ gatt' = [gatt EXCEPT ![b] = TRUE]
    /\ seq' = IF gatt[b] THEN seq ELSE [seq EXCEPT ![b] = (@ + 1) % SeqWrap]
    /\ GoesTo(f, "info")
    /\ UNCHANGED <<pressed, presses, notifying, pageVars, historyVars,
                   drops>>

\* DeviceInfo is read and parsed: the new entry takes the device's place.
InfoRead(f, b) ==
    /\ At(f, b, "info")
    /\ entry' = [entry EXCEPT ![f][b] = [connected |-> TRUE, state |-> None]]
    /\ devices' = [devices EXCEPT ![b] = f]
    /\ GoesTo(f, "results")
    /\ UNCHANGED <<deviceVars, listeners, tracker, historyVars, drops>>

\* Mutant: stateChar.oncharacteristicvaluechanged = ...
ReplaceListener(l, f) == <<f>>

\* stateChar.addEventListener()
AddListener(l, f) == Append(l, f)

\* ControlResult is subscribed; the listener of ButtonState comes next.
ResultsOn(f, b) ==
    /\ At(f, b, "results")
    /\ listeners' = [listeners EXCEPT ![b] = AddListener(@, f)]
    /\ GoesTo(f, "states")
    /\ UNCHANGED <<deviceVars, devices, entry, tracker, historyVars,
                   drops>>

StatesOn(f, b) ==
    /\ At(f, b, "states")
    /\ notifying' = [notifying EXCEPT ![b] = TRUE]
    /\ GoesTo(f, "reading")
    /\ UNCHANGED <<gatt, pressed, presses, seq, pageVars, historyVars,
                   drops>>

\* readValue() also runs the listeners; the packet is then the entry's last
\* when applyState() gets it from the promise.
StateRead(f, b) ==
    /\ At(f, b, "reading")
    /\ Hear(b, Packet(b))
    /\ flow' = [flow EXCEPT ![f] = Rest(@)]
    /\ UNCHANGED <<deviceVars, drops>>

\* Any of the awaited calls rejects and the connection stays: a browser does
\* so when another operation of the device is under way, for one.
Rejected(f, b) ==
    /\ ~ Idle(f) /\ Head(flow[f].todo) = b /\ flow[f].at # "call"
    /\ flow' = [flow EXCEPT ![f] = Failed(@)]
    /\ UNCHANGED <<deviceVars, pageVars, historyVars, drops>>

(***************************************************************************)
(* The connection ends: 'gattserverdisconnected' runs once for every call  *)
(* that was ever made, always to the same effect; what the flows wait for  *)
(* on this connection rejects; its characteristics are dead.               *)
(***************************************************************************)

\* A flow that has got hold of the connection.
Holds(w, b) == w.todo # <<>> /\ Head(w.todo) = b /\ w.at \notin {"call", "connect"}

OfflineEntry(e) ==
    [connected |-> FALSE,
     state |-> IF e.state = None THEN None ELSE [e.state EXCEPT !.pressed = FALSE]]

Drop(b) ==
    /\ drops < MaxDrops
    /\ gatt[b]
    /\ gatt' = [gatt EXCEPT ![b] = FALSE]
    /\ notifying' = [notifying EXCEPT ![b] = FALSE]
    /\ flow' = [f \in Flows |-> IF Holds(flow[f], b) THEN Failed(flow[f]) ELSE flow[f]]
    /\ listeners' = [listeners EXCEPT ![b] = <<>>]
    /\ IF devices[b] = None THEN UNCHANGED <<entry, tracker>>
       ELSE /\ entry' = [entry EXCEPT ![devices[b]][b] = OfflineEntry(@)]
            /\ tracker' = [tracker EXCEPT ![b] = INITIAL_ACTIVE]
    /\ heard' = [heard EXCEPT ![b] = None]
    /\ edges' = [edges EXCEPT ![b] = 0]
    /\ drops' = drops + 1
    /\ UNCHANGED <<pressed, presses, seq, devices>>

(***************************************************************************)
(* The specification.                                                      *)
(***************************************************************************)

Init ==
    /\ gatt = [b \in Browsed |-> FALSE]
    /\ pressed \in [Browsed -> BOOLEAN]
    /\ presses = [b \in Browsed |-> 0]
    /\ seq = [b \in Browsed |-> 1]
    /\ notifying = [b \in Browsed |-> FALSE]
    /\ flow = [f \in Flows |-> [todo |-> <<>>, at |-> "call"]]
    /\ devices = [b \in Browsed |-> None]
    /\ entry = [f \in Flows |-> [b \in Browsed |-> [connected |-> FALSE, state |-> None]]]
    /\ listeners = [b \in Browsed |-> <<>>]
    /\ tracker = [b \in Browsed |-> INITIAL_ACTIVE]
    /\ heard = [b \in Browsed |-> None]
    /\ edges = [b \in Browsed |-> 0]
    /\ drops = 0

Proceed(f) ==
    \E b \in Browsed :
        \/ Call(f, b) \/ Connected(f, b) \/ InfoRead(f, b) \/ ResultsOn(f, b)
        \/ StatesOn(f, b) \/ StateRead(f, b) \/ Rejected(f, b)

Next ==
    \/ \E f \in Flows : addDevice(f) \/ reconnectGrantedDevices(f) \/ Proceed(f)
    \/ \E b \in Browsed : Press(b) \/ Release(b) \/ heartbeat(b) \/ Drop(b)

Spec == Init /\ [][Next]_vars

\* Every awaited call resolves or rejects; loop() of a device runs for ever.
Fairness ==
    /\ \A f \in Flows : WF_vars(Proceed(f))
    /\ \A b \in Browsed : WF_vars(heartbeat(b))

FairSpec == Spec /\ Fairness

\* The user, too, does what there is to do: Reconnect, again and again.
PatientSpec ==
    FairSpec /\ \A f \in Flows : WF_vars(reconnectGrantedDevices(f))

(***************************************************************************)
(* Types and safety.                                                       *)
(***************************************************************************)

Awaits == {"call", "connect", "info", "results", "states", "reading"}

\* Every variable has its type, and a flow's listener is added once.
TypeOK ==
    /\ gatt \in [Browsed -> BOOLEAN] /\ pressed \in [Browsed -> BOOLEAN]
    /\ presses \in [Browsed -> 0 .. MaxPress]
    /\ seq \in [Browsed -> 0 .. SeqWrap - 1]
    /\ notifying \in [Browsed -> BOOLEAN]
    /\ flow \in [Flows -> [todo: Seq(Browsed), at: Awaits]]
    /\ devices \in [Browsed -> Flows \cup {None}]
    /\ entry \in [Flows -> [Browsed -> [connected: BOOLEAN,
                                        state: PacketType \cup {None}]]]
    /\ listeners \in [Browsed -> Seq(Flows)]
    /\ \A b \in Browsed : IsInjective(listeners[b])
    /\ tracker \in [Browsed -> Trackers]
    /\ heard \in [Browsed -> PacketType \cup {None}]
    /\ edges \in [Browsed -> {0, 1}]
    /\ drops \in 0 .. MaxDrops

\* However many entries and listeners two overlapping set-ups leave behind,
\* each down-edge the page hears toggles the slot once: Active is the parity
\* of the edges heard since the connection began (SPEC 12).
EdgeTogglesOnce ==
    \A b \in Browsed : tracker[b].active <=> edges[b] = 1

\* Whichever of two set-ups put its entry into the map, and whichever of them
\* failed on the way: a connected card that shows a state shows the last one
\* the page heard.
CardCurrent ==
    \A b \in Browsed :
        Online(b) /\ entry[devices[b]][b].state # None
            => entry[devices[b]][b].state = heard[b]

(***************************************************************************)
(* The inductive invariant: what the flows, the listeners and the packets  *)
(* heard have to do with one another.                                      *)
(***************************************************************************)

Listens(f, b) == f \in ToSet(listeners[b])

\* A flow holds on to a connection with an entry; it has no listener and its
\* entry no state before it adds one, and it has one from then on.
FlowInOrder(f, b) ==
    /\ Holds(flow[f], b) => gatt[b]
    /\ \A await \in {"connect", "info", "results"} :
           At(f, b, await) => ~ Listens(f, b)
    /\ At(f, b, "results") => Online(b) /\ entry[f][b].state = None
    /\ \A await \in {"states", "reading"} :
           At(f, b, await) => Listens(f, b)
    /\ At(f, b, "reading") => notifying[b]

\* The card of a connection is fed by a listener; an entry with a listener
\* has heard what the page has heard last, or nothing.
CardFed(b) ==
    /\ Online(b) => gatt[b]
    /\ Online(b) /\ entry[devices[b]][b].state # None => Listens(devices[b], b)
    /\ \A f \in Flows :
           Listens(f, b) => Online(b) /\ entry[f][b].state \in {None, heard[b]}

\* What the page heard last is what the device published last, and the slot's
\* tracker has followed it, once per packet.
HeardInOrder(b) ==
    IF heard[b] = None THEN tracker[b] = INITIAL_ACTIVE /\ edges[b] = 0
    ELSE /\ listeners[b] # <<>> /\ notifying[b]
         /\ heard[b] = Packet(b)
         /\ tracker[b] = [active |-> edges[b] = 1, prev |-> Sample(heard[b].pressed)]

\* This is inductive.
ConnectInv ==
    /\ TypeOK
    /\ \A b \in Browsed :
           /\ CardFed(b) /\ HeardInOrder(b)
           /\ \A f \in Flows : FlowInOrder(f, b)

(***************************************************************************)
(* What the documents say and the code does not do.                        *)
(***************************************************************************)

\* SPEC 16: a connected card displays the device's live state.  A card that
\* counts as connected gets a state, or goes offline.
CardLives ==
    \A b \in Browsed :
        Online(b) ~> ~ Online(b) \/ entry[devices[b]][b].state # None
=============================================================================
