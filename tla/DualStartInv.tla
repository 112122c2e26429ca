---------------------------- MODULE DualStartInv ----------------------------
(***************************************************************************)
(* The inductive invariants behind the properties of DualStart: what the   *)
(* connection, the packets on their way and the host's memory have to do   *)
(* with one another in every state.  TLC checks them on the small          *)
(* instances; the proof modules show that every step keeps them.           *)
(***************************************************************************)
EXTENDS DualStartRefinement

(***************************************************************************)
(* The connection.                                                         *)
(***************************************************************************)

IsPacket(e) == e.kind \in {"state", "read"}

\* The phases in which the page has turned on the notifications of ButtonState.
Listening == {"states", "reading", "up"}

\* The page has an online entry from DeviceInfo on, a packet is on its way
\* only while it listens, a connection that ended is the last thing it hears,
\* and nothing is left when the next connection is made.
ChannelInOrder ==
    \A d \in Devices :
        /\ phase[d] \notin {"off", "gatt"} => Online(d)
        /\ phase[d] = "off" => ~ connected[d] /\ inbox[d] = <<>>
        /\ \A i \in DOMAIN inbox[d] :
               /\ inbox[d][i] = Gone => ~ connected[d] /\ i = Len(inbox[d])
               /\ IsPacket(inbox[d][i]) => phase[d] \in Listening

(***************************************************************************)
(* Packets and presses.                                                    *)
(***************************************************************************)

\* The device sent x before y or in y's stead: presses are never taken back,
\* and a button that is down after it was up has been pressed in between.
Before(x, y) ==
    /\ x.press <= y.press
    /\ ~ x.pressed /\ y.pressed => x.press < y.press

\* What the page knows of a device, if it is connected to it.
Known(d) == Online(d) /\ entry[d].state # None

\* The characteristic is what the device is; what the page knows comes before
\* what is on its way, in the order of the inbox, and that comes before the
\* characteristic; and all of it was sent after the connection was made.
PacketsInOrder ==
    \A d \in Devices :
        /\ stateChr[d] = ButtonState(d)
        /\ atConnect[d] <= presses[d]
        /\ \A i \in DOMAIN inbox[d] : IsPacket(inbox[d][i]) =>
               /\ atConnect[d] <= inbox[d][i].state.press
               /\ Before(inbox[d][i].state, stateChr[d])
        /\ \A i, j \in DOMAIN inbox[d] :
               i < j /\ IsPacket(inbox[d][i]) /\ IsPacket(inbox[d][j])
                   => Before(inbox[d][i].state, inbox[d][j].state)
        /\ Known(d) =>
               /\ atConnect[d] <= entry[d].state.press
               /\ Before(entry[d].state, stateChr[d])
               /\ \A i \in DOMAIN inbox[d] : IsPacket(inbox[d][i])
                      => Before(entry[d].state, inbox[d][i].state)

\* The last press that toggled a slot is no later than what the page knows.
PressesUsed ==
    \A d \in Devices, s \in Slots :
        /\ toggled[s][d] <= presses[d]
        /\ phase[d] # "off" /\ ~ Known(d) => toggled[s][d] <= atConnect[d]
        /\ Known(d) => toggled[s][d] <= entry[d].state.press

\* The baseline of a slot is always the one a reset would give it.
Baseline == \A s \in Slots : slotActive[s].prev = resetSlotActive(s).prev

\* Together with the types and EntryFollowsConnection, this is inductive.
ActiveInv ==
    /\ ChannelInOrder
    /\ PacketsInOrder
    /\ PressesUsed
    /\ Baseline
    /\ ActiveEarned

(***************************************************************************)
(* Records and results.                                                    *)
(***************************************************************************)

\* An ok result of a LINK stands for one of these <<group, slot>>.
Granted(r, links) ==
    r.ok /\ r.cmd = "LINK" => <<r.group, r.slot>> \in links

\* Whatever its slot and its write: what an attempt asks, and what it got.
Answers(t) ==
    {[cmd |-> t[i].cmd, result |-> t[i].result] : i \in DOMAIN t}

\* A ControlResult on its way that says a LINK went well, tells the truth.
ResultsGranted ==
    \A d \in Devices : \A i \in DOMAIN inbox[d] :
        inbox[d][i].kind = "result" => Granted(inbox[d][i], accepted[d])

\* So does one that an attempt got; and it is a result of the attempt's cmd.
AttemptsGranted ==
    \A d \in Devices : \A a \in Answers(attempts[d]) :
        ~ Pending(a) => a.result.cmd = a.cmd /\ Granted(a.result, accepted[d])

\* A reload finds the pair as it was; with the types, this is inductive.
RecordInv ==
    /\ stored = pair
    /\ ResultsGranted
    /\ AttemptsGranted
    /\ RecordConfirmed

(***************************************************************************)
(* Copies of the characteristic.                                           *)
(***************************************************************************)

\* Where the page finds what the device published: what it knows, in place 0,
\* and the packets that it will get.
Places(d) ==
    {i \in 0 .. Len(inbox[d]) :
        IF i = 0 THEN Known(d) ELSE IsPacket(inbox[d][i])}

Copy(d, i) == IF i = 0 THEN entry[d].state ELSE inbox[d][i].state

After(d, i) == {j \in Places(d) : i < j}

\* How many times seq has counted from m to n.
Lag(m, n) == IF m <= n THEN n - m ELSE n + SeqWrap - m

\* What was published after a copy follows it, or was lost on a fault.
CopiesRecent(d) ==
    \A i \in Places(d) :
        Lag(Copy(d, i).seq, seq[d]) <= Cardinality(After(d, i)) + faults

\* So a seq stands for one packet, and the page drops only what it has.
SeqsUnique(d) ==
    /\ \A i \in Places(d) :
           Copy(d, i).seq = seq[d] => Copy(d, i) = stateChr[d]
    /\ \A i, j \in Places(d) :
           Copy(d, i).seq = Copy(d, j).seq => Copy(d, i) = Copy(d, j)

\* The last copy is the characteristic, once the page has asked for it.
LastCurrent(d) ==
    phase[d] \in {"reading", "up"} /\ ~ missed[d] =>
        \E i \in Places(d) : After(d, i) = {} /\ Copy(d, i) = stateChr[d]

\* No packet overtakes the subscription, and none comes too late to tell.
Synced(d) ==
    /\ Len(inbox[d]) <= InboxCap
    /\ Places(d) # {} => phase[d] \in Listening
    /\ CopiesRecent(d)
    /\ SeqsUnique(d)
    /\ LastCurrent(d)

\* A connection is on its way to "up" when its read is answered.
ReadAsked ==
    \A d \in Devices : \A i \in DOMAIN inbox[d] :
        inbox[d][i].kind = "read" => phase[d] \in {"reading", "up"}

\* Together with the types and ActiveInv, this is inductive.
SyncInv ==
    /\ ReadAsked
    /\ \A d \in Devices : connected[d] => Synced(d)
=============================================================================
