---------------------------- MODULE StatePublish ----------------------------
(***************************************************************************)
(* publishState() from the inside, on the two tasks that call it: loop()   *)
(* for button edges and heartbeats, the NimBLE host task for connections   *)
(* and Control writes.  Nothing guards the button's globals, seq or the    *)
(* value of the ButtonState characteristic between setValue() and notify() *)
(* (each of those two is atomic in itself).                                *)
(*                                                                         *)
(* DualStart takes all of this as one step.  Here the link is reduced to   *)
(* armed, and the radio delivers at once.                                  *)
(*                                                                         *)
(* Source: firmware/pio/src/main.cpp, include/state_packet.h               *)
(***************************************************************************)
EXTENDS Integers, Sequences

CONSTANTS
    None,
    SeqWrap,    \* 2^16 in the code
    MaxPress,   \* bound: presses of the button
    MaxBle      \* bound: handlers of the NimBLE task

ASSUME BoundsAssumption ==
    SeqWrap \in Nat /\ SeqWrap > 2 /\ MaxPress \in Nat /\ MaxBle \in Nat

\* A ButtonState packet, as far as it is modelled here.
PacketType == [seq: 0 .. SeqWrap - 1, pressed: BOOLEAN, armed: BOOLEAN, long: BOOLEAN]

ASSUME NoneAssumption == None \notin PacketType

VARIABLES
    pressed,    \* stablePressed
    ripe,       \* longHoldElapsed(millis(), pressStartedAtMs, ...)
    armed,      \* armed
    connected,  \* connected
    seq,        \* seq
    chr,        \* the value of the ButtonState characteristic
    task,       \* what each task is doing
    subscribed, \* the host has turned notifications on
    host,       \* the host's entry.state
    heldLong,   \* history: this press has lasted DSB_LONG_HOLD_RESET_MS
    owed,       \* history: the host has not been sent this press
    replaced,   \* history: an older packet took its place before it was sent
    presses, handlers

buttonVars == <<pressed, ripe, heldLong, presses>>
hostVars == <<subscribed, host>>
sentVars == <<owed, replaced>>
vars == <<buttonVars, armed, connected, seq, chr, task, hostVars, sentVars, handlers>>

Tasks == {"ble", "loop"}

NoPacket == [seq |-> 0, pressed |-> FALSE, armed |-> FALSE, long |-> FALSE]

\* A task between handlers.
IdleTask == [todo |-> <<>>, seq |-> 0, packet |-> NoPacket]

Free(t) == task[t].todo = <<>>

(***************************************************************************)
(* The handlers, as programs.                                              *)
(***************************************************************************)

Snapshot == <<"seq = nextSeq(seq)", "store seq", "stablePressed", "armed",
              "long pressed", "seq">>

\* Mutant: the notification leaves before the value is set.
notifyThenSet == Snapshot \o <<"notify", "setValue">>

publishState == Snapshot \o <<"setValue", "notify">>

\* Mutant: the start of the press is noted after it was published.
publishThenStart == <<"down">> \o publishState \o <<"pressStartedAtMs">>

\* updateButton(), a debounced edge.
buttonDown == <<"down", "pressStartedAtMs">> \o publishState

buttonUp == <<"up">> \o publishState

\* Mutant: heartbeats do not notify.
quietHeartbeat == Snapshot \o <<"setValue">>

heartbeat == publishState

\* SET_ARMED
onWrite == <<"toggle armed">> \o publishState

onConnect == <<"connected">> \o publishState

onDisconnect == <<"disconnected">>

Start(t, program) ==
    /\ Free(t)
    /\ task' = [task EXCEPT ![t].todo = program]
    /\ UNCHANGED <<pressed, ripe, heldLong, armed, connected, seq, chr, hostVars,
                   sentVars>>

Down ==
    /\ ~ pressed /\ presses < MaxPress
    /\ Start("loop", buttonDown)
    /\ presses' = presses + 1
    /\ UNCHANGED handlers

Up == pressed /\ Start("loop", buttonUp) /\ UNCHANGED <<presses, handlers>>

Beat == Start("loop", heartbeat) /\ UNCHANGED <<presses, handlers>>

Ble ==
    /\ handlers < MaxBle
    /\ handlers' = handlers + 1
    /\ \/ connected /\ Start("ble", onWrite)
       \/ connected /\ Start("ble", onDisconnect)
       \/ ~ connected /\ Start("ble", onConnect)
    /\ UNCHANGED presses

(***************************************************************************)
(* The steps of a task.                                                    *)
(***************************************************************************)

At(t, op) == ~ Free(t) /\ Head(task[t].todo) = op

\* The task goes on to its next step, in hand what the record w holds.
Go(t, w) ==
    task' = [task EXCEPT ![t] = IF Tail(w.todo) = <<>> THEN IdleTask
                                ELSE [w EXCEPT !.todo = Tail(w.todo)]]

Skip(t) == Go(t, task[t])

\* stablePressed = raw
StorePressed(t) ==
    /\ At(t, "down") \/ At(t, "up")
    /\ pressed' = At(t, "down")
    /\ heldLong' = FALSE
    /\ owed' = (At(t, "down") /\ subscribed) /\ replaced' = FALSE
    /\ Skip(t)
    /\ UNCHANGED <<ripe, presses, armed, connected, seq, chr, hostVars, handlers>>

\* pressStartedAtMs = now
StoreStart(t) ==
    /\ At(t, "pressStartedAtMs")
    /\ ripe' = FALSE
    /\ Skip(t)
    /\ UNCHANGED <<pressed, heldLong, presses, armed, connected, seq, chr, hostVars,
                   sentVars, handlers>>

\* What the NimBLE task changes before it publishes.  A disconnected host
\* has no entry that any packet could reach.
StoreOther(t) ==
    /\ \/ At(t, "toggle armed") /\ armed' = ~ armed
          /\ UNCHANGED <<connected, hostVars, sentVars>>
       \/ At(t, "connected") /\ connected' = TRUE
          /\ UNCHANGED <<armed, hostVars, sentVars>>
       \/ At(t, "disconnected") /\ connected' = FALSE
          /\ subscribed' = FALSE /\ host' = None /\ owed' = FALSE
          /\ UNCHANGED <<armed, replaced>>
    /\ Skip(t)
    /\ UNCHANGED <<buttonVars, seq, chr, handlers>>

\* seq = nextSeq(seq), a load and a store; each reads the global and the
\* snapshot reads it again, or keeps the value in a register.
LoadSeq(t) ==
    /\ At(t, "seq = nextSeq(seq)")
    /\ Go(t, [task[t] EXCEPT !.seq = (seq + 1) % SeqWrap])
    /\ UNCHANGED <<buttonVars, armed, connected, seq, chr, hostVars, sentVars, handlers>>

StoreSeq(t) ==
    /\ At(t, "store seq")
    /\ seq' = task[t].seq
    /\ Skip(t)
    /\ UNCHANGED <<buttonVars, armed, connected, chr, hostVars, sentVars, handlers>>

\* The fields of currentRuntimeState(), one by one.
ReadField(t) ==
    /\ \/ At(t, "stablePressed") /\ Go(t, [task[t] EXCEPT !.packet.pressed = pressed])
       \/ At(t, "armed") /\ Go(t, [task[t] EXCEPT !.packet.armed = armed])
       \/ At(t, "seq") /\ \E n \in {seq, task[t].seq} :
                              Go(t, [task[t] EXCEPT !.packet.seq = n])
    /\ UNCHANGED <<buttonVars, armed, connected, seq, chr, hostVars, sentVars, handlers>>

\* stablePressed && longHoldElapsed(millis(), pressStartedAtMs, ...)
ReadLong(t) ==
    /\ At(t, "long pressed")
    /\ Go(t, [task[t] EXCEPT !.packet.long = pressed /\ ripe])
    /\ UNCHANGED <<buttonVars, armed, connected, seq, chr, hostVars, sentVars, handlers>>

\* An older packet may take the place of the press that loop() is about to
\* send.
SetValue(t) ==
    /\ At(t, "setValue")
    /\ chr' = task[t].packet
    /\ replaced' = \/ replaced
                   \/ owed /\ At("loop", "notify") /\ ~ task[t].packet.pressed
    /\ Skip(t)
    /\ UNCHANGED <<buttonVars, armed, connected, seq, hostVars, owed, handlers>>

\* notify() sends the value the characteristic has by now.  applyState()
\* ignores a packet that repeats seq and uptimeMs; two packets with one seq
\* may well fall into the same millisecond, or not.
Notify(t) ==
    /\ At(t, "notify")
    /\ IF connected /\ subscribed
       THEN /\ \/ host' = chr
               \/ chr.seq = host.seq /\ UNCHANGED host
            /\ owed' = (owed /\ ~ chr.pressed)
       ELSE UNCHANGED <<host, owed>>
    /\ Skip(t)
    /\ UNCHANGED <<buttonVars, armed, connected, seq, chr, subscribed, replaced,
                   handlers>>

(***************************************************************************)
(* Time and the host.                                                      *)
(***************************************************************************)

\* DSB_LONG_HOLD_RESET_MS have gone by since pressStartedAtMs, 10 s in the
\* code: never between two steps of a handler.
Ripen ==
    /\ ~ ripe
    /\ \A t \in Tasks : Free(t)
    /\ ripe' = TRUE
    /\ heldLong' = pressed
    /\ UNCHANGED <<pressed, presses, armed, connected, seq, chr, task, hostVars, sentVars,
                    handlers>>

\* startNotifications(), and the readValue() that follows.
Subscribe ==
    /\ connected /\ ~ subscribed
    /\ subscribed' = TRUE
    /\ host' = chr
    /\ UNCHANGED <<buttonVars, armed, connected, seq, chr, task, sentVars,
                   handlers>>

\* Before the first press, with or without a host.
Init ==
    /\ pressed = FALSE /\ ripe \in BOOLEAN /\ heldLong = FALSE /\ presses = 0
    /\ armed = TRUE /\ connected \in BOOLEAN /\ seq = 1
    /\ chr = [seq |-> 1, pressed |-> FALSE, armed |-> TRUE, long |-> FALSE]
    /\ task = [t \in Tasks |-> IdleTask]
    /\ subscribed = connected
    /\ host = IF subscribed THEN chr ELSE None
    /\ owed = FALSE /\ replaced = FALSE /\ handlers = 0

Step(t) ==
    \/ StorePressed(t) \/ StoreStart(t) \/ StoreOther(t) \/ LoadSeq(t) \/ StoreSeq(t)
    \/ ReadField(t) \/ ReadLong(t) \/ SetValue(t) \/ Notify(t)

Next ==
    \/ Down \/ Up \/ Beat \/ Ble \/ Ripen \/ Subscribe
    \/ \E t \in Tasks : Step(t)

Spec == Init /\ [][Next]_vars

\* Both tasks run for ever, and loop() comes by its heartbeat; presses,
\* connections and commands happen or not.
FairSpec ==
    Spec /\ WF_vars(Subscribe) /\ WF_vars(Beat) /\ \A t \in Tasks : WF_vars(Step(t))

(***************************************************************************)
(* Types, safety and liveness.                                             *)
(***************************************************************************)

Ops == {"down", "up", "pressStartedAtMs", "toggle armed", "connected", "disconnected",
        "seq = nextSeq(seq)", "store seq", "stablePressed", "armed", "long pressed",
        "seq", "setValue", "notify"}

\* Every variable has its type; the host has a packet once it subscribed.
TypeOK ==
    /\ pressed \in BOOLEAN /\ ripe \in BOOLEAN /\ heldLong \in BOOLEAN
    /\ armed \in BOOLEAN /\ connected \in BOOLEAN
    /\ seq \in 0 .. SeqWrap - 1
    /\ chr \in PacketType
    /\ task \in [Tasks -> [todo: Seq(Ops), seq: 0 .. SeqWrap - 1, packet: PacketType]]
    /\ subscribed \in BOOLEAN
    /\ host \in PacketType \cup {None} /\ (subscribed <=> host # None)
    /\ owed \in BOOLEAN /\ replaced \in BOOLEAN
    /\ presses \in 0 .. MaxPress /\ handlers \in 0 .. MaxBle

\* SPEC 8, notification policy: a button down is notified.  However handlers
\* overlap, the host has been sent a packet that shows the press when loop() is
\* done with the edge, unless an older one took its place in the very moment
\* between setValue() and notify().
PressSent == replaced \/ (owed => ~ Free("loop"))

\* SPEC 8 without that exception.
EveryPressSent == owed => ~ Free("loop")

\* A packet says long_pressed only of a press that has lasted that long (the
\* comment of longHoldElapsed: the wire bit and the reset share this boundary),
\* however handlers overlap, unless it is put together in the very moment
\* between the two stores of a press.
LongPressedHonest ==
    [][\A t \in Tasks :
          ReadLong(t) /\ pressed /\ ripe
              => heldLong \/ At("loop", "pressStartedAtMs")]_vars

\* Whatever two overlapping handlers made of seq, of the snapshot and of the
\* value, the host, as long as it is subscribed, comes to see the button and
\* the armed flag as they are, again and again.
HostCatchesUp ==
    []<>(~ subscribed \/ (host.pressed = pressed /\ host.armed = armed))

(***************************************************************************)
(* The inductive invariant: how far loop() has come with the edge it       *)
(* handles, whatever the other task does meanwhile.                        *)
(***************************************************************************)

\* The programs a task may be in.
Programs(t) ==
    IF t = "loop" THEN {buttonDown, buttonUp, heartbeat}
    ELSE {onWrite, onConnect, onDisconnect}

\* The task is at step k of a program.
Stands(t, program, k) ==
    k \in DOMAIN program /\ task[t].todo = SubSeq(program, k, Len(program))

\* Each task is somewhere in a program of its own, whatever the other does.
ProgramInv ==
    \A t \in Tasks :
        Free(t) \/ \E program \in Programs(t) : \E k \in DOMAIN program : Stands(t, program, k)

\* What is done of a press when loop() stands at step k: it has been read into
\* the snapshot by step 6 and put into the value by step 10, the notification.
Sent(k) ==
    /\ Stands("loop", buttonDown, k)
    /\ 5 < k => task["loop"].packet.pressed
    /\ 9 < k => chr.pressed

\* A press that the host is owed is on its way, or was replaced on it.
PressUnderWay ==
    owed => /\ pressed /\ connected /\ subscribed
            /\ replaced \/ \E k \in 2 .. Len(buttonDown) : Sent(k)

\* A press counts as ripe only once it is, but for the one step in which the
\* start of the press before it still stands.
RipeInTime == pressed /\ ripe => heldLong \/ Stands("loop", buttonDown, 2)

PressInv == (subscribed => connected) /\ PressUnderWay /\ RipeInTime

\* All of it together is inductive.
PublishInv == TypeOK /\ ProgramInv /\ PressInv
=============================================================================
