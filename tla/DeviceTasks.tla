---------------------------- MODULE DeviceTasks ----------------------------
(***************************************************************************)
(* One device from the inside: the link state that its two tasks share.    *)
(*                                                                         *)
(* BLE callbacks run on the NimBLE host task ("ble"), loop() on the        *)
(* Arduino task ("loop"), and no lock guards the globals they share.  Of   *)
(* the code of loop() only the long-hold reset changes the link.  Here     *)
(* every access to a shared global, every NVS put and every emission is a  *)
(* step of its own, so the two tasks interleave between any two of them    *)
(* and a power loss can fall between any two of them.                      *)
(*                                                                         *)
(* Source: firmware/pio/src/main.cpp, include/control_replay.h             *)
(***************************************************************************)
EXTENDS LinkControl

CONSTANTS
    None,
    CommandPackets, \* the Control packets a phone writes
    MaxOps,         \* bound: handlers started
    MaxCrashes      \* bound: power losses

ASSUME PacketsAssumption == CommandPackets \subseteq Packets
ASSUME LimitsAssumption == MaxOps \in Nat /\ MaxCrashes \in Nat

VARIABLES
    ram,     \* linkGroupId, linkSlot, linkGeneration, armed
    nvs,     \* Preferences "dsb": group, slot, gen
    info,    \* the link in the DeviceInfo characteristic
    task,    \* what each task is doing
    seen,    \* history: every link a host could read or was sent
    reset,   \* history: a long hold was the last to change the link
    raced,   \* history: a task stored the link while the other was at it, and
             \* no change of it has been decided on since
    ops, crashes

vars == <<ram, nvs, info, task, seen, reset, raced, ops, crashes>>

Tasks == {"ble", "loop"}

\* The part of the state that is saved and shown.
Link(state) == [group |-> state.group, slot |-> state.slot, gen |-> state.gen]

(***************************************************************************)
(* A handler's program: a sequence of steps <<operation, field>>.          *)
(***************************************************************************)

Each(op, fields) == [i \in DOMAIN fields |-> <<op, fields[i]>>]

\* The braces of LinkState current{...} are evaluated from left to right.
Loads == Each("load", <<"group", "slot", "gen", "armed">>)

Stores == Each("store", <<"group", "slot", "gen", "armed">>)

\* Mutant: the generation is not saved.
saveLinkWithoutGen == Each("put", <<"group", "slot">>)

\* saveLink(): three puts, each of them atomic.
saveLink == Each("put", <<"group", "slot", "gen">>)

Emit(o) == [i \in 1 .. 2 |-> <<Emissions(o)[i], "all">>]

\* Mutant: the result is sent before the link is saved.
EmitThenPersist(o) ==
    Stores \o Emit(o)
        \o (IF o.persist THEN saveLink \o << <<"refresh", "all">> >> ELSE << >>)

replayControlOutcome(o) ==
    Stores \o (IF o.persist THEN saveLink \o << <<"refresh", "all">> >> ELSE << >>)
        \o Emit(o)

\* Mutant: what was saved is taken as it is.
loadLinkRaw(saved) == saved

\* loadLink(): half a link is no link, nor is one with a slot above 2.
loadLink(saved) ==
    IF saved.slot \notin Slots \/ saved.group = NoGroup
    THEN [saved EXCEPT !.group = NoGroup, !.slot = 0]
    ELSE saved

(***************************************************************************)
(* The steps of a task.                                                    *)
(***************************************************************************)

Free(t) == task[t].todo = <<>>

Idle == \A t \in Tasks : Free(t)

\* A task between handlers; what its last handler had in hand is forgotten.
IdleTask == [todo |-> <<>>, packet |-> None,
             current |-> [group |-> NoGroup, slot |-> 0, gen |-> 0, armed |-> TRUE],
             outcome |-> None]

Start(t, packet) ==
    /\ ops < MaxOps
    /\ Free(t)
    /\ task' = [task EXCEPT ![t] =
                   [IdleTask EXCEPT !.todo = Append(Loads, <<"decide", "all">>),
                                    !.packet = packet]]
    /\ ops' = ops + 1
    /\ UNCHANGED <<ram, nvs, info, seen, raced, crashes>>

\* ControlCallbacks::onWrite().
onWrite ==
    \E p \in CommandPackets :
        /\ Start("ble", p)
        /\ reset' = (reset /\ p.command # "LINK")

\* updateButton(): the button has been held for DSB_LONG_HOLD_RESET_MS.
LongHold ==
    /\ Start("loop", None)
    /\ reset' = TRUE

\* The task t is at a step op, and goes on to the next.
At(t, op) == ~ Free(t) /\ Head(task[t].todo)[1] = op

Field(t) == Head(task[t].todo)[2]

\* A handler that is done leaves nothing behind.
Advance(t) ==
    task' = [task EXCEPT ![t] =
                IF Tail(task[t].todo) = <<>> THEN IdleTask
                ELSE [task[t] EXCEPT !.todo = Tail(task[t].todo)]]

\* LinkState current{linkGroupId, ...}
LoadField(t) ==
    /\ At(t, "load")
    /\ task' = [task EXCEPT ![t].todo = Tail(@),
                            ![t].current[Field(t)] = ram[Field(t)]]
    /\ UNCHANGED <<ram, nvs, info, seen, reset, raced, ops, crashes>>

\* evaluateControl() or makeClear(), on what the task has loaded.
Decide(t) ==
    /\ At(t, "decide")
    /\ LET o == IF t = "loop"
                THEN makeClear(task[t].current, "FACTORY_RESET_LINK")
                ELSE evaluateControl(task[t].packet, task[t].current)
       IN  /\ task' = [task EXCEPT ![t].outcome = o,
                                   ![t].todo = replayControlOutcome(o)]
           /\ raced' = (raced /\ ~ o.persist)
    /\ UNCHANGED <<ram, nvs, info, seen, reset, ops, crashes>>

\* The task stores, saves and shows a link.
Changing(t) == At(t, "store") \/ At(t, "put") \/ At(t, "refresh")

\* The task is between its first read of the link and the last step of that.
Linking(t) == At(t, "load") \/ At(t, "decide") \/ Changing(t)

\* applyLinkState()
StoreField(t) ==
    /\ At(t, "store")
    /\ ram' = [ram EXCEPT ![Field(t)] = task[t].outcome.state[Field(t)]]
    /\ raced' = (raced \/ \E u \in Tasks \ {t} : Linking(u))
    /\ Advance(t)
    /\ UNCHANGED <<nvs, info, seen, reset, ops, crashes>>

\* prefs.put...() of the global as it is by now.
Put(t) ==
    /\ At(t, "put")
    /\ nvs' = [nvs EXCEPT ![Field(t)] = ram[Field(t)]]
    /\ Advance(t)
    /\ UNCHANGED <<ram, info, seen, reset, raced, ops, crashes>>

\* refreshDeviceInfoCharacteristic(): its three reads are taken as one.
Refresh(t) ==
    /\ At(t, "refresh")
    /\ info' = Link(ram)
    /\ seen' = seen \cup {Link(ram)}
    /\ Advance(t)
    /\ UNCHANGED <<ram, nvs, reset, raced, ops, crashes>>

\* sendControlResult(): the link it reports is read from the globals, here in
\* one step.
EmitResult(t) ==
    /\ At(t, "R")
    /\ seen' = seen \cup {Link(ram)}
    /\ Advance(t)
    /\ UNCHANGED <<ram, nvs, info, reset, raced, ops, crashes>>

\* publishState(): a ButtonState carries no generation.
EmitState(t) ==
    /\ At(t, "P")
    /\ Advance(t)
    /\ UNCHANGED <<ram, nvs, info, seen, reset, raced, ops, crashes>>

\* What setup() makes of the link that was saved.
Booted(saved) ==
    [group |-> loadLink(saved).group, slot |-> loadLink(saved).slot,
     gen |-> saved.gen, armed |-> TRUE]

\* A loss of power, at any point of any handler, and setup().
PowerCycle ==
    /\ crashes < MaxCrashes
    /\ ram' = Booted(nvs)
    /\ info' = Link(ram')
    /\ task' = [t \in Tasks |-> IdleTask]
    /\ seen' = seen \cup {info'}
    /\ reset' = FALSE /\ raced' = FALSE
    /\ crashes' = crashes + 1
    /\ UNCHANGED <<nvs, ops>>

\* A device that was never linked, or has been linked once.
Init ==
    /\ nvs \in {[group |-> NoGroup, slot |-> 0, gen |-> 0]}
               \cup [group: Groups, slot: Slots, gen: {1 % GenMod}]
    /\ ram = Booted(nvs)
    /\ info = Link(ram)
    /\ task = [t \in Tasks |-> IdleTask]
    /\ seen = {info}
    /\ reset = FALSE /\ raced = FALSE
    /\ ops = 0 /\ crashes = 0

TaskStep(t) ==
    \/ LoadField(t) \/ Decide(t) \/ StoreField(t) \/ Put(t) \/ Refresh(t)
    \/ EmitResult(t) \/ EmitState(t)

Next ==
    \/ onWrite \/ LongHold \/ PowerCycle
    \/ \E t \in Tasks : TaskStep(t)

Spec == Init /\ [][Next]_vars

(***************************************************************************)
(* Types and safety.                                                       *)
(***************************************************************************)

SavedLink == [group: GroupIds, slot: Slots \cup {0}, gen: 0 .. GenMod - 1]

Ops == {"load", "decide", "store", "put", "refresh", "R", "P"}

Programs == Seq(Ops \X {"group", "slot", "gen", "armed", "all"})

\* Every variable has its type.
TypeOK ==
    /\ ram \in LinkState
    /\ nvs \in SavedLink /\ info \in SavedLink
    /\ task \in [Tasks -> [todo: Programs, packet: Packets \cup {None},
                           current: LinkState,
                           outcome: ControlOutcome \cup {None}]]
    /\ seen \in SUBSET SavedLink
    /\ reset \in BOOLEAN /\ raced \in BOOLEAN
    /\ ops \in 0 .. MaxOps /\ crashes \in 0 .. MaxCrashes

\* No task is storing, saving or showing a link.
Quiet == \A t \in Tasks : ~ Changing(t)

\* The link is saved and shown.
Saved == loadLink(nvs) = Link(ram) /\ info = Link(ram)

\* Unless a task is changing the link, a power loss changes nothing: the device
\* would come back with the link it has, and a host that reads DeviceInfo sees
\* that link (SPEC 20: after a reboot DeviceInfo still shows the same link).
\* The two tasks may read and emit in any order; only a store of one in the
\* middle of the other's change undoes this, until the next change or boot.
WakesAsIs == ~ raced /\ Quiet => Saved

\* The link a ControlResult reports is already safe when the result leaves: a
\* power loss right after it brings that link back (SPEC 11.2: the device
\* persists, then notifies), under the same condition.
ResultSurvives ==
    [][\A t \in Tasks :
          EmitResult(t) /\ ~ raced /\ Quiet => loadLink(nvs) = Link(ram)]_vars

\* The device has a group and a slot, or neither (the comment of loadLink: the
\* single unlinked check of the state machine relies on it), under the same
\* condition.
LinkIsWhole == ~ raced /\ Quiet => Normal(ram)

(***************************************************************************)
(* What the documents say and the code does not do.                        *)
(***************************************************************************)

\* SPEC 10, FACTORY_RESET_LINK: the generation rises with every change of the
\* link, so that hosts observe it: one generation never names two links.
GenNamesLink == \A x, y \in seen : x.gen = y.gen => x = y

\* The comment of loadLink, without the condition of LinkIsWhole.
LinkAlwaysWhole == Idle => Normal(ram)

\* firmware/pio/README.md, Long hold reset: the hold clears the link.  Unless
\* a LINK came after it, the device is unlinked when its handlers are done.
LongHoldClears == Idle /\ reset => ram.group = NoGroup

(***************************************************************************)
(* The inductive invariant: how far each task has come with the link, and  *)
(* what it has done by then, as long as no store of one falls into what    *)
(* the other does.                                                         *)
(***************************************************************************)

LinkFields == <<"group", "slot", "gen", "armed">>

Reads == Append(Loads, <<"decide", "all">>)

\* What is left of a program from its step k on.
Rest(program, k) == SubSeq(program, k, Len(program))

\* Each task is somewhere in a program of its own.
ProgramInv ==
    \A t \in Tasks :
        \/ task[t] = IdleTask
        \/ /\ t = "ble" => task[t].packet \in Packets
           /\ \E k \in 1 .. Len(Reads) : task[t].todo = Rest(Reads, k)
        \/ /\ task[t].outcome \in ControlOutcome
           /\ LET program == replayControlOutcome(task[t].outcome)
              IN  \E k \in 1 .. Len(program) : task[t].todo = Rest(program, k)

\* A handler has read what the link is.
Reading(t) ==
    \E k \in 1 .. Len(Reads) :
        /\ task[t].todo = Rest(Reads, k)
        /\ \A i \in 1 .. k - 1 : task[t].current[LinkFields[i]] = ram[LinkFields[i]]

\* A handler has decided to leave the link alone.
Keeping(t) ==
    LET o == task[t].outcome
        program == replayControlOutcome(o)
    IN  /\ o \in ControlOutcome /\ ~ o.persist
        /\ \E k \in 1 .. Len(program) : task[t].todo = Rest(program, k)
        /\ Link(o.state) = Link(ram)

\* A handler has decided on a new link: steps 1 to 4 store it, 5 to 7 save it,
\* 8 shows it; it is at step k.
Saving(t, k) ==
    LET o == task[t].outcome
    IN  /\ o \in ControlOutcome /\ o.persist /\ Normal(o.state)
        /\ task[t].todo = Rest(replayControlOutcome(o), k)
        /\ \A i \in 1 .. 4 : i < k => ram[LinkFields[i]] = o.state[LinkFields[i]]
        /\ \A i \in 1 .. 3 : i + 4 < k => nvs[LinkFields[i]] = o.state[LinkFields[i]]

\* What the task knows of the link, if anything, is what the link is.
Settled(t) == ~ Linking(t) \/ Reading(t) \/ Keeping(t)

\* Either the link is saved and shown, or a task is about to do so; until it
\* has stored all of it, the other task may have read anything.
HandlerInv ==
    \/ raced
    \/ Saved /\ \A t \in Tasks : Settled(t)
    \/ \E t \in Tasks, k \in 1 .. 8 :
           /\ Saving(t, k)
           /\ 4 < k => \A u \in Tasks \ {t} : Settled(u)

\* All of it together is inductive.
DeviceInv == TypeOK /\ ProgramInv /\ HandlerInv
=============================================================================
