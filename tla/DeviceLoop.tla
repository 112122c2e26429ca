----------------------------- MODULE DeviceLoop -----------------------------
(***************************************************************************)
(* What loop() does for the NimBLE task: it restarts advertising after a   *)
(* disconnection, and it keeps the display up to date.  The callbacks only *)
(* set shouldStartAdvertising and the globals the display shows.           *)
(*                                                                         *)
(* Every access to the flag is a step, and so are the three accesses of    *)
(* updateDisplay() to the globals it shows: compare, remember, draw.       *)
(* The NimBLE stack is external: it stops advertising when a host connects *)
(* and does not start again by itself; start() succeeds.                   *)
(*                                                                         *)
(* Source: firmware/pio/src/main.cpp                                       *)
(***************************************************************************)
EXTENDS Integers

CONSTANT None   \* displaySnapshotValid is false

VARIABLES
    link,           \* radio: a host is connected
    advertising,    \* radio: a host can connect
    connected,      \* connected
    shouldStartAdvertising,
    stablePressed, linkSlot,
    lastDisplay,    \* lastDisplayConnected, -Pressed, -Slot
    text,           \* what the display shows
    loopAt, bleAt   \* the next step of each task

radioVars == <<link, advertising>>
displayVars == <<stablePressed, linkSlot, lastDisplay, text>>
vars == <<radioVars, connected, shouldStartAdvertising, displayVars, loopAt, bleAt>>

(***************************************************************************)
(* loop()                                                                  *)
(***************************************************************************)

\* The task goes from one step to another.
Loop(from, to) == loopAt = from /\ loopAt' = to

\* updateButton(), as far as it can be seen here.
updateButton ==
    /\ Loop("updateButton", "compare")
    /\ stablePressed' \in BOOLEAN
    /\ UNCHANGED <<radioVars, connected, shouldStartAdvertising, linkSlot, lastDisplay,
                   text, bleAt>>

Now == [connected |-> connected, pressed |-> stablePressed, slot |-> linkSlot]

\* updateDisplay() draws only what has changed.
CompareDisplay ==
    /\ Loop("compare", IF lastDisplay = Now THEN "test" ELSE "remember")
    /\ UNCHANGED <<radioVars, connected, shouldStartAdvertising, displayVars, bleAt>>

RememberDisplay ==
    /\ Loop("remember", "draw")
    /\ lastDisplay' = Now
    /\ UNCHANGED <<radioVars, connected, shouldStartAdvertising, stablePressed,
                   linkSlot, text, bleAt>>

DrawDisplay ==
    /\ Loop("draw", "test")
    /\ text' = Now
    /\ UNCHANGED <<radioVars, connected, shouldStartAdvertising, stablePressed,
                   linkSlot, lastDisplay, bleAt>>

TestFlag ==
    /\ Loop("test", IF shouldStartAdvertising THEN "clear" ELSE "updateButton")
    /\ UNCHANGED <<radioVars, connected, shouldStartAdvertising, displayVars, bleAt>>

\* Mutants: the flag is not cleared, or only once advertising has started.
FlagKept ==
    /\ Loop("clear", "start")
    /\ UNCHANGED <<radioVars, connected, shouldStartAdvertising, displayVars, bleAt>>

StartThenClear ==
    /\ \/ Loop("clear", "late") /\ advertising' = ~ link
          /\ UNCHANGED shouldStartAdvertising
       \/ Loop("late", "updateButton") /\ shouldStartAdvertising' = FALSE
          /\ UNCHANGED advertising
    /\ UNCHANGED <<link, connected, displayVars, bleAt>>

ClearFlag ==
    /\ Loop("clear", "start")
    /\ shouldStartAdvertising' = FALSE
    /\ UNCHANGED <<radioVars, connected, displayVars, bleAt>>

\* NimBLEDevice::getAdvertising()->start()
StartAdvertising ==
    /\ Loop("start", "updateButton")
    /\ advertising' = TRUE
    /\ UNCHANGED <<link, connected, shouldStartAdvertising, displayVars, bleAt>>

(***************************************************************************)
(* The radio, and the callbacks it causes on the NimBLE task.              *)
(***************************************************************************)

Ble(from, to) == bleAt = from /\ bleAt' = to

HostConnects ==
    /\ advertising /\ ~ link
    /\ Ble("idle", "onConnect")
    /\ link' = TRUE /\ advertising' = FALSE
    /\ UNCHANGED <<connected, shouldStartAdvertising, displayVars, loopAt>>

onConnect ==
    /\ Ble("onConnect", "idle")
    /\ connected' = TRUE
    /\ UNCHANGED <<radioVars, shouldStartAdvertising, displayVars, loopAt>>

HostLeaves ==
    /\ link
    /\ Ble("idle", "onDisconnect")
    /\ link' = FALSE
    /\ UNCHANGED <<advertising, connected, shouldStartAdvertising, displayVars, loopAt>>

\* onDisconnect(): two stores.
onDisconnect ==
    /\ Ble("onDisconnect", "request")
    /\ connected' = FALSE
    /\ UNCHANGED <<radioVars, shouldStartAdvertising, displayVars, loopAt>>

RequestAdvertising ==
    /\ Ble("request", "idle")
    /\ shouldStartAdvertising' = TRUE
    /\ UNCHANGED <<radioVars, connected, displayVars, loopAt>>

\* A LINK or UNLINK.
onWrite ==
    /\ connected
    /\ Ble("idle", "idle")
    /\ linkSlot' \in 0 .. 2
    /\ UNCHANGED <<radioVars, connected, shouldStartAdvertising, stablePressed,
                   lastDisplay, text, loopAt>>

\* setupBle() has started advertising.
Init ==
    /\ link = FALSE /\ advertising = TRUE /\ connected = FALSE
    /\ shouldStartAdvertising = FALSE
    /\ stablePressed = FALSE /\ linkSlot \in 0 .. 2
    /\ lastDisplay = None /\ text = None
    /\ loopAt = "updateButton" /\ bleAt = "idle"

LoopStep ==
    \/ updateButton \/ CompareDisplay \/ RememberDisplay \/ DrawDisplay
    \/ TestFlag \/ ClearFlag \/ StartAdvertising

BleStep == onConnect \/ onDisconnect \/ RequestAdvertising

Next == LoopStep \/ BleStep \/ HostConnects \/ HostLeaves \/ onWrite

Spec == Init /\ [][Next]_vars

\* Both tasks run for ever; hosts and commands come and go as they like.
FairSpec == Spec /\ WF_vars(LoopStep) /\ WF_vars(BleStep)

(***************************************************************************)
(* Safety and liveness.                                                    *)
(***************************************************************************)

\* Advertising is not restarted while a host is connected: a request of an
\* earlier disconnection is used up before the next connection.
RestartsWhenFree == [][StartAdvertising => ~ link]_vars

\* SPEC 13: on disconnect, advertising restarts.  No request is lost between
\* the tasks: a device without a host becomes reachable.
Reachable == ~ link ~> advertising \/ link

(***************************************************************************)
(* What the documents say and the code does not do.                        *)
(***************************************************************************)

Displays == [connected: BOOLEAN, pressed: BOOLEAN, slot: 0 .. 2]

\* SPEC 5: the display shows the state.  When the state stays, so does a
\* display that shows it.
DisplaySettles ==
    \A state \in Displays : <>[](Now = state) => <>[](text = state)
=============================================================================
