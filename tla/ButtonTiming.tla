---------------------------- MODULE ButtonTiming ----------------------------
(***************************************************************************)
(* The button on a clock that wraps: debouncing, the long hold, the        *)
(* heartbeat and the hold time in aux.                                     *)
(*                                                                         *)
(* millis() counts modulo ClockWrap and the code keeps times of that       *)
(* clock; the histories keep ages in real time, up to ClockWrap.  Each     *)
(* pass of loop() reads the clock in updateButton() and again in           *)
(* heartbeat().  DualStart has debounced edges only.                       *)
(*                                                                         *)
(* Source: firmware/pio/src/main.cpp, include/state_packet.h               *)
(***************************************************************************)
EXTENDS Integers, FiniteSetsExt

CONSTANTS
    ClockWrap,               \* 2^32 in the code
    AuxMax,                  \* 65535 in the code: aux is a uint16_t
    DSB_DEBOUNCE_MS, DSB_LONG_HOLD_RESET_MS, DSB_HEARTBEAT_MS,
    MaxStep                  \* bound: the longest time between two readings

ASSUME ClockAssumption ==
    /\ ClockWrap \in Nat
    /\ \A t \in {DSB_DEBOUNCE_MS, DSB_LONG_HOLD_RESET_MS, DSB_HEARTBEAT_MS, AuxMax} :
           t \in Nat \ {0} /\ t + 2 * MaxStep < ClockWrap
ASSUME StepAssumption == MaxStep \in Nat \ {0}

VARIABLES
    clock,              \* millis()
    at,                 \* the function loop() calls next
    lastRawPressed, rawChangedAtMs,
    stablePressed, pressStartedAtMs,
    lastHoldMs,
    longHoldResetTriggered,
    lastHeartbeatMs,
    aux,                \* aux of the last packet
    steady,             \* history: how long the button has read the same
    hold,               \* history: how long it has been pressed, or was
    resets,             \* history: long-hold resets of this press, up to 2
    silent              \* history: how long ago the last heartbeat was

codeVars == <<clock, at, lastRawPressed, rawChangedAtMs, stablePressed,
              pressStartedAtMs, lastHoldMs, longHoldResetTriggered,
              lastHeartbeatMs, aux>>
historyVars == <<steady, hold, resets, silent>>
vars == <<codeVars, historyVars>>

\* Mutant: deadlines are compared as absolute times.
sinceAbsolute(now, then) == now - then

\* now - then, in uint32_t
since(now, then) == (now - then) % ClockWrap

\* Mutant: the hold time is cut to 16 bits.
wrappingHoldMs(now, start) == since(now, start) % (AuxMax + 1)

saturatingHoldMs(now, start) == Min({since(now, start), AuxMax})

longHoldElapsed(now, start) == since(now, start) >= DSB_LONG_HOLD_RESET_MS

heartbeatAux(now) ==
    IF stablePressed THEN saturatingHoldMs(now, pressStartedAtMs) ELSE lastHoldMs

\* Real time goes on by dt.
Older(age, dt) == Min({age + dt, ClockWrap})

\* Mutant: the debounce time starts with closing contacts only.
changedOnPress(raw, now) == IF raw /\ ~ lastRawPressed THEN now ELSE rawChangedAtMs

changedAt(raw, now) == IF raw # lastRawPressed THEN now ELSE rawChangedAtMs

\* Mutant: a new press keeps the latch of the last one.
latchKept(down) == longHoldResetTriggered

\* longHoldResetTriggered as the long-hold branch finds it: a new press has
\* not reset the link yet.
latch(down) == longHoldResetTriggered /\ ~ down

\* updateButton(): the debounced edge, if it is time for one, then the long
\* hold of the button as it is by now.
updateButton(dt, raw) ==
    LET now == (clock + dt) % ClockWrap
        edge == /\ raw # stablePressed
                /\ since(now, changedAt(raw, now)) >= DSB_DEBOUNCE_MS
        down == edge /\ raw
    IN  /\ at = "updateButton"
        /\ at' = "heartbeat"
        /\ clock' = now
        /\ lastRawPressed' = raw
        /\ rawChangedAtMs' = changedAt(raw, now)
        /\ stablePressed' = IF edge THEN raw ELSE stablePressed
        /\ pressStartedAtMs' = IF down THEN now ELSE pressStartedAtMs
        /\ lastHoldMs' = IF ~ edge THEN lastHoldMs
                         ELSE IF down THEN 0
                         ELSE saturatingHoldMs(now, pressStartedAtMs)
        /\ LET held == /\ stablePressed' /\ ~ latch(down)
                       /\ longHoldElapsed(now, pressStartedAtMs')
           IN  /\ longHoldResetTriggered' = (held \/ latch(down))
               /\ resets' = LET before == IF down THEN 0 ELSE resets
                            IN  IF held THEN Min({2, before + 1}) ELSE before
               /\ aux' = IF held THEN 0 ELSE IF edge THEN lastHoldMs' ELSE aux
        /\ steady' = IF raw = lastRawPressed THEN Older(steady, dt) ELSE 0
        /\ hold' = IF down THEN 0
                   ELSE IF stablePressed THEN Older(hold, dt) ELSE hold
        /\ silent' = Older(silent, dt)
        /\ UNCHANGED lastHeartbeatMs

heartbeat(dt) ==
    LET now == (clock + dt) % ClockWrap
        beat == since(now, lastHeartbeatMs) >= DSB_HEARTBEAT_MS
    IN  /\ at = "heartbeat"
        /\ at' = "updateButton"
        /\ clock' = now
        /\ lastHeartbeatMs' = IF beat THEN now ELSE lastHeartbeatMs
        /\ aux' = IF beat THEN heartbeatAux(now) ELSE aux
        /\ silent' = IF beat THEN 0 ELSE Older(silent, dt)
        /\ steady' = Older(steady, dt)
        /\ hold' = IF stablePressed THEN Older(hold, dt) ELSE hold
        /\ UNCHANGED <<lastRawPressed, rawChangedAtMs, stablePressed, pressStartedAtMs,
                       lastHoldMs, longHoldResetTriggered, resets>>

\* The first pass after setup(), on a clock that started at zero.
Init ==
    /\ clock = 0 /\ at = "updateButton"
    /\ lastRawPressed = FALSE /\ rawChangedAtMs = 0
    /\ stablePressed = FALSE /\ pressStartedAtMs = 0
    /\ lastHoldMs = 0 /\ longHoldResetTriggered = FALSE
    /\ lastHeartbeatMs = 0 /\ aux = 0
    /\ steady = 0 /\ hold = 0 /\ resets = 0 /\ silent = 0

Next ==
    \/ \E dt \in 1 .. MaxStep, raw \in BOOLEAN : updateButton(dt, raw)
    \/ \E dt \in 0 .. MaxStep : heartbeat(dt)

Spec == Init /\ [][Next]_vars

(***************************************************************************)
(* Types and safety.                                                       *)
(***************************************************************************)

Clock == 0 .. ClockWrap - 1

\* Every variable has its type; ages end where the clock comes round.
TypeOK ==
    /\ clock \in Clock /\ at \in {"updateButton", "heartbeat"}
    /\ lastRawPressed \in BOOLEAN /\ rawChangedAtMs \in Clock
    /\ stablePressed \in BOOLEAN /\ pressStartedAtMs \in Clock
    /\ lastHoldMs \in 0 .. AuxMax /\ aux \in 0 .. AuxMax
    /\ longHoldResetTriggered \in BOOLEAN /\ lastHeartbeatMs \in Clock
    /\ steady \in 0 .. ClockWrap /\ hold \in 0 .. ClockWrap
    /\ resets \in 0 .. 2 /\ silent \in 0 .. ClockWrap

\* An edge is reported when the button has read the same for the debounce
\* time, neither before nor later, wherever the clock wraps.
Debounced ==
    /\ [][stablePressed' # stablePressed => steady' >= DSB_DEBOUNCE_MS]_vars
    /\ [](at = "heartbeat" /\ stablePressed # lastRawPressed
              => steady < DSB_DEBOUNCE_MS)

\* A press resets the link once it has lasted for the hold time, at the first
\* pass that can see it, and never again while it lasts, not even when the
\* clock comes round.
OneResetPerHold ==
    at = "heartbeat" /\ stablePressed
        => resets = IF hold >= DSB_LONG_HOLD_RESET_MS THEN 1 ELSE 0

\* heartbeat() publishes.
Beats == at = "heartbeat" /\ at' # at /\ silent' = 0

\* Two heartbeats are at least the interval apart and at most the interval and
\* two readings of the clock less one tick: a beat that updateButton() just
\* missed comes at the end of the next pass, wherever the clock wraps.  Nor is
\* one left out: the page's STALE_MS rests on it.
BeatInTime ==
    /\ [][Beats => silent + since(clock', clock)
                      \in DSB_HEARTBEAT_MS .. DSB_HEARTBEAT_MS + 2 * MaxStep - 1]_vars
    /\ [](silent < DSB_HEARTBEAT_MS + MaxStep)

\* The hold time of a heartbeat is the real one, or the largest there is, as
\* long as nobody holds the button for a round of the clock.
HoldTimeHonest ==
    at = "updateButton" /\ silent = 0 /\ hold < ClockWrap
        => aux = Min({hold, AuxMax})

(***************************************************************************)
(* The inductive invariant: what the stored times and flags have to do     *)
(* with real ages.  An age that reached a round of the clock says nothing  *)
(* of them any more.                                                       *)
(***************************************************************************)

\* The time of the last change of the reading is as old as the reading.  One
\* that is not yet reported is younger than the debounce time, as far as the
\* code has looked.
ReadingAge ==
    /\ steady < ClockWrap => since(clock, rawChangedAtMs) = steady
    /\ stablePressed # lastRawPressed =>
           steady < DSB_DEBOUNCE_MS + IF at = "heartbeat" THEN 0 ELSE MaxStep

\* The start of a press is as old as the press, and the hold time that is
\* kept after it is its length.
PressAge ==
    hold < ClockWrap =>
        IF stablePressed THEN since(clock, pressStartedAtMs) = hold
        ELSE lastHoldMs = Min({hold, AuxMax})

\* The latch counts the resets of a press, and is set as soon as the code can
\* see that the press is long.
LatchCounts ==
    stablePressed =>
        /\ resets = IF longHoldResetTriggered THEN 1 ELSE 0
        /\ IF longHoldResetTriggered THEN hold >= DSB_LONG_HOLD_RESET_MS
           ELSE hold < DSB_LONG_HOLD_RESET_MS
                           + IF at = "heartbeat" THEN 0 ELSE MaxStep

\* The last heartbeat is as old as its time says, and no heartbeat is due
\* after loop() has looked.
BeatAge ==
    /\ since(clock, lastHeartbeatMs) = silent
    /\ IF at = "heartbeat"
       THEN silent \in 1 .. DSB_HEARTBEAT_MS + MaxStep - 1
       ELSE silent < DSB_HEARTBEAT_MS

AgesHonest == ReadingAge /\ PressAge /\ LatchCounts /\ BeatAge /\ HoldTimeHonest

\* This is inductive: each stored time and flag tells the truth about real
\* time until the clock has come round.
ButtonInv == TypeOK /\ AgesHonest
=============================================================================
