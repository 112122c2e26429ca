---------------------------- MODULE ButtonProofs ----------------------------
(***************************************************************************)
(* Theorems about ButtonTiming: debouncing, the long hold, the heartbeat   *)
(* and the hold time are right wherever the clock wraps, for every width   *)
(* of the clock and all intervals that fit into a round of it.             *)
(***************************************************************************)
EXTENDS ButtonTiming, TLAPS

(***************************************************************************)
(* The constants, the smaller of two numbers, and the clock.               *)
(***************************************************************************)

LEMMA Constants ==
    /\ ClockWrap \in Nat /\ MaxStep \in Nat \ {0}
    /\ DSB_DEBOUNCE_MS \in Nat \ {0}
    /\ DSB_DEBOUNCE_MS + 2 * MaxStep < ClockWrap
    /\ DSB_LONG_HOLD_RESET_MS \in Nat \ {0}
    /\ DSB_LONG_HOLD_RESET_MS + 2 * MaxStep < ClockWrap
    /\ DSB_HEARTBEAT_MS \in Nat \ {0}
    /\ DSB_HEARTBEAT_MS + 2 * MaxStep < ClockWrap
    /\ AuxMax \in Nat \ {0}
    /\ AuxMax + 2 * MaxStep < ClockWrap
BY ClockAssumption, StepAssumption

LEMMA MinPair ==
    ASSUME NEW a \in Int, NEW b \in Int
    PROVE  Min({a, b}) = IF a <= b THEN a ELSE b
<1> DEFINE m == IF a <= b THEN a ELSE b
<1>1. m \in {a, b} /\ \A y \in {a, b} : m <= y
  OBVIOUS
<1>2. ASSUME NEW x \in {a, b}, \A y \in {a, b} : x <= y PROVE x = m
  BY <1>1, <1>2
<1> QED
  BY <1>1, <1>2 DEF Min

\* What the code knows of the time between two readings: the real time modulo
\* a round of the clock.
LEMMA SinceValue ==
    ASSUME NEW now \in Clock, NEW then \in Clock
    PROVE  since(now, then) = IF then <= now THEN now - then
                              ELSE now - then + ClockWrap
BY Constants DEF since, Clock

LEMMA SinceNow == ASSUME NEW now \in Clock PROVE since(now, now) = 0
BY SinceValue, Constants DEF Clock

LEMMA SinceClock ==
    ASSUME NEW now \in Clock, NEW then \in Clock
    PROVE  since(now, then) \in Clock
BY SinceValue, Constants DEF Clock

\* The reading dt after the clock showed c.
LEMMA Reading ==
    ASSUME NEW c \in Clock, NEW dt \in 0 .. MaxStep
    PROVE  /\ (c + dt) % ClockWrap
                  = IF c + dt < ClockWrap THEN c + dt ELSE c + dt - ClockWrap
           /\ (c + dt) % ClockWrap \in Clock
BY Constants DEF Clock

LEMMA OlderValue ==
    ASSUME NEW age \in 0 .. ClockWrap, NEW dt \in 0 .. MaxStep
    PROVE  /\ Older(age, dt)
                  = IF age + dt <= ClockWrap THEN age + dt ELSE ClockWrap
           /\ Older(age, dt) \in 0 .. ClockWrap
           /\ Older(age, dt) >= age
BY MinPair, Constants DEF Older

\* A stored time that is as old as an age stays so while time goes on.
LEMMA Aging ==
    ASSUME NEW c \in Clock, NEW then \in Clock, NEW dt \in 0 .. MaxStep,
           NEW age \in 0 .. ClockWrap,
           age < ClockWrap => since(c, then) = age,
           Older(age, dt) < ClockWrap
    PROVE  since((c + dt) % ClockWrap, then) = Older(age, dt)
<1>1. age + dt < ClockWrap /\ Older(age, dt) = age + dt
  BY OlderValue, Constants
<1>2. since(c, then) = age
  BY <1>1, Constants
<1> DEFINE now == (c + dt) % ClockWrap
<1>3. now \in Clock /\ now = IF c + dt < ClockWrap THEN c + dt
                             ELSE c + dt - ClockWrap
  BY Reading
<1> HIDE DEF now
<1>4. age = IF then <= c THEN c - then ELSE c - then + ClockWrap
  BY <1>2, SinceValue
<1>5. since(now, then) = IF then <= now THEN now - then
                         ELSE now - then + ClockWrap
  BY <1>3, SinceValue
<1>6. since(now, then) = age + dt
  BY <1>1, <1>3, <1>4, <1>5, Constants DEF Clock
<1> QED
  BY <1>1, <1>6 DEF now

LEMMA HoldMs ==
    ASSUME NEW now \in Clock, NEW then \in Clock
    PROVE  /\ saturatingHoldMs(now, then) = Min({since(now, then), AuxMax})
           /\ saturatingHoldMs(now, then) \in 0 .. AuxMax
<1>1. since(now, then) \in Nat /\ AuxMax \in Nat
  BY SinceClock, Constants DEF Clock
<1>2. Min({since(now, then), AuxMax})
          = IF since(now, then) <= AuxMax THEN since(now, then) ELSE AuxMax
  BY <1>1, MinPair
<1> QED
  BY <1>1, <1>2 DEF saturatingHoldMs

(***************************************************************************)
(* A pass of updateButton() reports nothing, a press or a release.         *)
(***************************************************************************)

Reported(dt, raw) ==
    /\ at = "updateButton" /\ at' = "heartbeat"
    /\ clock' = (clock + dt) % ClockWrap
    /\ lastRawPressed' = raw
    /\ rawChangedAtMs' = changedAt(raw, clock')
    /\ steady' = IF raw = lastRawPressed THEN Older(steady, dt) ELSE 0
    /\ lastHeartbeatMs' = lastHeartbeatMs /\ silent' = Older(silent, dt)

NoEdge(dt, raw) ==
    /\ raw # stablePressed => since(clock', rawChangedAtMs') < DSB_DEBOUNCE_MS
    /\ stablePressed' = stablePressed
    /\ pressStartedAtMs' = pressStartedAtMs /\ lastHoldMs' = lastHoldMs
    /\ hold' = IF stablePressed THEN Older(hold, dt) ELSE hold
    /\ LET held == /\ stablePressed /\ ~ longHoldResetTriggered
                   /\ since(clock', pressStartedAtMs) >= DSB_LONG_HOLD_RESET_MS
       IN  /\ longHoldResetTriggered' = (held \/ longHoldResetTriggered)
           /\ resets' = IF held THEN Min({2, resets + 1}) ELSE resets
           /\ aux' = IF held THEN 0 ELSE aux

Down(dt, raw) ==
    /\ raw /\ ~ stablePressed /\ stablePressed' = TRUE
    /\ since(clock', rawChangedAtMs') >= DSB_DEBOUNCE_MS
    /\ pressStartedAtMs' = clock' /\ lastHoldMs' = 0
    /\ hold' = 0 /\ longHoldResetTriggered' = FALSE
    /\ resets' = 0 /\ aux' = 0

Up(dt, raw) ==
    /\ ~ raw /\ stablePressed /\ stablePressed' = FALSE
    /\ since(clock', rawChangedAtMs') >= DSB_DEBOUNCE_MS
    /\ pressStartedAtMs' = pressStartedAtMs
    /\ lastHoldMs' = saturatingHoldMs(clock', pressStartedAtMs)
    /\ hold' = Older(hold, dt)
    /\ longHoldResetTriggered' = longHoldResetTriggered
    /\ resets' = resets /\ aux' = lastHoldMs'

LEMMA UpdateCases ==
    ASSUME TypeOK, NEW dt \in 1 .. MaxStep, NEW raw \in BOOLEAN,
           updateButton(dt, raw)
    PROVE  /\ Reported(dt, raw)
           /\ NoEdge(dt, raw) \/ Down(dt, raw) \/ Up(dt, raw)
<1>1. clock \in Clock /\ dt \in 0 .. MaxStep
  BY Constants DEF TypeOK
<1>2. clock' = (clock + dt) % ClockWrap
  BY DEF updateButton
<1>3. clock' \in Clock
  BY <1>1, <1>2, Reading
<1>4. Reported(dt, raw)
  BY <1>2 DEF updateButton, Reported
<1>5. rawChangedAtMs' \in Clock
  BY <1>3, <1>4 DEF Reported, changedAt, TypeOK
<1>6. since(clock', rawChangedAtMs') \in Nat
  BY <1>3, <1>5, SinceClock, Constants DEF Clock
<1> DEFINE edge == /\ raw # stablePressed
                   /\ since(clock', rawChangedAtMs') >= DSB_DEBOUNCE_MS
           down == edge /\ raw
           held == /\ stablePressed' /\ ~ latch(down)
                   /\ longHoldElapsed(clock', pressStartedAtMs')
<1>7. /\ stablePressed' = IF edge THEN raw ELSE stablePressed
      /\ pressStartedAtMs' = IF down THEN clock' ELSE pressStartedAtMs
      /\ lastHoldMs' = IF ~ edge THEN lastHoldMs
                       ELSE IF down THEN 0
                       ELSE saturatingHoldMs(clock', pressStartedAtMs)
      /\ longHoldResetTriggered' = (held \/ latch(down))
      /\ resets' = LET before == IF down THEN 0 ELSE resets
                   IN  IF held THEN Min({2, before + 1}) ELSE before
      /\ aux' = IF held THEN 0 ELSE IF edge THEN lastHoldMs' ELSE aux
      /\ hold' = IF down THEN 0
                 ELSE IF stablePressed THEN Older(hold, dt) ELSE hold
  BY <1>2, <1>4 DEF updateButton, Reported
<1>8. stablePressed \in BOOLEAN /\ longHoldResetTriggered \in BOOLEAN
  BY DEF TypeOK
<1>9. CASE ~ edge
  <2>1. raw # stablePressed
            => since(clock', rawChangedAtMs') < DSB_DEBOUNCE_MS
    BY <1>6, <1>9, Constants
  <2>2. /\ stablePressed' = stablePressed
        /\ pressStartedAtMs' = pressStartedAtMs /\ lastHoldMs' = lastHoldMs
        /\ hold' = IF stablePressed THEN Older(hold, dt) ELSE hold
        /\ latch(down) = longHoldResetTriggered
    BY <1>7, <1>8, <1>9 DEF latch
  <2>3. held = (/\ stablePressed /\ ~ longHoldResetTriggered
                /\ since(clock', pressStartedAtMs) >= DSB_LONG_HOLD_RESET_MS)
    BY <2>2 DEF longHoldElapsed
  <2> HIDE DEF held, edge, down
  <2>4. /\ longHoldResetTriggered' = (held \/ longHoldResetTriggered)
        /\ resets' = IF held THEN Min({2, resets + 1}) ELSE resets
        /\ aux' = IF held THEN 0 ELSE aux
    BY <1>7, <1>9, <2>2 DEF down
  <2>5. NoEdge(dt, raw)
    BY <2>1, <2>2, <2>3, <2>4 DEF NoEdge
  <2> QED
    BY <1>4, <2>5
<1>10. CASE down
  <2>1. ~ longHoldElapsed(clock', clock')
    BY <1>3, SinceNow, Constants DEF longHoldElapsed
  <2>2. Down(dt, raw)
    BY <1>7, <1>8, <1>10, <2>1 DEF Down, latch
  <2> QED
    BY <1>4, <2>2
<1>11. CASE edge /\ ~ down
  <2>1. Up(dt, raw)
    BY <1>7, <1>8, <1>11 DEF Up, latch
  <2> QED
    BY <1>4, <2>1
<1> QED
  BY <1>9, <1>10, <1>11

\* So does a pass of heartbeat(), which sends or not.
LEMMA HeartbeatCases ==
    ASSUME TypeOK, NEW dt \in 0 .. MaxStep, heartbeat(dt)
    PROVE  /\ clock' \in Clock /\ clock' = (clock + dt) % ClockWrap
           /\ \/ /\ since(clock', lastHeartbeatMs) >= DSB_HEARTBEAT_MS
                 /\ lastHeartbeatMs' = clock' /\ silent' = 0
                 /\ aux' = heartbeatAux(clock')
              \/ /\ since(clock', lastHeartbeatMs) < DSB_HEARTBEAT_MS
                 /\ lastHeartbeatMs' = lastHeartbeatMs
                 /\ silent' = Older(silent, dt) /\ aux' = aux
<1>1. clock \in Clock /\ lastHeartbeatMs \in Clock
  BY DEF TypeOK
<1>2. clock' = (clock + dt) % ClockWrap
  BY DEF heartbeat
<1>3. clock' \in Clock
  BY <1>1, <1>2, Reading
<1>4. since(clock', lastHeartbeatMs) \in Nat
  BY <1>1, <1>3, SinceClock, Constants DEF Clock
<1> QED
  BY <1>2, <1>3, <1>4, Constants DEF heartbeat

(***************************************************************************)
(* Types.                                                                  *)
(***************************************************************************)

LEMMA ZeroTyped ==
    /\ 0 \in Clock /\ 0 \in 0 .. AuxMax /\ 0 \in 0 .. ClockWrap /\ 0 \in 0 .. 2
BY Constants DEF Clock

LEMMA InitType == Init => TypeOK
BY ZeroTyped DEF Init, TypeOK

LEMMA UpdateType ==
    ASSUME TypeOK, NEW dt \in 1 .. MaxStep, NEW raw \in BOOLEAN,
           updateButton(dt, raw)
    PROVE  TypeOK'
<1>1. dt \in 0 .. MaxStep
  BY Constants
<1>2. Reported(dt, raw)
  BY UpdateCases
<1>3. clock' \in Clock
  BY <1>1, <1>2, Reading DEF Reported, TypeOK
<1>4. /\ at' \in {"updateButton", "heartbeat"} /\ lastRawPressed' \in BOOLEAN
      /\ rawChangedAtMs' \in Clock /\ lastHeartbeatMs' \in Clock
      /\ steady' \in 0 .. ClockWrap /\ silent' \in 0 .. ClockWrap
  <2>1. Older(steady, dt) \in 0 .. ClockWrap /\ Older(silent, dt) \in 0 .. ClockWrap
    BY <1>1, OlderValue DEF TypeOK
  <2> QED
    BY <1>2, <1>3, <2>1, ZeroTyped DEF Reported, TypeOK, changedAt
<1>5. Older(hold, dt) \in 0 .. ClockWrap
  BY <1>1, OlderValue DEF TypeOK
<1>6. CASE NoEdge(dt, raw)
  <2>1. Min({2, resets + 1}) \in 0 .. 2
    BY MinPair DEF TypeOK
  <2>2. /\ stablePressed' \in BOOLEAN /\ pressStartedAtMs' \in Clock
        /\ lastHoldMs' \in 0 .. AuxMax /\ hold' \in 0 .. ClockWrap
        /\ longHoldResetTriggered' \in BOOLEAN /\ resets' \in 0 .. 2
    BY <1>5, <1>6, <2>1 DEF NoEdge, TypeOK
  <2>3. aux' \in 0 .. AuxMax
    BY <1>6, Constants DEF NoEdge, TypeOK
  <2> QED
    BY <1>3, <1>4, <2>2, <2>3 DEF TypeOK
<1>7. CASE Down(dt, raw)
  BY <1>3, <1>4, <1>7, ZeroTyped DEF Down, TypeOK
<1>8. CASE Up(dt, raw)
  <2>1. lastHoldMs' \in 0 .. AuxMax
    BY <1>3, <1>8, HoldMs DEF Up, TypeOK
  <2> QED
    BY <1>3, <1>4, <1>5, <1>8, <2>1 DEF Up, TypeOK
<1> QED
  BY <1>6, <1>7, <1>8, UpdateCases

LEMMA HeartbeatType ==
    ASSUME TypeOK, NEW dt \in 0 .. MaxStep, heartbeat(dt)
    PROVE  TypeOK'
<1>1. clock' \in Clock
  BY HeartbeatCases
<1>2. heartbeatAux(clock') \in 0 .. AuxMax
  BY <1>1, HoldMs DEF heartbeatAux, TypeOK
<1>3. /\ lastHeartbeatMs' \in Clock /\ silent' \in 0 .. ClockWrap
      /\ aux' \in 0 .. AuxMax
  <2>1. Older(silent, dt) \in 0 .. ClockWrap /\ 0 \in 0 .. ClockWrap
    BY OlderValue, Constants DEF TypeOK
  <2> QED
    BY <1>1, <1>2, <2>1, HeartbeatCases DEF TypeOK
<1>4. steady' \in 0 .. ClockWrap /\ hold' \in 0 .. ClockWrap
  BY OlderValue DEF heartbeat, TypeOK
<1>5. at' \in {"updateButton", "heartbeat"}
  BY DEF heartbeat
<1> QED
  BY <1>1, <1>3, <1>4, <1>5 DEF heartbeat, TypeOK

LEMMA NextType == ASSUME TypeOK, [Next]_vars PROVE TypeOK'
<1>1. CASE UNCHANGED vars
  BY <1>1 DEF vars, codeVars, historyVars, TypeOK
<1>2. CASE Next
  BY <1>2, UpdateType, HeartbeatType DEF Next
<1> QED
  BY <1>1, <1>2

\* Every variable has its type, for every width of the clock and of aux.
THEOREM ButtonTypes == Spec => []TypeOK
BY InitType, NextType, PTL DEF Spec

(***************************************************************************)
(* The stored times and the real ages.                                     *)
(***************************************************************************)

LEMMA InitButton == Init => AgesHonest
<1>1. since(0, 0) = 0
  BY SinceNow, ZeroTyped
<1>2. Min({0, AuxMax}) = 0
  BY MinPair, Constants
<1> QED
  BY <1>1, <1>2, Constants
  DEF Init, AgesHonest, ReadingAge, PressAge, LatchCounts, BeatAge, HoldTimeHonest

\* updateButton() as it finds the reading that it has not reported.
LEMMA UnreportedAge ==
    ASSUME TypeOK, ReadingAge, NEW dt \in 1 .. MaxStep, NEW raw \in BOOLEAN,
           Reported(dt, raw)
    PROVE  /\ clock' \in Clock
           /\ steady' < ClockWrap => since(clock', rawChangedAtMs') = steady'
           /\ raw # stablePressed => steady' < ClockWrap
<1>1. dt \in 0 .. MaxStep /\ clock' = (clock + dt) % ClockWrap
  BY Constants DEF Reported
<1>2. clock' \in Clock
  BY <1>1, Reading DEF TypeOK
<1>3. CASE raw = lastRawPressed
  <2>1. steady' = Older(steady, dt) /\ rawChangedAtMs' = rawChangedAtMs
    BY <1>3 DEF Reported, changedAt
  <2>2. steady' < ClockWrap => since(clock', rawChangedAtMs') = steady'
    BY <1>1, <2>1, Aging DEF ReadingAge, TypeOK
  <2>3. ASSUME raw # stablePressed PROVE steady' < ClockWrap
    <3>1. stablePressed # lastRawPressed /\ at # "heartbeat"
      BY <1>3, <2>3 DEF Reported
    <3>2. steady < DSB_DEBOUNCE_MS + MaxStep
      BY <3>1 DEF ReadingAge
    <3>3. Older(steady, dt) = IF steady + dt <= ClockWrap THEN steady + dt
                              ELSE ClockWrap
      BY <1>1, OlderValue DEF TypeOK
    <3> QED
      BY <1>1, <2>1, <3>2, <3>3, Constants DEF TypeOK
  <2> QED
    BY <1>2, <2>2, <2>3
<1>4. CASE raw # lastRawPressed
  <2>1. steady' = 0 /\ rawChangedAtMs' = clock'
    BY <1>4 DEF Reported, changedAt
  <2> QED
    BY <1>2, <2>1, SinceNow, Constants
<1> QED
  BY <1>3, <1>4

LEMMA UpdateReadingAge ==
    ASSUME TypeOK, ReadingAge, NEW dt \in 1 .. MaxStep, NEW raw \in BOOLEAN,
           updateButton(dt, raw)
    PROVE  ReadingAge'
<1>1. Reported(dt, raw)
  BY UpdateCases
<1>2. at' = "heartbeat" /\ lastRawPressed' = raw
  BY <1>1 DEF Reported
<1>3. /\ steady' < ClockWrap => since(clock', rawChangedAtMs') = steady'
      /\ raw # stablePressed => steady' < ClockWrap
  BY <1>1, UnreportedAge
<1>4. raw # stablePressed' => steady' < DSB_DEBOUNCE_MS
  <2>1. CASE NoEdge(dt, raw)
    <3>1. ASSUME raw # stablePressed'
          PROVE  /\ since(clock', rawChangedAtMs') < DSB_DEBOUNCE_MS
                 /\ since(clock', rawChangedAtMs') = steady'
      BY <1>3, <2>1, <3>1 DEF NoEdge
    <3> QED
      BY <3>1
  <2>2. CASE Down(dt, raw)
    <3>1. raw = TRUE /\ stablePressed' = TRUE
      BY <2>2 DEF Down
    <3> QED
      BY <3>1
  <2>3. CASE Up(dt, raw)
    <3>1. raw = FALSE /\ stablePressed' = FALSE
      BY <2>3 DEF Up
    <3> QED
      BY <3>1
  <2> QED
    BY <2>1, <2>2, <2>3, UpdateCases
<1>5. steady' \in 0 .. ClockWrap
  BY UpdateType DEF TypeOK
<1> QED
  BY <1>2, <1>3, <1>4, <1>5, Constants DEF ReadingAge

LEMMA HeartbeatReadingAge ==
    ASSUME TypeOK, ReadingAge, NEW dt \in 0 .. MaxStep, heartbeat(dt)
    PROVE  ReadingAge'
<1>1. /\ clock' = (clock + dt) % ClockWrap /\ steady' = Older(steady, dt)
      /\ at = "heartbeat" /\ at' = "updateButton"
      /\ UNCHANGED <<lastRawPressed, rawChangedAtMs, stablePressed>>
  BY DEF heartbeat
<1>2. steady' < ClockWrap => since(clock', rawChangedAtMs') = steady'
  BY <1>1, Aging DEF ReadingAge, TypeOK
<1>3. stablePressed # lastRawPressed => steady' < DSB_DEBOUNCE_MS + MaxStep
  BY <1>1, OlderValue, Constants DEF ReadingAge, TypeOK
<1> QED
  BY <1>1, <1>2, <1>3 DEF ReadingAge

LEMMA UpdatePressAge ==
    ASSUME TypeOK, PressAge, NEW dt \in 1 .. MaxStep, NEW raw \in BOOLEAN,
           updateButton(dt, raw)
    PROVE  PressAge'
<1>1. dt \in 0 .. MaxStep /\ clock' = (clock + dt) % ClockWrap
  BY UpdateCases, Constants DEF Reported
<1>2. clock' \in Clock
  BY <1>1, Reading DEF TypeOK
<1>3. hold \in 0 .. ClockWrap /\ Older(hold, dt) >= hold
  BY <1>1, OlderValue DEF TypeOK
<1>4. stablePressed /\ Older(hold, dt) < ClockWrap
          => since(clock', pressStartedAtMs) = Older(hold, dt)
  BY <1>1, <1>3, Aging, OlderValue, Constants DEF PressAge, TypeOK
<1>5. CASE NoEdge(dt, raw)
  BY <1>4, <1>5 DEF NoEdge, PressAge
<1>6. CASE Down(dt, raw)
  BY <1>2, <1>6, SinceNow DEF Down, PressAge
<1>7. CASE Up(dt, raw)
  BY <1>2, <1>4, <1>7, HoldMs DEF Up, PressAge, TypeOK
<1> QED
  BY <1>5, <1>6, <1>7, UpdateCases

LEMMA HeartbeatPressAge ==
    ASSUME TypeOK, PressAge, NEW dt \in 0 .. MaxStep, heartbeat(dt)
    PROVE  PressAge'
<1>1. /\ clock' = (clock + dt) % ClockWrap
      /\ hold' = IF stablePressed THEN Older(hold, dt) ELSE hold
      /\ UNCHANGED <<stablePressed, pressStartedAtMs, lastHoldMs>>
  BY DEF heartbeat
<1>2. hold \in 0 .. ClockWrap /\ Older(hold, dt) >= hold
  BY OlderValue DEF TypeOK
<1>3. stablePressed /\ Older(hold, dt) < ClockWrap
          => since(clock', pressStartedAtMs) = Older(hold, dt)
  BY <1>1, <1>2, Aging, OlderValue, Constants DEF PressAge, TypeOK
<1> QED
  BY <1>1, <1>3 DEF PressAge

LEMMA UpdateLatch ==
    ASSUME TypeOK, PressAge, LatchCounts, NEW dt \in 1 .. MaxStep,
           NEW raw \in BOOLEAN, updateButton(dt, raw)
    PROVE  LatchCounts'
<1>1. /\ dt \in 0 .. MaxStep /\ clock' = (clock + dt) % ClockWrap
      /\ at # "heartbeat" /\ at' = "heartbeat"
  BY UpdateCases, Constants DEF Reported
<1>2. /\ hold \in 0 .. ClockWrap /\ Older(hold, dt) >= hold
      /\ Older(hold, dt) \in 0 .. ClockWrap
      /\ Older(hold, dt)
             = IF hold + dt <= ClockWrap THEN hold + dt ELSE ClockWrap
  BY <1>1, OlderValue DEF TypeOK
<1>3. CASE NoEdge(dt, raw) /\ stablePressed
  <2>1. hold' = Older(hold, dt)
    BY <1>3 DEF NoEdge
  <2>2. CASE longHoldResetTriggered
    <3>1. /\ stablePressed' /\ longHoldResetTriggered' = TRUE
          /\ resets' = 1
      BY <1>3, <2>2 DEF NoEdge, LatchCounts
    <3>2. hold' >= DSB_LONG_HOLD_RESET_MS
      BY <1>2, <1>3, <2>1, <2>2, Constants DEF LatchCounts
    <3> QED
      BY <3>1, <3>2 DEF LatchCounts
  <2>3. CASE ~ longHoldResetTriggered
    <3>1. hold < DSB_LONG_HOLD_RESET_MS + MaxStep /\ resets = 0
      BY <1>1, <1>3, <2>3 DEF LatchCounts
    <3>2. Older(hold, dt) < ClockWrap
      BY <1>1, <1>2, <3>1, Constants
    <3>3. since(clock', pressStartedAtMs) = Older(hold, dt)
      BY <1>1, <1>2, <1>3, <3>2, Aging DEF PressAge, TypeOK
    <3>4. Min({2, 0 + 1}) = 1
      BY MinPair
    <3>5. CASE Older(hold, dt) >= DSB_LONG_HOLD_RESET_MS
      <4>1. longHoldResetTriggered' = TRUE /\ resets' = 1
        BY <1>3, <2>3, <3>1, <3>3, <3>4, <3>5 DEF NoEdge
      <4> QED
        BY <1>3, <2>1, <3>5, <4>1 DEF LatchCounts, NoEdge
    <3>6. CASE ~ (Older(hold, dt) >= DSB_LONG_HOLD_RESET_MS)
      <4>1. longHoldResetTriggered' = FALSE /\ resets' = 0
        BY <1>3, <2>3, <3>1, <3>3, <3>6 DEF NoEdge
      <4>2. hold' < DSB_LONG_HOLD_RESET_MS + 0
        BY <1>2, <2>1, <3>6, Constants
      <4> QED
        BY <1>1, <4>1, <4>2 DEF LatchCounts
    <3> QED
      BY <3>5, <3>6
  <2> QED
    BY <2>2, <2>3
<1>4. CASE NoEdge(dt, raw) /\ ~ stablePressed
  BY <1>4 DEF NoEdge, LatchCounts
<1>5. CASE Down(dt, raw)
  BY <1>1, <1>5, Constants DEF Down, LatchCounts
<1>6. CASE Up(dt, raw)
  BY <1>6 DEF Up, LatchCounts
<1> QED
  BY <1>3, <1>4, <1>5, <1>6, UpdateCases

LEMMA HeartbeatLatch ==
    ASSUME TypeOK, LatchCounts, NEW dt \in 0 .. MaxStep, heartbeat(dt)
    PROVE  LatchCounts'
<1>1. /\ hold' = IF stablePressed THEN Older(hold, dt) ELSE hold
      /\ at = "heartbeat" /\ at' = "updateButton"
      /\ UNCHANGED <<stablePressed, resets, longHoldResetTriggered>>
  BY DEF heartbeat
<1>2. /\ hold \in 0 .. ClockWrap /\ Older(hold, dt) >= hold
      /\ Older(hold, dt)
             = IF hold + dt <= ClockWrap THEN hold + dt ELSE ClockWrap
      /\ Older(hold, dt) \in 0 .. ClockWrap
  BY OlderValue DEF TypeOK
<1>3. SUFFICES ASSUME stablePressed
               PROVE  LatchCounts'
  BY <1>1 DEF LatchCounts
<1>4. CASE longHoldResetTriggered
  <2>1. hold' >= DSB_LONG_HOLD_RESET_MS
    BY <1>1, <1>2, <1>3, <1>4, Constants DEF LatchCounts
  <2> QED
    BY <1>1, <1>3, <1>4, <2>1 DEF LatchCounts
<1>5. CASE ~ longHoldResetTriggered
  <2>1. hold < DSB_LONG_HOLD_RESET_MS + 0
    BY <1>1, <1>3, <1>5 DEF LatchCounts
  <2>2. hold' < DSB_LONG_HOLD_RESET_MS + MaxStep
    BY <1>1, <1>2, <1>3, <2>1, Constants
  <2> QED
    BY <1>1, <1>3, <1>5, <2>2 DEF LatchCounts
<1> QED
  BY <1>4, <1>5

LEMMA UpdateBeat ==
    ASSUME TypeOK, BeatAge, NEW dt \in 1 .. MaxStep, NEW raw \in BOOLEAN,
           updateButton(dt, raw)
    PROVE  BeatAge' /\ HoldTimeHonest'
<1>1. /\ dt \in 0 .. MaxStep /\ dt >= 1
      /\ clock' = (clock + dt) % ClockWrap
      /\ at = "updateButton" /\ at' = "heartbeat"
      /\ lastHeartbeatMs' = lastHeartbeatMs /\ silent' = Older(silent, dt)
  BY UpdateCases, Constants DEF Reported
<1>2. silent \in 0 .. ClockWrap /\ silent < DSB_HEARTBEAT_MS
  BY <1>1 DEF BeatAge, TypeOK
<1>3. silent' = silent + dt /\ silent' < ClockWrap
  <2>1. Older(silent, dt) = IF silent + dt <= ClockWrap THEN silent + dt
                            ELSE ClockWrap
    BY <1>1, <1>2, OlderValue
  <2> QED
    BY <1>1, <1>2, <2>1, Constants
<1>4. since(clock', lastHeartbeatMs') = silent'
  <2>1. /\ clock \in Clock /\ lastHeartbeatMs \in Clock
        /\ since(clock, lastHeartbeatMs) = silent
    BY DEF BeatAge, TypeOK
  <2>2. since((clock + dt) % ClockWrap, lastHeartbeatMs) = Older(silent, dt)
    BY <1>1, <1>2, <1>3, <2>1, Aging
  <2> QED
    BY <1>1, <2>2
<1>5. silent' \in 1 .. DSB_HEARTBEAT_MS + MaxStep - 1
  BY <1>1, <1>2, <1>3, Constants
<1> QED
  BY <1>1, <1>4, <1>5 DEF BeatAge, HoldTimeHonest

LEMMA HeartbeatBeat ==
    ASSUME TypeOK, BeatAge, PressAge, NEW dt \in 0 .. MaxStep, heartbeat(dt)
    PROVE  BeatAge' /\ HoldTimeHonest'
<1>1. /\ clock' = (clock + dt) % ClockWrap /\ clock' \in Clock
      /\ at = "heartbeat" /\ at' = "updateButton"
  BY HeartbeatCases DEF heartbeat
<1>2. silent \in 1 .. DSB_HEARTBEAT_MS + MaxStep - 1
  BY <1>1 DEF BeatAge
<1>3. /\ silent \in 0 .. ClockWrap
      /\ Older(silent, dt) = silent + dt /\ Older(silent, dt) < ClockWrap
  BY <1>2, OlderValue, Constants
<1>4. since(clock', lastHeartbeatMs) = silent + dt
  BY <1>1, <1>3, Aging DEF BeatAge, TypeOK
<1>5. CASE /\ since(clock', lastHeartbeatMs) >= DSB_HEARTBEAT_MS
           /\ lastHeartbeatMs' = clock' /\ silent' = 0
           /\ aux' = heartbeatAux(clock')
  <2>1. BeatAge'
    BY <1>1, <1>5, SinceNow, Constants DEF BeatAge
  <2>2. /\ PressAge'
        /\ UNCHANGED <<stablePressed, pressStartedAtMs, lastHoldMs>>
    BY HeartbeatPressAge DEF heartbeat
  <2>3. ASSUME hold' < ClockWrap PROVE aux' = Min({hold', AuxMax})
    <3>1. CASE stablePressed
      <4>1. aux' = Min({since(clock', pressStartedAtMs), AuxMax})
        BY <1>1, <1>5, <3>1, HoldMs DEF heartbeatAux, TypeOK
      <4> QED
        BY <2>2, <2>3, <3>1, <4>1 DEF PressAge
    <3>2. CASE ~ stablePressed
      BY <1>5, <2>2, <2>3, <3>2 DEF heartbeatAux, PressAge
    <3> QED
      BY <3>1, <3>2
  <2> QED
    BY <2>1, <2>3 DEF HoldTimeHonest
<1>6. CASE /\ since(clock', lastHeartbeatMs) < DSB_HEARTBEAT_MS
           /\ lastHeartbeatMs' = lastHeartbeatMs
           /\ silent' = Older(silent, dt) /\ aux' = aux
  <2>1. silent' = silent + dt /\ silent' # 0
    BY <1>2, <1>3, <1>6, Constants
  <2> QED
    BY <1>1, <1>4, <1>6, <2>1 DEF BeatAge, HoldTimeHonest
<1> QED
  BY <1>5, <1>6, HeartbeatCases

LEMMA NextButton ==
    ASSUME TypeOK, AgesHonest, [Next]_vars
    PROVE  AgesHonest'
<1>1. CASE UNCHANGED vars
  BY <1>1 DEF vars, codeVars, historyVars, AgesHonest, ReadingAge, PressAge,
              LatchCounts, BeatAge, HoldTimeHonest, since
<1>2. ASSUME NEW dt \in 1 .. MaxStep, NEW raw \in BOOLEAN,
             updateButton(dt, raw)
      PROVE  AgesHonest'
  BY <1>2, UpdateReadingAge, UpdatePressAge, UpdateLatch, UpdateBeat
  DEF AgesHonest
<1>3. ASSUME NEW dt \in 0 .. MaxStep, heartbeat(dt) PROVE AgesHonest'
  BY <1>3, HeartbeatReadingAge, HeartbeatPressAge, HeartbeatLatch,
     HeartbeatBeat DEF AgesHonest
<1> QED
  BY <1>1, <1>2, <1>3 DEF Next

\* The stored times and the flags of the button tell the truth about real
\* time, until an age has come round the clock.
LEMMA AgesInvariant == Spec => []AgesHonest
<1>1. TypeOK /\ AgesHonest /\ [Next]_vars => AgesHonest'
  BY NextButton
<1> QED
  BY <1>1, InitButton, ButtonTypes, PTL DEF Spec

\* With the types, that is the inductive invariant of the button.
THEOREM ButtonInvariant == Spec => []ButtonInv
<1>1. TypeOK /\ AgesHonest => ButtonInv
  BY DEF ButtonInv
<1> QED
  BY <1>1, ButtonTypes, AgesInvariant, PTL

\* A press resets the link once, at the first pass that can see that it has
\* lasted for the hold time: on a clock of any width, however long it lasts.
THEOREM ResetsOncePerHold == Spec => []OneResetPerHold
<1>1. AgesHonest /\ TypeOK => OneResetPerHold
  <2> SUFFICES ASSUME AgesHonest, TypeOK, at = "heartbeat", stablePressed
               PROVE  resets = IF hold >= DSB_LONG_HOLD_RESET_MS THEN 1 ELSE 0
    BY DEF OneResetPerHold
  <2>1. CASE longHoldResetTriggered
    BY <2>1 DEF AgesHonest, LatchCounts
  <2>2. CASE ~ longHoldResetTriggered
    <3>1. hold < DSB_LONG_HOLD_RESET_MS + 0 /\ resets = 0
      BY <2>2 DEF AgesHonest, LatchCounts
    <3> QED
      BY <3>1, Constants DEF TypeOK
  <2> QED
    BY <2>1, <2>2
<1> QED
  BY <1>1, AgesInvariant, ButtonTypes, PTL

\* The hold time of a heartbeat is the real one, or the largest that aux has
\* room for.
THEOREM HoldTimeIsHonest == Spec => []HoldTimeHonest
<1>1. AgesHonest => HoldTimeHonest
  BY DEF AgesHonest
<1> QED
  BY <1>1, AgesInvariant, PTL

LEMMA EdgeIsOld ==
    ASSUME TypeOK, AgesHonest, [Next]_vars, stablePressed' # stablePressed
    PROVE  steady' >= DSB_DEBOUNCE_MS
<1>1. PICK dt \in 1 .. MaxStep, raw \in BOOLEAN : updateButton(dt, raw)
  BY DEF Next, vars, codeVars, heartbeat
<1>2. Reported(dt, raw) /\ (Down(dt, raw) \/ Up(dt, raw))
  BY <1>1, UpdateCases DEF NoEdge
<1>3. /\ raw # stablePressed
      /\ since(clock', rawChangedAtMs') >= DSB_DEBOUNCE_MS
  <2>1. CASE Down(dt, raw)
    <3>1. raw = TRUE /\ stablePressed = FALSE
      BY <2>1 DEF Down, TypeOK
    <3> QED
      BY <2>1, <3>1 DEF Down
  <2>2. CASE Up(dt, raw)
    <3>1. raw = FALSE /\ stablePressed = TRUE
      BY <2>2 DEF Up, TypeOK
    <3> QED
      BY <2>2, <3>1 DEF Up
  <2> QED
    BY <1>2, <2>1, <2>2
<1>4. since(clock', rawChangedAtMs') = steady'
  BY <1>2, <1>3, UnreportedAge DEF AgesHonest
<1> QED
  BY <1>3, <1>4

\* An edge is reported when the button has read the same for the debounce
\* time, not before and not a pass later, wherever the clock wraps.
THEOREM EdgesAreDebounced == Spec => Debounced
<1>1. TypeOK /\ AgesHonest /\ [Next]_vars
          => [stablePressed' # stablePressed => steady' >= DSB_DEBOUNCE_MS]_vars
  BY EdgeIsOld
<1>2. TypeOK /\ AgesHonest
          => (at = "heartbeat" /\ stablePressed # lastRawPressed
                  => steady < DSB_DEBOUNCE_MS)
  <2> SUFFICES ASSUME AgesHonest, at = "heartbeat",
                      stablePressed # lastRawPressed, TypeOK
               PROVE  steady < DSB_DEBOUNCE_MS
    OBVIOUS
  <2>1. steady < DSB_DEBOUNCE_MS + 0
    BY DEF AgesHonest, ReadingAge
  <2> QED
    BY <2>1, Constants
<1> QED
  BY <1>1, <1>2, AgesInvariant, ButtonTypes, PTL DEF Spec, Debounced

LEMMA BeatIsDue ==
    ASSUME TypeOK, BeatAge, [Next]_vars, Beats
    PROVE  silent + since(clock', clock)
               \in DSB_HEARTBEAT_MS .. DSB_HEARTBEAT_MS + 2 * MaxStep - 1
<1>1. PICK dt \in 0 .. MaxStep : heartbeat(dt)
  BY DEF Next, vars, codeVars, updateButton, Beats
<1>2. clock' \in Clock /\ clock' = (clock + dt) % ClockWrap
  BY <1>1, HeartbeatCases
<1>3. silent \in 1 .. DSB_HEARTBEAT_MS + MaxStep - 1
  BY DEF BeatAge, Beats
<1>4. /\ silent \in 0 .. ClockWrap
      /\ Older(silent, dt) = silent + dt /\ Older(silent, dt) < ClockWrap
  BY <1>3, OlderValue, Constants
<1>5. since(clock', clock) = dt
  <2>1. /\ clock \in Clock /\ 0 \in 0 .. ClockWrap /\ since(clock, clock) = 0
    BY SinceNow, Constants DEF TypeOK
  <2>2. Older(0, dt) = dt /\ dt < ClockWrap
    BY <2>1, OlderValue, Constants
  <2> QED
    BY <1>2, <2>1, <2>2, Aging
<1>6. since(clock', lastHeartbeatMs) = silent + dt
  BY <1>2, <1>3, <1>4, Aging DEF BeatAge, TypeOK
<1>7. since(clock', lastHeartbeatMs) >= DSB_HEARTBEAT_MS
  <2>1. silent' = 0
    BY DEF Beats
  <2> QED
    BY <1>1, <1>3, <1>4, <2>1, HeartbeatCases, Constants
<1> QED
  BY <1>3, <1>5, <1>6, <1>7, Constants

\* Two heartbeats are at least the interval apart and at most the interval and
\* the two readings of a pass, less one tick, wherever the clock wraps.
THEOREM BeatsInTime == Spec => BeatInTime
<1>1. TypeOK /\ AgesHonest /\ [Next]_vars
          => [Beats => silent + since(clock', clock)
                  \in DSB_HEARTBEAT_MS .. DSB_HEARTBEAT_MS + 2 * MaxStep - 1]_vars
  BY BeatIsDue DEF AgesHonest
<1>2. TypeOK /\ AgesHonest => silent < DSB_HEARTBEAT_MS + MaxStep
  <2> SUFFICES ASSUME AgesHonest, TypeOK
               PROVE  silent < DSB_HEARTBEAT_MS + MaxStep
    OBVIOUS
  <2>1. CASE at = "heartbeat"
    BY <2>1, Constants DEF AgesHonest, BeatAge
  <2>2. CASE at # "heartbeat"
    BY <2>2, Constants DEF AgesHonest, BeatAge, TypeOK
  <2> QED
    BY <2>1, <2>2
<1> QED
  BY <1>1, <1>2, AgesInvariant, ButtonTypes, PTL DEF Spec, BeatInTime
=============================================================================
