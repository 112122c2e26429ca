-------------------------- MODULE DualStartProofs --------------------------
(***************************************************************************)
(* Theorems about DualStart, for every set of devices and groups and every *)
(* bound.                                                                  *)
(*                                                                         *)
(* Types and READY come first.  Then Active: ActiveInv is an inductive     *)
(* invariant, and the properties of Active follow from it; so does the     *)
(* implementation of the abstract switch.  To show it, what a step does to *)
(* one device is said once for all actions: to its inbox (Moves), to its   *)
(* button (Pushed), to its connection (Linked) and to its entry (Learned). *)
(***************************************************************************)
EXTENDS DualStartInv, LinkControlProofs, SequenceTheorems, WellFoundedInduction

(***************************************************************************)
(* Types of what the helpers return.                                       *)
(***************************************************************************)

\* resetActive() makes a tracker of a baseline.
LEMMA ResetType ==
    ASSUME NEW prev \in {"unknown", "up", "down"}
    PROVE  resetActive(prev) \in Trackers
BY DEF resetActive, Trackers

\* A button sample is up or down.
LEMMA SampleType == ASSUME NEW p PROVE Sample(p) \in {"up", "down"}
BY DEF Sample

\* reduceActive() keeps a tracker a tracker.
LEMMA ReduceType ==
    ASSUME NEW t \in Trackers, NEW p \in BOOLEAN
    PROVE  reduceActive(t, p) \in Trackers
BY SampleType DEF reduceActive, Trackers

\* A notified ButtonState is an event.
LEMMA StateEventType ==
    ASSUME NEW st \in States PROVE StateEvent(st) \in Events
BY DEF StateEvent, Events

\* The answer of readValue() is an event.
LEMMA ReadEventType ==
    ASSUME NEW st \in States PROVE [kind |-> "read", state |-> st] \in Events
BY DEF Events

\* The ControlResult of an outcome is an event.
LEMMA ResultEventType ==
    ASSUME NEW o \in ControlOutcome PROVE ResultEvent(o) \in Events
BY DEF ResultEvent, Events, Results, ControlOutcome, LinkState

\* The end of a connection is an event.
LEMMA GoneType == Gone \in Events
BY DEF Events

\* What an event of each kind carries.
LEMMA EventFields ==
    ASSUME NEW e \in Events
    PROVE  /\ e.kind \in {"state", "read"} => e.state \in States
           /\ e.kind = "result" => e \in Results
BY DEF Events, Results, Gone

\* What a host hears of an event is a sequence of events.
LEMMA HeardType ==
    ASSUME NEW d, NEW e \in Events
    PROVE  Heard(d, e) \in Seq(Events)
<1>1. <<e>> \in Seq(Events) /\ << >> \in Seq(Events)
  OBVIOUS
<1> QED
  BY <1>1 DEF Heard

\* Notifications extend an inbox by events.
LEMMA NotifyType ==
    ASSUME NEW d \in Devices, NEW heard \in Seq(Events),
           inbox \in [Devices -> Seq(Events)], Notify(d, heard)
    PROVE  inbox' \in [Devices -> Seq(Events)]
<1>1. inbox[d] \o heard \in Seq(Events)
  BY ConcatProperties
<1> QED
  BY <1>1 DEF Notify

\* The fields of the link state a ButtonState copies.
LEMMA LinkFields ==
    ASSUME NEW l \in LinkState
    PROVE  /\ l.armed \in BOOLEAN
           /\ l.group \in GroupIds
           /\ l.slot \in Slots \cup {0}
BY DEF LinkState

\* The types of what a handler of the device assigns before it publishes.
Set(d) == /\ link' \in [Devices -> LinkState]
          /\ pressed' \in [Devices -> BOOLEAN]
          /\ presses' \in [Devices -> 0 .. MaxPress]

\* The snapshot publishState() takes is a ButtonState.
LEMMA SnapshotType ==
    ASSUME NEW d \in Devices, Set(d), seq' \in [Devices -> 0 .. SeqWrap - 1]
    PROVE  ButtonState(d)' \in States
<1>1. link'[d] \in LinkState
  BY DEF Set
<1>2. /\ link'[d].armed \in BOOLEAN /\ link'[d].group \in GroupIds
      /\ link'[d].slot \in Slots \cup {0}
  BY <1>1, LinkFields
<1> QED
  BY <1>2 DEF Set, ButtonState, States

\* publishState() keeps seq, the characteristic and the loss mark typed.
LEMMA PublishType ==
    ASSUME TypeOK, NEW d \in Devices, Set(d), publishState(d)
    PROVE  /\ seq' \in [Devices -> 0 .. SeqWrap - 1]
           /\ stateChr' \in [Devices -> States]
           /\ missed' \in [Devices -> BOOLEAN]
           /\ StateEvent(stateChr'[d]) \in Events
<1>1. seq' \in [Devices -> 0 .. SeqWrap - 1]
  <2>1. (seq[d] + 1) % SeqWrap \in 0 .. SeqWrap - 1
    BY SeqAssumption, BoundsAssumption DEF TypeOK
  <2> QED
    BY <2>1 DEF TypeOK, publishState
<1>2. ButtonState(d)' \in States
  BY <1>1, SnapshotType
<1>3. stateChr' \in [Devices -> States] /\ stateChr'[d] \in States
  BY <1>2 DEF TypeOK, publishState
<1>4. missed' \in [Devices -> BOOLEAN]
  BY DEF TypeOK, publishState
<1> QED
  BY <1>1, <1>3, <1>4, StateEventType

\* So does publishing with the notification that follows.
LEMMA PublishAndNotifyType ==
    ASSUME TypeOK, NEW d \in Devices, Set(d), PublishAndNotify(d)
    PROVE  /\ seq' \in [Devices -> 0 .. SeqWrap - 1]
           /\ stateChr' \in [Devices -> States]
           /\ missed' \in [Devices -> BOOLEAN]
           /\ inbox' \in [Devices -> Seq(Events)]
<1>1. publishState(d) /\ Notify(d, Heard(d, StateEvent(stateChr'[d])))
  BY DEF PublishAndNotify
<1>2. Heard(d, StateEvent(stateChr'[d])) \in Seq(Events)
  BY <1>1, PublishType, HeardType
<1> QED
  BY <1>1, <1>2, PublishType, NotifyType DEF TypeOK

\* applyControlOutcome() keeps the types: the outcome of a typed link is typed.
LEMMA OutcomeType ==
    ASSUME TypeOK, NEW d \in Devices, NEW o \in ControlOutcome,
           UNCHANGED <<pressed, presses>>, applyControlOutcome(d, o)
    PROVE  /\ link' \in [Devices -> LinkState]
           /\ seq' \in [Devices -> 0 .. SeqWrap - 1]
           /\ stateChr' \in [Devices -> States]
           /\ missed' \in [Devices -> BOOLEAN]
           /\ inbox' \in [Devices -> Seq(Events)]
<1> DEFINE R == Heard(d, ResultEvent(o))
           P == Heard(d, StateEvent(stateChr'[d]))
<1>1. o.state \in LinkState
  BY DEF ControlOutcome
<1>2. link' \in [Devices -> LinkState]
  BY <1>1 DEF applyControlOutcome, TypeOK
<1>3. Set(d) /\ publishState(d)
  BY <1>2 DEF applyControlOutcome, TypeOK, Set
<1>4. R \in Seq(Events) /\ P \in Seq(Events)
  BY <1>3, PublishType, HeardType, ResultEventType
<1>5. R \o P \in Seq(Events) /\ P \o R \in Seq(Events)
  BY <1>4, ConcatProperties
<1>6. Notify(d, IF Emissions(o) = <<"R", "P">> THEN R \o P ELSE P \o R)
  BY DEF applyControlOutcome
<1> HIDE DEF R, P
<1>7. inbox' \in [Devices -> Seq(Events)]
  BY <1>5, <1>6, NotifyType DEF TypeOK
<1> QED
  BY <1>2, <1>3, <1>7, PublishType

(***************************************************************************)
(* Type correctness, one lemma per action.                                 *)
(***************************************************************************)

\* The program starts typed: free devices, a page just loaded.
LEMMA InitType == Init => TypeOK
<1> SUFFICES ASSUME Init PROVE TypeOK
  OBVIOUS
<1>0. InitIdle
  BY DEF Init
<1>1. PICK g \in Groups \ ForeignGroups, record \in LoadedRecords :
        /\ pair = [group |-> g, record |-> record]
        /\ link = [d \in Devices |->
                      IF \E s \in Slots : record[s] = d
                      THEN [Unlinked EXCEPT
                              !.group = g,
                              !.slot = CHOOSE s \in Slots : record[s] = d]
                      ELSE Unlinked]
        /\ accepted = [d \in Devices |->
                          {<<g, s>> : s \in {t \in Slots : record[t] = d}}]
        /\ spent = {g} \cup ForeignGroups
  BY DEF Init, InitPair
<1>2. 0 \in 0 .. GenMod - 1 /\ Unlinked \in LinkState
  BY GenModAssumption DEF Unlinked, LinkState, GroupIds
<1>3. link \in [Devices -> LinkState]
  <2> SUFFICES ASSUME NEW d \in Devices, \E s \in Slots : record[s] = d
               PROVE  [Unlinked EXCEPT
                         !.group = g,
                         !.slot = CHOOSE s \in Slots : record[s] = d] \in LinkState
    BY <1>1, <1>2
  <2>1. (CHOOSE s \in Slots : record[s] = d) \in Slots
    OBVIOUS
  <2> DEFINE slot == CHOOSE s \in Slots : record[s] = d
  <2>2. slot \in Slots
    BY <2>1
  <2> HIDE DEF slot
  <2>3. [Unlinked EXCEPT !.group = g, !.slot = slot] \in LinkState
    BY <1>2, <2>2 DEF LinkState, GroupIds
  <2> QED
    BY <2>3 DEF slot
<1>4. pair \in Pairs /\ stored \in Pairs
  <2>1. [group |-> g, record |-> record] \in Pairs
    BY RecordsAssumption DEF Pairs
  <2> QED
    BY <1>1, <2>1 DEF Init, InitPair
<1>5. accepted \in [Devices -> SUBSET (Groups \X Slots)]
  <2>1. \A d \in Devices :
          {<<g, s>> : s \in {t \in Slots : record[t] = d}} \in SUBSET (Groups \X Slots)
    OBVIOUS
  <2> QED
    BY <1>1, <2>1
<1>6. spent \in SUBSET GroupIds
  BY <1>1, ForeignAssumption DEF ForeignGroups, Packets, GroupIds
<1>7. /\ seq \in [Devices -> 0 .. SeqWrap - 1]
      /\ pressed \in [Devices -> BOOLEAN]
      /\ presses \in [Devices -> 0 .. MaxPress]
  BY <1>0, SeqAssumption, BoundsAssumption DEF InitIdle
<1>8. stateChr \in [Devices -> States]
  <2> SUFFICES ASSUME NEW d \in Devices PROVE ButtonState(d) \in States
    BY <1>0 DEF InitIdle
  <2>1. /\ link[d].armed \in BOOLEAN /\ link[d].group \in GroupIds
        /\ link[d].slot \in Slots \cup {0}
    BY <1>3, LinkFields
  <2> QED
    BY <1>7, <2>1 DEF ButtonState, States
<1>9. /\ cleared \in [Devices -> BOOLEAN]
      /\ connected \in [Devices -> BOOLEAN]
      /\ write \in [Devices -> [packet: Packets, handled: BOOLEAN] \cup {None}]
      /\ phase \in [Devices -> Phases]
      /\ entry \in [Devices -> Entries \cup {None}]
      /\ shown \in BOOLEAN
      /\ missed \in [Devices -> BOOLEAN]
  BY <1>0 DEF InitIdle, Phases
<1>9a. /\ inbox \in [Devices -> Seq(Events)]
       /\ attempts \in [Devices -> Seq(Attempts)]
  <2>1. << >> \in Seq(Events) /\ << >> \in Seq(Attempts)
    OBVIOUS
  <2> QED
    BY <1>0, <2>1 DEF InitIdle
<1>10. slotActive \in [Slots -> Trackers]
  BY <1>0 DEF InitIdle, INITIAL_ACTIVE, resetActive, Trackers
<1>11. /\ toggled \in [Slots -> [Devices -> 0 .. MaxPress]]
       /\ atConnect \in [Devices -> 0 .. MaxPress]
       /\ cmds \in 0 .. MaxCmds /\ faults \in 0 .. MaxFaults
  BY <1>0, BoundsAssumption DEF InitIdle
<1> QED
  BY <1>3, <1>4, <1>5, <1>6, <1>7, <1>8, <1>9, <1>10, <1>11,
     <1>9a DEF TypeOK

\* A press keeps the types; the press counter stays in its bound.
LEMMA ButtonDownType ==
    ASSUME TypeOK, NEW d \in Devices, ButtonDown(d) PROVE TypeOK'
<1>1. presses[d] + 1 \in 0 .. MaxPress
  BY BoundsAssumption DEF TypeOK, ButtonDown
<1>2. Set(d)
  BY <1>1 DEF TypeOK, ButtonDown, Set
<1>3. PublishAndNotify(d)
  BY DEF ButtonDown
<1> QED
  BY <1>2, <1>3, PublishAndNotifyType
  DEF TypeOK, ButtonDown, Set, hostVars, ghostVars, budgetVars

\* A release keeps the types.
LEMMA ButtonUpType ==
    ASSUME TypeOK, NEW d \in Devices, ButtonUp(d) PROVE TypeOK'
<1>1. Set(d) /\ PublishAndNotify(d)
  BY DEF TypeOK, ButtonUp, Set
<1> QED
  BY <1>1, PublishAndNotifyType
  DEF TypeOK, ButtonUp, Set, hostVars, ghostVars, budgetVars

\* A heartbeat keeps the types; seq wraps.
LEMMA HeartbeatType ==
    ASSUME TypeOK, NEW d \in Devices, heartbeat(d) PROVE TypeOK'
<1>1. Set(d) /\ PublishAndNotify(d)
  BY DEF TypeOK, heartbeat, Set
<1> QED
  BY <1>1, PublishAndNotifyType
  DEF TypeOK, heartbeat, Set, hostVars, ghostVars, budgetVars

\* The long-hold reset keeps the types.
LEMMA LongHoldResetType ==
    ASSUME TypeOK, NEW d \in Devices, LongHoldReset(d) PROVE TypeOK'
<1> DEFINE o == makeClear(link[d], "FACTORY_RESET_LINK")
<1>1. o \in ControlOutcome
  BY ClearType DEF TypeOK, Commands
<1>2. applyControlOutcome(d, o) /\ UNCHANGED <<pressed, presses>>
  BY DEF LongHoldReset
<1> HIDE DEF o
<1> QED
  BY <1>1, <1>2, OutcomeType
  DEF TypeOK, LongHoldReset, hostVars, ghostVars, budgetVars

\* A Control write keeps the types; an accepted LINK names a real group and slot.
LEMMA OnWriteType ==
    ASSUME TypeOK, NEW d \in Devices, onWrite(d) PROVE TypeOK'
<1> DEFINE o == evaluateControl(write[d].packet, link[d])
<1>1. write[d] \in [packet: Packets, handled: BOOLEAN]
  BY DEF TypeOK, onWrite
<1>2. write[d].packet \in Packets /\ link[d] \in LinkState
  BY <1>1 DEF TypeOK
<1>3. o \in ControlOutcome
  BY <1>2, EvaluateType
<1>4. /\ applyControlOutcome(d, o) /\ UNCHANGED <<pressed, presses>>
      /\ UNCHANGED <<cleared, connected>>
  BY DEF onWrite
<1>5. accepted' \in [Devices -> SUBSET (Groups \X Slots)]
  <2>1. CASE o.ok /\ o.cmd = "LINK"
    <3>1. <<o.state.group, o.state.slot>> \in Groups \X Slots
      BY <1>2, <2>1, LinkAccepted
    <3> HIDE DEF o
    <3> QED
      BY <2>1, <3>1 DEF TypeOK, onWrite, o
  <2>2. CASE ~ (o.ok /\ o.cmd = "LINK")
    BY <2>2 DEF TypeOK, onWrite
  <2> QED
    BY <2>1, <2>2
<1>6. write' \in [Devices -> [packet: Packets, handled: BOOLEAN] \cup {None}]
  BY <1>1 DEF TypeOK, onWrite
<1> HIDE DEF o
<1> QED
  BY <1>3, <1>4, <1>5, <1>6, OutcomeType
  DEF TypeOK, onWrite, hostVars, budgetVars

\* A command of another phone keeps the types.
LEMMA ForeignControlType ==
    ASSUME TypeOK, NEW d \in Devices, ForeignControl(d) PROVE TypeOK'
<1>1. PICK p \in ForeignPackets :
        link' = [link EXCEPT ![d] = evaluateControl(p, @).state]
  BY DEF ForeignControl
<1>2. evaluateControl(p, link[d]).state \in LinkState
  BY EvaluateType, ForeignAssumption DEF TypeOK, ControlOutcome
<1>3. Set(d) /\ publishState(d)
  BY <1>1, <1>2 DEF TypeOK, ForeignControl, Set
<1>4. faults' \in 0 .. MaxFaults
  BY BoundsAssumption DEF TypeOK, ForeignControl
<1> QED
  BY <1>3, <1>4, PublishType
  DEF TypeOK, ForeignControl, Set, channelVars, hostVars, ghostVars

\* The end of a connection leaves a sequence of events.
LEMMA EndConnectionType ==
    ASSUME TypeOK, NEW d \in Devices, EndConnection(d)
    PROVE  inbox' \in [Devices -> Seq(Events)]
<1>1. PICK n \in 0 .. Len(inbox[d]) :
        inbox' = [inbox EXCEPT ![d] = Append(SubSeq(@, 1, n), Gone)]
  BY DEF EndConnection
<1>2. inbox[d] \in Seq(Events)
  BY DEF TypeOK
<1>3. SubSeq(inbox[d], 1, n) \in Seq(Events)
  BY <1>2, SubSeqProperties, ElementOfSeq, LenProperties
<1>4. Append(SubSeq(inbox[d], 1, n), Gone) \in Seq(Events)
  BY <1>3, GoneType, AppendProperties
<1> QED
  BY <1>1, <1>4 DEF TypeOK

\* A power cycle keeps the types.
LEMMA RebootType ==
    ASSUME TypeOK, NEW d \in Devices, Reboot(d) PROVE TypeOK'
<1>1. link' \in [Devices -> LinkState]
  <2>0. link[d] \in LinkState
    BY DEF TypeOK
  <2>1. [link[d] EXCEPT !.armed = TRUE] \in LinkState
    BY <2>0 DEF LinkState
  <2> QED
    BY <2>1 DEF TypeOK, Reboot
<1>2. seq' \in [Devices -> 0 .. SeqWrap - 1]
  BY SeqAssumption, BoundsAssumption DEF TypeOK, Reboot
<1>3. Set(d)
  BY <1>1 DEF TypeOK, Reboot, Set
<1>4. ButtonState(d)' \in States
  BY <1>2, <1>3, SnapshotType
<1>5. stateChr' \in [Devices -> States]
  BY <1>4 DEF TypeOK, Reboot
<1>6. inbox' \in [Devices -> Seq(Events)]
  BY EndConnectionType DEF TypeOK, Reboot
<1>7. faults' \in 0 .. MaxFaults
  BY BoundsAssumption DEF TypeOK, Reboot
<1> QED
  BY <1>2, <1>3, <1>5, <1>6, <1>7
  DEF TypeOK, Reboot, Set, hostVars, ghostVars

\* A GATT connection keeps the types.
LEMMA GattConnectType ==
    ASSUME TypeOK, NEW d \in Devices, GattConnect(d) PROVE TypeOK'
<1>1. Set(d) /\ publishState(d)
  BY DEF TypeOK, GattConnect, Set
<1> QED
  BY <1>1, PublishType
  DEF TypeOK, GattConnect, Phases, hostVars, budgetVars

\* A fresh entry is an entry.
LEMMA CreateEntryType ==
    ASSUME TypeOK, NEW d \in Devices, CreateEntry(d) PROVE TypeOK'
<1>1. [connected |-> TRUE, state |-> None, fresh |-> FALSE] \in Entries
  BY DEF Entries
<1>2. << >> \in Seq(Attempts)
  OBVIOUS
<1> QED
  BY <1>1, <1>2
  DEF TypeOK, CreateEntry, Phases, deviceVars, ghostVars, budgetVars

\* Subscriptions move only the phase.
LEMMA SubscribeType ==
    ASSUME TypeOK, NEW d \in Devices, SubscribeResult(d) \/ SubscribeState(d)
    PROVE  TypeOK'
BY DEF TypeOK, SubscribeResult, SubscribeState, Phases, deviceVars, hostVars,
       ghostVars, budgetVars

\* Answering the read keeps the types.
LEMMA AnswerReadType ==
    ASSUME TypeOK, NEW d \in Devices, AnswerRead(d) PROVE TypeOK'
<1> DEFINE e == [kind |-> "read", state |-> stateChr[d]]
<1>1. inbox[d] \in Seq(Events) /\ e \in Events
  BY ReadEventType DEF TypeOK
<1> HIDE DEF e
<1>2. Append(inbox[d], e) \in Seq(Events)
  BY <1>1, AppendProperties
<1>3. inbox' \in [Devices -> Seq(Events)]
  BY <1>2 DEF TypeOK, AnswerRead, e
<1> QED
  BY <1>3 DEF TypeOK, AnswerRead, Phases, deviceVars, hostVars, ghostVars,
              budgetVars

\* A fault that is within the bound stays within it.
LEMMA FaultType ==
    ASSUME TypeOK, faults < MaxFaults, faults' = faults + 1
    PROVE  faults' \in 0 .. MaxFaults
BY BoundsAssumption DEF TypeOK

\* A lost notification keeps the types.
LEMMA LoseNotificationType ==
    ASSUME TypeOK, NEW d \in Devices, LoseNotification(d) PROVE TypeOK'
<1>1. inbox[d] \in Seq(Events)
  BY DEF TypeOK
<1>2. Front(inbox[d]) \in Seq(Events)
  BY <1>1, SubSeqProperties, ElementOfSeq, LenProperties DEF Front
<1>3. inbox' \in [Devices -> Seq(Events)]
  BY <1>2 DEF TypeOK, LoseNotification
<1>4. missed' \in [Devices -> BOOLEAN]
  BY DEF TypeOK, LoseNotification
<1>5. faults' \in 0 .. MaxFaults
  BY FaultType DEF LoseNotification
<1> QED
  BY <1>3, <1>4, <1>5
  DEF TypeOK, LoseNotification, deviceVars, hostVars, ghostVars

\* A lost connection keeps the types.
LEMMA DropType ==
    ASSUME TypeOK, NEW d \in Devices, Drop(d) PROVE TypeOK'
<1>1. inbox' \in [Devices -> Seq(Events)]
  BY EndConnectionType DEF Drop
<1>2. faults' \in 0 .. MaxFaults
  BY FaultType DEF Drop
<1> QED
  BY <1>1, <1>2 DEF TypeOK, Drop, hostVars, ghostVars

(***************************************************************************)
(* The host.                                                               *)
(***************************************************************************)

\* What render shows is a verdict.
LEMMA RenderType == ASSUME render PROVE shown' \in BOOLEAN
BY DEF render, computeStartCondition, evaluateStartCondition

\* The entry of a slot is an entry, or none.
LEMMA SlotEntryType ==
    ASSUME NEW s \in Slots, pair \in Pairs,
           entry \in [Devices -> Entries \cup {None}]
    PROVE  slotEntry(s) \in Entries \cup {None}
BY DEF slotEntry, Pairs

\* A reset slot has a tracker.
LEMMA ResetSlotType ==
    ASSUME NEW s PROVE resetSlotActive(s) \in Trackers
BY ResetType, SampleType DEF resetSlotActive

\* Setting records keeps the pair, its saved copy and the trackers typed.
LEMMA SetRecordsType ==
    ASSUME TypeOK, NEW slots, NEW d \in Devices \cup {None},
           SetRecords(slots, d)
    PROVE  /\ pair' \in Pairs /\ stored' \in Pairs
           /\ slotActive' \in [Slots -> Trackers]
<1>1. pair' \in Pairs
  BY DEF TypeOK, Pairs, SetRecords
<1>2. \A s \in Slots : resetSlotActive(s)' \in Trackers
  BY ResetType, SampleType DEF resetSlotActive
<1> QED
  BY <1>1, <1>2 DEF TypeOK, SetRecords

\* Taking the next event leaves a sequence of events.
LEMMA ReceiveType ==
    ASSUME TypeOK, NEW d \in Devices, NEW kinds, Receive(d, kinds)
    PROVE  /\ inbox' \in [Devices -> Seq(Events)]
           /\ Head(inbox[d]) \in Events
           /\ Head(inbox[d]).kind \in kinds
<1>1. inbox[d] \in Seq(Events) /\ inbox[d] # << >>
  BY DEF TypeOK, Receive
<1>2. Head(inbox[d]) \in Events /\ Tail(inbox[d]) \in Seq(Events)
  BY <1>1, HeadTailProperties
<1> QED
  BY <1>2 DEF TypeOK, Receive

\* The parts of an entry.
LEMMA EntryFields ==
    ASSUME NEW e \in Entries
    PROVE  /\ e.connected \in BOOLEAN /\ e.fresh \in BOOLEAN
           /\ e.state \in States \cup {None}
BY DEF Entries

\* Applying a packet keeps the types.
LEMMA ApplyStateType ==
    ASSUME TypeOK, NEW d \in Devices, entry[d] # None, ApplyState(d)
    PROVE  TypeOK'
<1> DEFINE next == Head(inbox[d]).state
<1>1. inbox' \in [Devices -> Seq(Events)] /\ next \in States
  BY ReceiveType, EventFields DEF ApplyState
<1>2. next.pressed \in BOOLEAN /\ next.press \in 0 .. MaxPress
  BY <1>1 DEF States
<1>3. entry[d] \in Entries
  BY DEF TypeOK
<1> HIDE DEF next
<1>4. [entry[d] EXCEPT !.state = next, !.fresh = TRUE] \in Entries
  BY <1>1, <1>3 DEF Entries
<1>5. entry' \in [Devices -> Entries \cup {None}]
  BY <1>4 DEF TypeOK, ApplyState, next
<1>6. slotActive' \in [Slots -> Trackers]
  BY <1>2, ReduceType DEF TypeOK, ApplyState, next
<1>7. toggled' \in [Slots -> [Devices -> 0 .. MaxPress]]
  BY <1>2 DEF TypeOK, ApplyState, next
<1>8. phase' \in [Devices -> Phases]
  BY DEF TypeOK, ApplyState, ReadDone, Phases
<1>9. shown' \in BOOLEAN
  BY RenderType DEF ApplyState
<1> QED
  BY <1>1, <1>5, <1>6, <1>7, <1>8, <1>9
  DEF TypeOK, ApplyState, deviceVars, budgetVars

\* A duplicate packet keeps the types.
LEMMA IgnoreStateType ==
    ASSUME TypeOK, NEW d \in Devices, IgnoreState(d) PROVE TypeOK'
<1>1. inbox' \in [Devices -> Seq(Events)]
  BY ReceiveType DEF IgnoreState
<1>2. phase' \in [Devices -> Phases]
  BY DEF TypeOK, IgnoreState, ReadDone, Phases
<1>3. shown' \in BOOLEAN
  BY RenderType DEF TypeOK, IgnoreState
<1> QED
  BY <1>1, <1>2, <1>3
  DEF TypeOK, IgnoreState, deviceVars, ghostVars, budgetVars

\* A table without one attempt is a table of attempts.
LEMMA RemoveType ==
    ASSUME NEW t \in Seq(Attempts), NEW i \in DOMAIN t
    PROVE  remove(t, i) \in Seq(Attempts)
<1>1. /\ SubSeq(t, 1, i - 1) \in Seq(Attempts)
      /\ SubSeq(t, i + 1, Len(t)) \in Seq(Attempts)
  BY SubSeqProperties, ElementOfSeq, LenProperties
<1> QED
  BY <1>1, ConcatProperties DEF remove, RemoveAt

\* So is the table after a failed write.
LEMMA CancelType ==
    ASSUME NEW t \in Seq(Attempts) PROVE cancel(t) \in Seq(Attempts)
<1>1. CASE \E i \in DOMAIN t : ~ t[i].written
  <2>1. (CHOOSE i \in DOMAIN t : ~ t[i].written) \in DOMAIN t
    BY <1>1
  <2> QED
    BY <1>1, <2>1, RemoveType DEF cancel
<1>2. CASE ~ \E i \in DOMAIN t : ~ t[i].written
  BY <1>2 DEF cancel
<1> QED
  BY <1>1, <1>2

\* An entry stays an entry when its device goes.
LEMMA OfflineEntryType ==
    ASSUME NEW e \in Entries PROVE OfflineEntry(e) \in Entries
<1> DEFINE st == IF e.state = None THEN None
                 ELSE [e.state EXCEPT !.pressed = FALSE]
<1>1. st \in States \cup {None}
  BY EntryFields DEF States
<1> HIDE DEF st
<1>2. [e EXCEPT !.connected = FALSE, !.state = st] \in Entries
  BY <1>1 DEF Entries
<1>3. OfflineEntry(e) = [e EXCEPT !.connected = FALSE, !.state = st]
  BY DEF OfflineEntry, st, Entries
<1> QED
  BY <1>2, <1>3

\* A disconnection heard by the page keeps the types.
LEMMA HostDisconnectedType ==
    ASSUME TypeOK, NEW d \in Devices, HostDisconnected(d) PROVE TypeOK'
<1>1. inbox' \in [Devices -> Seq(Events)]
  BY ReceiveType DEF HostDisconnected
<1>2. attempts' \in [Devices -> Seq(Attempts)]
  BY CancelType DEF TypeOK, HostDisconnected
<1>3. CASE entry[d] = None
  BY <1>3, <1>1, <1>2
  DEF TypeOK, HostDisconnected, Phases, deviceVars, ghostVars, budgetVars
<1>4. CASE entry[d] # None
  <2>1. /\ entry' = [entry EXCEPT ![d] = OfflineEntry(@)]
        /\ slotActive' = [s \in Slots |->
                             IF s \in linkedSlotsOf(d)
                             THEN resetSlotActive(s)' ELSE slotActive[s]]
        /\ render
    BY <1>4 DEF HostDisconnected
  <2>2. entry[d] \in Entries
    BY <1>4 DEF TypeOK
  <2>3. OfflineEntry(entry[d]) \in Entries
    BY <2>2, OfflineEntryType
  <2>4. entry' \in [Devices -> Entries \cup {None}]
    BY <2>1, <2>3 DEF TypeOK
  <2>5. \A s \in Slots : resetSlotActive(s)' \in Trackers
    BY ResetType, SampleType DEF resetSlotActive
  <2>6. slotActive' \in [Slots -> Trackers]
    BY <2>1, <2>5 DEF TypeOK
  <2>7. shown' \in BOOLEAN
    BY <2>1, RenderType
  <2> QED
    BY <1>1, <1>2, <2>4, <2>6, <2>7
    DEF TypeOK, HostDisconnected, Phases, deviceVars, ghostVars, budgetVars
<1> QED
  BY <1>3, <1>4

(***************************************************************************)
(* Commands and their results.                                             *)
(***************************************************************************)

\* What an attempt in the table carries.
LEMMA AttemptFields ==
    ASSUME NEW t \in Seq(Attempts), NEW i \in DOMAIN t
    PROVE  t[i] \in Attempts
BY ElementOfSeq, LenProperties

\* expect() adds one attempt to the table.
LEMMA ExpectType ==
    ASSUME NEW t \in Seq(Attempts), NEW cmd \in {"LINK", "UNLINK"},
           NEW slot \in Slots \cup {0}
    PROVE  expect(t, cmd, slot) \in Seq(Attempts)
<1> DEFINE a == [cmd |-> cmd, slot |-> slot, written |-> FALSE, result |-> None]
<1>1. a \in Attempts
  BY DEF Attempts
<1> HIDE DEF a
<1>2. Append(t, a) \in Seq(Attempts)
  BY <1>1, AppendProperties
<1> QED
  BY <1>2 DEF expect, a

\* A set of numbers that is not empty has a least element.
LEMMA NatMinimum ==
    ASSUME NEW M, M \subseteq Nat, M # {}
    PROVE  \E i \in M : \A j \in M : i <= j
<1> DEFINE R == OpToRel(<, Nat)
<1>1. \A i, j \in Nat : j < i => <<j, i>> \in R
  BY DEF OpToRel
<1>2. IsWellFoundedOn(R, Nat)
  BY NatLessThanWellFounded
<1> HIDE DEF R
<1>3. PICK i \in M : \A j \in M : ~ (<<j, i>> \in R)
  BY <1>2, WFMin
<1>4. \A j \in M : i <= j
  <2> SUFFICES ASSUME NEW j \in M, j < i PROVE FALSE
    BY SMT
  <2>1. <<j, i>> \in R
    BY <1>1
  <2> QED
    BY <2>1, <1>3
<1> QED
  BY <1>4

\* The expectation that a result settles is the oldest of its cmd, if any.
LEMMA OldestIsFirst ==
    ASSUME NEW t \in Seq(Attempts), NEW r, Matches(t, r) # {}
    PROVE  /\ Oldest(t, r) \in DOMAIN t
           /\ Oldest(t, r) \in Matches(t, r)
           /\ \A j \in Matches(t, r) : Oldest(t, r) <= j
<1> DEFINE M == Matches(t, r)
<1>1. M \subseteq DOMAIN t /\ M \subseteq Nat /\ M # {}
  BY LenProperties DEF Matches
<1> HIDE DEF M
<1>2. \E i \in M : \A j \in M : i <= j
  BY <1>1, NatMinimum
<1>3. Oldest(t, r) = CHOOSE i \in M : \A j \in M : i <= j
  BY <1>1 DEF Oldest, M
<1>4. Oldest(t, r) \in M /\ \A j \in M : Oldest(t, r) <= j
  BY <1>2, <1>3
<1> QED
  BY <1>1, <1>4 DEF M

\* deliver() gives the result to one attempt, or to none.
LEMMA DeliverType ==
    ASSUME NEW t \in Seq(Attempts), NEW r \in Results
    PROVE  deliver(t, r) \in Seq(Attempts)
<1> DEFINE k == Oldest(t, r)
<1>1. CASE Matches(t, r) = {}
  BY <1>1 DEF deliver, Oldest
<1>2. CASE Matches(t, r) # {}
  <2>1. k \in DOMAIN t
    BY <1>2, OldestIsFirst
  <2>2. k \in 1 .. Len(t)
    BY <2>1, LenProperties
  <2>3. k # 0
    BY <2>2, LenProperties
  <2>4. t[k] \in Attempts
    BY <2>1, AttemptFields
  <2> HIDE DEF k
  <2>5. [t[k] EXCEPT !.result = r] \in Attempts
    BY <2>4 DEF Attempts
  <2>6. [t EXCEPT ![k].result = r] \in Seq(Attempts)
    BY <2>2, <2>5, ExceptSeq
  <2> QED
    BY <2>3, <2>6 DEF deliver, k
<1> QED
  BY <1>1, <1>2

\* acknowledge() marks every attempt as written.
LEMMA AcknowledgeType ==
    ASSUME NEW t \in Seq(Attempts) PROVE acknowledge(t) \in Seq(Attempts)
<1>1. \A i \in DOMAIN t : [t[i] EXCEPT !.written = TRUE] \in Attempts
  <2> SUFFICES ASSUME NEW i \in DOMAIN t
               PROVE  [t[i] EXCEPT !.written = TRUE] \in Attempts
    OBVIOUS
  <2>1. t[i] \in Attempts
    BY AttemptFields
  <2> QED
    BY <2>1 DEF Attempts
<1>2. DOMAIN t = 1 .. Len(t) /\ Len(t) \in Nat
  BY LenProperties
<1>3. acknowledge(t) \in [1 .. Len(t) -> Attempts]
  BY <1>1, <1>2 DEF acknowledge
<1> QED
  BY <1>2, <1>3, SeqDef

\* Conclude() leaves the pair or records one device, or none, in some slots.
LEMMA ConcludeType ==
    ASSUME TypeOK, NEW d \in Devices, NEW a, Conclude(d, a)
    PROVE  /\ pair' \in Pairs /\ stored' \in Pairs
           /\ slotActive' \in [Slots -> Trackers]
<1>1. CASE SetRecords({a.slot}, d)
  BY <1>1, SetRecordsType
<1>2. CASE SetRecords(linkedSlotsOf(d), None)
  BY <1>2, SetRecordsType
<1>3. CASE UNCHANGED <<pair, stored, slotActive>>
  BY <1>3 DEF TypeOK
<1> QED
  BY <1>1, <1>2, <1>3 DEF Conclude

\* GoOn() stores the table, without the attempt it settles.
LEMMA GoOnType ==
    ASSUME TypeOK, NEW d \in Devices, NEW t \in Seq(Attempts), GoOn(d, t)
    PROVE  /\ attempts' \in [Devices -> Seq(Attempts)]
           /\ pair' \in Pairs /\ stored' \in Pairs
           /\ slotActive' \in [Slots -> Trackers]
<1>1. CASE Settled(t) = {}
  BY <1>1 DEF TypeOK, GoOn
<1>2. CASE Settled(t) # {}
  <2>1. PICK i \in Settled(t) :
          /\ attempts' = [attempts EXCEPT ![d] = remove(t, i)]
          /\ Conclude(d, t[i])
    BY <1>2 DEF GoOn
  <2>2. remove(t, i) \in Seq(Attempts)
    BY RemoveType DEF Settled
  <2> QED
    BY <2>1, <2>2, ConcludeType DEF TypeOK
<1> QED
  BY <1>1, <1>2

\* A delivered result keeps the types.
LEMMA DeliverResultType ==
    ASSUME TypeOK, NEW d \in Devices, DeliverResult(d) PROVE TypeOK'
<1>1. inbox' \in [Devices -> Seq(Events)] /\ Head(inbox[d]) \in Results
  BY ReceiveType, EventFields DEF DeliverResult
<1>2. deliver(attempts[d], Head(inbox[d])) \in Seq(Attempts)
  BY <1>1, DeliverType DEF TypeOK
<1>3. GoOn(d, deliver(attempts[d], Head(inbox[d]))) /\ render
  BY DEF DeliverResult
<1>4. shown' \in BOOLEAN
  BY <1>3, RenderType
<1> QED
  BY <1>1, <1>2, <1>3, <1>4, GoOnType
  DEF TypeOK, DeliverResult, deviceVars, ghostVars, budgetVars

\* An acknowledged write keeps the types.
LEMMA WriteDoneType ==
    ASSUME TypeOK, NEW d \in Devices, WriteDone(d) PROVE TypeOK'
<1>1. acknowledge(attempts[d]) \in Seq(Attempts)
  BY AcknowledgeType DEF TypeOK
<1>2. GoOn(d, acknowledge(attempts[d]))
  BY DEF WriteDone
<1>3. shown' \in BOOLEAN
  BY RenderType DEF TypeOK, WriteDone
<1>4. write' \in [Devices -> [packet: Packets, handled: BOOLEAN] \cup {None}]
  BY DEF TypeOK, WriteDone
<1> QED
  BY <1>1, <1>2, <1>3, <1>4, GoOnType
  DEF TypeOK, WriteDone, deviceVars, ghostVars, budgetVars

\* A failed write keeps the types.
LEMMA WriteFailType ==
    ASSUME TypeOK, NEW d \in Devices, WriteFail(d) PROVE TypeOK'
<1>1. attempts' \in [Devices -> Seq(Attempts)]
  BY CancelType DEF TypeOK, WriteFail
<1>2. faults' \in 0 .. MaxFaults
  BY FaultType DEF WriteFail
<1> QED
  BY <1>1, <1>2 DEF TypeOK, WriteFail, deviceVars, ghostVars

\* A command of the user changes the write in flight and its budget.
LEMMA CommandType ==
    ASSUME TypeOK, NEW d \in Devices, NEW command \in Commands,
           NEW slot \in Slots \cup {0}, NEW flag \in BOOLEAN,
           Command(d, command, slot, flag),
           attempts' \in [Devices -> Seq(Attempts)]
    PROVE  TypeOK'
<1> DEFINE p == [command |-> command, slot |-> slot, flag0 |-> flag,
                 group |-> pair.group]
<1>1. p \in Packets
  BY DEF TypeOK, Packets, Pairs, GroupIds
<1> HIDE DEF p
<1>2. write' = [write EXCEPT ![d] = [packet |-> p, handled |-> FALSE]]
  BY DEF Command, p
<1>3. write' \in [Devices -> [packet: Packets, handled: BOOLEAN] \cup {None}]
  BY <1>1, <1>2 DEF TypeOK
<1>4. cmds' \in 0 .. MaxCmds
  BY BoundsAssumption DEF TypeOK, Command
<1> QED
  BY <1>3, <1>4 DEF TypeOK, Command, deviceVars, ghostVars

\* A command that waits for its result adds an attempt to the table.
LEMMA ConfirmedType ==
    ASSUME TypeOK, NEW d \in Devices, NEW cmd \in {"LINK", "UNLINK"},
           NEW slot \in Slots \cup {0}, Confirmed(d, cmd, slot)
    PROVE  attempts' \in [Devices -> Seq(Attempts)]
<1>1. expect(attempts[d], cmd, slot) \in Seq(Attempts)
  BY ExpectType DEF TypeOK
<1> QED
  BY <1>1 DEF TypeOK, Confirmed

\* The four buttons of a card keep the types; the packets they write are packets.
LEMMA CommandsType ==
    ASSUME TypeOK, NEW d \in Devices,
           \/ linkAsSlot(d) \/ unlinkDevice(d)
           \/ setArmed(d) \/ identifyDevice(d)
    PROVE  TypeOK'
<1>1. CASE linkAsSlot(d)
  <2>1. PICK slot \in Slots, force \in BOOLEAN :
          Command(d, "LINK", slot, force) /\ Confirmed(d, "LINK", slot)
    BY <1>1 DEF linkAsSlot
  <2>2. attempts' \in [Devices -> Seq(Attempts)]
    BY <2>1, ConfirmedType
  <2> QED
    BY <2>1, <2>2, CommandType DEF Commands
<1>2. CASE unlinkDevice(d)
  <2>1. PICK force \in BOOLEAN :
          Command(d, "UNLINK", 0, force) /\ Confirmed(d, "UNLINK", 0)
    BY <1>2 DEF unlinkDevice
  <2>2. attempts' \in [Devices -> Seq(Attempts)]
    BY <2>1, ConfirmedType
  <2> QED
    BY <2>1, <2>2, CommandType DEF Commands
<1>3. CASE setArmed(d)
  <2>1. PICK armed \in BOOLEAN : Command(d, "SET_ARMED", 0, armed)
    BY <1>3 DEF setArmed
  <2>2. attempts' \in [Devices -> Seq(Attempts)]
    BY <1>3 DEF TypeOK, setArmed
  <2> QED
    BY <2>1, <2>2, CommandType DEF Commands
<1>4. CASE identifyDevice(d)
  <2>1. attempts' \in [Devices -> Seq(Attempts)]
    BY <1>4 DEF TypeOK, identifyDevice
  <2> QED
    BY <1>4, <2>1, CommandType DEF identifyDevice, Commands
<1> QED
  BY <1>1, <1>2, <1>3, <1>4

\* A timeout keeps the types.
LEMMA TimeoutType ==
    ASSUME TypeOK, NEW d \in Devices, Timeout(d) PROVE TypeOK'
<1>1. attempts' \in [Devices -> Seq(Attempts)]
  BY RemoveType DEF TypeOK, Timeout
<1> QED
  BY <1>1 DEF TypeOK, Timeout, deviceVars, channelVars, ghostVars, budgetVars

(***************************************************************************)
(* The page.                                                               *)
(***************************************************************************)

\* New Group keeps the types.
LEMMA NewGroupType == ASSUME TypeOK, NewGroup PROVE TypeOK'
<1>1. PICK g \in Groups \ spent :
        /\ pair' = [group |-> g, record |-> [s \in Slots |-> None]]
        /\ spent' = spent \cup {g}
  BY DEF NewGroup
<1>2. pair' \in Pairs /\ stored' \in Pairs
  BY <1>1 DEF Pairs, NewGroup
<1>3. spent' \in SUBSET GroupIds
  BY <1>1 DEF TypeOK, GroupIds
<1>4. \A s \in Slots : resetSlotActive(s)' \in Trackers
  BY ResetType, SampleType DEF resetSlotActive
<1>5. slotActive' \in [Slots -> Trackers] /\ shown' \in BOOLEAN
  BY <1>4, RenderType DEF NewGroup
<1> QED
  BY <1>2, <1>3, <1>5
  DEF TypeOK, NewGroup, deviceVars, channelVars, budgetVars

\* Reset Active keeps the types.
LEMMA ResetActiveType == ASSUME TypeOK, ResetActive PROVE TypeOK'
<1>1. slotActive' \in [Slots -> Trackers] /\ shown' \in BOOLEAN
  BY ResetSlotType, RenderType DEF ResetActive
<1> QED
  BY <1>1
  DEF TypeOK, ResetActive, deviceVars, channelVars, ghostVars, budgetVars

\* Freshness running out keeps the types.
LEMMA ExpireType ==
    ASSUME TypeOK, NEW d \in Devices, Expire(d) PROVE TypeOK'
<1>1. entry[d] \in Entries
  BY DEF TypeOK, Expire
<1>2. [entry[d] EXCEPT !.fresh = FALSE] \in Entries
  BY <1>1 DEF Entries
<1>3. entry' \in [Devices -> Entries \cup {None}]
  BY <1>2 DEF TypeOK, Expire
<1> QED
  BY <1>3
  DEF TypeOK, Expire, deviceVars, channelVars, ghostVars, budgetVars

\* The periodic render keeps the types.
LEMMA TickType == ASSUME TypeOK, Tick PROVE TypeOK'
<1>1. shown' \in BOOLEAN
  BY RenderType DEF Tick
<1> QED
  BY <1>1 DEF TypeOK, Tick, deviceVars, channelVars, ghostVars, budgetVars

\* A reload keeps the types.
LEMMA PageReloadType == ASSUME TypeOK, PageReload PROVE TypeOK'
<1>1. << >> \in Seq(Events) /\ << >> \in Seq(Attempts)
  OBVIOUS
<1>2. INITIAL_ACTIVE \in Trackers
  BY ResetType DEF INITIAL_ACTIVE
<1>3. shown' \in BOOLEAN
  BY RenderType DEF PageReload
<1>4. faults' \in 0 .. MaxFaults
  BY FaultType DEF PageReload
<1> QED
  BY <1>1, <1>2, <1>3, <1>4 DEF TypeOK, PageReload, Phases, ghostVars

(***************************************************************************)
(* EntryFollowsConnection, the invariant that makes the entry of a packet  *)
(* exist when the packet arrives.                                          *)
(***************************************************************************)

\* At the start there are no entries and nothing is on its way.
LEMMA InitEntry == Init => EntryFollowsConnection
<1>1. << >> \in Seq({Gone})
  OBVIOUS
<1> QED
  BY <1>1 DEF Init, InitIdle, EntryFollowsConnection, Online

\* Steps that leave the entries, the phases and the inboxes alone.
LEMMA SameEntry ==
    ASSUME EntryFollowsConnection, UNCHANGED <<entry, phase, inbox>>
    PROVE  EntryFollowsConnection'
BY DEF EntryFollowsConnection, Online

\* While a device has no entry the page has no subscription either.
LEMMA HeardNothing ==
    ASSUME EntryFollowsConnection, NEW d \in Devices, NEW e, entry[d] = None
    PROVE  Heard(d, e) = << >>
<1>1. Subscribed(d) = {}
  BY DEF EntryFollowsConnection, Subscribed
<1> QED
  BY <1>1 DEF Heard

\* Notifications come into the inbox of a device that has an entry.
LEMMA NotifyEntry ==
    ASSUME TypeOK, EntryFollowsConnection, NEW d \in Devices, NEW heard,
           entry[d] = None => heard = << >>,
           Notify(d, heard), UNCHANGED <<entry, phase>>
    PROVE  EntryFollowsConnection'
<1> SUFFICES ASSUME NEW e \in Devices, entry[e] = None
             PROVE  inbox'[e] \in Seq({Gone})
  BY DEF EntryFollowsConnection, Online
<1>1. inbox[e] \in Seq({Gone})
  BY DEF EntryFollowsConnection
<1>2. CASE e = d
  <2>1. inbox'[e] = inbox[e] \o << >>
    BY <1>2 DEF TypeOK, Notify
  <2> QED
    BY <1>1, <2>1, ConcatEmptySeq
<1>3. CASE e # d
  BY <1>1, <1>3 DEF TypeOK, Notify
<1> QED
  BY <1>2, <1>3

\* A notification reaches only a host that subscribed, which has an entry.
LEMMA PublishEntry ==
    ASSUME TypeOK, EntryFollowsConnection, NEW d \in Devices,
           PublishAndNotify(d), UNCHANGED <<entry, phase>>
    PROVE  EntryFollowsConnection'
BY HeardNothing, NotifyEntry DEF PublishAndNotify

\* So do the two notifications of an outcome.
LEMMA OutcomeEntry ==
    ASSUME TypeOK, EntryFollowsConnection, NEW d \in Devices, NEW o,
           applyControlOutcome(d, o), UNCHANGED <<entry, phase>>
    PROVE  EntryFollowsConnection'
<1> DEFINE R == Heard(d, ResultEvent(o))
           P == Heard(d, StateEvent(stateChr'[d]))
           heard == IF Emissions(o) = <<"R", "P">> THEN R \o P ELSE P \o R
<1>1. entry[d] = None => R = << >> /\ P = << >>
  BY HeardNothing
<1>2. Notify(d, heard)
  BY DEF applyControlOutcome
<1>3. << >> \o << >> = << >>
  OBVIOUS
<1> HIDE DEF R, P
<1>4. entry[d] = None => heard = << >>
  BY <1>1, <1>3
<1> HIDE DEF heard
<1> QED
  BY <1>2, <1>4, NotifyEntry

\* A connection that ends leaves part of the inbox, and Gone.
LEMMA EndConnectionEntry ==
    ASSUME TypeOK, EntryFollowsConnection, NEW d \in Devices,
           EndConnection(d), UNCHANGED <<entry, phase>>
    PROVE  EntryFollowsConnection'
<1> SUFFICES ASSUME NEW e \in Devices, entry[e] = None
             PROVE  inbox'[e] \in Seq({Gone})
  BY DEF EntryFollowsConnection, Online
<1>1. inbox[e] \in Seq({Gone})
  BY DEF EntryFollowsConnection
<1>2. PICK n \in 0 .. Len(inbox[d]) :
        inbox' = [inbox EXCEPT ![d] = Append(SubSeq(@, 1, n), Gone)]
  BY DEF EndConnection
<1>3. CASE e = d
  <2>1. SubSeq(inbox[d], 1, n) \in Seq({Gone})
    BY <1>1, <1>3, SubSeqProperties, ElementOfSeq, LenProperties
  <2>2. Append(SubSeq(inbox[d], 1, n), Gone) \in Seq({Gone})
    BY <2>1, AppendProperties
  <2> QED
    BY <1>2, <1>3, <2>2 DEF TypeOK
<1>4. CASE e # d
  BY <1>1, <1>2, <1>4 DEF TypeOK
<1> QED
  BY <1>3, <1>4

\* No handler of a device disturbs the entries of the page.
LEMMA DeviceEntry ==
    ASSUME TypeOK, EntryFollowsConnection, NEW d \in Devices, DeviceStep(d)
    PROVE  EntryFollowsConnection'
<1>1. CASE ButtonDown(d) \/ ButtonUp(d) \/ heartbeat(d)
  BY <1>1, PublishEntry DEF ButtonDown, ButtonUp, heartbeat, hostVars
<1>2. CASE LongHoldReset(d) \/ onWrite(d)
  BY <1>2, OutcomeEntry DEF LongHoldReset, onWrite, hostVars
<1>3. CASE ForeignControl(d)
  BY <1>3, SameEntry DEF ForeignControl, channelVars, hostVars
<1>4. CASE Reboot(d)
  BY <1>4, SameEntry, EndConnectionEntry DEF Reboot, hostVars
<1> QED
  BY <1>1, <1>2, <1>3, <1>4 DEF DeviceStep

\* The steps of connectBluetoothDevice() make the entry before anything can be heard.
LEMMA ConnectionEntry ==
    ASSUME TypeOK, EntryFollowsConnection, NEW d \in Devices,
           ConnectionStep(d)
    PROVE  EntryFollowsConnection'
<1>1. CASE GattConnect(d)
  BY <1>1 DEF TypeOK, GattConnect, EntryFollowsConnection, Online, hostVars
<1>2. CASE CreateEntry(d)
  <2>1. [connected |-> TRUE, state |-> None, fresh |-> FALSE] # None
    <3>1. [connected |-> TRUE, state |-> None, fresh |-> FALSE] \in Entries
      BY DEF Entries
    <3> QED
      BY <3>1, NoneAssumption
  <2> QED
    BY <1>2, <2>1 DEF TypeOK, CreateEntry, EntryFollowsConnection, Online
<1>3. CASE SubscribeResult(d) \/ SubscribeState(d)
  BY <1>3 DEF TypeOK, SubscribeResult, SubscribeState, hostVars,
              EntryFollowsConnection, Online
<1>4. CASE AnswerRead(d)
  BY <1>4 DEF TypeOK, AnswerRead, EntryFollowsConnection, Online, hostVars
<1>5. CASE LoseNotification(d)
  <2>1. entry[d] # None
    <3> SUFFICES ASSUME entry[d] = None PROVE FALSE
      OBVIOUS
    <3>1. inbox[d] \in Seq({Gone}) /\ inbox[d] # << >>
      BY <1>5 DEF EntryFollowsConnection, LoseNotification
    <3>2. Last(inbox[d]) = Gone
      BY <3>1, ElementOfSeq, LenProperties, EmptySeq DEF Last
    <3> QED
      BY <1>5, <3>2 DEF LoseNotification, Gone
  <2> QED
    BY <1>5, <2>1
    DEF TypeOK, LoseNotification, EntryFollowsConnection, Online, hostVars
<1>6. CASE Drop(d)
  BY <1>6, EndConnectionEntry DEF Drop, hostVars
<1> QED
  BY <1>1, <1>2, <1>3, <1>4, <1>5, <1>6 DEF ConnectionStep

\* A packet of state comes from a device the page has an entry of.
LEMMA ReceiveEntry ==
    ASSUME EntryFollowsConnection, NEW d \in Devices, NEW kinds,
           "gone" \notin kinds, Receive(d, kinds)
    PROVE  entry[d] # None
<1> SUFFICES ASSUME entry[d] = None PROVE FALSE
  OBVIOUS
<1>1. inbox[d] \in Seq({Gone}) /\ inbox[d] # << >>
  BY DEF EntryFollowsConnection, Receive
<1>2. Head(inbox[d]) = Gone
  BY <1>1, HeadTailProperties
<1> QED
  BY <1>2 DEF Receive, Gone

\* Receiving an event leaves a shorter inbox of the same kinds.
LEMMA TailEntry ==
    ASSUME TypeOK, EntryFollowsConnection, NEW d \in Devices, NEW kinds,
           Receive(d, kinds), NEW e \in Devices, entry[e] = None
    PROVE  inbox'[e] \in Seq({Gone})
<1>1. inbox[e] \in Seq({Gone})
  BY DEF EntryFollowsConnection
<1>2. CASE e = d
  <2>1. Tail(inbox[d]) \in Seq({Gone})
    BY <1>1, <1>2, HeadTailProperties DEF Receive
  <2> QED
    BY <1>2, <2>1 DEF TypeOK, Receive
<1>3. CASE e # d
  BY <1>1, <1>3 DEF TypeOK, Receive
<1> QED
  BY <1>2, <1>3

\* A packet finds its entry and leaves it in place.
LEMMA ApplyStateEntry ==
    ASSUME TypeOK, EntryFollowsConnection, NEW d \in Devices, ApplyState(d),
           TypeOK'
    PROVE  EntryFollowsConnection'
<1> SUFFICES ASSUME NEW e \in Devices
             PROVE  /\ phase'[e] \in {"off", "gatt"} => ~ Online(e)'
                    /\ entry'[e] = None => /\ phase'[e] \in {"off", "gatt"}
                                           /\ inbox'[e] \in Seq({Gone})
  BY DEF EntryFollowsConnection
<1>1. entry[d] \in Entries
  BY ReceiveEntry DEF TypeOK, ApplyState
<1>2. CASE e = d
  <2>1. /\ entry'[d] \in Entries
        /\ entry'[d].connected = entry[d].connected
    <3> DEFINE next == Head(inbox[d]).state
    <3>1. next \in States
      BY ReceiveType, EventFields DEF ApplyState
    <3>2. entry'[d] = [entry[d] EXCEPT !.state = next, !.fresh = TRUE]
      BY DEF TypeOK, ApplyState
    <3> HIDE DEF next
    <3> QED
      BY <1>1, <3>1, <3>2 DEF Entries
  <2>2. phase'[d] = phase[d] \/ phase'[d] = "up"
    BY DEF TypeOK, ApplyState, ReadDone
  <2>3. entry'[d] # None /\ entry[d] # None
    BY <1>1, <2>1, NoneAssumption
  <2>4. phase'[d] \in {"off", "gatt"} => ~ Online(d)
    BY <2>2 DEF EntryFollowsConnection
  <2> QED
    BY <1>2, <2>1, <2>3, <2>4 DEF Online
<1>3. CASE e # d
  <2>1. entry'[e] = entry[e] /\ phase'[e] = phase[e] /\ inbox'[e] = inbox[e]
    BY <1>3 DEF TypeOK, ApplyState, ReadDone, Receive
  <2> QED
    BY <2>1 DEF EntryFollowsConnection, Online
<1> QED
  BY <1>2, <1>3

\* A duplicate leaves the entry as it is.
LEMMA IgnoreStateEntry ==
    ASSUME TypeOK, EntryFollowsConnection, NEW d \in Devices, IgnoreState(d)
    PROVE  EntryFollowsConnection'
<1>1. entry' = entry /\ entry[d] # None
  BY ReceiveEntry DEF IgnoreState
<1>2. \A e \in Devices : entry[e] = None => inbox'[e] \in Seq({Gone})
  BY TailEntry DEF IgnoreState
<1>3. \A e \in Devices : \/ phase'[e] = phase[e]
                         \/ e = d /\ phase'[e] = "up"
  BY DEF TypeOK, IgnoreState, ReadDone
<1> QED
  BY <1>1, <1>2, <1>3 DEF EntryFollowsConnection, Online

\* After the end of a connection the entry is offline.
LEMMA HostDisconnectedEntry ==
    ASSUME TypeOK, EntryFollowsConnection, NEW d \in Devices,
           HostDisconnected(d)
    PROVE  EntryFollowsConnection'
<1>1. \A e \in Devices : entry[e] = None => inbox'[e] \in Seq({Gone})
  BY TailEntry DEF HostDisconnected
<1>2. \A e \in Devices : phase'[e] = phase[e] \/ phase'[e] = "off"
  BY DEF TypeOK, HostDisconnected
<1>3. \A e \in Devices \ {d} : phase'[e] = phase[e] /\ entry'[e] = entry[e]
  BY DEF TypeOK, HostDisconnected
<1>4. CASE entry[d] = None
  <2>1. entry' = entry
    BY <1>4 DEF HostDisconnected
  <2> QED
    BY <1>1, <1>2, <1>3, <1>4, <2>1 DEF EntryFollowsConnection, Online
<1>5. CASE entry[d] # None
  <2>1. entry[d] \in Entries
    BY <1>5 DEF TypeOK
  <2>2. entry'[d] = OfflineEntry(entry[d])
    BY <1>5 DEF TypeOK, HostDisconnected
  <2>3. OfflineEntry(entry[d]) \in Entries
    BY <2>1, OfflineEntryType
  <2>4. ~ OfflineEntry(entry[d]).connected
    BY <2>1 DEF OfflineEntry, Entries
  <2>5. entry'[d] # None /\ ~ entry'[d].connected
    BY <2>2, <2>3, <2>4, NoneAssumption
  <2> QED
    BY <1>1, <1>2, <1>3, <2>5 DEF EntryFollowsConnection, Online
<1> QED
  BY <1>4, <1>5

\* Freshness does not matter to the connection.
LEMMA ExpireEntry ==
    ASSUME TypeOK, EntryFollowsConnection, NEW d \in Devices, Expire(d)
    PROVE  EntryFollowsConnection'
<1>1. entry[d] \in Entries
  BY DEF TypeOK, Expire
<1>2. /\ [entry[d] EXCEPT !.fresh = FALSE] \in Entries
      /\ [entry[d] EXCEPT !.fresh = FALSE].connected = entry[d].connected
  BY <1>1 DEF Entries
<1>3. /\ entry'[d] # None /\ entry[d] # None
      /\ entry'[d].connected = entry[d].connected
  BY <1>1, <1>2, NoneAssumption DEF TypeOK, Expire
<1>4. /\ \A e \in Devices \ {d} : entry'[e] = entry[e]
      /\ UNCHANGED <<phase, inbox>>
  BY DEF TypeOK, Expire, channelVars
<1> QED
  BY <1>3, <1>4 DEF EntryFollowsConnection, Online

\* No task of the page breaks the tie between entries and connections.
LEMMA HostEntry ==
    ASSUME TypeOK, TypeOK', EntryFollowsConnection, NEW d \in Devices,
           HostStep(d)
    PROVE  EntryFollowsConnection'
<1>1. CASE ApplyState(d) \/ IgnoreState(d) \/ HostDisconnected(d) \/ Expire(d)
  BY <1>1, ApplyStateEntry, IgnoreStateEntry, HostDisconnectedEntry,
     ExpireEntry
<1>2. CASE DeliverResult(d)
  <2>1. \A e \in Devices : entry[e] = None => inbox'[e] \in Seq({Gone})
    BY <1>2, TailEntry DEF DeliverResult
  <2> QED
    BY <1>2, <2>1 DEF DeliverResult, EntryFollowsConnection, Online
<1>3. CASE WriteDone(d) \/ WriteFail(d) \/ Timeout(d)
  BY <1>3, SameEntry DEF WriteDone, WriteFail, Timeout, channelVars
<1>4. CASE linkAsSlot(d) \/ unlinkDevice(d) \/ setArmed(d) \/ identifyDevice(d)
  BY <1>4, SameEntry
  DEF linkAsSlot, unlinkDevice, setArmed, identifyDevice, Command
<1> QED
  BY <1>1, <1>2, <1>3, <1>4 DEF HostStep

\* Nor does a button of the page, a tick or a reload.
LEMMA PageEntry ==
    ASSUME TypeOK, EntryFollowsConnection, PageStep
    PROVE  EntryFollowsConnection'
<1>1. CASE NewGroup \/ ResetActive \/ Tick
  BY <1>1, SameEntry DEF NewGroup, ResetActive, Tick, channelVars
<1>2. CASE PageReload
  <2>1. << >> \in Seq({Gone})
    OBVIOUS
  <2> QED
    BY <1>2, <2>1 DEF PageReload, EntryFollowsConnection, Online
<1> QED
  BY <1>1, <1>2 DEF PageStep

(***************************************************************************)
(* The two invariants together are inductive.                              *)
(***************************************************************************)

\* Every step keeps the types.
LEMMA NextType ==
    ASSUME TypeOK, EntryFollowsConnection, [Next]_vars
    PROVE  TypeOK'
<1>1. CASE UNCHANGED vars
  BY <1>1 DEF TypeOK, vars, deviceVars, channelVars, hostVars, ghostVars,
              budgetVars
<1>2. ASSUME NEW d \in Devices, DeviceStep(d) PROVE TypeOK'
  BY <1>2, ButtonDownType, ButtonUpType, LongHoldResetType, HeartbeatType,
     OnWriteType, ForeignControlType, RebootType DEF DeviceStep
<1>3. ASSUME NEW d \in Devices, ConnectionStep(d) PROVE TypeOK'
  BY <1>3, GattConnectType, CreateEntryType, SubscribeType, AnswerReadType,
     LoseNotificationType, DropType DEF ConnectionStep
<1>4. ASSUME NEW d \in Devices, HostStep(d) PROVE TypeOK'
  <2>1. CASE ApplyState(d)
    <3>1. entry[d] # None
      BY <2>1, ReceiveEntry DEF ApplyState
    <3> QED
      BY <2>1, <3>1, ApplyStateType
  <2> QED
    BY <1>4, <2>1, IgnoreStateType, HostDisconnectedType, DeliverResultType,
       WriteDoneType, WriteFailType, TimeoutType, CommandsType, ExpireType
    DEF HostStep
<1>5. ASSUME PageStep PROVE TypeOK'
  BY <1>5, NewGroupType, ResetActiveType, TickType, PageReloadType
  DEF PageStep
<1> QED
  BY <1>1, <1>2, <1>3, <1>4, <1>5 DEF Next

\* Every step keeps the entries tied to the connections.
LEMMA NextEntry ==
    ASSUME TypeOK, TypeOK', EntryFollowsConnection, [Next]_vars
    PROVE  EntryFollowsConnection'
<1>1. CASE UNCHANGED vars
  BY <1>1, SameEntry DEF vars, channelVars, hostVars
<1> QED
  BY <1>1, DeviceEntry, ConnectionEntry, HostEntry, PageEntry DEF Next

\* Every variable keeps its type, in every behaviour of the system.  The
\* entries must follow the connections for this: applyState() writes into the
\* entry of the device whose packet it got.
THEOREM TypeCorrect == Spec => [](TypeOK /\ EntryFollowsConnection)
<1>1. Init => TypeOK /\ EntryFollowsConnection
  BY InitType, InitEntry
<1>2. TypeOK /\ EntryFollowsConnection /\ [Next]_vars
        => (TypeOK /\ EntryFollowsConnection)'
  BY NextType, NextEntry
<1> QED
  BY <1>1, <1>2, PTL DEF Spec

\* A device counts as connected only by the entry of its connection, and no
\* packet reaches the page before the entry that it is applied to exists.
THEOREM EntriesFollowConnections == Spec => []EntryFollowsConnection
BY TypeCorrect, PTL

(***************************************************************************)
(* READY on the page.                                                      *)
(***************************************************************************)

\* A task that renders leaves READY only if it is justified.
LEMMA RenderJustified == ASSUME render PROVE ShownJustified'
BY DEF render, computeStartCondition, evaluateStartCondition, ShownJustified,
       Slots

\* A task that does not render must leave alone what READY depends on.
LEMMA UntouchedJustified ==
    ASSUME ShownJustified, UNCHANGED <<pair, entry, slotActive, shown>>
    PROVE  ShownJustified'
BY DEF ShownJustified, slotEntry, SlotSound

\* A fresh entry replaces an offline one, which no READY rests on.
LEMMA CreateEntryJustified ==
    ASSUME TypeOK, EntryFollowsConnection, ShownJustified,
           NEW d \in Devices, CreateEntry(d)
    PROVE  ShownJustified'
<1> SUFFICES ASSUME shown, NEW s \in Slots
             PROVE  /\ SlotSound(pair.group, pair.record[s], s, slotEntry(s)')
                    /\ slotActive[s].active
  BY DEF CreateEntry, ShownJustified, SlotSound
<1>1. /\ SlotSound(pair.group, pair.record[s], s, slotEntry(s))
      /\ slotActive[s].active
  BY DEF ShownJustified
<1>2. pair.record[s] # None /\ pair.record[s] \in Devices
  BY <1>1 DEF TypeOK, Pairs, SlotSound
<1>3. Online(pair.record[s])
  BY <1>1, <1>2 DEF SlotSound, slotEntry, Online
<1>4. pair.record[s] # d
  BY <1>3 DEF EntryFollowsConnection, CreateEntry
<1>5. slotEntry(s)' = slotEntry(s)
  BY <1>2, <1>4 DEF TypeOK, CreateEntry, slotEntry
<1> QED
  BY <1>1, <1>5

\* What READY demands besides freshness survives its end.
LEMMA ExpireJustified ==
    ASSUME TypeOK, ShownJustified, NEW d \in Devices, Expire(d)
    PROVE  ShownJustified'
<1> SUFFICES ASSUME shown, NEW s \in Slots
             PROVE  /\ SlotSound(pair.group, pair.record[s], s, slotEntry(s)')
                    /\ slotActive[s].active
  BY DEF Expire, ShownJustified, SlotSound
<1>1. /\ SlotSound(pair.group, pair.record[s], s, slotEntry(s))
      /\ slotActive[s].active
  BY DEF ShownJustified
<1>2. pair.record[s] # None /\ pair.record[s] \in Devices
  BY <1>1 DEF TypeOK, Pairs, SlotSound
<1>3. CASE pair.record[s] # d
  <2>1. slotEntry(s)' = slotEntry(s)
    BY <1>2, <1>3 DEF TypeOK, Expire, slotEntry
  <2> QED
    BY <1>1, <2>1
<1>4. CASE pair.record[s] = d
  <2> DEFINE e == [entry[d] EXCEPT !.fresh = FALSE]
  <2>1. entry[d] \in Entries
    BY DEF TypeOK, Expire
  <2>2. /\ e \in Entries
        /\ e.connected = entry[d].connected /\ e.state = entry[d].state
    BY <2>1 DEF Entries
  <2>3. slotEntry(s)' = e /\ slotEntry(s) = entry[d]
    BY <1>2, <1>4 DEF TypeOK, Expire, slotEntry
  <2> HIDE DEF e
  <2> QED
    BY <1>1, <2>2, <2>3, NoneAssumption DEF SlotSound
<1> QED
  BY <1>3, <1>4

\* Every step leaves READY justified or takes it off the page.
LEMMA NextJustified ==
    ASSUME TypeOK, EntryFollowsConnection, ShownJustified, [Next]_vars
    PROVE  ShownJustified'
<1>1. CASE UNCHANGED vars
  BY <1>1, UntouchedJustified DEF vars, hostVars
<1>2. ASSUME NEW d \in Devices, DeviceStep(d) PROVE ShownJustified'
  BY <1>2, UntouchedJustified
  DEF DeviceStep, ButtonDown, ButtonUp, LongHoldReset, heartbeat, onWrite,
      ForeignControl, Reboot, hostVars
<1>3. ASSUME NEW d \in Devices, ConnectionStep(d) PROVE ShownJustified'
  <2>1. CASE CreateEntry(d)
    BY <2>1, CreateEntryJustified
  <2> QED
    BY <1>3, <2>1, UntouchedJustified
    DEF ConnectionStep, GattConnect, SubscribeResult, SubscribeState,
        AnswerRead, LoseNotification, Drop, hostVars
<1>4. ASSUME NEW d \in Devices, HostStep(d) PROVE ShownJustified'
  <2>1. CASE Expire(d)
    BY <2>1, ExpireJustified
  <2>2. CASE ApplyState(d) \/ DeliverResult(d)
    BY <2>2, RenderJustified DEF ApplyState, DeliverResult
  <2>3. CASE IgnoreState(d)
    BY <2>3, RenderJustified, UntouchedJustified DEF IgnoreState
  <2>4. CASE HostDisconnected(d)
    BY <2>4, RenderJustified, UntouchedJustified DEF HostDisconnected
  <2>5. CASE WriteDone(d)
    BY <2>5, RenderJustified, UntouchedJustified DEF WriteDone, GoOn
  <2>6. CASE WriteFail(d) \/ Timeout(d)
    BY <2>6, UntouchedJustified DEF WriteFail, Timeout
  <2>7. CASE \/ linkAsSlot(d) \/ unlinkDevice(d)
             \/ setArmed(d) \/ identifyDevice(d)
    BY <2>7, UntouchedJustified
    DEF linkAsSlot, unlinkDevice, setArmed, identifyDevice, Command
  <2> QED
    BY <1>4, <2>1, <2>2, <2>3, <2>4, <2>5, <2>6, <2>7 DEF HostStep
<1>5. ASSUME PageStep PROVE ShownJustified'
  BY <1>5, RenderJustified DEF PageStep, NewGroup, ResetActive, Tick,
                               PageReload
<1> QED
  BY <1>1, <1>2, <1>3, <1>4, <1>5 DEF Next

\* READY is never left on the page by a task that took away a record, a
\* connection, the armed flag, a device-link or an Active it depends on: for
\* any number of devices and groups, and any length of every queue.
THEOREM ReadyJustified == Spec => []ShownJustified
<1>1. Init => ShownJustified
  BY DEF Init, InitIdle, ShownJustified
<1>2. TypeOK /\ EntryFollowsConnection /\ ShownJustified /\ [Next]_vars
        => ShownJustified'
  BY NextJustified
<1> QED
  BY <1>1, <1>2, TypeCorrect, PTL DEF Spec

\* The two buttons of a READY are two devices: one device has one slot in its
\* link, so it cannot be sound in both.
THEOREM ReadyNeedsTwoDevices == Spec => []ReadyTwoDevices
<1>1. ShownJustified => ReadyTwoDevices
  <2> SUFFICES ASSUME ShownJustified, shown PROVE ReadyTwoDevices
    BY DEF ReadyTwoDevices
  <2>1. \A s \in Slots :
          SlotSound(pair.group, pair.record[s], s, slotEntry(s))
    BY DEF ShownJustified
  <2>2. 1 \in Slots /\ 2 \in Slots
    BY DEF Slots
  <2>3. pair.record[1] # None /\ pair.record[2] # None
    BY <2>1, <2>2 DEF SlotSound
  <2>4. slotEntry(1).state.slot = 1 /\ slotEntry(2).state.slot = 2
    BY <2>1, <2>2 DEF SlotSound
  <2>5. pair.record[1] # pair.record[2]
    BY <2>4 DEF slotEntry
  <2> QED
    BY <2>3, <2>5 DEF ReadyTwoDevices
<1> QED
  BY <1>1, ReadyJustified, PTL

(***************************************************************************)
(* The inbox.                                                              *)
(***************************************************************************)

\* An event that a step of d puts into its inbox, but for the end.
New(d, e) ==
    \/ e.kind = "result" /\ Granted(e, accepted'[d])
    \/ /\ IsPacket(e) /\ e.state = stateChr'[d] /\ phase'[d] \in Listening
       /\ e.kind = "read" => phase'[d] \in {"reading", "up"}

\* A step takes the first k events and keeps the next m; what follows is new,
\* and comes from a connected device.
Moves(d, k, m) ==
    /\ m <= Len(inbox'[d]) /\ m + k <= Len(inbox[d])
    /\ \A i \in 1 .. m : inbox'[d][i] = inbox[d][i + k]
    /\ \A i \in m + 1 .. Len(inbox'[d]) :
           \/ New(d, inbox'[d][i])
           \/ inbox'[d][i] = Gone /\ ~ connected'[d] /\ i = Len(inbox'[d])
    /\ m < Len(inbox'[d]) => connected[d]

InboxMoves(d) == \E k \in {0, 1}, m \in Nat : Moves(d, k, m)

\* An inbox that stays.
LEMMA StayMoves ==
    ASSUME TypeOK, NEW d \in Devices, inbox'[d] = inbox[d]
    PROVE  InboxMoves(d)
<1>1. Len(inbox[d]) \in Nat
  BY LenProperties DEF TypeOK
<1>2. Moves(d, 0, Len(inbox[d]))
  BY <1>1 DEF Moves
<1> QED
  BY <1>1, <1>2 DEF InboxMoves

\* What a handler of d may notify.
NewEvents(d, heard) ==
    /\ heard \in Seq(Events)
    /\ \A i \in DOMAIN heard : New(d, heard[i])
    /\ heard # <<>> => connected[d]

\* Notifications are new events.
LEMMA NotifyMoves ==
    ASSUME TypeOK, NEW d \in Devices, NEW heard, NewEvents(d, heard),
           Notify(d, heard)
    PROVE  InboxMoves(d)
<1> DEFINE q == inbox[d]
           r == inbox'[d]
<1>1. q \in Seq(Events) /\ heard \in Seq(Events) /\ r = q \o heard
  BY DEF TypeOK, Notify, NewEvents
<1>2. /\ Len(q) \in Nat /\ Len(heard) \in Nat
      /\ Len(r) = Len(q) + Len(heard)
      /\ \A i \in 1 .. Len(r) :
             r[i] = IF i <= Len(q) THEN q[i] ELSE heard[i - Len(q)]
      /\ DOMAIN heard = 1 .. Len(heard)
  BY <1>1, ConcatProperties, LenProperties
<1>3. \A i \in 1 .. Len(q) : r[i] = q[i]
  BY <1>2
<1>4. \A i \in Len(q) + 1 .. Len(r) : New(d, r[i])
  <2> TAKE i \in Len(q) + 1 .. Len(r)
  <2>1. i - Len(q) \in DOMAIN heard /\ r[i] = heard[i - Len(q)]
    BY <1>2
  <2> QED
    BY <2>1 DEF NewEvents
<1>5. Len(q) < Len(r) => connected[d]
  BY <1>1, <1>2, EmptySeq DEF NewEvents
<1>6. Moves(d, 0, Len(q))
  BY <1>2, <1>3, <1>4, <1>5 DEF Moves
<1> QED
  BY <1>2, <1>6 DEF InboxMoves

\* The end of a connection comes last.
LEMMA EndMoves ==
    ASSUME TypeOK, NEW d \in Devices, connected[d], ~ connected'[d],
           EndConnection(d)
    PROVE  InboxMoves(d)
<1> DEFINE q == inbox[d]
           r == inbox'[d]
<1>1. PICK n \in 0 .. Len(q) : r = Append(SubSeq(q, 1, n), Gone)
  BY DEF EndConnection, TypeOK
<1>2. q \in Seq(Events) /\ Len(q) \in Nat
  BY LenProperties DEF TypeOK
<1> DEFINE p == SubSeq(q, 1, n)
<1>3. /\ p \in Seq(Events) /\ Len(p) = n
      /\ \A i \in 1 .. n : p[i] = q[i]
  BY <1>2, SubSeqProperties, ElementOfSeq
<1>4. /\ Len(r) = n + 1 /\ r[n + 1] = Gone
      /\ \A i \in 1 .. n : r[i] = p[i]
  BY <1>1, <1>3, GoneType, AppendProperties
<1>5. Moves(d, 0, n)
  BY <1>2, <1>3, <1>4 DEF Moves
<1> QED
  BY <1>5 DEF InboxMoves

\* The page takes the first event.
LEMMA TailMoves ==
    ASSUME TypeOK, NEW d \in Devices, NEW kinds, Receive(d, kinds)
    PROVE  /\ Moves(d, 1, Len(inbox[d]) - 1) /\ InboxMoves(d)
           /\ Len(inbox'[d]) = Len(inbox[d]) - 1
           /\ 1 \in DOMAIN inbox[d] /\ inbox[d][1] = Head(inbox[d])
<1> DEFINE q == inbox[d]
           r == inbox'[d]
<1>1. q \in Seq(Events) /\ q # << >> /\ r = Tail(q)
  BY DEF TypeOK, Receive
<1>2. /\ Len(q) \in Nat \ {0} /\ Len(r) = Len(q) - 1 /\ Head(q) = q[1]
      /\ \A i \in 1 .. Len(q) - 1 : r[i] = q[i + 1]
      /\ DOMAIN q = 1 .. Len(q)
  BY <1>1, HeadTailProperties, LenProperties, EmptySeq
<1>3. Moves(d, 1, Len(q) - 1)
  BY <1>2 DEF Moves
<1> QED
  BY <1>2, <1>3 DEF InboxMoves

\* The last event gets lost.
LEMMA FrontMoves ==
    ASSUME TypeOK, NEW d \in Devices, inbox[d] # <<>>,
           inbox'[d] = Front(inbox[d])
    PROVE  Moves(d, 0, Len(inbox[d]) - 1) /\ InboxMoves(d)
<1> DEFINE q == inbox[d]
           r == inbox'[d]
<1>1. q \in Seq(Events) /\ Len(q) \in Nat \ {0}
  BY LenProperties, EmptySeq DEF TypeOK
<1>2. Len(r) = Len(q) - 1 /\ \A i \in 1 .. Len(q) - 1 : r[i] = q[i]
  BY <1>1, SubSeqProperties, ElementOfSeq DEF Front
<1>3. Moves(d, 0, Len(q) - 1)
  BY <1>1, <1>2 DEF Moves
<1> QED
  BY <1>1, <1>3 DEF InboxMoves

\* A published ButtonState is heard only by a page that listens.
LEMMA HeardState ==
    ASSUME NEW d \in Devices, stateChr'[d] \in States,
           UNCHANGED <<connected, phase>>
    PROVE  NewEvents(d, Heard(d, StateEvent(stateChr'[d])))
<1> DEFINE e == StateEvent(stateChr'[d])
<1>1. e \in Events /\ e.kind = "state" /\ e.state = stateChr'[d]
  BY StateEventType DEF StateEvent
<1> HIDE DEF e
<1>2. Heard(d, e) \in Seq(Events)
  BY <1>1, HeardType
<1>3. CASE connected'[d] /\ e.kind \in Subscribed(d)
  <2>1. phase'[d] \in Listening
    BY <1>1, <1>3 DEF Subscribed, Listening
  <2>2. New(d, e)
    BY <1>1, <2>1 DEF New, IsPacket
  <2>3. Heard(d, e) = <<e>>
    BY <1>3 DEF Heard
  <2> QED
    BY <1>1, <1>2, <1>3, <2>2, <2>3 DEF NewEvents, e
<1>4. CASE ~ (connected'[d] /\ e.kind \in Subscribed(d))
  <2>1. Heard(d, e) = << >>
    BY <1>4 DEF Heard
  <2> QED
    BY <1>2, <2>1 DEF NewEvents, e
<1> QED
  BY <1>3, <1>4

\* A handler keeps in mind which LINK it accepted.
Accepts(d, o) ==
    o.ok /\ o.cmd = "LINK" => <<o.state.group, o.state.slot>> \in accepted'[d]

\* So is a ControlResult.
LEMMA HeardResult ==
    ASSUME NEW d \in Devices, NEW o \in ControlOutcome,
           Accepts(d, o), UNCHANGED <<connected, phase>>
    PROVE  NewEvents(d, Heard(d, ResultEvent(o)))
<1> DEFINE e == ResultEvent(o)
<1>1. e \in Events /\ e.kind = "result" /\ Granted(e, accepted'[d])
  BY ResultEventType DEF ResultEvent, Accepts, Granted
<1> HIDE DEF e
<1>2. Heard(d, e) \in Seq(Events) /\ New(d, e)
  BY <1>1, HeardType DEF New
<1>3. CASE connected'[d]
  BY <1>2, <1>3 DEF Heard, NewEvents, e
<1>4. CASE ~ connected'[d]
  BY <1>2, <1>4 DEF Heard, NewEvents, e
<1> QED
  BY <1>3, <1>4

\* New events followed by new events.
LEMMA ConcatNew ==
    ASSUME NEW d \in Devices, NEW p, NEW q, NewEvents(d, p), NewEvents(d, q)
    PROVE  NewEvents(d, p \o q)
<1>1. p \in Seq(Events) /\ q \in Seq(Events)
  BY DEF NewEvents
<1>2. /\ p \o q \in Seq(Events)
      /\ Len(p) \in Nat /\ Len(q) \in Nat
      /\ Len(p \o q) = Len(p) + Len(q)
      /\ \A i \in 1 .. Len(p \o q) :
             (p \o q)[i] = IF i <= Len(p) THEN p[i] ELSE q[i - Len(p)]
      /\ DOMAIN p = 1 .. Len(p) /\ DOMAIN q = 1 .. Len(q)
      /\ DOMAIN (p \o q) = 1 .. Len(p \o q)
  BY <1>1, ConcatProperties, LenProperties
<1> DEFINE r == p \o q
<1>3. \A i \in DOMAIN r : New(d, r[i])
  <2> SUFFICES ASSUME NEW i \in DOMAIN r PROVE New(d, r[i])
    OBVIOUS
  <2>1. CASE i <= Len(p)
    <3>1. i \in DOMAIN p /\ r[i] = p[i]
      BY <1>2, <2>1
    <3> QED
      BY <3>1 DEF NewEvents
  <2>2. CASE ~ (i <= Len(p))
    <3>1. i - Len(p) \in DOMAIN q /\ r[i] = q[i - Len(p)]
      BY <1>2, <2>2
    <3> QED
      BY <3>1 DEF NewEvents
  <2> QED
    BY <2>1, <2>2
<1>4. r # <<>> => connected[d]
  <2> SUFFICES ASSUME ~ connected[d] PROVE r = <<>>
    OBVIOUS
  <2>1. p = <<>> /\ q = <<>>
    BY DEF NewEvents
  <2> QED
    BY <2>1, ConcatEmptySeq
<1> QED
  BY <1>2, <1>3, <1>4 DEF NewEvents

\* A handler that publishes moves the inbox of its device.
LEMMA PublishMoves ==
    ASSUME TypeOK, TypeOK', NEW d \in Devices, PublishAndNotify(d),
           UNCHANGED <<connected, phase>>
    PROVE  InboxMoves(d)
<1>1. stateChr'[d] \in States
  BY DEF TypeOK
<1> QED
  BY <1>1, HeardState, NotifyMoves DEF PublishAndNotify

\* So does one that applies an outcome.
LEMMA OutcomeMoves ==
    ASSUME TypeOK, TypeOK', NEW d \in Devices, NEW o \in ControlOutcome,
           Accepts(d, o), applyControlOutcome(d, o),
           UNCHANGED <<connected, phase>>
    PROVE  InboxMoves(d)
<1> DEFINE R == Heard(d, ResultEvent(o))
           P == Heard(d, StateEvent(stateChr'[d]))
           heard == IF Emissions(o) = <<"R", "P">> THEN R \o P ELSE P \o R
<1>1. stateChr'[d] \in States
  BY DEF TypeOK
<1>2. NewEvents(d, R) /\ NewEvents(d, P)
  BY <1>1, HeardState, HeardResult
<1>3. Notify(d, heard)
  BY DEF applyControlOutcome
<1> HIDE DEF R, P
<1>4. NewEvents(d, heard)
  BY <1>2, ConcatNew
<1> HIDE DEF heard
<1> QED
  BY <1>3, <1>4, NotifyMoves

\* And the answer to the read.
LEMMA AnswerMoves ==
    ASSUME TypeOK, NEW d \in Devices, AnswerRead(d)
    PROVE  InboxMoves(d)
<1> DEFINE e == [kind |-> "read", state |-> stateChr[d]]
           q == inbox[d]
           r == inbox'[d]
<1>1. q \in Seq(Events) /\ e \in Events /\ r = Append(q, e)
  BY ReadEventType DEF TypeOK, AnswerRead
<1>2. New(d, e) /\ connected[d]
  BY DEF TypeOK, AnswerRead, New, IsPacket, Listening, deviceVars
<1> HIDE DEF e
<1>3. /\ Len(q) \in Nat /\ Len(r) = Len(q) + 1 /\ r[Len(q) + 1] = e
      /\ \A i \in 1 .. Len(q) : r[i] = q[i]
  BY <1>1, AppendProperties, LenProperties
<1>4. \A i \in Len(q) + 1 .. Len(r) : New(d, r[i])
  <2> SUFFICES ASSUME NEW i \in Len(q) + 1 .. Len(r) PROVE New(d, r[i])
    OBVIOUS
  <2>1. r[i] = e
    BY <1>3
  <2> QED
    BY <1>2, <2>1
<1>5. Moves(d, 0, Len(q))
  BY <1>2, <1>3, <1>4 DEF Moves
<1> QED
  BY <1>3, <1>5 DEF InboxMoves

\* Whatever happens, each inbox loses its head at most, keeps a part in order
\* and gets what is new at its end.
LEMMA NextMoves ==
    ASSUME TypeOK, TypeOK', [Next]_vars, NEW d \in Devices
    PROVE  InboxMoves(d)
<1>1. CASE UNCHANGED inbox
  BY <1>1, StayMoves
<1>2. ASSUME NEW a \in Devices, DeviceStep(a) PROVE InboxMoves(d)
  <2>1. a # d => inbox'[d] = inbox[d]
    <3>1. CASE ButtonDown(a) \/ ButtonUp(a) \/ heartbeat(a)
      BY <3>1 DEF TypeOK, ButtonDown, ButtonUp, heartbeat, PublishAndNotify,
                  Notify
    <3>2. CASE LongHoldReset(a) \/ onWrite(a)
      <4>1. PICK o : applyControlOutcome(a, o)
        BY <3>2 DEF LongHoldReset, onWrite
      <4>2. \E heard : Notify(a, heard)
        BY <4>1 DEF applyControlOutcome
      <4> QED
        BY <4>2 DEF TypeOK, Notify
    <3>3. CASE ForeignControl(a) \/ Reboot(a)
      <4>1. EndConnection(a) \/ UNCHANGED inbox
        BY <3>3 DEF ForeignControl, Reboot, channelVars
      <4> QED
        BY <4>1 DEF TypeOK, EndConnection
    <3> QED
      BY <1>2, <3>1, <3>2, <3>3 DEF DeviceStep
  <2>2. CASE a = d
    <3>1. CASE ButtonDown(a) \/ ButtonUp(a) \/ heartbeat(a)
      BY <2>2, <3>1, PublishMoves DEF ButtonDown, ButtonUp, heartbeat
    <3>2. CASE LongHoldReset(a)
      <4>1. makeClear(link[d], "FACTORY_RESET_LINK") \in ControlOutcome
        BY ClearType DEF TypeOK, Commands
      <4>2. Accepts(d, makeClear(link[d], "FACTORY_RESET_LINK"))
        BY DEF Accepts, makeClear, Accept
      <4> QED
        BY <2>2, <3>2, <4>1, <4>2, OutcomeMoves DEF LongHoldReset
    <3>3. CASE onWrite(a)
      <4>1. evaluateControl(write[d].packet, link[d]) \in ControlOutcome
        <5>1. write[d] \in [packet: Packets, handled: BOOLEAN]
          BY <2>2, <3>3 DEF TypeOK, onWrite
        <5> QED
          BY <5>1, EvaluateType DEF TypeOK
      <4>2. /\ applyControlOutcome(d, evaluateControl(write[d].packet, link[d]))
            /\ UNCHANGED <<connected, phase>>
        BY <2>2, <3>3 DEF onWrite
      <4>3. Accepts(d, evaluateControl(write[d].packet, link[d]))
        BY <2>2, <3>3 DEF TypeOK, onWrite, Accepts
      <4> QED
        BY <4>1, <4>2, <4>3, OutcomeMoves
    <3>4. CASE ForeignControl(a)
      BY <3>4, StayMoves DEF ForeignControl, channelVars
    <3>5. CASE Reboot(a)
      <4>1. ~ connected'[d]
        BY <2>2, <3>5 DEF TypeOK, Reboot
      <4> QED
        BY <2>2, <3>5, <4>1, EndMoves, StayMoves DEF Reboot
    <3> QED
      BY <1>2, <3>1, <3>2, <3>3, <3>4, <3>5 DEF DeviceStep
  <2> QED
    BY <2>1, <2>2, StayMoves
<1>3. ASSUME NEW a \in Devices, ConnectionStep(a) PROVE InboxMoves(d)
  <2>1. CASE UNCHANGED inbox
    BY <2>1, StayMoves
  <2>2. CASE AnswerRead(a)
    BY <2>2, AnswerMoves, StayMoves DEF AnswerRead, TypeOK
  <2>3. CASE LoseNotification(a)
    BY <2>3, FrontMoves, StayMoves DEF LoseNotification, TypeOK
  <2>4. CASE Drop(a)
    <3>1. connected[a] /\ ~ connected'[a]
      BY <2>4 DEF Drop, TypeOK
    <3>2. a # d => inbox'[d] = inbox[d]
      BY <2>4 DEF Drop, EndConnection, TypeOK
    <3> QED
      BY <2>4, <3>1, <3>2, EndMoves, StayMoves DEF Drop
  <2> QED
    BY <1>3, <2>1, <2>2, <2>3, <2>4
    DEF ConnectionStep, GattConnect, CreateEntry, SubscribeResult,
        SubscribeState
<1>4. ASSUME NEW a \in Devices, HostStep(a) PROVE InboxMoves(d)
  <2>1. CASE UNCHANGED inbox
    BY <2>1, StayMoves
  <2>2. ASSUME NEW kinds, Receive(a, kinds) PROVE InboxMoves(d)
    <3>1. a # d => inbox'[d] = inbox[d]
      BY <2>2 DEF Receive, TypeOK
    <3> QED
      BY <2>2, <3>1, TailMoves, StayMoves
  <2> QED
    BY <1>4, <2>1, <2>2
    DEF HostStep, ApplyState, IgnoreState, HostDisconnected, DeliverResult,
        WriteDone, WriteFail, Timeout, linkAsSlot, unlinkDevice, setArmed,
        identifyDevice, Command, Expire, channelVars
<1>5. CASE PageStep
  <2>1. CASE PageReload
    <3>1. inbox'[d] = <<>> /\ Len(inbox[d]) \in Nat
      BY <2>1, LenProperties DEF PageReload, TypeOK
    <3>2. Moves(d, 0, 0)
      BY <3>1 DEF Moves
    <3> QED
      BY <3>2 DEF InboxMoves
  <2> QED
    BY <1>1, <1>5, <2>1
    DEF PageStep, NewGroup, ResetActive, Tick, channelVars
<1> QED
  BY <1>1, <1>2, <1>3, <1>4, <1>5 DEF Next, vars, channelVars

(***************************************************************************)
(* The button.                                                             *)
(***************************************************************************)

\* A handler publishes what it changes, and takes no press back.
Pushed(d) ==
    /\ stateChr'[d] = ButtonState(d)'
    /\ presses[d] <= presses'[d]
    /\ ~ pressed[d] /\ pressed'[d] => presses[d] < presses'[d]

SameDevice(d) ==
    /\ link'[d] = link[d] /\ pressed'[d] = pressed[d]
    /\ presses'[d] = presses[d] /\ seq'[d] = seq[d]
    /\ stateChr'[d] = stateChr[d]

\* A device to which nothing happens.
LEMMA SamePushed ==
    ASSUME TypeOK, NEW d \in Devices, stateChr[d] = ButtonState(d),
           SameDevice(d)
    PROVE  Pushed(d)
<1>1. presses[d] \in Nat
  BY BoundsAssumption DEF TypeOK
<1> QED
  BY <1>1 DEF SameDevice, Pushed, ButtonState

\* Publishing makes the characteristic what the device is now.
LEMMA PublishPushed ==
    ASSUME TypeOK, NEW d \in Devices, publishState(d)
    PROVE  /\ stateChr'[d] = ButtonState(d)'
           /\ \A e \in Devices \ {d} :
                  seq'[e] = seq[e] /\ stateChr'[e] = stateChr[e]
BY DEF TypeOK, publishState

\* The handlers of one device, seen from all devices.
LEMMA DevicePushed ==
    ASSUME TypeOK, NEW a \in Devices, DeviceStep(a), NEW d \in Devices,
           stateChr[d] = ButtonState(d)
    PROVE  Pushed(d)
<1>0. presses \in [Devices -> Nat]
  BY BoundsAssumption DEF TypeOK
<1>1. ASSUME publishState(a), UNCHANGED <<pressed, presses>>,
             \A e \in Devices \ {a} : link'[e] = link[e]
      PROVE  Pushed(d)
  <2>1. CASE d = a
    BY <1>0, <1>1, <2>1, PublishPushed DEF Pushed
  <2>2. CASE d # a
    <3>1. SameDevice(d)
      BY <1>1, <2>2, PublishPushed DEF SameDevice
    <3> QED
      BY <3>1, SamePushed
  <2> QED
    BY <2>1, <2>2
<1>2. CASE ButtonDown(a)
  <2>1. publishState(a)
    BY <1>2 DEF ButtonDown, PublishAndNotify
  <2>2. CASE d = a
    <3>1. presses'[d] = presses[d] + 1
      BY <1>0, <1>2, <2>2 DEF ButtonDown
    <3> QED
      BY <1>0, <2>1, <2>2, <3>1, PublishPushed DEF Pushed
  <2>3. CASE d # a
    <3>1. SameDevice(d)
      BY <1>2, <2>1, <2>3, PublishPushed DEF SameDevice, ButtonDown, TypeOK
    <3> QED
      BY <3>1, SamePushed
  <2> QED
    BY <2>2, <2>3
<1>3. CASE ButtonUp(a)
  <2>1. publishState(a)
    BY <1>3 DEF ButtonUp, PublishAndNotify
  <2>2. CASE d = a
    <3>1. presses'[d] = presses[d] /\ ~ pressed'[d]
      BY <1>3, <2>2 DEF ButtonUp, TypeOK
    <3> QED
      BY <1>0, <2>1, <2>2, <3>1, PublishPushed DEF Pushed
  <2>3. CASE d # a
    <3>1. SameDevice(d)
      BY <1>3, <2>1, <2>3, PublishPushed DEF SameDevice, ButtonUp, TypeOK
    <3> QED
      BY <3>1, SamePushed
  <2> QED
    BY <2>2, <2>3
<1>4. CASE heartbeat(a)
  BY <1>1, <1>4 DEF heartbeat, PublishAndNotify
<1>5. CASE LongHoldReset(a) \/ onWrite(a)
  <2>1. PICK o : applyControlOutcome(a, o) /\ UNCHANGED <<pressed, presses>>
    BY <1>5 DEF LongHoldReset, onWrite
  <2>2. publishState(a) /\ \A e \in Devices \ {a} : link'[e] = link[e]
    BY <2>1 DEF applyControlOutcome, TypeOK
  <2> QED
    BY <1>1, <2>1, <2>2
<1>6. CASE ForeignControl(a)
  <2>1. \A e \in Devices \ {a} : link'[e] = link[e]
    BY <1>6 DEF ForeignControl, TypeOK
  <2> QED
    BY <1>1, <1>6, <2>1 DEF ForeignControl
<1>7. CASE Reboot(a)
  <2>1. CASE d = a
    <3>1. presses' = presses /\ ~ pressed'[d] /\ stateChr'[d] = ButtonState(d)'
      BY <1>7, <2>1 DEF Reboot, TypeOK
    <3> QED
      BY <1>0, <3>1 DEF Pushed
  <2>2. CASE d # a
    <3>1. /\ link'[d] = link[d] /\ pressed'[d] = pressed[d] /\ seq'[d] = seq[d]
          /\ presses'[d] = presses[d] /\ stateChr'[d] = stateChr[d]
      BY <1>7, <2>2 DEF Reboot, TypeOK
    <3> QED
      BY <3>1, SamePushed DEF SameDevice
  <2> QED
    BY <2>1, <2>2
<1> QED
  BY <1>2, <1>3, <1>4, <1>5, <1>6, <1>7 DEF DeviceStep

\* Whatever happens, the characteristic stays what the device is.
LEMMA NextPushed ==
    ASSUME TypeOK, [Next]_vars, NEW d \in Devices,
           stateChr[d] = ButtonState(d)
    PROVE  Pushed(d)
<1>1. CASE UNCHANGED <<link, pressed, presses, seq, stateChr>>
  BY <1>1, SamePushed DEF SameDevice
<1>2. ASSUME NEW a \in Devices, ConnectionStep(a) PROVE Pushed(d)
  <2>1. CASE GattConnect(a)
    <3>1. CASE d = a
      <4>1. presses[d] \in Nat
        BY BoundsAssumption DEF TypeOK
      <4> QED
        BY <2>1, <3>1, <4>1, PublishPushed DEF GattConnect, Pushed
    <3>2. CASE d # a
      <4>1. SameDevice(d)
        BY <2>1, <3>2, PublishPushed DEF GattConnect, SameDevice
      <4> QED
        BY <4>1, SamePushed
    <3> QED
      BY <3>1, <3>2
  <2> QED
    BY <1>1, <1>2, <2>1
    DEF ConnectionStep, CreateEntry, SubscribeResult, SubscribeState,
        AnswerRead, LoseNotification, Drop, deviceVars
<1>3. ASSUME NEW a \in Devices, HostStep(a) PROVE Pushed(d)
  BY <1>1, <1>3
  DEF HostStep, ApplyState, IgnoreState, HostDisconnected, DeliverResult,
      WriteDone, WriteFail, Timeout, linkAsSlot, unlinkDevice, setArmed,
      identifyDevice, Command, Expire, deviceVars
<1>4. CASE PageStep
  BY <1>1, <1>4
  DEF PageStep, NewGroup, ResetActive, Tick, PageReload, deviceVars
<1> QED
  BY <1>1, <1>2, <1>3, <1>4, DevicePushed DEF Next, vars, deviceVars

(***************************************************************************)
(* The connection.                                                         *)
(***************************************************************************)

\* A connection is made from "off" and goes on to "up"; when it ends for the
\* page it has ended for the device, and the inbox is empty.
Linked(d) ==
    /\ phase[d] = "off" => phase'[d] \in {"off", "gatt"}
    /\ phase[d] \in Listening => phase'[d] \in Listening \cup {"off"}
    /\ phase[d] \in {"reading", "up"} => phase'[d] \in {"reading", "up", "off"}
    /\ phase'[d] = "gatt" => phase[d] \in {"off", "gatt"}
    /\ phase[d] = "gatt" /\ phase'[d] \notin {"off", "gatt"} => Online(d)'
    /\ phase'[d] = "off" => ~ connected'[d] /\ inbox'[d] = <<>> /\ ~ Online(d)'
    /\ connected'[d] => connected[d] \/ phase[d] = "off"
    /\ phase[d] # "off" => atConnect'[d] = atConnect[d]
    /\ phase[d] = "off" =>
           IF phase'[d] = "off" THEN atConnect'[d] = atConnect[d]
                                ELSE atConnect'[d] = presses[d]

\* The only event of its kind.
LEMMA GoneOnly == ASSUME NEW e \in Events, e.kind = "gone" PROVE e = Gone
BY DEF Events, Results

\* A step that leaves the phase, the entry and atConnect of d alone.
LEMMA SameLinked ==
    ASSUME TypeOK, EntryFollowsConnection, ChannelInOrder, NEW d \in Devices,
           phase'[d] = phase[d], atConnect'[d] = atConnect[d],
           connected'[d] => connected[d],
           Online(d)' <=> Online(d),
           phase[d] = "off" => inbox'[d] = <<>>
    PROVE  Linked(d)
<1>1. phase[d] = "off" => ~ connected[d] /\ ~ Online(d)
  BY DEF ChannelInOrder, EntryFollowsConnection
<1> QED
  BY <1>1 DEF Linked, Listening

\* From nothing comes nothing: an empty inbox of a device that is not
\* connected stays empty.
LEMMA StaysEmpty ==
    ASSUME TypeOK', ChannelInOrder, NEW d \in Devices, InboxMoves(d),
           phase[d] = "off"
    PROVE  inbox'[d] = <<>>
<1>1. inbox[d] = <<>> /\ ~ connected[d]
  BY DEF ChannelInOrder
<1>2. PICK k \in {0, 1}, m \in Nat : Moves(d, k, m)
  BY DEF InboxMoves
<1>3. inbox'[d] \in Seq(Events) /\ Len(inbox'[d]) \in Nat
  BY LenProperties DEF TypeOK
<1>4. Len(inbox'[d]) = 0
  BY <1>1, <1>2, <1>3 DEF Moves
<1> QED
  BY <1>3, <1>4, EmptySeq

\* The page hears that a connection has ended: nothing comes after that.
LEMMA GoneLast ==
    ASSUME TypeOK, ChannelInOrder, NEW d \in Devices, Receive(d, {"gone"})
    PROVE  ~ connected[d] /\ inbox'[d] = <<>>
<1>1. inbox[d][1] = Gone /\ 1 \in DOMAIN inbox[d]
  BY ReceiveType, TailMoves, GoneOnly
<1>2. ~ connected[d] /\ Len(inbox[d]) = 1
  BY <1>1 DEF ChannelInOrder
<1>3. Len(inbox'[d]) = 0
  <2>1. Len(inbox'[d]) = Len(inbox[d]) - 1
    BY TailMoves
  <2> QED
    BY <1>2, <2>1
<1>4. inbox'[d] \in Seq(Events)
  <2>1. inbox' \in [Devices -> Seq(Events)]
    BY ReceiveType
  <2> QED
    BY <2>1
<1> QED
  BY <1>2, <1>3, <1>4, EmptySeq

(***************************************************************************)
(* The entry.                                                              *)
(***************************************************************************)

\* The page learns nothing of d, or makes its entry, or takes the packet at
\* the head of the inbox, or takes d for gone.
Learned(d) ==
    \/ /\ Online(d)' <=> Online(d)
       /\ Online(d) => entry'[d].state = entry[d].state
    \/ /\ phase[d] = "gatt" /\ phase'[d] = "entry"
       /\ Online(d)' /\ entry'[d].state = None
    \/ /\ Online(d) /\ Online(d)'
       /\ 1 \in DOMAIN inbox[d] /\ IsPacket(inbox[d][1])
       /\ entry'[d].state = inbox[d][1].state
       /\ Moves(d, 1, Len(inbox[d]) - 1)
    \/ ~ Online(d)' /\ phase'[d] = "off"

\* An entry that stays.
LEMMA SameLearned ==
    ASSUME NEW d \in Devices, entry'[d] = entry[d] PROVE Learned(d)
BY DEF Learned, Online

\* The new entry is online and knows no state.
LEMMA CreateLearned ==
    ASSUME TypeOK, NEW a \in Devices, CreateEntry(a), NEW d \in Devices
    PROVE  Learned(d)
<1> DEFINE e == [connected |-> TRUE, state |-> None, fresh |-> FALSE]
<1>1. e \in Entries /\ e.connected /\ e.state = None
  BY DEF Entries
<1> HIDE DEF e
<1>2. entry' = [entry EXCEPT ![a] = e] /\ phase' = [phase EXCEPT ![a] = "entry"]
  BY DEF CreateEntry, e
<1>3. CASE d = a
  <2>1. entry'[d] = e /\ phase'[d] = "entry" /\ phase[d] = "gatt"
    BY <1>2, <1>3 DEF TypeOK, CreateEntry
  <2> QED
    BY <1>1, <2>1, NoneAssumption DEF Learned, Online
<1>4. CASE d # a
  BY <1>2, <1>4, SameLearned DEF TypeOK
<1> QED
  BY <1>3, <1>4

\* While a packet is on its way the page takes its device for connected.
LEMMA PacketOnline ==
    ASSUME TypeOK, ChannelInOrder, NEW d \in Devices,
           Receive(d, {"state", "read"})
    PROVE  /\ Online(d) /\ phase[d] \in Listening
           /\ IsPacket(inbox[d][1]) /\ inbox[d][1] = Head(inbox[d])
           /\ 1 \in DOMAIN inbox[d] /\ Head(inbox[d]) \in Events
           /\ Head(inbox[d]).state \in States
<1>1. /\ 1 \in DOMAIN inbox[d] /\ inbox[d][1] = Head(inbox[d])
      /\ Head(inbox[d]) \in Events /\ Head(inbox[d]).kind \in {"state", "read"}
  BY TailMoves, ReceiveType
<1>2. IsPacket(inbox[d][1])
  BY <1>1 DEF IsPacket
<1>3. phase[d] \in Listening
  BY <1>1, <1>2 DEF ChannelInOrder
<1>4. Online(d)
  BY <1>3 DEF ChannelInOrder, Listening
<1> QED
  BY <1>1, <1>2, <1>3, <1>4, EventFields

\* The packet that is applied becomes the state of the entry.
LEMMA ApplyLearned ==
    ASSUME TypeOK, ChannelInOrder, NEW a \in Devices, ApplyState(a),
           NEW d \in Devices
    PROVE  Learned(d) /\ (d = a => Known(d)' /\ entry'[d].state \in States)
<1>1. Receive(a, {"state", "read"})
  BY DEF ApplyState
<1> DEFINE next == Head(inbox[a]).state
<1>2. next \in States /\ Online(a) /\ next = inbox[a][1].state
  BY <1>1, PacketOnline
<1>3. entry' = [entry EXCEPT ![a].state = next, ![a].fresh = TRUE]
  BY DEF ApplyState
<1> HIDE DEF next
<1>4. CASE d = a
  <2>1. entry[d] \in Entries /\ entry[d].connected
    BY <1>2, <1>4 DEF Online, TypeOK
  <2>2. entry'[d] = [entry[d] EXCEPT !.state = next, !.fresh = TRUE]
    BY <1>3, <1>4 DEF TypeOK
  <2>3. /\ entry'[d] \in Entries /\ entry'[d].state = next
        /\ entry'[d].connected
    BY <1>2, <2>1, <2>2 DEF Entries
  <2>4. entry'[d] # None /\ next # None
    BY <1>2, <2>3, NoneAssumption
  <2> QED
    BY <1>1, <1>2, <1>4, <2>3, <2>4, PacketOnline, TailMoves
    DEF Learned, Online, Known
<1>5. CASE d # a
  BY <1>3, <1>5, SameLearned DEF TypeOK
<1> QED
  BY <1>4, <1>5

\* The end of one connection is not the end of another.
LEMMA GoneOthers ==
    ASSUME TypeOK, NEW a \in Devices, HostDisconnected(a),
           NEW d \in Devices \ {a}
    PROVE  entry'[d] = entry[d] /\ phase'[d] = phase[d]
<1>1. entry'[d] = entry[d]
  BY DEF HostDisconnected, TypeOK
<1> QED
  BY <1>1 DEF HostDisconnected, TypeOK

\* Whatever happens, the page learns of a device in one of the four ways.
LEMMA NextLearned ==
    ASSUME TypeOK, ChannelInOrder, [Next]_vars, NEW d \in Devices
    PROVE  Learned(d)
<1>1. CASE UNCHANGED entry
  BY <1>1, SameLearned
<1>2. ASSUME NEW a \in Devices, DeviceStep(a) PROVE Learned(d)
  BY <1>1, <1>2
  DEF DeviceStep, ButtonDown, ButtonUp, LongHoldReset, heartbeat, onWrite,
      ForeignControl, Reboot, hostVars
<1>3. ASSUME NEW a \in Devices, ConnectionStep(a) PROVE Learned(d)
  BY <1>1, <1>3, CreateLearned
  DEF ConnectionStep, GattConnect, SubscribeResult, SubscribeState,
      AnswerRead, LoseNotification, Drop, hostVars
<1>4. ASSUME NEW a \in Devices, HostStep(a) PROVE Learned(d)
  <2>1. CASE ApplyState(a)
    BY <2>1, ApplyLearned
  <2>2. CASE HostDisconnected(a)
    <3>1. CASE d = a
      <4>1. phase'[d] = "off"
        BY <2>2, <3>1 DEF HostDisconnected, TypeOK
      <4>2. CASE entry[a] = None
        <5>1. entry' = entry
          BY <2>2, <4>2 DEF HostDisconnected
        <5> QED
          BY <5>1, SameLearned
      <4>3. CASE entry[a] # None
        <5>1. entry'[d] = OfflineEntry(entry[d])
          BY <2>2, <3>1, <4>3 DEF HostDisconnected, TypeOK
        <5>2. entry[d] \in Entries
          BY <3>1, <4>3 DEF TypeOK
        <5>3. ~ OfflineEntry(entry[d]).connected
          BY <5>2 DEF OfflineEntry, Entries
        <5> QED
          BY <4>1, <5>1, <5>3 DEF Learned, Online
      <4> QED
        BY <4>2, <4>3
    <3>2. CASE d # a
      <4>1. entry'[d] = entry[d]
        BY <2>2, <3>2 DEF HostDisconnected, TypeOK
      <4> QED
        BY <4>1, SameLearned
    <3> QED
      BY <3>1, <3>2
  <2>3. CASE Expire(a)
    <3>1. CASE d = a
      <4>1. entry[d] \in Entries
        BY <2>3, <3>1 DEF Expire, TypeOK
      <4>2. entry'[d] = [entry[d] EXCEPT !.fresh = FALSE]
        BY <2>3, <3>1 DEF Expire, TypeOK
      <4>3. /\ entry'[d] \in Entries /\ entry'[d].connected = entry[d].connected
            /\ entry'[d].state = entry[d].state
        BY <4>1, <4>2 DEF Entries
      <4> QED
        BY <4>1, <4>3, NoneAssumption DEF Learned, Online
    <3>2. CASE d # a
      BY <2>3, <3>2, SameLearned DEF Expire, TypeOK
    <3> QED
      BY <3>1, <3>2
  <2> QED
    BY <1>1, <1>4, <2>1, <2>2, <2>3
    DEF HostStep, IgnoreState, DeliverResult, WriteDone, WriteFail, Timeout,
        linkAsSlot, unlinkDevice, setArmed, identifyDevice, Command
<1>5. CASE PageStep
  <2>1. CASE PageReload
    BY <2>1 DEF PageReload, Learned, Online
  <2> QED
    BY <1>1, <1>5, <2>1 DEF PageStep, NewGroup, ResetActive, Tick
<1> QED
  BY <1>1, <1>2, <1>3, <1>4, <1>5 DEF Next, vars, hostVars

\* Whatever happens, the connection of a device goes its way.
LEMMA NextLinked ==
    ASSUME TypeOK, TypeOK', EntryFollowsConnection, ChannelInOrder,
           [Next]_vars, NEW d \in Devices
    PROVE  Linked(d)
<1>0. phase[d] = "off" => inbox'[d] = <<>> /\ ~ connected[d] /\ ~ Online(d)
  BY NextMoves, StaysEmpty DEF ChannelInOrder, EntryFollowsConnection
<1>1. ASSUME phase'[d] = phase[d], atConnect'[d] = atConnect[d],
             connected'[d] => connected[d], entry'[d] = entry[d]
      PROVE  Linked(d)
  BY <1>0, <1>1, SameLinked DEF Online
<1>2. ASSUME NEW a \in Devices, DeviceStep(a) PROVE Linked(d)
  <2>1. UNCHANGED <<phase, entry, atConnect>>
    BY <1>2 DEF DeviceStep, ButtonDown, ButtonUp, LongHoldReset, heartbeat,
                onWrite, ForeignControl, Reboot, channelVars, hostVars,
                ghostVars
  <2>2. connected'[d] => connected[d]
    <3>1. CASE Reboot(a)
      BY <3>1 DEF Reboot, TypeOK
    <3> QED
      BY <1>2, <3>1
      DEF DeviceStep, ButtonDown, ButtonUp, LongHoldReset, heartbeat,
          onWrite, ForeignControl
  <2> QED
    BY <1>1, <2>1, <2>2
<1>3. ASSUME NEW a \in Devices, ConnectionStep(a) PROVE Linked(d)
  <2>1. CASE GattConnect(a)
    <3>1. /\ entry' = entry /\ phase' = [phase EXCEPT ![a] = "gatt"]
          /\ atConnect' = [atConnect EXCEPT ![a] = presses[a]]
          /\ connected' = [connected EXCEPT ![a] = TRUE] /\ phase[a] = "off"
      BY <2>1 DEF GattConnect, hostVars
    <3>2. CASE d = a
      BY <3>1, <3>2 DEF TypeOK, Linked, Listening
    <3>3. CASE d # a
      BY <1>1, <3>1, <3>3 DEF TypeOK
    <3> QED
      BY <3>2, <3>3
  <2>2. CASE CreateEntry(a)
    <3>1. /\ phase' = [phase EXCEPT ![a] = "entry"] /\ phase[a] = "gatt"
          /\ UNCHANGED <<connected, atConnect>>
      BY <2>2 DEF CreateEntry, deviceVars, ghostVars
    <3>2. CASE d = a
      <4>1. phase'[d] = "entry" /\ phase[d] = "gatt"
        BY <3>1, <3>2 DEF TypeOK
      <4>2. Online(d)'
        <5> DEFINE e == [connected |-> TRUE, state |-> None, fresh |-> FALSE]
        <5>1. e \in Entries /\ e.connected
          BY DEF Entries
        <5>2. entry'[d] = e
          BY <2>2, <3>2 DEF CreateEntry, TypeOK
        <5> HIDE DEF e
        <5> QED
          BY <5>1, <5>2, NoneAssumption DEF Online
      <4> QED
        BY <3>1, <4>1, <4>2 DEF Linked, Listening
    <3>3. CASE d # a
      <4>1. entry'[d] = entry[d]
        BY <2>2, <3>3 DEF CreateEntry, TypeOK
      <4> QED
        BY <1>1, <3>1, <3>3, <4>1 DEF TypeOK
    <3> QED
      BY <3>2, <3>3
  <2>3. CASE SubscribeResult(a) \/ SubscribeState(a) \/ AnswerRead(a)
    <3>1. /\ UNCHANGED <<entry, connected, atConnect>>
          /\ \/ phase[a] = "entry" /\ phase' = [phase EXCEPT ![a] = "results"]
             \/ phase[a] = "results" /\ phase' = [phase EXCEPT ![a] = "states"]
             \/ phase[a] = "states" /\ phase' = [phase EXCEPT ![a] = "reading"]
      BY <2>3 DEF SubscribeResult, SubscribeState, AnswerRead, hostVars,
                  deviceVars, ghostVars
    <3>2. CASE d = a
      BY <3>1, <3>2 DEF TypeOK, Linked, Listening
    <3>3. CASE d # a
      BY <1>1, <3>1, <3>3 DEF TypeOK
    <3> QED
      BY <3>2, <3>3
  <2>4. CASE LoseNotification(a) \/ Drop(a)
    <3>1. UNCHANGED <<phase, entry, atConnect>>
      BY <2>4 DEF LoseNotification, Drop, hostVars, ghostVars
    <3>2. connected'[d] => connected[d]
      BY <2>4 DEF LoseNotification, Drop, deviceVars, TypeOK
    <3> QED
      BY <1>1, <3>1, <3>2
  <2> QED
    BY <1>3, <2>1, <2>2, <2>3, <2>4 DEF ConnectionStep
<1>4. ASSUME NEW a \in Devices, HostStep(a) PROVE Linked(d)
  <2>1. UNCHANGED <<connected, atConnect>>
    BY <1>4
    DEF HostStep, ApplyState, IgnoreState, HostDisconnected, DeliverResult,
        WriteDone, WriteFail, Timeout, linkAsSlot, unlinkDevice, setArmed,
        identifyDevice, Command, Expire, deviceVars, ghostVars
  <2>2. CASE HostDisconnected(a)
    <3>1. CASE d = a
      <4>1. phase'[d] = "off" /\ ~ connected'[d] /\ inbox'[d] = <<>>
        BY <2>1, <2>2, <3>1, GoneLast DEF HostDisconnected, TypeOK
      <4>2. phase[d] \in {"off", "gatt"} => ~ Online(d)
        BY DEF EntryFollowsConnection
      <4>3. ~ Online(d)'
        <5>1. CASE entry[a] = None
          BY <2>2, <3>1, <5>1 DEF HostDisconnected, Online
        <5>2. CASE entry[a] # None
          <6>1. entry'[d] = OfflineEntry(entry[d]) /\ entry[d] \in Entries
            BY <2>2, <3>1, <5>2 DEF HostDisconnected, TypeOK
          <6>2. ~ OfflineEntry(entry[d]).connected
            BY <6>1 DEF OfflineEntry, Entries
          <6> QED
            BY <6>1, <6>2 DEF Online
        <5> QED
          BY <5>1, <5>2
      <4> QED
        BY <2>1, <4>1, <4>3 DEF Linked, Listening
    <3>2. CASE d # a
      BY <1>1, <2>1, <2>2, <3>2, GoneOthers
    <3> QED
      BY <3>1, <3>2
  <2>3. CASE ApplyState(a) \/ IgnoreState(a)
    <3>1. Receive(a, {"state", "read"}) /\ ReadDone(a)
      BY <2>3 DEF ApplyState, IgnoreState
    <3>2. phase'[a] = phase[a] \/ phase'[a] = "up"
      BY <3>1 DEF ReadDone, TypeOK
    <3>3. \A e \in Devices \ {a} : phase'[e] = phase[e]
      BY <3>1 DEF ReadDone, TypeOK
    <3>4. phase[a] \in Listening
      BY <3>1, PacketOnline
    <3>5. CASE d = a
      BY <2>1, <3>2, <3>4, <3>5 DEF Linked, Listening
    <3>6. CASE d # a
      <4>1. entry'[d] = entry[d]
        BY <2>3, <3>6 DEF ApplyState, IgnoreState, TypeOK
      <4> QED
        BY <1>1, <2>1, <3>3, <3>6, <4>1
    <3> QED
      BY <3>5, <3>6
  <2>4. CASE Expire(a)
    <3>1. phase' = phase
      BY <2>4 DEF Expire, channelVars
    <3>2. Learned(d)
      BY NextLearned
    <3>3. Online(d)' <=> Online(d)
      BY <1>0, <3>1, <3>2 DEF Learned
    <3> QED
      BY <1>0, <2>1, <3>1, <3>3, SameLinked
  <2>5. CASE UNCHANGED <<phase, entry>>
    BY <1>1, <2>1, <2>5
  <2> QED
    BY <1>4, <2>2, <2>3, <2>4, <2>5
    DEF HostStep, DeliverResult, WriteDone, WriteFail, Timeout, linkAsSlot,
        unlinkDevice, setArmed, identifyDevice, Command, channelVars
<1>5. CASE PageStep
  <2>1. CASE PageReload
    BY <2>1 DEF PageReload, Linked, Listening, Online, ghostVars
  <2>2. CASE NewGroup \/ ResetActive \/ Tick
    BY <1>1, <2>2
    DEF NewGroup, ResetActive, Tick, deviceVars, channelVars, ghostVars
  <2> QED
    BY <1>5, <2>1, <2>2 DEF PageStep
<1>6. CASE UNCHANGED vars
  BY <1>1, <1>6 DEF vars, deviceVars, channelVars, hostVars, ghostVars
<1> QED
  BY <1>2, <1>3, <1>4, <1>5, <1>6 DEF Next

(***************************************************************************)
(* The invariants.                                                         *)
(***************************************************************************)

\* The positions of an inbox.
LEMMA InboxDomain ==
    ASSUME TypeOK, NEW d \in Devices
    PROVE  /\ inbox[d] \in Seq(Events) /\ Len(inbox[d]) \in Nat
           /\ DOMAIN inbox[d] = 1 .. Len(inbox[d])
           /\ \A i \in DOMAIN inbox[d] : inbox[d][i] \in Events
BY LenProperties, ElementOfSeq DEF TypeOK

\* What was in the inbox before the step.
LEMMA MovesOld ==
    ASSUME TypeOK, TypeOK', NEW d \in Devices, NEW k \in {0, 1}, NEW m \in Nat,
           Moves(d, k, m), NEW i \in DOMAIN inbox'[d], i <= m
    PROVE  /\ i + k \in DOMAIN inbox[d]
           /\ inbox'[d][i] = inbox[d][i + k]
<1>1. inbox[d] \in Seq(Events) /\ inbox'[d] \in Seq(Events)
  BY DEF TypeOK
<1>2. /\ Len(inbox[d]) \in Nat /\ DOMAIN inbox[d] = 1 .. Len(inbox[d])
      /\ Len(inbox'[d]) \in Nat /\ DOMAIN inbox'[d] = 1 .. Len(inbox'[d])
  BY <1>1, LenProperties
<1>3. i \in 1 .. m
  BY <1>2
<1>4. m + k <= Len(inbox[d])
  BY DEF Moves
<1>5. i + k \in DOMAIN inbox[d]
  BY <1>2, <1>3, <1>4
<1> QED
  BY <1>3, <1>5 DEF Moves

\* What the step put there.
LEMMA MovesNew ==
    ASSUME TypeOK', NEW d \in Devices, NEW k \in {0, 1}, NEW m \in Nat,
           Moves(d, k, m), NEW i \in DOMAIN inbox'[d], i > m
    PROVE  \/ New(d, inbox'[d][i])
           \/ /\ inbox'[d][i] = Gone /\ ~ connected'[d]
              /\ i = Len(inbox'[d])
<1>1. inbox'[d] \in Seq(Events)
  BY DEF TypeOK
<1>2. Len(inbox'[d]) \in Nat /\ DOMAIN inbox'[d] = 1 .. Len(inbox'[d])
  BY <1>1, LenProperties
<1>3. i \in m + 1 .. Len(inbox'[d])
  BY <1>2
<1> QED
  BY <1>3 DEF Moves

\* The connection, the entry and the inbox stay in step.
LEMMA KeepChannel ==
    ASSUME TypeOK, TypeOK', EntryFollowsConnection, ChannelInOrder,
           [Next]_vars
    PROVE  ChannelInOrder'
<1> SUFFICES ASSUME NEW d \in Devices
             PROVE  /\ phase'[d] \notin {"off", "gatt"} => Online(d)'
                    /\ phase'[d] = "off" => ~ connected'[d] /\ inbox'[d] = <<>>
                    /\ \A i \in DOMAIN inbox'[d] :
                           /\ inbox'[d][i] = Gone
                                  => ~ connected'[d] /\ i = Len(inbox'[d])
                           /\ IsPacket(inbox'[d][i]) => phase'[d] \in Listening
  BY DEF ChannelInOrder
<1> DEFINE q == inbox[d]
           r == inbox'[d]
<1>1. Linked(d) /\ Learned(d) /\ InboxMoves(d)
  BY NextLinked, NextLearned, NextMoves
<1>2. phase'[d] \notin {"off", "gatt"} => Online(d)'
  <2> SUFFICES ASSUME phase'[d] \notin {"off", "gatt"} PROVE Online(d)'
    OBVIOUS
  <2>1. CASE phase[d] \in {"off", "gatt"}
    BY <1>1, <2>1 DEF Linked
  <2>2. CASE phase[d] \notin {"off", "gatt"}
    <3>1. Online(d)
      BY <2>2 DEF ChannelInOrder
    <3> QED
      BY <1>1, <3>1 DEF Learned
  <2> QED
    BY <2>1, <2>2
<1>3. phase'[d] = "off" => ~ connected'[d] /\ inbox'[d] = <<>>
  BY <1>1 DEF Linked
<1>4. ASSUME NEW i \in DOMAIN r
      PROVE  /\ r[i] = Gone => ~ connected'[d] /\ i = Len(r)
             /\ IsPacket(r[i]) => phase'[d] \in Listening
  <2>1. PICK k \in {0, 1}, m \in Nat : Moves(d, k, m)
    BY <1>1 DEF InboxMoves
  <2>2. /\ Len(q) \in Nat /\ DOMAIN q = 1 .. Len(q)
        /\ Len(r) \in Nat /\ DOMAIN r = 1 .. Len(r)
    <3>1. inbox[d] \in Seq(Events) /\ inbox'[d] \in Seq(Events)
      BY DEF TypeOK
    <3> QED
      BY <3>1, LenProperties
  <2>3. phase'[d] # "off"
    BY <1>3, <2>2
  <2>4. CASE i <= m
    <3>1. i + k \in DOMAIN q /\ r[i] = q[i + k]
      BY <2>1, <2>2, <2>4, MovesOld
    <3>2. phase[d] # "off"
      <4>1. phase[d] = "off" => q = <<>>
        BY DEF ChannelInOrder
      <4> QED
        BY <3>1, <4>1
    <3>3. r[i] = Gone => ~ connected[d] /\ i + k = Len(q)
      BY <3>1 DEF ChannelInOrder
    <3>4. r[i] = Gone => ~ connected'[d] /\ i = Len(r)
      BY <1>1, <2>1, <2>2, <2>4, <3>2, <3>3 DEF Linked, Moves
    <3>5. IsPacket(r[i]) => phase'[d] \in Listening
      <4>1. IsPacket(r[i]) => phase[d] \in Listening
        BY <3>1 DEF ChannelInOrder
      <4> QED
        BY <1>1, <2>3, <4>1 DEF Linked
    <3> QED
      BY <3>4, <3>5
  <2>5. CASE i > m
    <3>1. \/ New(d, r[i])
          \/ r[i] = Gone /\ ~ connected'[d] /\ i = Len(r)
      BY <2>1, <2>5, MovesNew
    <3> QED
      BY <3>1 DEF New, IsPacket, Gone
  <2> QED
    BY <2>1, <2>2, <2>4, <2>5
<1> QED
  BY <1>2, <1>3, <1>4

\* What a packet in an inbox and the characteristic carry.
LEMMA PacketType ==
    ASSUME TypeOK, NEW d \in Devices
    PROVE  /\ stateChr[d] \in States
           /\ presses[d] \in Nat /\ atConnect[d] \in Nat
           /\ \A i \in DOMAIN inbox[d] :
                  IsPacket(inbox[d][i]) => inbox[d][i].state \in States
           /\ Known(d) => entry[d].state \in States
<1>1. \A i \in DOMAIN inbox[d] :
          IsPacket(inbox[d][i]) => inbox[d][i].state \in States
  BY InboxDomain, EventFields DEF IsPacket
<1>2. Known(d) => entry[d].state \in States
  BY EntryFields DEF Known, Online, TypeOK
<1> QED
  BY <1>1, <1>2, BoundsAssumption DEF TypeOK

LEMMA BeforeRefl == ASSUME NEW x \in States PROVE Before(x, x)
BY BoundsAssumption DEF Before, States

\* The order of packets is transitive.
LEMMA BeforeTrans ==
    ASSUME NEW x \in States, NEW y \in States, NEW z \in States,
           Before(x, y), Before(y, z)
    PROVE  Before(x, z)
<1>1. /\ x.press \in Nat /\ y.press \in Nat /\ z.press \in Nat
      /\ x.pressed \in BOOLEAN /\ y.pressed \in BOOLEAN /\ z.pressed \in BOOLEAN
  BY BoundsAssumption DEF States
<1> QED
  BY <1>1 DEF Before

\* The packet a step publishes comes after the one before.
LEMMA NextBefore ==
    ASSUME TypeOK, TypeOK', PacketsInOrder, [Next]_vars, NEW d \in Devices
    PROVE  /\ stateChr'[d] = ButtonState(d)'
           /\ stateChr'[d].press = presses'[d]
           /\ presses[d] <= presses'[d]
           /\ Before(stateChr[d], stateChr'[d])
<1>1. stateChr[d] = ButtonState(d)
  BY DEF PacketsInOrder
<1>2. Pushed(d)
  BY <1>1, NextPushed
<1>3. /\ stateChr[d].press = presses[d] /\ stateChr[d].pressed = pressed[d]
      /\ stateChr'[d].press = presses'[d] /\ stateChr'[d].pressed = pressed'[d]
  BY <1>1, <1>2 DEF Pushed, ButtonState
<1> QED
  BY <1>2, <1>3 DEF Pushed, Before

\* A known device has been connected to since the page made its entry.
LEMMA KnownConnected ==
    ASSUME EntryFollowsConnection, NEW d \in Devices, Known(d)
    PROVE  phase[d] \notin {"off", "gatt"}
BY DEF EntryFollowsConnection, Known

\* Each packet in an inbox is in its place.
LEMMA KeepInboxOrder ==
    ASSUME TypeOK, TypeOK', EntryFollowsConnection, ChannelInOrder,
           PacketsInOrder, [Next]_vars, NEW d \in Devices
    PROVE  /\ \A i \in DOMAIN inbox'[d] : IsPacket(inbox'[d][i]) =>
                  /\ atConnect'[d] <= inbox'[d][i].state.press
                  /\ Before(inbox'[d][i].state, stateChr'[d])
           /\ \A i, j \in DOMAIN inbox'[d] :
                  i < j /\ IsPacket(inbox'[d][i]) /\ IsPacket(inbox'[d][j])
                      => Before(inbox'[d][i].state, inbox'[d][j].state)
           /\ atConnect'[d] <= presses'[d]
<1> DEFINE q == inbox[d]
           r == inbox'[d]
<1>1. PICK k \in {0, 1}, m \in Nat : Moves(d, k, m)
  BY NextMoves DEF InboxMoves
<1>2. /\ Linked(d) /\ Before(stateChr[d], stateChr'[d])
      /\ stateChr'[d].press = presses'[d] /\ presses[d] <= presses'[d]
  BY NextLinked, NextBefore
<1>3. /\ stateChr[d] \in States /\ presses[d] \in Nat /\ atConnect[d] \in Nat
      /\ \A i \in DOMAIN q : IsPacket(q[i]) => q[i].state \in States
  BY PacketType
<1>4. /\ stateChr'[d] \in States /\ presses'[d] \in Nat
      /\ atConnect'[d] \in Nat
  BY BoundsAssumption DEF TypeOK
<1>5. atConnect'[d] <= presses'[d]
  BY <1>2, <1>3, <1>4 DEF Linked, PacketsInOrder
<1>6. ASSUME NEW i \in DOMAIN r, IsPacket(r[i]), i <= m
      PROVE  /\ i + k \in DOMAIN q /\ r[i] = q[i + k]
             /\ r[i].state \in States
             /\ atConnect'[d] <= r[i].state.press
             /\ Before(r[i].state, stateChr'[d])
  <2>1. i + k \in DOMAIN q /\ r[i] = q[i + k]
    BY <1>1, <1>6, MovesOld
  <2>2. /\ atConnect[d] <= r[i].state.press
        /\ Before(r[i].state, stateChr[d]) /\ r[i].state \in States
    BY <1>3, <1>6, <2>1 DEF PacketsInOrder
  <2>3. phase[d] # "off"
    <3>1. phase[d] = "off" => q = <<>>
      BY DEF ChannelInOrder
    <3> QED
      BY <2>1, <3>1
  <2>4. atConnect'[d] = atConnect[d]
    BY <1>2, <2>3 DEF Linked
  <2> QED
    BY <1>2, <1>3, <1>4, <2>1, <2>2, <2>4, BeforeTrans
<1>7. ASSUME NEW i \in DOMAIN r, IsPacket(r[i]), i > m
      PROVE  /\ r[i].state = stateChr'[d]
             /\ atConnect'[d] <= r[i].state.press
             /\ Before(r[i].state, stateChr'[d])
  <2>1. r[i].state = stateChr'[d]
    BY <1>1, <1>7, MovesNew DEF New, IsPacket, Gone
  <2> QED
    BY <1>2, <1>4, <1>5, <2>1, BeforeRefl
<1>8. ASSUME NEW i \in DOMAIN r, NEW j \in DOMAIN r, i < j,
             IsPacket(r[i]), IsPacket(r[j])
      PROVE  Before(r[i].state, r[j].state)
  <2>1. i \in Nat /\ j \in Nat
    <3>1. inbox'[d] \in Seq(Events)
      BY DEF TypeOK
    <3> QED
      BY <3>1, LenProperties
  <2>2. CASE j <= m
    <3>1. i <= m
      BY <1>8, <2>1, <2>2
    <3>2. /\ i + k \in DOMAIN q /\ r[i] = q[i + k]
          /\ j + k \in DOMAIN q /\ r[j] = q[j + k]
      BY <1>6, <1>8, <2>2, <3>1
    <3>3. i + k < j + k
      BY <1>8, <2>1
    <3> QED
      BY <1>8, <3>2, <3>3 DEF PacketsInOrder
  <2>3. CASE j > m
    <3>1. r[j].state = stateChr'[d]
      BY <1>7, <1>8, <2>3
    <3>2. Before(r[i].state, stateChr'[d])
      BY <1>6, <1>7, <1>8, <2>1
    <3> QED
      BY <3>1, <3>2
  <2> QED
    BY <2>1, <2>2, <2>3
<1>9. ASSUME NEW i \in DOMAIN r, IsPacket(r[i])
      PROVE  /\ atConnect'[d] <= r[i].state.press
             /\ Before(r[i].state, stateChr'[d])
  <2>1. i \in Nat
    <3>1. inbox'[d] \in Seq(Events)
      BY DEF TypeOK
    <3> QED
      BY <3>1, LenProperties
  <2> QED
    BY <1>6, <1>7, <1>9, <2>1
<1> QED
  BY <1>5, <1>8, <1>9

\* What the page knows comes before what is on its way.
LEMMA KeepKnownOrder ==
    ASSUME TypeOK, TypeOK', EntryFollowsConnection, ChannelInOrder,
           PacketsInOrder, [Next]_vars, NEW d \in Devices, Known(d)'
    PROVE  /\ atConnect'[d] <= entry'[d].state.press
           /\ Before(entry'[d].state, stateChr'[d])
           /\ \A i \in DOMAIN inbox'[d] : IsPacket(inbox'[d][i])
                  => Before(entry'[d].state, inbox'[d][i].state)
<1> DEFINE q == inbox[d]
           r == inbox'[d]
           x == entry'[d].state
<1>1. PICK k \in {0, 1}, m \in Nat :
        /\ Moves(d, k, m)
        /\ x \in States /\ phase[d] # "off"
        /\ atConnect[d] <= x.press /\ Before(x, stateChr[d])
        /\ \A i \in DOMAIN q : i > k /\ IsPacket(q[i]) => Before(x, q[i].state)
  <2>1. Learned(d)
    BY NextLearned
  <2>2. CASE Known(d) /\ x = entry[d].state
    <3>1. PICK k \in {0, 1}, m \in Nat : Moves(d, k, m)
      BY NextMoves DEF InboxMoves
    <3>2. x \in States /\ phase[d] # "off"
      BY <2>2, PacketType, KnownConnected
    <3> QED
      BY <2>2, <3>1, <3>2 DEF PacketsInOrder
  <2>3. CASE /\ Online(d) /\ 1 \in DOMAIN q /\ IsPacket(q[1])
             /\ x = q[1].state /\ Moves(d, 1, Len(q) - 1)
    <3>1. /\ x \in States /\ atConnect[d] <= x.press
          /\ Before(x, stateChr[d])
      BY <2>3, PacketType DEF PacketsInOrder
    <3>2. phase[d] # "off"
      BY <2>3 DEF EntryFollowsConnection
    <3>3. \A i \in DOMAIN q : i > 1 /\ IsPacket(q[i]) => Before(x, q[i].state)
      BY <2>3 DEF PacketsInOrder
    <3>4. Len(q) - 1 \in Nat
      <4>1. Len(q) \in Nat /\ DOMAIN q = 1 .. Len(q)
        BY InboxDomain
      <4> QED
        BY <2>3, <4>1
    <3> HIDE DEF x
    <3> QED
      BY <2>3, <3>1, <3>2, <3>3, <3>4
  <2>4. Online(d)' /\ x # None
    BY DEF Known
  <2> QED
    BY <2>1, <2>2, <2>3, <2>4 DEF Learned, Known
<1> HIDE DEF x
<1>2. /\ Linked(d) /\ Before(stateChr[d], stateChr'[d])
      /\ stateChr[d] \in States /\ stateChr'[d] \in States
  BY NextLinked, NextBefore DEF TypeOK
<1>3. atConnect'[d] <= x.press
  BY <1>1, <1>2 DEF Linked
<1>4. Before(x, stateChr'[d])
  BY <1>1, <1>2, BeforeTrans
<1>5. ASSUME NEW i \in DOMAIN r, IsPacket(r[i]) PROVE Before(x, r[i].state)
  <2>1. i \in Nat /\ i > 0
    <3>1. inbox'[d] \in Seq(Events)
      BY DEF TypeOK
    <3> QED
      BY <3>1, LenProperties
  <2>2. CASE i <= m
    <3>1. i + k \in DOMAIN q /\ r[i] = q[i + k]
      BY <1>1, <2>2, MovesOld
    <3>2. i + k > k
      BY <2>1
    <3> QED
      BY <1>1, <1>5, <3>1, <3>2
  <2>3. CASE i > m
    <3>1. r[i].state = stateChr'[d]
      BY <1>1, <1>5, <2>3, MovesNew DEF New, IsPacket, Gone
    <3> QED
      BY <1>4, <3>1
  <2> QED
    BY <2>1, <2>2, <2>3
<1> QED
  BY <1>3, <1>4, <1>5 DEF x

\* Packets are sent, carried and applied in order.
LEMMA KeepPackets ==
    ASSUME TypeOK, TypeOK', EntryFollowsConnection, ChannelInOrder,
           PacketsInOrder, [Next]_vars
    PROVE  PacketsInOrder'
<1>1. ASSUME NEW d \in Devices
      PROVE  /\ stateChr'[d] = ButtonState(d)'
             /\ atConnect'[d] <= presses'[d]
             /\ \A i \in DOMAIN inbox'[d] : IsPacket(inbox'[d][i]) =>
                    /\ atConnect'[d] <= inbox'[d][i].state.press
                    /\ Before(inbox'[d][i].state, stateChr'[d])
             /\ \A i, j \in DOMAIN inbox'[d] :
                    i < j /\ IsPacket(inbox'[d][i]) /\ IsPacket(inbox'[d][j])
                        => Before(inbox'[d][i].state, inbox'[d][j].state)
             /\ Known(d)' =>
                    /\ atConnect'[d] <= entry'[d].state.press
                    /\ Before(entry'[d].state, stateChr'[d])
                    /\ \A i \in DOMAIN inbox'[d] : IsPacket(inbox'[d][i])
                           => Before(entry'[d].state, inbox'[d][i].state)
  BY <1>1, NextBefore, KeepInboxOrder, KeepKnownOrder
<1> QED
  BY <1>1 DEF PacketsInOrder

\* Only applyState() toggles slots.
LEMMA NextToggled ==
    ASSUME [Next]_vars
    PROVE  \/ UNCHANGED toggled
           \/ \E a \in Devices : ApplyState(a)
<1>1. ASSUME NEW a \in Devices, DeviceStep(a) PROVE UNCHANGED toggled
  BY <1>1
  DEF DeviceStep, ButtonDown, ButtonUp, LongHoldReset, heartbeat, onWrite,
      ForeignControl, Reboot, ghostVars
<1>2. ASSUME NEW a \in Devices, ConnectionStep(a) PROVE UNCHANGED toggled
  BY <1>2
  DEF ConnectionStep, GattConnect, CreateEntry, SubscribeResult,
      SubscribeState, AnswerRead, LoseNotification, Drop, ghostVars
<1>3. ASSUME NEW a \in Devices, HostStep(a), ~ ApplyState(a)
      PROVE  UNCHANGED toggled
  BY <1>3
  DEF HostStep, IgnoreState, HostDisconnected, DeliverResult, WriteDone,
      WriteFail, Timeout, linkAsSlot, unlinkDevice, setArmed,
      identifyDevice, Command, Expire, ghostVars
<1>4. ASSUME PageStep PROVE UNCHANGED toggled
  BY <1>4 DEF PageStep, NewGroup, ResetActive, Tick, PageReload, ghostVars
<1> QED
  BY <1>1, <1>2, <1>3, <1>4 DEF Next, vars, ghostVars

\* A press is used when the page knows of it, not later.
LEMMA KeepUsed ==
    ASSUME TypeOK, TypeOK', EntryFollowsConnection, ChannelInOrder,
           PacketsInOrder, PressesUsed, [Next]_vars
    PROVE  PressesUsed'
<1> SUFFICES ASSUME NEW d \in Devices, NEW s \in Slots
             PROVE  /\ toggled'[s][d] <= presses'[d]
                    /\ phase'[d] # "off" /\ ~ Known(d)'
                           => toggled'[s][d] <= atConnect'[d]
                    /\ Known(d)' => toggled'[s][d] <= entry'[d].state.press
  BY DEF PressesUsed
<1> DEFINE q == inbox[d]
           old == toggled[s][d]
           x == entry'[d].state.press
<1>1. Learned(d) /\ Linked(d) /\ presses[d] <= presses'[d]
  BY NextLearned, NextLinked, NextBefore
<1>2. /\ old \in Nat /\ presses[d] \in Nat /\ presses'[d] \in Nat
      /\ atConnect[d] \in Nat /\ toggled'[s][d] \in Nat
  <2>1. toggled[s] \in [Devices -> 0 .. MaxPress]
    BY DEF TypeOK
  <2>2. toggled'[s] \in [Devices -> 0 .. MaxPress]
    BY DEF TypeOK
  <2>3. presses'[d] \in 0 .. MaxPress
    BY DEF TypeOK
  <2> QED
    BY <2>1, <2>2, <2>3, BoundsAssumption, PacketType
<1>3. /\ old <= presses[d]
      /\ phase[d] # "off" /\ ~ Known(d) => old <= atConnect[d]
      /\ Known(d) => old <= entry[d].state.press
  BY DEF PressesUsed
<1>4. ASSUME 1 \in DOMAIN q, IsPacket(q[1])
      PROVE  /\ q[1].state.press \in Nat
             /\ old <= q[1].state.press /\ q[1].state.press <= presses[d]
             /\ q[1].state \in States
  <2>1. phase[d] # "off"
    <3>1. phase[d] = "off" => q = <<>>
      BY DEF ChannelInOrder
    <3> QED
      BY <1>4, <3>1
  <2>2. /\ q[1].state \in States /\ q[1].state.press \in Nat
    BY <1>4, PacketType, BoundsAssumption DEF States
  <2>3. /\ atConnect[d] <= q[1].state.press
        /\ Before(q[1].state, stateChr[d]) /\ stateChr[d] = ButtonState(d)
        /\ Known(d) => Before(entry[d].state, q[1].state)
    BY <1>4 DEF PacketsInOrder
  <2>4. q[1].state.press <= presses[d]
    BY <2>3 DEF Before, ButtonState
  <2>5. CASE Known(d)
    <3>1. entry[d].state.press \in Nat
      BY <2>5, PacketType, BoundsAssumption DEF States
    <3> QED
      BY <1>2, <1>3, <2>2, <2>3, <2>4, <2>5, <3>1 DEF Before
  <2>6. CASE ~ Known(d)
    BY <1>2, <1>3, <2>1, <2>2, <2>3, <2>4, <2>6
  <2> QED
    BY <2>5, <2>6
<1>5. CASE toggled'[s][d] = old
  <2>1. old <= presses'[d]
    BY <1>1, <1>2, <1>3
  <2>2. ASSUME phase'[d] # "off", ~ Known(d)' PROVE old <= atConnect'[d]
    <3>1. CASE phase[d] = "off"
      BY <1>1, <1>3, <2>2, <3>1 DEF Linked
    <3>2. CASE phase[d] # "off"
      <4>1. ~ Known(d)
        <5> SUFFICES ASSUME Known(d) PROVE FALSE
          OBVIOUS
        <5>1. phase[d] # "gatt"
          BY KnownConnected
        <5> QED
          BY <1>1, <1>4, <2>2, <5>1, NoneAssumption DEF Learned, Known
      <4> QED
        BY <1>1, <1>3, <3>2, <4>1 DEF Linked
    <3> QED
      BY <3>1, <3>2
  <2>3. ASSUME Known(d)' PROVE old <= x
    BY <1>1, <1>3, <1>4, <2>3 DEF Learned, Known
  <2> QED
    BY <1>5, <2>1, <2>2, <2>3
<1>6. CASE toggled'[s][d] # old
  <2>1. PICK a \in Devices : ApplyState(a)
    BY <1>6, NextToggled
  <2>2. a = d /\ toggled'[s][d] = Head(inbox[a]).state.press
    <3>1. toggled' = [t \in Slots |->
                         IF t \in linkedSlotsOf(a)
                            /\ DownEdge(slotActive[t], Head(inbox[a]).state.pressed)
                         THEN [toggled[t] EXCEPT ![a] = Head(inbox[a]).state.press]
                         ELSE toggled[t]]
      BY <2>1 DEF ApplyState
    <3>2. toggled'[s] = [toggled[s] EXCEPT ![a] = Head(inbox[a]).state.press]
      BY <1>6, <3>1
    <3>3. toggled[s] \in [Devices -> 0 .. MaxPress]
      BY DEF TypeOK
    <3> QED
      BY <1>6, <3>2, <3>3
  <2>3. /\ 1 \in DOMAIN q /\ IsPacket(q[1]) /\ q[1] = Head(q)
        /\ Known(d)' /\ entry'[d].state = q[1].state
    <3>1. Receive(d, {"state", "read"})
      BY <2>1, <2>2 DEF ApplyState
    <3>2. entry[d] \in Entries
      BY <3>1, PacketOnline DEF Online, TypeOK
    <3>3. entry'[d].state = Head(q).state
      BY <2>1, <2>2, <3>2 DEF ApplyState, TypeOK, Entries
    <3> QED
      BY <2>1, <2>2, <3>1, <3>3, PacketOnline, ApplyLearned
  <2> QED
    BY <1>1, <1>2, <1>4, <2>2, <2>3
<1> QED
  BY <1>5, <1>6

(***************************************************************************)
(* The slots.                                                              *)
(***************************************************************************)

\* What the page knows of d stays.
Kept(d) ==
    /\ Known(d)' <=> Known(d)
    /\ Known(d) => entry'[d].state = entry[d].state
    /\ Online(d) => Online(d)'

\* A step resets a slot, or leaves it and what it rests on alone, or applies
\* a packet of its device to it.
SlotStep(s) ==
    \/ slotActive'[s] = resetSlotActive(s)'
    \/ /\ slotActive'[s] = slotActive[s]
       /\ pair'.record[s] = pair.record[s] /\ toggled'[s] = toggled[s]
       /\ \A d \in Devices : pair.record[s] = d => Kept(d)
    \/ /\ \E d \in Devices : pair.record[s] = d /\ ApplyState(d)
       /\ pair' = pair

\* An entry that stays keeps what the page knows.
LEMMA SameKept == ASSUME NEW d, entry'[d] = entry[d] PROVE Kept(d)
BY DEF Kept, Known, Online

\* A slot's record is a device or none.
LEMMA RecordType ==
    ASSUME TypeOK, NEW s \in Slots
    PROVE  pair.record[s] \in Devices \cup {None}
BY DEF TypeOK, Pairs

\* A step that leaves the entries and the slot alone.
LEMMA SameSlot ==
    ASSUME NEW s \in Slots, UNCHANGED <<entry, toggled>>,
           pair'.record[s] = pair.record[s], slotActive'[s] = slotActive[s]
    PROVE  SlotStep(s)
BY SameKept DEF SlotStep

\* Setting records resets exactly the slots it names.
LEMMA SetRecordsSlot ==
    ASSUME TypeOK, UNCHANGED <<entry, toggled>>, NEW slots, NEW d,
           SetRecords(slots, d), NEW s \in Slots
    PROVE  SlotStep(s)
<1>1. CASE s \in slots
  BY <1>1 DEF SetRecords, SlotStep
<1>2. CASE s \notin slots
  BY <1>2, SameSlot DEF SetRecords, TypeOK, Pairs
<1> QED
  BY <1>1, <1>2

\* So does going on with the result of a command.
LEMMA GoOnSlot ==
    ASSUME TypeOK, UNCHANGED <<entry, toggled>>, NEW d \in Devices, NEW t,
           GoOn(d, t), NEW s \in Slots
    PROVE  SlotStep(s)
<1>1. \/ UNCHANGED <<pair, slotActive>>
      \/ \E slots, e : SetRecords(slots, e)
  BY DEF GoOn, Conclude
<1> QED
  BY <1>1, SetRecordsSlot, SameSlot

\* The end of a connection resets the slots of its device.
LEMMA DisconnectedSlot ==
    ASSUME TypeOK, NEW a \in Devices, HostDisconnected(a), NEW s \in Slots
    PROVE  SlotStep(s)
<1>0. UNCHANGED <<pair, toggled>>
  BY DEF HostDisconnected, ghostVars
<1>1. CASE entry[a] = None
  BY <1>0, <1>1, SameSlot DEF HostDisconnected
<1>2. CASE entry[a] # None
  <2>1. slotActive' = [t \in Slots |-> IF t \in linkedSlotsOf(a)
                                       THEN resetSlotActive(t)'
                                       ELSE slotActive[t]]
    BY <1>2 DEF HostDisconnected
  <2>2. CASE pair.record[s] = a
    BY <2>1, <2>2 DEF SlotStep, linkedSlotsOf
  <2>3. CASE pair.record[s] # a
    <3>1. slotActive'[s] = slotActive[s]
      BY <2>1, <2>3 DEF linkedSlotsOf
    <3>2. \A d \in Devices : pair.record[s] = d => Kept(d)
      BY <2>3, GoneOthers, SameKept
    <3> QED
      BY <1>0, <3>1, <3>2 DEF SlotStep
  <2> QED
    BY <2>2, <2>3
<1> QED
  BY <1>1, <1>2

\* A packet is applied to the slots of its device.
LEMMA ApplySlot ==
    ASSUME TypeOK, NEW a \in Devices, ApplyState(a), NEW s \in Slots
    PROVE  SlotStep(s)
<1>0. pair' = pair
  BY DEF ApplyState
<1>1. CASE pair.record[s] = a
  BY <1>0, <1>1 DEF SlotStep
<1>2. CASE pair.record[s] # a
  <2>1. s \notin linkedSlotsOf(a)
    BY <1>2 DEF linkedSlotsOf
  <2>2. slotActive'[s] = slotActive[s] /\ toggled'[s] = toggled[s]
    BY <2>1 DEF ApplyState
  <2>3. \A d \in Devices \ {a} : entry'[d] = entry[d]
    BY DEF ApplyState, TypeOK
  <2>4. \A d \in Devices : pair.record[s] = d => Kept(d)
    BY <1>2, <2>3, SameKept
  <2> QED
    BY <1>0, <2>2, <2>4 DEF SlotStep
<1> QED
  BY <1>1, <1>2

\* The new entry of a device is known no more than the old one.
LEMMA CreateSlot ==
    ASSUME TypeOK, EntryFollowsConnection, NEW a \in Devices, CreateEntry(a),
           NEW s \in Slots
    PROVE  SlotStep(s)
<1>0. UNCHANGED <<pair, slotActive, toggled>>
  BY DEF CreateEntry, ghostVars
<1>1. ASSUME NEW d \in Devices PROVE Kept(d)
  <2>1. CASE d = a
    <3>1. phase[d] = "gatt" /\ entry'[d].state = None
      BY <2>1 DEF CreateEntry, TypeOK
    <3> QED
      BY <3>1, KnownConnected DEF Kept, Known, EntryFollowsConnection
  <2>2. CASE d # a
    BY <2>2, SameKept DEF CreateEntry, TypeOK
  <2> QED
    BY <2>1, <2>2
<1> QED
  BY <1>0, <1>1, RecordType DEF SlotStep

\* Freshness is not knowledge.
LEMMA ExpireSlot ==
    ASSUME TypeOK, NEW a \in Devices, Expire(a), NEW s \in Slots
    PROVE  SlotStep(s)
<1>0. UNCHANGED <<pair, slotActive, toggled>>
  BY DEF Expire, ghostVars
<1>1. ASSUME NEW d \in Devices PROVE Kept(d)
  <2>1. CASE d = a
    <3>1. entry[d] \in Entries
      BY <2>1 DEF Expire, TypeOK
    <3>2. entry'[d] = [entry[d] EXCEPT !.fresh = FALSE]
      BY <2>1 DEF Expire, TypeOK
    <3>3. /\ entry'[d] \in Entries
          /\ entry'[d].connected = entry[d].connected
          /\ entry'[d].state = entry[d].state
      BY <3>1, <3>2 DEF Entries
    <3> QED
      BY <3>1, <3>3, NoneAssumption DEF Kept, Known, Online
  <2>2. CASE d # a
    BY <2>2, SameKept DEF Expire, TypeOK
  <2> QED
    BY <2>1, <2>2
<1> QED
  BY <1>0, <1>1, RecordType DEF SlotStep

\* Whatever happens, a slot is reset, left alone or given a packet.
LEMMA NextSlot ==
    ASSUME TypeOK, EntryFollowsConnection, [Next]_vars, NEW s \in Slots
    PROVE  SlotStep(s)
<1>1. CASE UNCHANGED <<entry, pair, slotActive, toggled>>
  BY <1>1, SameSlot
<1>2. ASSUME NEW a \in Devices, DeviceStep(a) PROVE SlotStep(s)
  BY <1>1, <1>2
  DEF DeviceStep, ButtonDown, ButtonUp, LongHoldReset, heartbeat, onWrite,
      ForeignControl, Reboot, hostVars, ghostVars
<1>3. ASSUME NEW a \in Devices, ConnectionStep(a) PROVE SlotStep(s)
  BY <1>1, <1>3, CreateSlot
  DEF ConnectionStep, GattConnect, SubscribeResult, SubscribeState,
      AnswerRead, LoseNotification, Drop, hostVars, ghostVars
<1>4. ASSUME NEW a \in Devices, HostStep(a) PROVE SlotStep(s)
  <2>1. CASE DeliverResult(a) \/ WriteDone(a)
    BY <2>1, GoOnSlot DEF DeliverResult, WriteDone, ghostVars
  <2> QED
    BY <1>1, <1>4, <2>1, ApplySlot, DisconnectedSlot, ExpireSlot
    DEF HostStep, IgnoreState, WriteFail, Timeout, linkAsSlot, unlinkDevice,
        setArmed, identifyDevice, Command, ghostVars
<1>5. CASE PageStep
  <2>1. CASE NewGroup
    BY <2>1 DEF NewGroup, SlotStep
  <2>2. CASE ResetActive
    BY <2>2 DEF ResetActive, SlotStep, resetSlotActive, slotEntry
  <2>3. CASE PageReload
    <3>1. slotEntry(s)' = None
      BY <2>3 DEF PageReload, slotEntry, TypeOK, Pairs
    <3> QED
      BY <2>3, <3>1
      DEF PageReload, SlotStep, resetSlotActive, INITIAL_ACTIVE
  <2> QED
    BY <1>1, <1>5, <2>1, <2>2, <2>3 DEF PageStep, Tick, ghostVars
<1> QED
  BY <1>1, <1>2, <1>3, <1>4, <1>5 DEF Next, vars, hostVars, ghostVars

\* The baseline a reset gives is what the page knows of the slot's device.
LEMMA ResetPrev ==
    ASSUME NEW s \in Slots, NEW d \in Devices, pair.record[s] = d
    PROVE  resetSlotActive(s).prev =
               IF Known(d) THEN Sample(entry[d].state.pressed) ELSE "unknown"
BY DevicesAssumption
DEF resetSlotActive, resetActive, slotEntry, Known, Online

\* The same, after a step.
LEMMA ResetPrevNext ==
    ASSUME NEW s \in Slots, NEW d \in Devices, pair'.record[s] = d
    PROVE  resetSlotActive(s)'.prev =
               IF Known(d)' THEN Sample(entry'[d].state.pressed) ELSE "unknown"
BY DevicesAssumption
DEF resetSlotActive, resetActive, slotEntry, Known, Online

\* Without a device there is no baseline.
LEMMA ResetNone ==
    ASSUME NEW s \in Slots
    PROVE  /\ pair.record[s] = None => resetSlotActive(s).prev = "unknown"
           /\ pair'.record[s] = None => resetSlotActive(s)'.prev = "unknown"
BY DEF resetSlotActive, resetActive, slotEntry

\* What applying a packet does to a slot of its device.
LEMMA AppliedSlot ==
    ASSUME TypeOK, ChannelInOrder, NEW d \in Devices, ApplyState(d),
           NEW s \in Slots, pair.record[s] = d
    PROVE  /\ slotActive'[s] = reduceActive(slotActive[s],
                                            Head(inbox[d]).state.pressed)
           /\ toggled'[s][d] =
                  IF DownEdge(slotActive[s], Head(inbox[d]).state.pressed)
                  THEN Head(inbox[d]).state.press ELSE toggled[s][d]
           /\ Known(d)' /\ entry'[d].state = Head(inbox[d]).state
<1>1. s \in linkedSlotsOf(d)
  BY DEF linkedSlotsOf
<1>2. toggled[s] \in [Devices -> 0 .. MaxPress]
  BY DEF TypeOK
<1>3. Receive(d, {"state", "read"})
  BY DEF ApplyState
<1>4. entry[d] \in Entries
  BY <1>3, PacketOnline DEF Online, TypeOK
<1>5. entry'[d].state = Head(inbox[d]).state
  BY <1>4 DEF ApplyState, TypeOK, Entries
<1>6. slotActive'[s] = reduceActive(slotActive[s],
                                    Head(inbox[d]).state.pressed)
  BY <1>1 DEF ApplyState
<1>7. toggled'[s] =
          IF DownEdge(slotActive[s], Head(inbox[d]).state.pressed)
          THEN [toggled[s] EXCEPT ![d] = Head(inbox[d]).state.press]
          ELSE toggled[s]
  BY <1>1 DEF ApplyState
<1> QED
  BY <1>2, <1>5, <1>6, <1>7, ApplyLearned

\* A packet that toggles a slot reports a press that the slot has not used,
\* made on this connection.
LEMMA EdgeIsNew ==
    ASSUME TypeOK, EntryFollowsConnection, ActiveInv, NEW d \in Devices,
           Receive(d, {"state", "read"}), NEW s \in Slots,
           pair.record[s] = d,
           DownEdge(slotActive[s], Head(inbox[d]).state.pressed)
    PROVE  /\ Head(inbox[d]).state.press \in 1 .. presses[d]
           /\ toggled[s][d] < Head(inbox[d]).state.press
           /\ atConnect[d] < Head(inbox[d]).state.press
<1> DEFINE next == Head(inbox[d]).state
<1>1. /\ 1 \in DOMAIN inbox[d] /\ IsPacket(inbox[d][1])
      /\ inbox[d][1] = Head(inbox[d]) /\ next \in States
  BY PacketOnline DEF ActiveInv
<1>2. slotActive[s].prev = "up" /\ next.pressed
  BY DEF DownEdge
<1>3. resetSlotActive(s).prev = "up"
  BY <1>2 DEF ActiveInv, Baseline
<1>4. Known(d) /\ ~ entry[d].state.pressed
  BY <1>3, ResetPrev DEF Sample
<1>5. /\ Before(entry[d].state, next) /\ atConnect[d] <= entry[d].state.press
      /\ Before(next, stateChr[d]) /\ stateChr[d] = ButtonState(d)
  BY <1>1, <1>4 DEF ActiveInv, PacketsInOrder
<1>6. toggled[s][d] <= entry[d].state.press
  BY <1>4 DEF ActiveInv, PressesUsed
<1>7. /\ entry[d].state.press \in Nat /\ next.press \in Nat
      /\ atConnect[d] \in Nat /\ presses[d] \in Nat
  BY <1>1, <1>4, PacketType, BoundsAssumption DEF States
<1>8. toggled[s][d] \in Nat
  <2>1. toggled[s] \in [Devices -> 0 .. MaxPress]
    BY DEF TypeOK
  <2> QED
    BY <2>1, BoundsAssumption
<1>9. entry[d].state.press < next.press /\ next.press <= presses[d]
  BY <1>2, <1>4, <1>5 DEF Before, ButtonState
<1> QED
  BY <1>5, <1>6, <1>7, <1>8, <1>9

\* The baseline stays current.
LEMMA KeepBaseline ==
    ASSUME TypeOK, TypeOK', EntryFollowsConnection, ActiveInv, [Next]_vars
    PROVE  Baseline'
<1> SUFFICES ASSUME NEW s \in Slots
             PROVE  slotActive'[s].prev = resetSlotActive(s)'.prev
  BY DEF Baseline
<1>1. SlotStep(s) /\ slotActive[s].prev = resetSlotActive(s).prev
  BY NextSlot DEF ActiveInv, Baseline
<1>2. CASE /\ slotActive'[s] = slotActive[s]
           /\ pair'.record[s] = pair.record[s]
           /\ \A d \in Devices : pair.record[s] = d => Kept(d)
  <2>1. CASE pair.record[s] = None
    BY <1>1, <1>2, <2>1, ResetNone
  <2>2. ASSUME NEW d \in Devices, pair.record[s] = d
        PROVE  slotActive'[s].prev = resetSlotActive(s)'.prev
    <3>1. Kept(d) /\ pair'.record[s] = d
      BY <1>2, <2>2
    <3> QED
      BY <1>1, <1>2, <2>2, <3>1, ResetPrev, ResetPrevNext DEF Kept
  <2> QED
    BY <2>1, <2>2, RecordType
<1>3. ASSUME NEW d \in Devices, pair.record[s] = d, ApplyState(d),
             pair' = pair
      PROVE  slotActive'[s].prev = resetSlotActive(s)'.prev
  <2>1. /\ slotActive'[s] = reduceActive(slotActive[s],
                                         Head(inbox[d]).state.pressed)
        /\ Known(d)' /\ entry'[d].state = Head(inbox[d]).state
    BY <1>3, AppliedSlot DEF ActiveInv
  <2>2. slotActive'[s].prev = Sample(Head(inbox[d]).state.pressed)
    BY <2>1 DEF reduceActive
  <2> QED
    BY <1>3, <2>1, <2>2, ResetPrevNext
<1> QED
  BY <1>1, <1>2, <1>3 DEF SlotStep

\* An active slot has been earned.
LEMMA KeepEarned ==
    ASSUME TypeOK, TypeOK', EntryFollowsConnection, ActiveInv, [Next]_vars
    PROVE  ActiveEarned'
<1> SUFFICES ASSUME NEW s \in Slots, slotActive'[s].active
             PROVE  LET e == pair'.record[s]
                    IN  /\ e # None /\ entry'[e] # None /\ entry'[e].connected
                        /\ toggled'[s][e] > atConnect'[e]
  BY DEF ActiveEarned, Online
<1>1. SlotStep(s)
  BY NextSlot
<1>2. ASSUME slotActive[s].active
      PROVE  /\ pair.record[s] \in Devices /\ Online(pair.record[s])
             /\ toggled[s][pair.record[s]] > atConnect[pair.record[s]]
  BY <1>2, RecordType DEF ActiveInv, ActiveEarned
<1>3. CASE slotActive'[s] = resetSlotActive(s)'
  BY <1>3 DEF resetSlotActive, resetActive
<1>4. CASE /\ slotActive'[s] = slotActive[s]
           /\ pair'.record[s] = pair.record[s] /\ toggled'[s] = toggled[s]
           /\ \A d \in Devices : pair.record[s] = d => Kept(d)
  <2>1. PICK d \in Devices : /\ pair.record[s] = d /\ Online(d)
                            /\ toggled[s][d] > atConnect[d]
    BY <1>2, <1>4
  <2>2. Online(d)'
    BY <1>4, <2>1 DEF Kept
  <2>3. phase[d] # "off" /\ Linked(d)
    BY <2>1, NextLinked DEF EntryFollowsConnection, ActiveInv
  <2>4. atConnect'[d] = atConnect[d]
    BY <2>3 DEF Linked
  <2>5. pair'.record[s] = d /\ toggled'[s][d] > atConnect'[d]
    BY <1>4, <2>1, <2>4
  <2> QED
    BY <2>2, <2>5, DevicesAssumption DEF Online
<1>5. ASSUME NEW d \in Devices, pair.record[s] = d, ApplyState(d),
             pair' = pair
      PROVE  LET e == pair'.record[s]
             IN  /\ e # None /\ entry'[e] # None /\ entry'[e].connected
                 /\ toggled'[s][e] > atConnect'[e]
  <2>1. Receive(d, {"state", "read"})
    BY <1>5 DEF ApplyState
  <2>2. /\ slotActive'[s] = reduceActive(slotActive[s],
                                         Head(inbox[d]).state.pressed)
        /\ toggled'[s][d] =
               IF DownEdge(slotActive[s], Head(inbox[d]).state.pressed)
               THEN Head(inbox[d]).state.press ELSE toggled[s][d]
        /\ Known(d)'
    BY <1>5, AppliedSlot DEF ActiveInv
  <2>3. atConnect' = atConnect
    BY <1>5 DEF ApplyState
  <2>4. toggled'[s][d] > atConnect'[d]
    <3>1. CASE DownEdge(slotActive[s], Head(inbox[d]).state.pressed)
      <4>1. /\ Head(inbox[d]).state.press \in Nat /\ atConnect[d] \in Nat
            /\ atConnect[d] < Head(inbox[d]).state.press
        BY <1>5, <2>1, <3>1, EdgeIsNew, PacketType
      <4> QED
        BY <2>2, <2>3, <3>1, <4>1
    <3>2. CASE ~ DownEdge(slotActive[s], Head(inbox[d]).state.pressed)
      <4>1. slotActive[s].active
        BY <2>2, <3>2 DEF reduceActive
      <4> QED
        BY <1>2, <1>5, <2>2, <2>3, <3>2, <4>1
    <3> QED
      BY <3>1, <3>2
  <2> QED
    BY <1>5, <2>2, <2>4, DevicesAssumption DEF Known, Online
<1> QED
  BY <1>1, <1>3, <1>4, <1>5 DEF SlotStep

(***************************************************************************)
(* The theorems.                                                           *)
(***************************************************************************)

\* At the start nothing is connected, known or active.
LEMMA InitActive == Init => ActiveInv
<1> SUFFICES ASSUME Init PROVE ActiveInv
  OBVIOUS
<1>1. InitIdle
  BY DEF Init
<1>2. TypeOK
  BY InitType
<1>3. \A d \in Devices : ~ Online(d) /\ ~ Known(d)
  BY <1>1 DEF InitIdle, Online, Known
<1>4. \A d \in Devices : inbox[d] = <<>> /\ DOMAIN inbox[d] = {}
  BY <1>1 DEF InitIdle
<1>5. ChannelInOrder
  BY <1>1, <1>4 DEF InitIdle, ChannelInOrder
<1>6. PacketsInOrder
  <2>1. \A d \in Devices : /\ stateChr[d] = ButtonState(d)
                           /\ atConnect[d] <= presses[d]
    BY <1>1 DEF InitIdle
  <2> QED
    BY <1>3, <1>4, <2>1 DEF PacketsInOrder
<1>7. PressesUsed
  BY <1>1, <1>3 DEF InitIdle, PressesUsed
<1>8. Baseline
  <2> SUFFICES ASSUME NEW s \in Slots
               PROVE  resetSlotActive(s).prev = "unknown"
    BY <1>1 DEF InitIdle, INITIAL_ACTIVE, resetActive, Baseline
  <2>1. CASE pair.record[s] = None
    BY <2>1, ResetNone
  <2>2. CASE pair.record[s] \in Devices
    BY <1>3, <2>2, ResetPrev
  <2> QED
    BY <1>2, <2>1, <2>2, RecordType
<1>9. ActiveEarned
  BY <1>1 DEF InitIdle, INITIAL_ACTIVE, resetActive, ActiveEarned
<1> QED
  BY <1>5, <1>6, <1>7, <1>8, <1>9 DEF ActiveInv

\* Every step keeps it.
LEMMA NextActive ==
    ASSUME TypeOK, TypeOK', EntryFollowsConnection, ActiveInv, [Next]_vars
    PROVE  ActiveInv'
<1>1. ChannelInOrder' /\ PacketsInOrder' /\ PressesUsed'
  BY KeepChannel, KeepPackets, KeepUsed DEF ActiveInv
<1> QED
  BY <1>1, KeepBaseline, KeepEarned DEF ActiveInv

\* The connection, the packets and the trackers fit together, always.
THEOREM ActiveInvariant == Spec => []ActiveInv
<1>1. TypeOK /\ EntryFollowsConnection /\ ActiveInv /\ [Next]_vars
        => ActiveInv'
  BY NextType, NextActive
<1> QED
  BY <1>1, InitActive, TypeCorrect, PTL DEF Spec

\* A slot is active only through a press that its device made on the
\* connection that the page still has to it: nothing survives a reconnect.
THEOREM ActiveIsEarned == Spec => []ActiveEarned
<1>1. ActiveInv => ActiveEarned
  BY DEF ActiveInv
<1> QED
  BY <1>1, ActiveInvariant, PTL

\* Whatever reset a slot, the next press of its device toggles it: the
\* baseline is the button as the card shows it.
THEOREM BaselineIsCurrent == Spec => []BaselineCurrent
<1>1. TypeOK /\ ActiveInv => BaselineCurrent
  <2> SUFFICES ASSUME TypeOK, ActiveInv, NEW s \in Slots,
                      slotEntry(s) # None, slotEntry(s).connected,
                      slotEntry(s).state # None
               PROVE  slotActive[s].prev = Sample(slotEntry(s).state.pressed)
    BY DEF BaselineCurrent
  <2>1. slotActive[s].prev = resetSlotActive(s).prev
    BY DEF ActiveInv, Baseline
  <2> QED
    BY <2>1 DEF resetSlotActive, resetActive
<1> QED
  BY <1>1, ActiveInvariant, TypeCorrect, PTL

\* A step that changes a slot and takes a packet from a device's inbox
\* applies that packet, or ends the connection.
LEMMA ChangeApplies ==
    ASSUME TypeOK, [Next]_vars, NEW d \in Devices, inbox[d] # <<>>,
           Head(inbox[d]).kind \in {"state", "read"},
           slotActive' # slotActive
    PROVE  \/ inbox'[d] = inbox[d]
           \/ phase'[d] = "off"
           \/ ApplyState(d)
<1>1. ASSUME NEW a \in Devices, DeviceStep(a) PROVE FALSE
  BY <1>1
  DEF DeviceStep, ButtonDown, ButtonUp, LongHoldReset, heartbeat, onWrite,
      ForeignControl, Reboot, hostVars
<1>2. ASSUME NEW a \in Devices, ConnectionStep(a) PROVE FALSE
  BY <1>2
  DEF ConnectionStep, GattConnect, CreateEntry, SubscribeResult,
      SubscribeState, AnswerRead, LoseNotification, Drop, hostVars
<1>3. ASSUME NEW a \in Devices, HostStep(a)
      PROVE  inbox'[d] = inbox[d] \/ ApplyState(d)
  <2>1. CASE WriteDone(a)
    BY <2>1 DEF WriteDone
  <2>2. ASSUME NEW kinds, Receive(a, kinds), a # d PROVE inbox'[d] = inbox[d]
    BY <2>2 DEF Receive, TypeOK
  <2>3. ~ Receive(d, {"result"}) /\ ~ Receive(d, {"gone"})
    BY DEF Receive
  <2> QED
    BY <1>3, <2>1, <2>2, <2>3
    DEF HostStep, ApplyState, IgnoreState, HostDisconnected, DeliverResult,
        WriteFail, Timeout, linkAsSlot, unlinkDevice, setArmed,
        identifyDevice, Command, Expire
<1>4. ASSUME PageStep PROVE inbox'[d] = inbox[d] \/ phase'[d] = "off"
  BY <1>4
  DEF PageStep, NewGroup, ResetActive, Tick, PageReload, channelVars
<1>5. ~ UNCHANGED vars
  BY DEF vars, hostVars
<1> QED
  BY <1>1, <1>2, <1>3, <1>4, <1>5 DEF Next

\* However often packets are repeated, lost or read again, whenever Active is
\* reset: a press toggles each slot at most once.
THEOREM PressTogglesOnce == Spec => ToggledOnce
<1> DEFINE Once ==
             \A d \in Devices, s \in Slots :
                 /\ slotActive'[s].active # slotActive[s].active
                 /\ inbox[d] # <<>> /\ Head(inbox[d]).kind \in {"state", "read"}
                 /\ inbox'[d] = Tail(inbox[d]) /\ phase'[d] # "off"
                 /\ pair.record[s] = d
                 => Head(inbox[d]).state.press > toggled[s][d]
<1>1. TypeOK /\ EntryFollowsConnection /\ ActiveInv /\ [Next]_vars
        => [Once]_vars
  <2> SUFFICES ASSUME TypeOK, EntryFollowsConnection, ActiveInv, [Next]_vars,
                      NEW d \in Devices, NEW s \in Slots,
                      slotActive'[s].active # slotActive[s].active,
                      inbox[d] # <<>>,
                      Head(inbox[d]).kind \in {"state", "read"},
                      inbox'[d] = Tail(inbox[d]), phase'[d] # "off",
                      pair.record[s] = d
               PROVE  Head(inbox[d]).state.press > toggled[s][d]
    OBVIOUS
  <2>1. inbox'[d] # inbox[d]
    <3>1. inbox[d] \in Seq(Events)
      BY DEF TypeOK
    <3>2. Len(Tail(inbox[d])) = Len(inbox[d]) - 1 /\ Len(inbox[d]) \in Nat
      BY <3>1, HeadTailProperties, LenProperties
    <3>3. Len(inbox[d]) - 1 # Len(inbox[d])
      BY <3>2
    <3> QED
      BY <3>2, <3>3
  <2>2. ApplyState(d)
    BY <2>1, ChangeApplies
  <2>3. Receive(d, {"state", "read"})
    BY <2>2 DEF ApplyState
  <2>4. slotActive'[s] = reduceActive(slotActive[s],
                                      Head(inbox[d]).state.pressed)
    BY <2>2, AppliedSlot DEF ActiveInv
  <2>5. DownEdge(slotActive[s], Head(inbox[d]).state.pressed)
    BY <2>4 DEF reduceActive
  <2>6. /\ Head(inbox[d]).state.press \in 1 .. presses[d]
        /\ toggled[s][d] < Head(inbox[d]).state.press
    BY <2>3, <2>5, EdgeIsNew
  <2>7. presses[d] \in Nat /\ toggled[s] \in [Devices -> 0 .. MaxPress]
    BY PacketType DEF TypeOK
  <2> QED
    BY <2>6, <2>7, BoundsAssumption
<1>2. ToggledOnce <=> [][Once]_vars
  BY DEF ToggledOnce
<1> HIDE DEF Once
<1> QED
  BY <1>1, <1>2, ActiveInvariant, TypeCorrect, PTL DEF Spec

\* The panels of the slots, which never test the connection, are all YES
\* exactly when the verdict below them is READY: an entry that is offline has
\* no active slot.
THEOREM PanelsAlwaysAgree == Spec => []PanelsAgree
<1>1. TypeOK /\ ActiveInv => PanelsAgree
  <2> SUFFICES ASSUME TypeOK, ActiveInv PROVE PanelsAgree
    OBVIOUS
  <2>1. ASSUME NEW s \in Slots
        PROVE  (LET p == slotContent(s)
                IN  p.active /\ p.armed /\ p.fresh /\ p.link)
               <=> /\ SlotSound(pair.group, pair.record[s], s, slotEntry(s))
                   /\ SlotFresh(slotEntry(s))
                   /\ slotActive[s].active
    <3> DEFINE e == slotEntry(s)
    <3>1. slotActive[s].active =>
              pair.record[s] # None /\ e # None /\ e.connected
      BY DEF ActiveInv, ActiveEarned, slotEntry, Online
    <3>2. /\ slotContent(s).active <=> e # None /\ slotActive[s].active
          /\ slotContent(s).armed <=> /\ e # None /\ e.state # None
                                      /\ e.state.armed
          /\ slotContent(s).fresh <=> e # None /\ e.state # None /\ e.fresh
          /\ slotContent(s).link <=> /\ e # None /\ e.state # None
                                     /\ e.state.group = pair.group
                                     /\ e.state.slot = s
      BY DEF slotContent, okLink
    <3> HIDE DEF e
    <3> QED
      BY <3>1, <3>2 DEF SlotSound, SlotFresh, e
  <2>2. computeStartCondition <=>
          \A s \in Slots :
              /\ SlotSound(pair.group, pair.record[s], s, slotEntry(s))
              /\ SlotFresh(slotEntry(s))
              /\ slotActive[s].active
    BY DEF computeStartCondition, evaluateStartCondition, Slots
  <2> QED
    BY <2>1, <2>2 DEF PanelsAgree
<1> QED
  BY <1>1, ActiveInvariant, TypeCorrect, PTL

(***************************************************************************)
(* DualStart implements StartSwitch.  A press is a press.  A packet that   *)
(* the page applies toggles the slots for which it is a down edge.  Every  *)
(* other step is a fall back of the slots it resets, often of none.        *)
(***************************************************************************)

\* READY is announced only while it is justified, in the switch's words.
LEMMA Announced ==
    ASSUME TypeOK', ShownJustified', ReadyTwoDevices'
    PROVE  Switch!Announce
<1>1. shown' \in BOOLEAN
  BY DEF TypeOK
<1>2. CASE ~ shown'
  BY <1>1, <1>2 DEF Switch!Announce
<1>3. CASE shown'
  <2>1. \A s \in Slots : /\ pair'.record[s] # None
                         /\ slotActive'[s].active
    BY <1>3 DEF ShownJustified, SlotSound
  <2>2. pair'.record[1] # pair'.record[2]
    BY <1>3 DEF ReadyTwoDevices
  <2>3. \A s, t \in Slots : pair'.record[s] = pair'.record[t] => s = t
    BY <2>2 DEF Slots
  <2>4. \A s \in Slots :
            [t \in Slots |-> slotActive'[t].active][s] = slotActive'[s].active
    OBVIOUS
  <2>5. Switch!Justified'
    BY <2>1, <2>3, <2>4 DEF Switch!Justified
  <2> QED
    BY <1>1, <1>3, <2>5 DEF Switch!Announce
<1> QED
  BY <1>1, <1>2, <1>3

\* Only a press makes a press.
LEMMA NextPresses ==
    ASSUME [Next]_vars
    PROVE  UNCHANGED presses \/ \E a \in Devices : ButtonDown(a)
<1>1. ASSUME NEW a \in Devices, DeviceStep(a), ~ ButtonDown(a)
      PROVE  UNCHANGED presses
  BY <1>1
  DEF DeviceStep, ButtonUp, LongHoldReset, heartbeat, onWrite,
      ForeignControl, Reboot
<1>2. ASSUME NEW a \in Devices, ConnectionStep(a) PROVE UNCHANGED presses
  BY <1>2
  DEF ConnectionStep, GattConnect, CreateEntry, SubscribeResult,
      SubscribeState, AnswerRead, LoseNotification, Drop, deviceVars
<1>3. ASSUME NEW a \in Devices, HostStep(a) PROVE UNCHANGED presses
  BY <1>3
  DEF HostStep, ApplyState, IgnoreState, HostDisconnected, DeliverResult,
      WriteDone, WriteFail, Timeout, linkAsSlot, unlinkDevice, setArmed,
      identifyDevice, Command, Expire, deviceVars
<1>4. ASSUME PageStep PROVE UNCHANGED presses
  BY <1>4 DEF PageStep, NewGroup, ResetActive, Tick, PageReload, deviceVars
<1> QED
  BY <1>1, <1>2, <1>3, <1>4 DEF Next, vars, deviceVars

\* A press of the button is a press of the switch.
LEMMA PressIsPress ==
    ASSUME NEW d \in Devices, ButtonDown(d) PROVE Switch!Press(d)
BY DEF ButtonDown, Switch!Press, hostVars, ghostVars

\* A packet that is a down edge for some slots toggles these; any other
\* changes nothing a user can see but READY.
LEMMA ApplyIsToggle ==
    ASSUME TypeOK, TypeOK', EntryFollowsConnection, ActiveInv,
           NEW d \in Devices, ApplyState(d), Switch!Announce
    PROVE  Switch!Next
<1> DEFINE next == Head(inbox[d]).state
           slots == {s \in Slots : /\ pair.record[s] = d
                                   /\ DownEdge(slotActive[s], next.pressed)}
<1>1. Receive(d, {"state", "read"}) /\ UNCHANGED <<pair, presses>>
  BY DEF ApplyState, deviceVars
<1>2. \A s \in Slots : slotActive[s].active \in BOOLEAN
  BY DEF TypeOK, Trackers
<1>3. \A s \in Slots :
          slotActive'[s].active =
              IF s \in slots THEN ~ slotActive[s].active
              ELSE slotActive[s].active
  <2> SUFFICES ASSUME NEW s \in Slots
               PROVE  slotActive'[s].active =
                          IF s \in slots THEN ~ slotActive[s].active
                          ELSE slotActive[s].active
    OBVIOUS
  <2>1. slotActive'[s] = IF s \in linkedSlotsOf(d)
                         THEN reduceActive(slotActive[s], next.pressed)
                         ELSE slotActive[s]
    BY DEF ApplyState
  <2> QED
    BY <2>1 DEF linkedSlotsOf, reduceActive
<1>4. toggled' = [s \in Slots |->
                     IF s \in slots THEN [toggled[s] EXCEPT ![d] = next.press]
                     ELSE toggled[s]]
  BY DEF ApplyState, linkedSlotsOf
<1>5. CASE slots = {}
  <2>1. toggled' = toggled
    BY <1>4, <1>5 DEF TypeOK
  <2>2. Switch!Reset({})
    <3>1. \A s \in Slots :
              slotActive'[s].active = (s \notin {} /\ slotActive[s].active)
      BY <1>2, <1>3, <1>5
    <3> QED
      BY <1>1, <2>1, <3>1 DEF Switch!Reset
  <2> QED
    BY <2>2 DEF Switch!Next
<1>6. CASE slots # {}
  <2>1. \A s \in slots : /\ next.press \in 1 .. presses[d]
                         /\ toggled[s][d] < next.press
    BY <1>1, EdgeIsNew
  <2>2. next.press \in 1 .. presses[d]
    BY <1>6, <2>1
  <2>3. PICK chosen \in SUBSET Slots : chosen = slots
    OBVIOUS
  <2>4. PICK k \in 1 .. presses[d] : k = next.press
    BY <2>2
  <2>5. Switch!Toggle(d, chosen, k)
    <3>1. \A s \in chosen : pair.record[s] = d /\ toggled[s][d] < k
      BY <2>1, <2>3, <2>4
    <3>2. /\ chosen # {}
          /\ \A s \in Slots :
                 slotActive'[s].active =
                     IF s \in chosen THEN ~ slotActive[s].active
                     ELSE slotActive[s].active
          /\ toggled' = [s \in Slots |->
                            IF s \in chosen
                            THEN [toggled[s] EXCEPT ![d] = k]
                            ELSE toggled[s]]
      BY <1>3, <1>4, <1>6, <2>3, <2>4
    <3> HIDE DEF slots, next
    <3>3. [s \in Slots |-> slotActive'[s].active] =
              [s \in Slots |-> IF s \in chosen
                               THEN ~ [t \in Slots |-> slotActive[t].active][s]
                               ELSE [t \in Slots |-> slotActive[t].active][s]]
      BY <3>2
    <3> QED
      BY <1>1, <3>1, <3>2, <3>3 DEF Switch!Toggle
  <2> QED
    BY <2>5 DEF Switch!Next
<1> QED
  BY <1>5, <1>6

\* Every step but these two resets some slots, or none.
LEMMA OtherIsReset ==
    ASSUME TypeOK, TypeOK', EntryFollowsConnection, [Next]_vars,
           UNCHANGED presses, ~ \E d \in Devices : ApplyState(d),
           Switch!Announce
    PROVE  Switch!Next
<1> DEFINE slots == {s \in Slots : slotActive'[s] = resetSlotActive(s)'}
<1>1. UNCHANGED toggled
  BY NextToggled
<1>2. \A s \in Slots : SlotStep(s)
  BY NextSlot
<1>3. \A s \in slots : ~ slotActive'[s].active
  BY DEF resetSlotActive, resetActive
<1>4. \A s \in Slots \ slots : /\ slotActive'[s] = slotActive[s]
                               /\ pair'.record[s] = pair.record[s]
  BY <1>2 DEF SlotStep
<1>5. \A s \in Slots : /\ slotActive[s].active \in BOOLEAN
                       /\ slotActive'[s].active \in BOOLEAN
  BY DEF TypeOK, Trackers
<1>6. PICK chosen \in SUBSET Slots : chosen = slots
  OBVIOUS
<1> HIDE DEF slots
<1>7. \A s \in Slots :
          slotActive'[s].active = (s \notin chosen /\ slotActive[s].active)
  BY <1>3, <1>4, <1>5, <1>6
<1>8. Switch!Reset(chosen)
  BY <1>1, <1>4, <1>6, <1>7 DEF Switch!Reset
<1> QED
  BY <1>8 DEF Switch!Next

\* Every step of the system is a step of the switch.
LEMMA StepImplements ==
    ASSUME TypeOK, TypeOK', EntryFollowsConnection, ActiveInv,
           ShownJustified', ReadyTwoDevices', [Next]_vars
    PROVE  [Switch!Next]_(Switch!vars)
<1>1. Switch!Announce
  BY Announced
<1>2. ASSUME NEW d \in Devices, ButtonDown(d) PROVE Switch!Next
  BY <1>2, PressIsPress DEF Switch!Next
<1>3. ASSUME NEW d \in Devices, ApplyState(d) PROVE Switch!Next
  BY <1>1, <1>3, ApplyIsToggle
<1> QED
  BY <1>1, <1>2, <1>3, OtherIsReset, NextPresses

\* The system starts as a switch does.
LEMMA InitImplements == Init => Switch!Init
<1> SUFFICES ASSUME Init PROVE Switch!Init
  OBVIOUS
<1>1. TypeOK /\ InitIdle
  BY InitType DEF Init
<1>2. pair.record \in [Slots -> Devices \cup {None}]
  BY <1>1 DEF TypeOK, Pairs
<1>3. [s \in Slots |-> slotActive[s].active] = [s \in Slots |-> FALSE]
  BY <1>1 DEF InitIdle, INITIAL_ACTIVE, resetActive
<1> QED
  BY <1>1, <1>2, <1>3 DEF InitIdle, Switch!Init

\* Every step of every behaviour is a press, one press toggling slots of its
\* device that it has not toggled before, or slots falling back; and READY
\* never outlives the two active slots of two devices it rests on.
THEOREM EveryStepIsASwitchStep == Spec => StepsAsSwitch
<1>1. TypeOK /\ TypeOK' /\ EntryFollowsConnection /\ ActiveInv
      /\ ShownJustified' /\ ReadyTwoDevices' /\ [Next]_vars
        => [Switch!Next]_(Switch!vars)
  BY StepImplements
<1> QED
  BY <1>1, TypeCorrect, ActiveInvariant, ReadyJustified,
     ReadyNeedsTwoDevices, PTL DEF Spec, StepsAsSwitch

\* Of all that the devices, the radio and the page do, a user sees a switch.
THEOREM SystemImplementsSwitch == Spec => ImplementsSwitch
BY InitImplements, EveryStepIsASwitchStep, PTL
DEF Spec, ImplementsSwitch, StepsAsSwitch, Switch!Spec
=============================================================================
