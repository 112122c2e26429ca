----------------------------- MODULE PageProofs -----------------------------
(***************************************************************************)
(* What the page stores and what it shows.                                 *)
(*                                                                         *)
(* Records: RecordInv is an inductive invariant of DualStart, so a record  *)
(* of the page always stands for a LINK that its device accepted, and a    *)
(* reload finds what the page had.                                         *)
(*                                                                         *)
(* Synchrony: SyncInv is one, too, so a page that has got everything sees  *)
(* the device as it is.  The point is that it drops no packet but the one  *)
(* it has: seq comes round too late for that.                              *)
(***************************************************************************)
EXTENDS DualStartProofs, FiniteSetTheorems

(***************************************************************************)
(* The table of attempts.                                                  *)
(***************************************************************************)

\* Without one attempt, the table has no other answers.
LEMMA RemoveAnswers ==
    ASSUME NEW t \in Seq(Attempts), NEW i \in DOMAIN t
    PROVE  Answers(remove(t, i)) \subseteq Answers(t)
<1> DEFINE p == SubSeq(t, 1, i - 1)
           q == SubSeq(t, i + 1, Len(t))
<1>1. /\ DOMAIN t = 1 .. Len(t) /\ Len(t) \in Nat
      /\ \A j \in 1 .. Len(t) : t[j] \in Attempts
  BY LenProperties, ElementOfSeq
<1>2. /\ p \in Seq(Attempts)
      /\ \A j \in 1 .. Len(p) : j \in DOMAIN t /\ p[j] = t[j]
  <2>1. Len(p) = i - 1 /\ \A j \in 1 .. i - 1 : p[j] = t[1 + j - 1]
    BY <1>1, SubSeqProperties
  <2> QED
    BY <1>1, <2>1, SubSeqProperties
<1>2a. /\ q \in Seq(Attempts)
       /\ \A j \in 1 .. Len(q) : j + i \in DOMAIN t /\ q[j] = t[j + i]
  <2>1. /\ Len(q) = Len(t) - i
        /\ \A j \in 1 .. Len(t) - i : q[j] = t[i + 1 + j - 1]
    BY <1>1, SubSeqProperties
  <2> QED
    BY <1>1, <2>1, SubSeqProperties
<1>3. remove(t, i) = p \o q
  BY DEF remove, RemoveAt
<1> HIDE DEF p, q
<1>4. ASSUME NEW j \in DOMAIN (p \o q)
      PROVE  \E k \in DOMAIN t : (p \o q)[j] = t[k]
  <2>1. /\ Len(p) \in Nat /\ Len(q) \in Nat /\ j \in 1 .. Len(p) + Len(q)
        /\ (p \o q)[j] = IF j <= Len(p) THEN p[j] ELSE q[j - Len(p)]
    BY <1>2, <1>2a, <1>4, ConcatProperties, LenProperties
  <2>2. CASE j <= Len(p)
    BY <1>2, <2>1, <2>2
  <2>3. CASE ~ (j <= Len(p))
    <3>1. j - Len(p) \in 1 .. Len(q)
      BY <2>1, <2>3
    <3> QED
      BY <1>2a, <2>1, <2>3, <3>1
  <2> QED
    BY <2>2, <2>3
<1> QED
  BY <1>3, <1>4 DEF Answers

\* A write that fails takes an attempt away.
LEMMA CancelAnswers ==
    ASSUME NEW t \in Seq(Attempts)
    PROVE  Answers(cancel(t)) \subseteq Answers(t)
<1>1. CASE \E i \in DOMAIN t : ~ t[i].written
  <2>1. (CHOOSE i \in DOMAIN t : ~ t[i].written) \in DOMAIN t
    BY <1>1
  <2> QED
    BY <1>1, <2>1, RemoveAnswers DEF cancel
<1>2. CASE ~ \E i \in DOMAIN t : ~ t[i].written
  BY <1>2 DEF cancel
<1> QED
  BY <1>1, <1>2

\* An acknowledgement answers nothing.
LEMMA AcknowledgeAnswers ==
    ASSUME NEW t \in Seq(Attempts)
    PROVE  Answers(acknowledge(t)) \subseteq Answers(t)
<1>1. \A i \in DOMAIN t : t[i] \in Attempts
  BY AttemptFields
<1>2. /\ DOMAIN acknowledge(t) = DOMAIN t
      /\ \A i \in DOMAIN t : /\ acknowledge(t)[i].cmd = t[i].cmd
                             /\ acknowledge(t)[i].result = t[i].result
  BY <1>1 DEF acknowledge, Attempts
<1> QED
  BY <1>2 DEF Answers

\* A command waits for its answer.
LEMMA ExpectAnswers ==
    ASSUME NEW t \in Seq(Attempts), NEW cmd \in {"LINK", "UNLINK"},
           NEW slot \in Slots \cup {0}
    PROVE  Answers(expect(t, cmd, slot)) \subseteq
               Answers(t) \cup {[cmd |-> cmd, result |-> None]}
<1> DEFINE a == [cmd |-> cmd, slot |-> slot, written |-> FALSE, result |-> None]
<1>1. a \in Attempts
  BY DEF Attempts
<1>2. a.cmd = cmd /\ a.result = None
  OBVIOUS
<1>3. expect(t, cmd, slot) = Append(t, a)
  BY DEF expect
<1> HIDE DEF a
<1>4. /\ DOMAIN t = 1 .. Len(t) /\ Len(t) \in Nat
      /\ DOMAIN Append(t, a) = 1 .. Len(t) + 1
      /\ Append(t, a)[Len(t) + 1] = a
      /\ \A i \in 1 .. Len(t) : Append(t, a)[i] = t[i]
  BY <1>1, AppendProperties, LenProperties
<1>5. ASSUME NEW i \in DOMAIN Append(t, a)
      PROVE  \/ Append(t, a)[i] = a
             \/ \E j \in DOMAIN t : Append(t, a)[i] = t[j]
  <2>1. i = Len(t) + 1 \/ i \in DOMAIN t
    BY <1>4
  <2> QED
    BY <1>4, <2>1
<1> QED
  BY <1>2, <1>3, <1>5 DEF Answers

\* A result answers an attempt of its cmd, if it answers any.
LEMMA DeliverAnswers ==
    ASSUME NEW t \in Seq(Attempts), NEW r \in Results
    PROVE  Answers(deliver(t, r)) \subseteq
               Answers(t) \cup {[cmd |-> r.cmd, result |-> r]}
<1> DEFINE k == Oldest(t, r)
<1>1. CASE Matches(t, r) = {}
  BY <1>1 DEF deliver, Oldest
<1>2. CASE Matches(t, r) # {}
  <2>1. k \in DOMAIN t /\ t[k].cmd = r.cmd
    BY <1>2, OldestIsFirst DEF Matches
  <2>2. k # 0 /\ t[k] \in Attempts
    BY <2>1, AttemptFields, LenProperties
  <2> HIDE DEF k
  <2>3. deliver(t, r) = [t EXCEPT ![k].result = r]
    BY <2>2 DEF deliver, k
  <2>4. /\ DOMAIN deliver(t, r) = DOMAIN t
        /\ \A i \in DOMAIN t : i # k => deliver(t, r)[i] = t[i]
        /\ deliver(t, r)[k].cmd = r.cmd /\ deliver(t, r)[k].result = r
    BY <2>1, <2>2, <2>3 DEF Attempts
  <2> QED
    BY <2>1, <2>4 DEF Answers
<1> QED
  BY <1>1, <1>2

\* The answer of each attempt is among the answers.
LEMMA AnswerOf ==
    ASSUME NEW t, NEW i \in DOMAIN t
    PROVE  [cmd |-> t[i].cmd, result |-> t[i].result] \in Answers(t)
BY DEF Answers

(***************************************************************************)
(* What the devices accepted, and what the page was told.                  *)
(***************************************************************************)

\* Only onWrite() accepts, and it takes nothing back.
LEMMA NextAccepted ==
    ASSUME TypeOK, [Next]_vars, NEW d \in Devices
    PROVE  accepted[d] \subseteq accepted'[d]
<1>1. ASSUME NEW a \in Devices, DeviceStep(a)
      PROVE  accepted[d] \subseteq accepted'[d]
  <2>1. CASE onWrite(a)
    <3>1. PICK new : accepted' = [accepted EXCEPT ![a] = @ \cup new]
                     \/ accepted' = accepted
      BY <2>1 DEF onWrite
    <3> QED
      BY <3>1 DEF TypeOK
  <2> QED
    BY <1>1, <2>1
    DEF DeviceStep, ButtonDown, ButtonUp, LongHoldReset, heartbeat,
        ForeignControl, Reboot, ghostVars
<1>2. ASSUME NEW a \in Devices, ConnectionStep(a) PROVE UNCHANGED accepted
  BY <1>2
  DEF ConnectionStep, GattConnect, CreateEntry, SubscribeResult,
      SubscribeState, AnswerRead, LoseNotification, Drop, ghostVars
<1>3. ASSUME NEW a \in Devices, HostStep(a) PROVE UNCHANGED accepted
  BY <1>3
  DEF HostStep, ApplyState, IgnoreState, HostDisconnected, DeliverResult,
      WriteDone, WriteFail, Timeout, linkAsSlot, unlinkDevice, setArmed,
      identifyDevice, Command, Expire, ghostVars
<1>4. ASSUME PageStep PROVE UNCHANGED accepted
  BY <1>4 DEF PageStep, NewGroup, ResetActive, Tick, PageReload, ghostVars
<1> QED
  BY <1>1, <1>2, <1>3, <1>4 DEF Next, vars, ghostVars

\* Whatever is on its way after a step tells the truth, if it did before.
LEMMA KeepResults ==
    ASSUME TypeOK, TypeOK', ResultsGranted, [Next]_vars
    PROVE  ResultsGranted'
<1> SUFFICES ASSUME NEW d \in Devices, NEW i \in DOMAIN inbox'[d],
                    inbox'[d][i].kind = "result"
             PROVE  Granted(inbox'[d][i], accepted'[d])
  BY DEF ResultsGranted
<1>1. PICK k \in {0, 1}, m \in Nat : Moves(d, k, m)
  BY NextMoves DEF InboxMoves
<1>2. CASE i <= m
  <2>1. i + k \in DOMAIN inbox[d] /\ inbox'[d][i] = inbox[d][i + k]
    BY <1>1, <1>2, MovesOld
  <2>2. Granted(inbox'[d][i], accepted[d])
    BY <2>1 DEF ResultsGranted
  <2> QED
    BY <2>2, NextAccepted DEF Granted
<1>3. CASE ~ (i <= m)
  <2>0. inbox'[d] \in Seq(Events) /\ i > m
    BY <1>3, LenProperties DEF TypeOK
  <2>1. New(d, inbox'[d][i]) \/ inbox'[d][i] = Gone
    BY <1>1, <2>0, MovesNew
  <2> QED
    BY <2>1 DEF New, IsPacket, Gone
<1> QED
  BY <1>2, <1>3

\* The answers of a table tell the truth about these links.
Honest(t, links) ==
    \A a \in Answers(t) :
        ~ Pending(a) => a.result.cmd = a.cmd /\ Granted(a.result, links)

\* An attempt of an honest table that linked, linked.
LEMMA HonestLink ==
    ASSUME NEW t, NEW links, Honest(t, links), NEW i \in Settled(t),
           NEW group, t[i].cmd = "LINK",
           confirmsLink(t[i].result, group, t[i].slot)
    PROVE  <<group, t[i].slot>> \in links
<1> DEFINE a == [cmd |-> t[i].cmd, result |-> t[i].result]
<1>1. a \in Answers(t) /\ ~ Pending(a)
  BY AnswerOf DEF Settled, Pending
<1>2. a.result.cmd = "LINK" /\ Granted(a.result, links)
  BY <1>1 DEF Honest
<1> QED
  BY <1>2 DEF Granted, confirmsLink

\* The caller of an attempt records a device only where the device is, and
\* saves what it records.
LEMMA GoOnRecords ==
    ASSUME TypeOK, stored = pair, RecordConfirmed, NEW d \in Devices,
           NEW t \in Seq(Attempts), Honest(t, accepted[d]), GoOn(d, t),
           UNCHANGED accepted
    PROVE  /\ stored' = pair' /\ RecordConfirmed'
           /\ Answers(attempts'[d]) \subseteq Answers(t)
           /\ \A e \in Devices \ {d} : attempts'[e] = attempts[e]
<1>1. CASE Settled(t) = {}
  BY <1>1 DEF TypeOK, GoOn, RecordConfirmed
<1>2. CASE Settled(t) # {}
  <2>1. PICK i \in Settled(t) :
          /\ attempts' = [attempts EXCEPT ![d] = remove(t, i)]
          /\ Conclude(d, t[i])
    BY <1>2 DEF GoOn
  <2>2. Answers(remove(t, i)) \subseteq Answers(t)
    BY RemoveAnswers DEF Settled
  <2>3. /\ Answers(attempts'[d]) \subseteq Answers(t)
        /\ \A e \in Devices \ {d} : attempts'[e] = attempts[e]
    BY <2>1, <2>2 DEF TypeOK
  <2>4. stored' = pair' /\ RecordConfirmed'
    <3>1. CASE /\ t[i].cmd = "LINK"
               /\ confirmsLink(t[i].result, pair.group, t[i].slot)
      <4>1. SetRecords({t[i].slot}, d)
        BY <2>1, <3>1 DEF Conclude
      <4>2. <<pair.group, t[i].slot>> \in accepted[d]
        BY <3>1, HonestLink
      <4> QED
        BY <4>1, <4>2 DEF SetRecords, RecordConfirmed, TypeOK, Pairs
    <3>2. CASE SetRecords(linkedSlotsOf(d), None)
      BY <3>2, DevicesAssumption
      DEF SetRecords, RecordConfirmed, TypeOK, Pairs
    <3>3. CASE UNCHANGED <<pair, stored, slotActive>>
      BY <3>3 DEF RecordConfirmed
    <3> QED
      BY <2>1, <3>1, <3>2, <3>3 DEF Conclude
  <2> QED
    BY <2>3, <2>4
<1> QED
  BY <1>1, <1>2

\* An honest table stays honest when it gets a result that is.
LEMMA DeliverHonest ==
    ASSUME NEW t \in Seq(Attempts), NEW links, Honest(t, links),
           NEW r \in Results, Granted(r, links)
    PROVE  Honest(deliver(t, r), links)
<1>1. Answers(deliver(t, r)) \subseteq
          Answers(t) \cup {[cmd |-> r.cmd, result |-> r]}
  BY DeliverAnswers
<1> QED
  BY <1>1 DEF Honest

\* Fewer answers, or answers still to come, are as honest.
LEMMA FewerHonest ==
    ASSUME NEW t, NEW links, Honest(t, links), NEW u, NEW cmd,
           Answers(u) \subseteq Answers(t) \cup {[cmd |-> cmd, result |-> None]}
    PROVE  Honest(u, links)
BY DEF Honest, Pending

\* Unless a caller goes on, a table gets no result.
QuietAnswers(d) ==
    \E cmd \in {"LINK", "UNLINK"} :
        Answers(attempts'[d]) \subseteq
            Answers(attempts[d]) \cup {[cmd |-> cmd, result |-> None]}

\* A table that stays, or is empty.
LEMMA SameQuiet ==
    ASSUME NEW d \in Devices,
           attempts'[d] = attempts[d] \/ attempts'[d] = << >>
    PROVE  QuietAnswers(d)
<1>1. Answers(<< >>) = {}
  BY DEF Answers
<1> QED
  BY <1>1 DEF QuietAnswers

\* What the steps that give no result to an attempt do to a table.
LEMMA NextQuiet ==
    ASSUME TypeOK, [Next]_vars, NEW d \in Devices,
           ~ \E a \in Devices : DeliverResult(a) \/ WriteDone(a)
    PROVE  QuietAnswers(d)
<1>1. CASE UNCHANGED attempts
  BY <1>1, SameQuiet
<1>2. ASSUME NEW a \in Devices, ConnectionStep(a) PROVE QuietAnswers(d)
  <2>1. CASE CreateEntry(a)
    BY <2>1, SameQuiet DEF CreateEntry, TypeOK
  <2> QED
    BY <1>1, <1>2, <2>1
    DEF ConnectionStep, GattConnect, SubscribeResult, SubscribeState,
        AnswerRead, LoseNotification, Drop, hostVars
<1>3. ASSUME NEW a \in Devices, HostStep(a) PROVE QuietAnswers(d)
  <2>1. attempts[a] \in Seq(Attempts)
    BY DEF TypeOK
  <2>2. CASE HostDisconnected(a) \/ WriteFail(a)
    <3>1. attempts' = [attempts EXCEPT ![a] = cancel(@)]
      BY <2>2 DEF HostDisconnected, WriteFail
    <3> QED
      BY <2>1, <3>1, CancelAnswers, SameQuiet DEF TypeOK, QuietAnswers
  <2>3. CASE Timeout(a)
    <3>1. PICK i \in DOMAIN attempts[a] :
            attempts' = [attempts EXCEPT ![a] = remove(@, i)]
      BY <2>3 DEF Timeout
    <3> QED
      BY <2>1, <3>1, RemoveAnswers, SameQuiet DEF TypeOK, QuietAnswers
  <2>4. CASE linkAsSlot(a) \/ unlinkDevice(a)
    <3>1. PICK cmd \in {"LINK", "UNLINK"}, slot \in Slots \cup {0} :
            attempts' = [attempts EXCEPT ![a] = expect(@, cmd, slot)]
      BY <2>4 DEF linkAsSlot, unlinkDevice, Confirmed
    <3> QED
      BY <2>1, <3>1, ExpectAnswers, SameQuiet DEF TypeOK, QuietAnswers
  <2> QED
    BY <1>1, <1>3, <2>2, <2>3, <2>4
    DEF HostStep, ApplyState, IgnoreState, setArmed, identifyDevice, Expire
<1>4. ASSUME PageStep PROVE QuietAnswers(d)
  BY <1>1, <1>4, SameQuiet
  DEF PageStep, NewGroup, ResetActive, Tick, PageReload
<1>5. ASSUME NEW a \in Devices, DeviceStep(a) PROVE QuietAnswers(d)
  BY <1>1, <1>5
  DEF DeviceStep, ButtonDown, ButtonUp, LongHoldReset, heartbeat, onWrite,
      ForeignControl, Reboot, hostVars
<1> QED
  BY <1>1, <1>2, <1>3, <1>4, <1>5 DEF Next, vars, hostVars

\* Nor does it record anything, but for the start of a group or a reload.
LEMMA NextSaved ==
    ASSUME TypeOK, [Next]_vars, stored = pair,
           ~ \E a \in Devices : DeliverResult(a) \/ WriteDone(a)
    PROVE  /\ stored' = pair'
           /\ pair' = pair \/ \A s \in Slots : pair'.record[s] = None
<1>1. ASSUME NEW a \in Devices, DeviceStep(a) PROVE UNCHANGED <<pair, stored>>
  BY <1>1
  DEF DeviceStep, ButtonDown, ButtonUp, LongHoldReset, heartbeat, onWrite,
      ForeignControl, Reboot, hostVars
<1>2. ASSUME NEW a \in Devices, ConnectionStep(a)
      PROVE  UNCHANGED <<pair, stored>>
  BY <1>2
  DEF ConnectionStep, GattConnect, CreateEntry, SubscribeResult,
      SubscribeState, AnswerRead, LoseNotification, Drop, hostVars
<1>3. ASSUME NEW a \in Devices, HostStep(a) PROVE UNCHANGED <<pair, stored>>
  BY <1>3
  DEF HostStep, ApplyState, IgnoreState, HostDisconnected, WriteFail,
      Timeout, linkAsSlot, unlinkDevice, setArmed, identifyDevice, Command,
      Expire
<1>4. CASE PageStep
  BY <1>4 DEF PageStep, NewGroup, ResetActive, Tick, PageReload
<1> QED
  BY <1>1, <1>2, <1>3, <1>4 DEF Next, vars, hostVars

\* Every step keeps the records confirmed.
LEMMA NextRecord ==
    ASSUME TypeOK, TypeOK', RecordInv, [Next]_vars PROVE RecordInv'
<1>1. ResultsGranted'
  BY KeepResults DEF RecordInv
<1>2. \A d \in Devices : accepted[d] \subseteq accepted'[d]
  BY NextAccepted
<1>3. \A d \in Devices : Honest(attempts[d], accepted[d])
  BY DEF RecordInv, AttemptsGranted, Honest
<1>4. SUFFICES /\ stored' = pair' /\ RecordConfirmed'
               /\ \A d \in Devices : Honest(attempts'[d], accepted'[d])
  BY <1>1 DEF RecordInv, AttemptsGranted, Honest
<1>5. ASSUME NEW a \in Devices, NEW t \in Seq(Attempts),
             Honest(t, accepted[a]), GoOn(a, t), UNCHANGED accepted
      PROVE  /\ stored' = pair' /\ RecordConfirmed'
             /\ \A d \in Devices : Honest(attempts'[d], accepted'[d])
  <2>1. /\ stored' = pair' /\ RecordConfirmed'
        /\ Answers(attempts'[a]) \subseteq Answers(t)
        /\ \A e \in Devices \ {a} : attempts'[e] = attempts[e]
    BY <1>5, GoOnRecords DEF RecordInv
  <2>2. Honest(attempts'[a], accepted[a])
    BY <1>5, <2>1 DEF Honest
  <2> QED
    BY <1>3, <1>5, <2>1, <2>2
<1>6. ASSUME NEW a \in Devices, DeliverResult(a)
      PROVE  \E t \in Seq(Attempts) :
                 Honest(t, accepted[a]) /\ GoOn(a, t) /\ UNCHANGED accepted
  <2>1. Head(inbox[a]) \in Results
    BY <1>6, ReceiveType, EventFields DEF DeliverResult
  <2>2. 1 \in DOMAIN inbox[a] /\ inbox[a][1] = Head(inbox[a])
    BY <1>6, TailMoves DEF DeliverResult
  <2>3. Granted(Head(inbox[a]), accepted[a])
    BY <1>6, <2>2 DEF RecordInv, ResultsGranted, DeliverResult, Receive
  <2>4. attempts[a] \in Seq(Attempts)
    BY DEF TypeOK
  <2>5. /\ deliver(attempts[a], Head(inbox[a])) \in Seq(Attempts)
        /\ Honest(deliver(attempts[a], Head(inbox[a])), accepted[a])
    BY <1>3, <2>1, <2>3, <2>4, DeliverType, DeliverHonest
  <2> QED
    BY <1>6, <2>5 DEF DeliverResult, ghostVars
<1>7. ASSUME NEW a \in Devices, WriteDone(a)
      PROVE  \E t \in Seq(Attempts) :
                 Honest(t, accepted[a]) /\ GoOn(a, t) /\ UNCHANGED accepted
  <2>1. attempts[a] \in Seq(Attempts)
    BY DEF TypeOK
  <2>2. /\ acknowledge(attempts[a]) \in Seq(Attempts)
        /\ Answers(acknowledge(attempts[a])) \subseteq Answers(attempts[a])
    BY <2>1, AcknowledgeType, AcknowledgeAnswers
  <2>3. Honest(acknowledge(attempts[a]), accepted[a])
    BY <1>3, <2>2 DEF Honest
  <2> QED
    BY <1>7, <2>2, <2>3 DEF WriteDone, ghostVars
<1>8. CASE ~ \E a \in Devices : DeliverResult(a) \/ WriteDone(a)
  <2>1. /\ stored' = pair'
        /\ pair' = pair \/ \A s \in Slots : pair'.record[s] = None
    BY <1>8, NextSaved DEF RecordInv
  <2>2. RecordConfirmed'
    BY <1>2, <2>1, DevicesAssumption DEF RecordInv, RecordConfirmed
  <2>3. \A d \in Devices : QuietAnswers(d)
    BY <1>8, NextQuiet
  <2>4. \A d \in Devices : Honest(attempts'[d], accepted'[d])
    BY <1>2, <1>3, <2>3 DEF QuietAnswers, Honest, Granted, Pending
  <2> QED
    BY <2>1, <2>2, <2>4
<1> QED
  BY <1>5, <1>6, <1>7, <1>8

\* A page that was just loaded has the records of linked devices, and asked
\* nothing yet.
LEMMA InitRecord == Init => RecordInv
<1> SUFFICES ASSUME Init PROVE RecordInv
  OBVIOUS
<1>1. RecordConfirmed
  <2>1. PICK g \in Groups \ ForeignGroups, record \in LoadedRecords :
          /\ pair = [group |-> g, record |-> record]
          /\ accepted = [d \in Devices |->
                            {<<g, s>> : s \in {t \in Slots : record[t] = d}}]
    BY DEF Init, InitPair
  <2> QED
    BY <2>1 DEF RecordConfirmed
<1>2. ResultsGranted
  BY DEF Init, InitIdle, ResultsGranted
<1>3. AttemptsGranted
  <2>1. \A d \in Devices : Answers(attempts[d]) = {}
    BY DEF Init, InitIdle, Answers
  <2> QED
    BY <2>1 DEF AttemptsGranted
<1> QED
  BY <1>1, <1>2, <1>3 DEF Init, InitPair, RecordInv

\* Results, attempts, records and what the devices accepted fit together.
THEOREM RecordInvariant == Spec => []RecordInv
<1>1. TypeOK /\ EntryFollowsConnection /\ RecordInv /\ [Next]_vars
        => RecordInv'
  BY NextType, NextRecord
<1> QED
  BY <1>1, InitRecord, TypeCorrect, PTL DEF Spec

\* Results that are late, lost or meant for another attempt notwithstanding,
\* the page records a device only where the device accepted a LINK to.
THEOREM RecordsAreConfirmed == Spec => []RecordConfirmed
<1>1. RecordInv => RecordConfirmed
  BY DEF RecordInv
<1> QED
  BY <1>1, RecordInvariant, PTL

\* A reload of the page changes neither the group nor the records.
THEOREM ReloadKeepsThePair == Spec => ReloadKeepsPair
<1>1. RecordInv => (PageReload => UNCHANGED pair)
  BY DEF RecordInv, PageReload
<1>2. RecordInv /\ [Next]_vars => [PageReload => UNCHANGED pair]_vars
  BY <1>1
<1> QED
  BY <1>2, RecordInvariant, PTL DEF Spec, ReloadKeepsPair

(***************************************************************************)
(* Counting modulo SeqWrap.                                                *)
(***************************************************************************)

\* The next seq.
LEMMA NextSeq ==
    ASSUME NEW n \in 0 .. SeqWrap - 1
    PROVE  (n + 1) % SeqWrap = IF n + 1 = SeqWrap THEN 0 ELSE n + 1
BY SeqAssumption, BoundsAssumption

\* Each publishing puts every copy one further behind, unless seq comes round.
LEMMA LagStep ==
    ASSUME NEW m \in 0 .. SeqWrap - 1, NEW n \in 0 .. SeqWrap - 1,
           Lag(m, n) + 1 < SeqWrap
    PROVE  /\ Lag(m, (n + 1) % SeqWrap) = Lag(m, n) + 1
           /\ m # (n + 1) % SeqWrap
BY NextSeq, SeqAssumption, BoundsAssumption DEF Lag

\* Nothing is behind itself.
LEMMA LagSelf == ASSUME NEW n \in 0 .. SeqWrap - 1 PROVE Lag(n, n) = 0
BY SeqAssumption, BoundsAssumption DEF Lag

(***************************************************************************)
(* The places.                                                             *)
(***************************************************************************)

\* What there is in each place, and how many places come after it.
PlacesTyped ==
    \A d \in Devices :
        /\ Len(inbox[d]) \in Nat
        /\ \A i \in Places(d) :
               /\ i \in 0 .. Len(inbox[d])
               /\ Copy(d, i) \in States
               /\ IsFiniteSet(After(d, i))
               /\ Cardinality(After(d, i)) \in 0 .. Len(inbox[d])

LEMMA PlaceFacts == TypeOK => PlacesTyped
<1> SUFFICES ASSUME TypeOK, NEW d \in Devices
             PROVE  /\ Len(inbox[d]) \in Nat
                    /\ \A i \in Places(d) :
                           /\ i \in 0 .. Len(inbox[d])
                           /\ Copy(d, i) \in States
                           /\ IsFiniteSet(After(d, i))
                           /\ Cardinality(After(d, i)) \in 0 .. Len(inbox[d])
  BY DEF PlacesTyped
<1>1. Len(inbox[d]) \in Nat /\ DOMAIN inbox[d] = 1 .. Len(inbox[d])
  BY InboxDomain
<1>2. ASSUME NEW i \in Places(d)
      PROVE  /\ i \in 0 .. Len(inbox[d])
             /\ Copy(d, i) \in States
             /\ IsFiniteSet(After(d, i))
             /\ Cardinality(After(d, i)) \in 0 .. Len(inbox[d])
  <2>1. i \in 0 .. Len(inbox[d])
    BY DEF Places
  <2>2. Copy(d, i) \in States
    <3>1. CASE i = 0
      <4>1. Known(d)
        BY <3>1 DEF Places
      <4>2. entry[d] \in Entries /\ entry[d].state # None
        BY <4>1 DEF Known, Online, TypeOK
      <4> QED
        BY <3>1, <4>2, EntryFields DEF Copy
    <3>2. CASE i # 0
      <4>1. i \in DOMAIN inbox[d] /\ IsPacket(inbox[d][i])
        BY <1>1, <2>1, <3>2 DEF Places
      <4>2. inbox[d][i] \in Events
        BY <4>1, InboxDomain
      <4> QED
        BY <3>2, <4>1, <4>2, EventFields DEF Copy, IsPacket
    <3> QED
      BY <3>1, <3>2
  <2>3. After(d, i) \in SUBSET (1 .. Len(inbox[d]))
    BY <2>1 DEF After, Places
  <2>4. /\ IsFiniteSet(1 .. Len(inbox[d]))
        /\ Cardinality(1 .. Len(inbox[d])) = Len(inbox[d])
    BY <1>1, FS_Interval
  <2>5. /\ IsFiniteSet(After(d, i))
        /\ Cardinality(After(d, i)) <= Len(inbox[d])
    BY <2>3, <2>4, FS_Subset
  <2>6. Cardinality(After(d, i)) \in Nat
    BY <2>5, FS_CardinalityType
  <2> QED
    BY <1>1, <2>1, <2>2, <2>5, <2>6
<1> QED
  BY <1>1, <1>2

\* The same, after a step.
LEMMA PlaceFactsNext == TypeOK' => PlacesTyped'
BY PlaceFacts, PTL

\* A copy keeps its distance when the places after it stay, one for one.
LEMMA ShiftSync ==
    ASSUME TypeOK, TypeOK', NEW d \in Devices, NEW f,
           CopiesRecent(d), SeqsUnique(d), LastCurrent(d),
           faults <= faults', seq'[d] = seq[d], stateChr'[d] = stateChr[d],
           phase'[d] \in {"reading", "up"} /\ ~ missed'[d]
               => phase[d] \in {"reading", "up"} /\ ~ missed[d],
           f \in [Places(d)' -> Places(d)],
           \A i \in Places(d)' : Copy(d, i)' = Copy(d, f[i]),
           \A i, j \in Places(d)' : i < j <=> f[i] < f[j],
           \A i \in Places(d) : After(d, i) = {}
                                    => \E j \in Places(d)' : f[j] = i,
           \A i \in Places(d)' : \A k \in After(d, f[i]) :
               \E j \in Places(d)' : f[j] = k
    PROVE  CopiesRecent(d)' /\ SeqsUnique(d)' /\ LastCurrent(d)'
<1>1. PlacesTyped /\ PlacesTyped'
  BY PlaceFacts, PlaceFactsNext
<1>2. faults \in Nat /\ faults' \in Nat
  BY BoundsAssumption DEF TypeOK
<1>3. ASSUME NEW i \in Places(d)'
      PROVE  Cardinality(After(d, i)') = Cardinality(After(d, f[i]))
  <2> DEFINE S == After(d, i)'
             T == After(d, f[i])
             g == [j \in S |-> f[j]]
  <2>1. g \in [S -> T] /\ \A k \in T : \E j \in S : g[j] = k
    BY <1>3 DEF After
  <2>2. \A j, k \in S : g[j] = g[k] => j = k
    <3> SUFFICES ASSUME NEW j \in S, NEW k \in S, j # k PROVE g[j] # g[k]
      OBVIOUS
    <3>0. j \in Places(d)' /\ k \in Places(d)'
      BY DEF After
    <3>1. j \in Places(d)' /\ k \in Places(d)' /\ j \in Int /\ k \in Int
      BY <1>1, <3>0 DEF PlacesTyped
    <3>2. f[j] \in Int /\ f[k] \in Int
      BY <1>1, <3>1 DEF PlacesTyped
    <3>3. j < k \/ k < j
      BY <3>1
    <3>4. f[j] < f[k] \/ f[k] < f[j]
      BY <3>1, <3>3
    <3> QED
      BY <3>2, <3>4
  <2>3. g \in Bijection(S, T)
    BY <2>1, <2>2 DEF Bijection, Injection, Surjection, IsInjective
  <2>4. IsFiniteSet(S)
    BY <1>1, <1>3 DEF PlacesTyped
  <2> HIDE DEF S, T, g
  <2>5. Cardinality(T) = Cardinality(S)
    BY <2>3, <2>4, FS_Bijection DEF ExistsBijection
  <2> QED
    BY <2>5 DEF S, T
<1>4. CopiesRecent(d)'
  <2> SUFFICES ASSUME NEW i \in Places(d)'
               PROVE  Lag(Copy(d, i)'.seq, seq'[d])
                          <= Cardinality(After(d, i)') + faults'
    BY DEF CopiesRecent
  <2>1. f[i] \in Places(d)
    OBVIOUS
  <2>2. /\ Copy(d, f[i]) \in States /\ seq[d] \in 0 .. SeqWrap - 1
        /\ Cardinality(After(d, f[i])) \in Nat
    BY <1>1, <2>1 DEF PlacesTyped, TypeOK
  <2>3. Lag(Copy(d, f[i]).seq, seq[d]) <= Cardinality(After(d, f[i])) + faults
    BY <2>1 DEF CopiesRecent
  <2>4. Lag(Copy(d, f[i]).seq, seq[d]) \in Int
    BY <2>2, SeqAssumption, BoundsAssumption DEF Lag, States
  <2> QED
    BY <1>2, <1>3, <2>2, <2>3, <2>4
<1>5. SeqsUnique(d)'
  BY DEF SeqsUnique
<1>6. LastCurrent(d)'
  <2> SUFFICES ASSUME phase'[d] \in {"reading", "up"}, ~ missed'[d]
               PROVE  \E i \in Places(d)' : /\ After(d, i)' = {}
                                            /\ Copy(d, i)' = stateChr'[d]
    BY DEF LastCurrent
  <2>1. PICK i \in Places(d) : After(d, i) = {} /\ Copy(d, i) = stateChr[d]
    BY DEF LastCurrent
  <2>2. PICK j \in Places(d)' : f[j] = i
    BY <2>1
  <2>3. After(d, j)' = {}
    BY <2>1, <2>2 DEF After
  <2> QED
    BY <2>1, <2>2, <2>3
<1> QED
  BY <1>4, <1>5, <1>6

\* How far behind a copy can be: the inbox is bounded, and so are the faults.
LEMMA LagBound ==
    ASSUME TypeOK, NEW d \in Devices, CopiesRecent(d),
           Len(inbox[d]) <= InboxCap, NEW i \in Places(d)
    PROVE  /\ Copy(d, i).seq \in 0 .. SeqWrap - 1
           /\ Lag(Copy(d, i).seq, seq[d]) \in Nat
           /\ Lag(Copy(d, i).seq, seq[d]) + 1 < SeqWrap
<1>1. PlacesTyped
  BY PlaceFacts
<1>2. Copy(d, i).seq \in 0 .. SeqWrap - 1 /\ seq[d] \in 0 .. SeqWrap - 1
  BY <1>1 DEF PlacesTyped, States, TypeOK
<1>3. Cardinality(After(d, i)) \in Nat /\ Cardinality(After(d, i)) <= InboxCap
  BY <1>1, BoundsAssumption DEF PlacesTyped
<1>4. faults \in 0 .. MaxFaults
  BY DEF TypeOK
<1>5. Lag(Copy(d, i).seq, seq[d]) <= Cardinality(After(d, i)) + faults
  BY DEF CopiesRecent
<1>6. Lag(Copy(d, i).seq, seq[d]) \in Nat
  BY <1>2, SeqAssumption, BoundsAssumption DEF Lag
<1> QED
  BY <1>2, <1>3, <1>4, <1>5, <1>6, SeqAssumption, BoundsAssumption

\* A step of d puts one more copy, of the characteristic, at the end.
Grows(d, n) ==
    /\ Places(d)' = Places(d) \cup {n}
    /\ n \notin Places(d) /\ \A i \in Places(d) : i < n
    /\ Copy(d, n)' = stateChr'[d]
    /\ \A i \in Places(d) : Copy(d, i)' = Copy(d, i)

\* A new copy keeps the others in order; it is published, or read.
LEMMA GrowSync ==
    ASSUME TypeOK, TypeOK', NEW d \in Devices, NEW n, Grows(d, n),
           CopiesRecent(d), SeqsUnique(d), Len(inbox[d]) <= InboxCap,
           faults' = faults,
           \/ seq'[d] = seq[d] /\ stateChr'[d] = stateChr[d]
           \/ seq'[d] = (seq[d] + 1) % SeqWrap,
           stateChr'[d].seq = seq'[d]
    PROVE  CopiesRecent(d)' /\ SeqsUnique(d)' /\ LastCurrent(d)'
<1>1. PlacesTyped /\ PlacesTyped'
  BY PlaceFacts, PlaceFactsNext
<1>2. faults \in Nat /\ seq[d] \in 0 .. SeqWrap - 1 /\ seq'[d] \in 0 .. SeqWrap - 1
  BY BoundsAssumption DEF TypeOK
<1>3. n \in Places(d)' /\ n \in Nat /\ \A i \in Places(d) : i \in Nat
  BY <1>1 DEF Grows, PlacesTyped
<1>4. After(d, n)' = {}
  BY <1>3 DEF Grows, After
<1>5. ASSUME NEW i \in Places(d)
      PROVE  Cardinality(After(d, i)') = Cardinality(After(d, i)) + 1
  <2>1. After(d, i)' = After(d, i) \cup {n} /\ n \notin After(d, i)
    BY <1>5 DEF Grows, After
  <2>2. IsFiniteSet(After(d, i))
    BY <1>1, <1>5 DEF PlacesTyped
  <2> QED
    BY <2>1, <2>2, FS_AddElement
<1>6. ASSUME NEW i \in Places(d)
      PROVE  /\ Lag(Copy(d, i).seq, seq'[d])
                    <= Cardinality(After(d, i)) + 1 + faults
             /\ Copy(d, i).seq = seq'[d] => Copy(d, i) = stateChr'[d]
  <2>1. /\ Lag(Copy(d, i).seq, seq[d]) <= Cardinality(After(d, i)) + faults
        /\ Copy(d, i).seq = seq[d] => Copy(d, i) = stateChr[d]
    BY <1>6 DEF CopiesRecent, SeqsUnique
  <2>2. Cardinality(After(d, i)) \in Nat
    BY <1>1, <1>6 DEF PlacesTyped
  <2>3. /\ Copy(d, i).seq \in 0 .. SeqWrap - 1
        /\ Lag(Copy(d, i).seq, seq[d]) \in Nat
        /\ Lag(Copy(d, i).seq, seq[d]) + 1 < SeqWrap
    BY <1>6, LagBound
  <2>4. CASE seq'[d] = seq[d] /\ stateChr'[d] = stateChr[d]
    BY <1>2, <2>1, <2>2, <2>3, <2>4
  <2>5. CASE seq'[d] = (seq[d] + 1) % SeqWrap
    <3>1. /\ Lag(Copy(d, i).seq, seq'[d]) = Lag(Copy(d, i).seq, seq[d]) + 1
          /\ Copy(d, i).seq # seq'[d]
      BY <1>2, <2>3, <2>5, LagStep
    <3> QED
      BY <1>2, <2>1, <2>2, <2>3, <3>1
  <2> QED
    BY <2>4, <2>5
<1>7. CopiesRecent(d)'
  <2> SUFFICES ASSUME NEW i \in Places(d)'
               PROVE  Lag(Copy(d, i)'.seq, seq'[d])
                          <= Cardinality(After(d, i)') + faults'
    BY DEF CopiesRecent
  <2>1. CASE i \in Places(d)
    <3>1. Copy(d, i)' = Copy(d, i)
      BY <2>1 DEF Grows
    <3> QED
      BY <1>5, <1>6, <2>1, <3>1
  <2>2. CASE i = n
    <3>1. Lag(Copy(d, n)'.seq, seq'[d]) = 0
      BY <1>2, LagSelf DEF Grows
    <3>2. Cardinality(After(d, n)') = 0
      BY <1>4, FS_EmptySet
    <3> QED
      BY <1>2, <2>2, <3>1, <3>2
  <2> QED
    BY <2>1, <2>2 DEF Grows
<1>8. SeqsUnique(d)'
  BY <1>6 DEF SeqsUnique, Grows
<1>9. LastCurrent(d)'
  BY <1>3, <1>4 DEF LastCurrent, Grows
<1> QED
  BY <1>7, <1>8, <1>9

\* What cannot be found cannot be wrong.
LEMMA NoPlacesSync ==
    ASSUME NEW d \in Devices, Places(d)' = {}, phase'[d] \notin {"reading", "up"}
    PROVE  CopiesRecent(d)' /\ SeqsUnique(d)' /\ LastCurrent(d)'
BY DEF CopiesRecent, SeqsUnique, LastCurrent

\* A lost copy was the last one, and its loss is a fault.
LEMMA LoseSync ==
    ASSUME TypeOK, TypeOK', NEW d \in Devices, NEW n,
           CopiesRecent(d), SeqsUnique(d), LastCurrent(d),
           Places(d)' = Places(d) \ {n},
           \A i \in Places(d)' : Copy(d, i)' = Copy(d, i),
           faults' = faults + 1,
           seq'[d] = seq[d], stateChr'[d] = stateChr[d], phase'[d] = phase[d],
           missed[d] => missed'[d], n \in Places(d) => missed'[d]
    PROVE  CopiesRecent(d)' /\ SeqsUnique(d)' /\ LastCurrent(d)'
<1>1. PlacesTyped /\ PlacesTyped'
  BY PlaceFacts, PlaceFactsNext
<1>2. faults \in Nat /\ seq[d] \in 0 .. SeqWrap - 1
  BY BoundsAssumption DEF TypeOK
<1>3. ASSUME NEW i \in Places(d)'
      PROVE  /\ Cardinality(After(d, i)) \in Nat
             /\ Cardinality(After(d, i)') \in Nat
             /\ Cardinality(After(d, i)) <= Cardinality(After(d, i)') + 1
  <2>1. After(d, i)' = After(d, i) \ {n}
    BY DEF After
  <2>2. /\ IsFiniteSet(After(d, i)) /\ Cardinality(After(d, i)) \in Nat
        /\ Cardinality(After(d, i)') \in Nat
    BY <1>1, <1>3 DEF PlacesTyped
  <2>3. Cardinality(After(d, i) \ {n}) =
            IF n \in After(d, i) THEN Cardinality(After(d, i)) - 1
            ELSE Cardinality(After(d, i))
    BY <2>2, FS_RemoveElement
  <2> QED
    BY <2>1, <2>2, <2>3
<1>4. CopiesRecent(d)'
  <2> SUFFICES ASSUME NEW i \in Places(d)'
               PROVE  Lag(Copy(d, i)'.seq, seq'[d])
                          <= Cardinality(After(d, i)') + faults'
    BY DEF CopiesRecent
  <2>1. /\ Lag(Copy(d, i).seq, seq[d]) <= Cardinality(After(d, i)) + faults
        /\ Copy(d, i)' = Copy(d, i)
    BY DEF CopiesRecent
  <2>2. Lag(Copy(d, i).seq, seq[d]) \in Int
    <3>1. Copy(d, i).seq \in 0 .. SeqWrap - 1
      BY <1>1 DEF PlacesTyped, States
    <3> QED
      BY <1>2, <3>1, SeqAssumption, BoundsAssumption DEF Lag
  <2> QED
    BY <1>2, <1>3, <2>1, <2>2
<1>5. SeqsUnique(d)'
  BY DEF SeqsUnique
<1>6. LastCurrent(d)'
  <2>1. CASE n \in Places(d)
    BY <2>1 DEF LastCurrent, TypeOK
  <2>2. CASE n \notin Places(d)
    <3>1. \A i \in Places(d) : i \in Places(d)' /\ After(d, i)' = After(d, i)
      BY <2>2 DEF After
    <3> QED
      BY <3>1 DEF LastCurrent
  <2> QED
    BY <2>1, <2>2
<1> QED
  BY <1>4, <1>5, <1>6

(***************************************************************************)
(* What the steps do to the places.                                        *)
(***************************************************************************)

\* The page learns nothing of d.
SameKnown(d) ==
    /\ Known(d)' <=> Known(d)
    /\ Known(d) => entry'[d].state = entry[d].state

\* An entry that stays.
LEMMA EntryKnown ==
    ASSUME NEW d \in Devices, entry'[d] = entry[d] PROVE SameKnown(d)
BY DEF SameKnown, Known, Online

\* A device of which nothing is published, lost or received.
LEMMA SameSync ==
    ASSUME TypeOK, TypeOK', NEW d \in Devices, Synced(d),
           inbox'[d] = inbox[d], SameKnown(d),
           seq'[d] = seq[d], stateChr'[d] = stateChr[d], missed'[d] = missed[d],
           faults <= faults',
           \/ phase'[d] = phase[d]
           \/ /\ phase'[d] \notin {"reading", "up"}
              /\ phase[d] \in Listening => phase'[d] \in Listening
    PROVE  Synced(d)'
<1>1. Places(d)' = Places(d)
  BY DEF Places, SameKnown
<1>2. \A i \in Places(d) : Copy(d, i)' = Copy(d, i) /\ After(d, i)' = After(d, i)
  BY <1>1 DEF Copy, After, Places, SameKnown
<1>3. CopiesRecent(d)'
  <2> SUFFICES ASSUME NEW i \in Places(d)
               PROVE  Lag(Copy(d, i).seq, seq[d])
                          <= Cardinality(After(d, i)) + faults'
    BY <1>1, <1>2 DEF CopiesRecent
  <2>1. Lag(Copy(d, i).seq, seq[d]) <= Cardinality(After(d, i)) + faults
    BY DEF Synced, CopiesRecent
  <2>2. /\ Copy(d, i).seq \in 0 .. SeqWrap - 1 /\ seq[d] \in 0 .. SeqWrap - 1
        /\ Cardinality(After(d, i)) \in Nat
    <3>1. Copy(d, i) \in States /\ Cardinality(After(d, i)) \in Nat
      BY PlaceFacts DEF PlacesTyped
    <3> QED
      BY <3>1 DEF States, TypeOK
  <2>3. Lag(Copy(d, i).seq, seq[d]) \in Int
    BY <2>2, SeqAssumption, BoundsAssumption DEF Lag
  <2>4. faults \in Nat /\ faults' \in Nat
    BY BoundsAssumption DEF TypeOK
  <2> QED
    BY <2>1, <2>2, <2>3, <2>4
<1>4. SeqsUnique(d)'
  BY <1>1, <1>2 DEF Synced, SeqsUnique
<1>5. LastCurrent(d)'
  BY <1>1, <1>2 DEF Synced, LastCurrent
<1> QED
  BY <1>1, <1>3, <1>4, <1>5 DEF Synced

\* What a page hears of a handler: one packet, if it listens, and no more.
HeardOnce(d, heard) ==
    /\ heard \in Seq(Events)
    /\ phase[d] \in Listening =>
           \E p \in DOMAIN heard :
               /\ IsPacket(heard[p]) /\ heard[p].state = stateChr'[d]
               /\ \A q \in DOMAIN heard : IsPacket(heard[q]) => q = p
    /\ phase[d] \notin Listening =>
           \A q \in DOMAIN heard : ~ IsPacket(heard[q])

\* The places of what comes at the end of an inbox.
LEMMA AppendPlaces ==
    ASSUME TypeOK, NEW d \in Devices, NEW heard \in Seq(Events),
           inbox'[d] = inbox[d] \o heard, SameKnown(d)
    PROVE  /\ Len(inbox'[d]) = Len(inbox[d]) + Len(heard)
           /\ \A i \in Places(d) : i \in Places(d)' /\ Copy(d, i)' = Copy(d, i)
           /\ \A i \in Places(d)' \ Places(d) :
                  /\ i - Len(inbox[d]) \in DOMAIN heard
                  /\ IsPacket(heard[i - Len(inbox[d])])
           /\ \A p \in DOMAIN heard : IsPacket(heard[p]) =>
                  \E n \in Nat :
                      /\ n = Len(inbox[d]) + p
                      /\ n \in Places(d)' /\ n \notin Places(d)
                      /\ Copy(d, n)' = heard[p].state
                      /\ \A i \in Places(d) : i < n
<1> DEFINE q == inbox[d]
           r == inbox'[d]
<1>1. /\ q \in Seq(Events) /\ Len(q) \in Nat /\ Len(heard) \in Nat
      /\ DOMAIN heard = 1 .. Len(heard)
      /\ Len(r) = Len(q) + Len(heard)
      /\ \A i \in 1 .. Len(r) :
             r[i] = IF i <= Len(q) THEN q[i] ELSE heard[i - Len(q)]
  BY ConcatProperties, LenProperties DEF TypeOK
<1>2. \A i \in Places(d) : i \in 0 .. Len(q)
  BY DEF Places
<1> HIDE DEF q, r
<1>3. /\ \A i : i \in Places(d) <=>
             i \in 0 .. Len(q) /\ IF i = 0 THEN Known(d) ELSE IsPacket(q[i])
      /\ \A i : i \in Places(d)' <=>
             i \in 0 .. Len(r) /\ IF i = 0 THEN Known(d)' ELSE IsPacket(r[i])
      /\ \A i : Copy(d, i) = IF i = 0 THEN entry[d].state ELSE q[i].state
      /\ \A i : Copy(d, i)' = IF i = 0 THEN entry'[d].state ELSE r[i].state
  BY DEF Places, Copy, q, r
<1>4. ASSUME NEW i \in Places(d)
      PROVE  i \in Places(d)' /\ Copy(d, i)' = Copy(d, i)
  <2>1. CASE i = 0
    BY <1>1, <1>3, <1>4, <2>1 DEF SameKnown
  <2>2. CASE i # 0
    <3>1. i \in 1 .. Len(q)
      BY <1>1, <1>2, <1>4, <2>2
    <3>2. i \in 1 .. Len(r) /\ r[i] = q[i] /\ i \in 0 .. Len(r)
      BY <1>1, <3>1
    <3>3. IsPacket(q[i])
      BY <1>3, <1>4, <2>2
    <3>4. i \in Places(d)'
      BY <1>3, <2>2, <3>2, <3>3
    <3>5. Copy(d, i)' = Copy(d, i)
      BY <1>3, <2>2, <3>2
    <3> QED
      BY <3>4, <3>5
  <2> QED
    BY <2>1, <2>2
<1>5. ASSUME NEW i \in Places(d)', i \notin Places(d)
      PROVE  i - Len(q) \in DOMAIN heard /\ IsPacket(heard[i - Len(q)])
  <2>1. i # 0
    BY <1>1, <1>3, <1>5 DEF SameKnown
  <2>2. i \in 1 .. Len(r) /\ IsPacket(r[i])
    BY <1>1, <1>3, <1>5, <2>1
  <2>3. ~ (i <= Len(q))
    BY <1>1, <1>3, <1>5, <2>1, <2>2
  <2>4. r[i] = heard[i - Len(q)]
    BY <1>1, <2>2, <2>3
  <2> QED
    BY <1>1, <2>2, <2>3, <2>4
<1>6. ASSUME NEW p \in DOMAIN heard, IsPacket(heard[p])
      PROVE  \E n \in Nat :
                 /\ n = Len(q) + p
                 /\ n \in Places(d)' /\ n \notin Places(d)
                 /\ Copy(d, n)' = heard[p].state
                 /\ \A i \in Places(d) : i < n
  <2>1. PICK n \in Nat : n = Len(q) + p
    BY <1>1
  <2>2. /\ n \in 0 .. Len(r) /\ n # 0 /\ ~ (n <= Len(q))
        /\ n - Len(q) = p /\ n \in 1 .. Len(r)
    BY <1>1, <2>1
  <2>3. r[n] = heard[p]
    BY <1>1, <2>2
  <2>4. \A i \in Places(d) : i < n
    BY <1>1, <1>2, <2>2
  <2>5. n \notin Places(d)
    BY <2>2, <2>4
  <2>6. n \in Places(d)'
    BY <1>3, <1>6, <2>2, <2>3
  <2>7. Copy(d, n)' = heard[p].state
    BY <1>3, <2>2, <2>3
  <2> QED
    BY <2>1, <2>4, <2>5, <2>6, <2>7
<1> QED
  BY <1>1, <1>4, <1>5, <1>6 DEF q, r

\* A handler of a connected device that publishes and notifies.
LEMMA PublishSync ==
    ASSUME TypeOK, TypeOK', NEW d \in Devices, Synced(d), publishState(d),
           NEW heard, HeardOnce(d, heard), Notify(d, heard),
           entry'[d] = entry[d], phase'[d] = phase[d], faults' = faults
    PROVE  Synced(d)'
<1>1. /\ inbox'[d] = inbox[d] \o heard /\ heard \in Seq(Events)
      /\ Len(inbox[d]) + Len(heard) <= InboxCap
  BY DEF Notify, HeardOnce, TypeOK
<1>2. /\ seq'[d] = (seq[d] + 1) % SeqWrap /\ stateChr'[d].seq = seq'[d]
      /\ ~ missed'[d]
  BY DEF publishState, ButtonState, TypeOK
<1>3. SameKnown(d)
  BY EntryKnown
<1>4. Len(inbox'[d]) <= InboxCap
  BY <1>1, <1>3, AppendPlaces
<1>5. CASE phase[d] \in Listening
  <2>1. PICK p \in DOMAIN heard :
          /\ IsPacket(heard[p]) /\ heard[p].state = stateChr'[d]
          /\ \A q \in DOMAIN heard : IsPacket(heard[q]) => q = p
    BY <1>5 DEF HeardOnce
  <2>2. PICK n \in Nat :
          /\ n = Len(inbox[d]) + p
          /\ n \in Places(d)' /\ n \notin Places(d)
          /\ Copy(d, n)' = heard[p].state
          /\ \A i \in Places(d) : i < n
    BY <1>1, <1>3, <2>1, AppendPlaces
  <2>3. \A i \in Places(d)' \ Places(d) : i = n
    <3> SUFFICES ASSUME NEW i \in Places(d)', i \notin Places(d) PROVE i = n
      OBVIOUS
    <3>1. i - Len(inbox[d]) \in DOMAIN heard /\ IsPacket(heard[i - Len(inbox[d])])
      BY <1>1, <1>3, AppendPlaces
    <3>2. i - Len(inbox[d]) = p
      BY <2>1, <3>1
    <3>3. i \in Int /\ Len(inbox[d]) \in Int
      BY PlaceFactsNext, PlaceFacts DEF PlacesTyped
    <3> QED
      BY <2>2, <3>2, <3>3
  <2>4. \A i \in Places(d) : i \in Places(d)' /\ Copy(d, i)' = Copy(d, i)
    BY <1>1, <1>3, AppendPlaces
  <2>5. Grows(d, n)
    BY <2>1, <2>2, <2>3, <2>4 DEF Grows
  <2> QED
    BY <1>2, <1>4, <1>5, <2>5, GrowSync DEF Synced
<1>6. CASE phase[d] \notin Listening
  <2>1. Places(d) = {}
    BY <1>6 DEF Synced
  <2>2. Places(d)' = {}
    BY <1>1, <1>3, <1>6, <2>1, AppendPlaces DEF HeardOnce
  <2> QED
    BY <1>4, <1>6, <2>2, NoPlacesSync DEF Synced, Listening
<1> QED
  BY <1>5, <1>6

\* A published ButtonState is heard once, by a page that listens.
LEMMA StateOnce ==
    ASSUME NEW d \in Devices, connected'[d], stateChr'[d] \in States
    PROVE  HeardOnce(d, Heard(d, StateEvent(stateChr'[d])))
<1> DEFINE e == StateEvent(stateChr'[d])
<1>1. e \in Events /\ e.kind = "state" /\ e.state = stateChr'[d] /\ IsPacket(e)
  BY StateEventType DEF StateEvent, IsPacket
<1> HIDE DEF e
<1>2. Heard(d, e) \in Seq(Events)
  BY <1>1, HeardType
<1>3. CASE phase[d] \in Listening
  <2>1. Heard(d, e) = <<e>>
    BY <1>1, <1>3 DEF Heard, Subscribed, Listening
  <2> QED
    BY <1>1, <1>2, <1>3, <2>1 DEF HeardOnce, e
<1>4. CASE phase[d] \notin Listening
  <2>1. Heard(d, e) = <<>>
    BY <1>1, <1>4 DEF Heard, Subscribed, Listening
  <2> QED
    BY <1>2, <1>4, <2>1 DEF HeardOnce, e
<1> QED
  BY <1>3, <1>4

\* One event and another.
LEMMA ConcatTwo ==
    ASSUME NEW S, NEW a \in S, NEW b \in S
    PROVE  <<a>> \o <<b>> = <<a, b>> /\ <<a, b>> \in Seq(S)
<1>1. <<a>> \in Seq(S) /\ <<b>> \in Seq(S) /\ <<a, b>> \in Seq(S)
  OBVIOUS
<1>2. /\ <<a>> \o <<b>> \in Seq(S) /\ Len(<<a>> \o <<b>>) = 2
      /\ (<<a>> \o <<b>>)[1] = a /\ (<<a>> \o <<b>>)[2] = b
  <2>1. Len(<<a>>) = 1 /\ Len(<<b>>) = 1 /\ <<a>>[1] = a /\ <<b>>[1] = b
    OBVIOUS
  <2>2. <<a>> \in Seq(S) /\ <<b>> \in Seq(S)
    BY <1>1
  <2>3. /\ <<a>> \o <<b>> \in Seq(S)
        /\ Len(<<a>> \o <<b>>) = Len(<<a>>) + Len(<<b>>)
        /\ \A i \in 1 .. Len(<<a>>) + Len(<<b>>) :
               (<<a>> \o <<b>>)[i] = IF i <= Len(<<a>>) THEN <<a>>[i]
                                    ELSE <<b>>[i - Len(<<a>>)]
    BY <2>2, ConcatProperties
  <2> QED
    BY <2>1, <2>3
<1>3. Len(<<a, b>>) = 2 /\ <<a, b>>[1] = a /\ <<a, b>>[2] = b
  OBVIOUS
<1>4. \A i \in 1 .. 2 : (<<a>> \o <<b>>)[i] = <<a, b>>[i]
  BY <1>2, <1>3
<1> QED
  BY <1>1, <1>2, <1>3, <1>4, SeqEqual

\* A ControlResult before or after it changes nothing about that.
LEMMA OutcomeOnce ==
    ASSUME NEW d \in Devices, connected'[d], stateChr'[d] \in States,
           NEW o \in ControlOutcome
    PROVE  LET R == Heard(d, ResultEvent(o))
               P == Heard(d, StateEvent(stateChr'[d]))
           IN  HeardOnce(d, R \o P) /\ HeardOnce(d, P \o R)
<1> DEFINE R == Heard(d, ResultEvent(o))
           P == Heard(d, StateEvent(stateChr'[d]))
           r == ResultEvent(o)
<1>1. r \in Events /\ ~ IsPacket(r)
  BY ResultEventType DEF ResultEvent, IsPacket
<1>2. R \in Seq(Events) /\ (R = <<r>> \/ R = <<>>)
  BY <1>1, HeardType DEF Heard
<1>3. HeardOnce(d, P)
  BY StateOnce
<1>4. P = <<>> \/ P = <<StateEvent(stateChr'[d])>>
  BY DEF Heard
<1> HIDE DEF R, P, r
<1>5. CASE R = <<>>
  <2>1. R \o P = P /\ P \o R = P
    BY <1>3, <1>5, ConcatEmptySeq DEF HeardOnce
  <2> QED
    BY <1>3, <2>1 DEF R, P
<1>6. CASE R = <<r>> /\ P = <<>>
  <2>1. R \o P = R /\ P \o R = R
    BY <1>2, <1>6, ConcatEmptySeq
  <2>2. phase[d] \notin Listening
    BY <1>3, <1>6 DEF HeardOnce
  <2>3. \A q \in DOMAIN R : ~ IsPacket(R[q])
    BY <1>1, <1>6
  <2> QED
    BY <1>2, <2>1, <2>2, <2>3 DEF HeardOnce, R, P
<1>7. ASSUME R = <<r>>, NEW e, P = <<e>>
      PROVE  HeardOnce(d, R \o P) /\ HeardOnce(d, P \o R)
  <2>1. e \in Events
    <3>1. P \in Seq(Events)
      BY <1>3 DEF HeardOnce
    <3> QED
      BY <1>7, <3>1
  <2>2. /\ R \o P = <<r, e>> /\ P \o R = <<e, r>>
        /\ <<r, e>> \in Seq(Events) /\ <<e, r>> \in Seq(Events)
    BY <1>1, <1>7, <2>1, ConcatTwo
  <2>3. /\ phase[d] \in Listening => IsPacket(e) /\ e.state = stateChr'[d]
        /\ phase[d] \notin Listening => ~ IsPacket(e)
    BY <1>3, <1>7 DEF HeardOnce
  <2> QED
    BY <1>1, <2>2, <2>3 DEF HeardOnce
<1> QED
  BY <1>2, <1>4, <1>5, <1>6, <1>7 DEF R, P

\* The places that stay when the page takes the first event.
LEMMA TailPlaces ==
    ASSUME TypeOK, NEW d \in Devices, NEW kinds, Receive(d, kinds)
    PROVE  \A i \in Nat \ {0} : /\ i \in Places(d)' <=> i + 1 \in Places(d)
                                /\ i \in Places(d)' => Copy(d, i)' = Copy(d, i + 1)
<1> DEFINE q == inbox[d]
           r == inbox'[d]
<1>1. /\ Len(r) = Len(q) - 1 /\ Len(q) \in Nat
      /\ \A i \in 1 .. Len(q) - 1 : r[i] = q[i + 1]
  <2>1. Moves(d, 1, Len(q) - 1) /\ Len(r) = Len(q) - 1
    BY TailMoves
  <2> QED
    BY <2>1, InboxDomain DEF Moves
<1> HIDE DEF q, r
<1>2. /\ \A i : i \in Places(d) <=>
             i \in 0 .. Len(q) /\ IF i = 0 THEN Known(d) ELSE IsPacket(q[i])
      /\ \A i : i \in Places(d)' <=>
             i \in 0 .. Len(r) /\ IF i = 0 THEN Known(d)' ELSE IsPacket(r[i])
      /\ \A i : Copy(d, i) = IF i = 0 THEN entry[d].state ELSE q[i].state
      /\ \A i : Copy(d, i)' = IF i = 0 THEN entry'[d].state ELSE r[i].state
  BY DEF Places, Copy, q, r
<1> SUFFICES ASSUME NEW i \in Nat \ {0}
             PROVE  /\ i \in Places(d)' <=> i + 1 \in Places(d)
                    /\ i \in Places(d)' => Copy(d, i)' = Copy(d, i + 1)
  OBVIOUS
<1>3. /\ i # 0 /\ i + 1 # 0 /\ i \in 0 .. Len(r) <=> i + 1 \in 0 .. Len(q)
      /\ i \in 0 .. Len(r) => r[i] = q[i + 1]
  BY <1>1
<1> QED
  BY <1>2, <1>3

\* The page takes a packet that it applies, or has: the first copy in the
\* inbox becomes what it knows.
LEMMA TakeSync ==
    ASSUME TypeOK, TypeOK', NEW d \in Devices, ChannelInOrder, Synced(d),
           Receive(d, {"state", "read"}),
           Known(d)', entry'[d].state = Head(inbox[d]).state,
           seq'[d] = seq[d], stateChr'[d] = stateChr[d], missed'[d] = missed[d],
           faults' = faults, phase'[d] \in Listening,
           phase'[d] \in {"reading", "up"} => phase[d] \in {"reading", "up"}
    PROVE  Synced(d)'
<1>1. /\ IsPacket(inbox[d][1]) /\ inbox[d][1] = Head(inbox[d])
      /\ 1 \in DOMAIN inbox[d]
  BY PacketOnline
<1>2. /\ 1 \in Places(d) /\ 0 \in Places(d)'
      /\ Copy(d, 0)' = Copy(d, 1)
  <2>1. 1 \in 0 .. Len(inbox[d]) /\ Len(inbox'[d]) \in Nat
    BY <1>1, InboxDomain, LenProperties DEF TypeOK
  <2> QED
    BY <1>1, <2>1 DEF Places, Copy
<1>3. \A i \in Nat : /\ i \in Places(d)' <=> i + 1 \in Places(d)
                     /\ i \in Places(d)' => Copy(d, i)' = Copy(d, i + 1)
  <2>1. \A i \in Nat \ {0} :
            /\ i \in Places(d)' <=> i + 1 \in Places(d)
            /\ i \in Places(d)' => Copy(d, i)' = Copy(d, i + 1)
    BY TailPlaces
  <2>2. 0 + 1 = 1
    OBVIOUS
  <2> SUFFICES ASSUME NEW i \in Nat
               PROVE  /\ i \in Places(d)' <=> i + 1 \in Places(d)
                      /\ i \in Places(d)' => Copy(d, i)' = Copy(d, i + 1)
    OBVIOUS
  <2>3. CASE i = 0
    BY <1>2, <2>2, <2>3
  <2> QED
    BY <2>1, <2>3
<1>4. Places(d) \subseteq Nat /\ Places(d)' \subseteq Nat
  BY InboxDomain DEF Places
<1>5. PICK f : f = [i \in Places(d)' |-> i + 1]
  OBVIOUS
<1>6. f \in [Places(d)' -> Places(d)] /\ \A i \in Places(d)' : f[i] = i + 1
  BY <1>3, <1>4, <1>5
<1>7. \A i \in Places(d)' : Copy(d, i)' = Copy(d, f[i])
  BY <1>3, <1>4, <1>6
<1>8. \A i, j \in Places(d)' : i < j <=> f[i] < f[j]
  BY <1>4, <1>6
<1>9. \A i \in Places(d) : i # 0 => \E j \in Places(d)' : f[j] = i
  <2> SUFFICES ASSUME NEW i \in Places(d), i # 0
               PROVE  \E j \in Places(d)' : f[j] = i
    OBVIOUS
  <2>1. i - 1 \in Nat /\ (i - 1) + 1 = i
    BY <1>4
  <2>2. PICK j \in Nat : j + 1 = i
    BY <2>1
  <2> QED
    BY <1>3, <1>6, <2>2
<1>10. \A i \in Places(d) : After(d, i) = {} => i # 0
  BY <1>2 DEF After
<1>11. \A i \in Places(d)' : \A k \in After(d, f[i]) : k \in Places(d) /\ k # 0
  BY <1>4, <1>6 DEF After
<1>12. CopiesRecent(d)' /\ SeqsUnique(d)' /\ LastCurrent(d)'
  <2>1. faults <= faults'
    BY BoundsAssumption DEF TypeOK
  <2>2. \A i \in Places(d) : After(d, i) = {} => \E j \in Places(d)' : f[j] = i
    BY <1>9, <1>10
  <2>3. \A i \in Places(d)' : \A k \in After(d, f[i]) :
            \E j \in Places(d)' : f[j] = k
    BY <1>9, <1>11
  <2>4. CopiesRecent(d) /\ SeqsUnique(d) /\ LastCurrent(d)
    BY DEF Synced
  <2>5. phase'[d] \in {"reading", "up"} /\ ~ missed'[d]
            => phase[d] \in {"reading", "up"} /\ ~ missed[d]
    OBVIOUS
  <2> QED
    BY <1>6, <1>7, <1>8, <2>1, <2>2, <2>3, <2>4, <2>5, ShiftSync
<1>13. Len(inbox'[d]) <= InboxCap
  <2>1. Len(inbox'[d]) = Len(inbox[d]) - 1 /\ Len(inbox[d]) \in Nat
    BY TailMoves, InboxDomain
  <2> QED
    BY <2>1, BoundsAssumption DEF Synced
<1> QED
  BY <1>12, <1>13 DEF Synced

\* The page takes a result.
LEMMA ResultSync ==
    ASSUME TypeOK, TypeOK', NEW d \in Devices, Synced(d),
           Receive(d, {"result"}), SameKnown(d),
           seq'[d] = seq[d], stateChr'[d] = stateChr[d], missed'[d] = missed[d],
           faults' = faults, phase'[d] = phase[d]
    PROVE  Synced(d)'
<1>1. ~ IsPacket(inbox[d][1]) /\ 1 \in DOMAIN inbox[d]
  BY TailMoves, ReceiveType DEF IsPacket
<1>2. 1 \notin Places(d)
  BY <1>1 DEF Places
<1>3. \A i \in Nat \ {0} : /\ i \in Places(d)' <=> i + 1 \in Places(d)
                           /\ i \in Places(d)' => Copy(d, i)' = Copy(d, i + 1)
  BY TailPlaces
<1>4. Places(d) \subseteq Nat /\ Places(d)' \subseteq Nat
  BY InboxDomain DEF Places
<1>5. /\ 0 \in Places(d)' <=> 0 \in Places(d)
      /\ 0 \in Places(d) => Copy(d, 0)' = Copy(d, 0)
  <2>1. Len(inbox[d]) \in Nat /\ Len(inbox'[d]) \in Nat
    BY LenProperties DEF TypeOK
  <2> QED
    BY <2>1 DEF Places, Copy, SameKnown
<1>6. PICK f : f = [i \in Places(d)' |-> IF i = 0 THEN 0 ELSE i + 1]
  OBVIOUS
<1>7. /\ f \in [Places(d)' -> Places(d)]
      /\ \A i \in Places(d)' : f[i] = IF i = 0 THEN 0 ELSE i + 1
  BY <1>3, <1>4, <1>5, <1>6
<1>8. \A i \in Places(d)' : Copy(d, i)' = Copy(d, f[i])
  BY <1>3, <1>4, <1>5, <1>7
<1>9. \A i, j \in Places(d)' : i < j <=> f[i] < f[j]
  BY <1>4, <1>7
<1>10. \A i \in Places(d) : \E j \in Places(d)' : f[j] = i
  <2> SUFFICES ASSUME NEW i \in Places(d)
               PROVE  \E j \in Places(d)' : f[j] = i
    OBVIOUS
  <2>1. CASE i = 0
    BY <1>5, <1>7, <2>1
  <2>2. CASE i # 0
    <3>1. i - 1 \in Nat \ {0} /\ (i - 1) + 1 = i
      BY <1>2, <1>4, <2>2
    <3>2. PICK j \in Nat \ {0} : j + 1 = i
      BY <3>1
    <3>3. j \in Places(d)'
      BY <1>3, <3>2
    <3>4. f[j] = i
      BY <1>7, <3>2, <3>3
    <3> QED
      BY <3>3, <3>4
  <2> QED
    BY <2>1, <2>2
<1>11. \A i \in Places(d)' : \A k \in After(d, f[i]) : k \in Places(d)
  BY DEF After
<1>12. CopiesRecent(d)' /\ SeqsUnique(d)' /\ LastCurrent(d)'
  <2>1. faults <= faults'
    BY BoundsAssumption DEF TypeOK
  <2> QED
    BY <1>7, <1>8, <1>9, <1>10, <1>11, <2>1, ShiftSync DEF Synced
<1>13. Len(inbox'[d]) <= InboxCap
  <2>1. Len(inbox'[d]) = Len(inbox[d]) - 1 /\ Len(inbox[d]) \in Nat
    BY TailMoves, InboxDomain
  <2> QED
    BY <2>1, BoundsAssumption DEF Synced
<1>14. Places(d)' # {} => phase'[d] \in Listening
  BY <1>7 DEF Synced
<1> QED
  BY <1>12, <1>13, <1>14 DEF Synced

\* The radio loses the last event.
LEMMA LostSync ==
    ASSUME TypeOK, TypeOK', NEW d \in Devices, LoseNotification(d), Synced(d)
    PROVE  Synced(d)'
<1>1. /\ inbox'[d] = Front(inbox[d]) /\ inbox[d] # <<>>
      /\ Last(inbox[d]).kind \in {"state", "result"}
      /\ missed'[d] = (missed[d] \/ Last(inbox[d]).kind = "state")
      /\ faults' = faults + 1
      /\ seq' = seq /\ stateChr' = stateChr /\ phase' = phase /\ entry' = entry
  BY DEF LoseNotification, TypeOK, deviceVars, hostVars
<1>2. Moves(d, 0, Len(inbox[d]) - 1)
  BY <1>1, FrontMoves
<1> DEFINE q == inbox[d]
           r == inbox'[d]
           n == Len(q)
<1>3. n \in Nat /\ q \in Seq(Events) /\ n # 0
  BY <1>1, LenProperties, EmptySeq DEF TypeOK
<1>4. Len(r) = n - 1 /\ \A i \in 1 .. n - 1 : r[i] = q[i]
  BY <1>1, <1>3, SubSeqProperties, ElementOfSeq DEF Front
<1>5. SameKnown(d)
  BY <1>1, EntryKnown
<1>6. q[n].kind \in {"state", "result"}
      /\ missed'[d] = (missed[d] \/ q[n].kind = "state")
  BY <1>1 DEF Last
<1> HIDE DEF q, r, n
<1>7. /\ \A i : i \in Places(d) <=>
             i \in 0 .. n /\ IF i = 0 THEN Known(d) ELSE IsPacket(q[i])
      /\ \A i : i \in Places(d)' <=>
             i \in 0 .. Len(r) /\ IF i = 0 THEN Known(d)' ELSE IsPacket(r[i])
      /\ \A i : Copy(d, i) = IF i = 0 THEN entry[d].state ELSE q[i].state
      /\ \A i : Copy(d, i)' = IF i = 0 THEN entry'[d].state ELSE r[i].state
  BY DEF Places, Copy, q, r, n
<1>8. ASSUME NEW i PROVE i \in Places(d)' <=> i \in Places(d) \ {n}
  <2>1. CASE i = 0
    BY <1>3, <1>4, <1>5, <1>7, <2>1 DEF SameKnown
  <2>2. CASE i # 0
    <3>1. i \in 0 .. Len(r) <=> i \in 0 .. n /\ i # n
      BY <1>3, <1>4
    <3>2. i \in 0 .. Len(r) => r[i] = q[i]
      BY <1>3, <1>4, <2>2
    <3> QED
      BY <1>7, <2>2, <3>1, <3>2
  <2> QED
    BY <2>1, <2>2
<1>9. ASSUME NEW i \in Places(d)' PROVE Copy(d, i)' = Copy(d, i)
  <2>1. CASE i = 0
    BY <1>1, <1>7, <2>1
  <2>2. CASE i # 0
    <3>1. i \in 1 .. n - 1
      BY <1>3, <1>4, <1>7, <1>9, <2>2
    <3> QED
      BY <1>4, <1>7, <2>2, <3>1
  <2> QED
    BY <2>1, <2>2
<1>10. n \in Places(d) => missed'[d]
  BY <1>3, <1>6, <1>7 DEF IsPacket, TypeOK
<1>11. Places(d)' = Places(d) \ {n}
  BY <1>8
<1>12. missed[d] => missed'[d]
  BY <1>6
<1>13. CopiesRecent(d) /\ SeqsUnique(d) /\ LastCurrent(d)
  BY DEF Synced
<1>14. CopiesRecent(d)' /\ SeqsUnique(d)' /\ LastCurrent(d)'
  BY <1>1, <1>9, <1>10, <1>11, <1>12, <1>13, LoseSync
<1>15. Len(inbox'[d]) <= InboxCap
  <2>1. Len(inbox[d]) <= InboxCap /\ Len(inbox'[d]) = Len(inbox[d]) - 1
    BY <1>4 DEF Synced, q, r, n
  <2> QED
    BY <1>3, <2>1, BoundsAssumption DEF n
<1> QED
  BY <1>1, <1>11, <1>14, <1>15 DEF Synced

\* The answer of the read is one more copy of the characteristic.
LEMMA AnswerSync ==
    ASSUME TypeOK, TypeOK', PacketsInOrder, NEW d \in Devices, AnswerRead(d),
           Synced(d)
    PROVE  Synced(d)'
<1> DEFINE e == [kind |-> "read", state |-> stateChr[d]]
<1>1. /\ e \in Events /\ IsPacket(e) /\ e.state = stateChr[d]
  BY ReadEventType DEF TypeOK, IsPacket
<1>2. /\ inbox'[d] = Append(inbox[d], e) /\ Len(inbox[d]) < InboxCap
      /\ phase'[d] = "reading" /\ entry' = entry /\ seq' = seq
      /\ stateChr' = stateChr /\ faults' = faults
  BY DEF AnswerRead, TypeOK, deviceVars, hostVars, budgetVars
<1> HIDE DEF e
<1>3. inbox'[d] = inbox[d] \o <<e>> /\ <<e>> \in Seq(Events)
  BY <1>1, <1>2, AppendIsConcat DEF TypeOK
<1>4. SameKnown(d)
  BY <1>2, EntryKnown
<1>5. PICK heard \in Seq(Events) : heard = <<e>>
  BY <1>3
<1>6. /\ Len(heard) = 1 /\ DOMAIN heard = {1} /\ heard[1] = e
      /\ inbox'[d] = inbox[d] \o heard
  BY <1>3, <1>5
<1>7. PICK n \in Nat : /\ n = Len(inbox[d]) + 1
                       /\ n \in Places(d)' /\ n \notin Places(d)
                       /\ Copy(d, n)' = heard[1].state
                       /\ \A i \in Places(d) : i < n
  BY <1>1, <1>4, <1>6, AppendPlaces
<1>8. \A i \in Places(d) : i \in Places(d)' /\ Copy(d, i)' = Copy(d, i)
  BY <1>4, <1>6, AppendPlaces
<1>9. \A i \in Places(d)' \ Places(d) : i = n
  <2> SUFFICES ASSUME NEW i \in Places(d)', i \notin Places(d) PROVE i = n
    OBVIOUS
  <2>1. i - Len(inbox[d]) \in DOMAIN heard
    BY <1>4, <1>6, AppendPlaces
  <2>2. i \in Int /\ Len(inbox[d]) \in Int
    BY PlaceFactsNext, PlaceFacts DEF PlacesTyped
  <2> QED
    BY <1>6, <1>7, <2>1, <2>2
<1>10. Grows(d, n)
  BY <1>1, <1>2, <1>6, <1>7, <1>8, <1>9 DEF Grows
<1>11. stateChr'[d].seq = seq'[d]
  <2>1. stateChr[d] = ButtonState(d)
    BY DEF PacketsInOrder
  <2>2. stateChr[d].seq = seq[d]
    BY <2>1 DEF ButtonState
  <2> QED
    BY <1>2, <2>2
<1>12. Len(inbox'[d]) <= InboxCap
  <2>1. Len(inbox'[d]) = Len(inbox[d]) + 1 /\ Len(inbox[d]) \in Nat
    BY <1>4, <1>6, AppendPlaces, InboxDomain
  <2> QED
    BY <1>2, <2>1, BoundsAssumption
<1>13. CopiesRecent(d)' /\ SeqsUnique(d)' /\ LastCurrent(d)'
  BY <1>2, <1>10, <1>11, GrowSync DEF Synced
<1> QED
  BY <1>2, <1>12, <1>13 DEF Synced, Listening

(***************************************************************************)
(* Every step.                                                             *)
(***************************************************************************)

\* A step that is not about d.
Elsewhere(d) ==
    /\ inbox'[d] = inbox[d] /\ entry'[d] = entry[d] /\ phase'[d] = phase[d]
    /\ seq'[d] = seq[d] /\ stateChr'[d] = stateChr[d]
    /\ missed'[d] = missed[d]
    /\ connected'[d] => connected[d]
    /\ faults' \in {faults, faults + 1}

LEMMA ElsewhereSync ==
    ASSUME TypeOK, TypeOK', NEW d \in Devices, Elsewhere(d),
           connected'[d], connected[d] => Synced(d)
    PROVE  Synced(d)'
<1>1. faults <= faults'
  BY BoundsAssumption DEF TypeOK, Elsewhere
<1> QED
  BY <1>1, SameSync, EntryKnown DEF Elsewhere

\* The steps of one device leave the others alone.
LEMMA DeviceElsewhere ==
    ASSUME TypeOK, NEW a \in Devices, DeviceStep(a), NEW d \in Devices \ {a}
    PROVE  Elsewhere(d)
<1>1. ASSUME NEW heard, publishState(a), Notify(a, heard)
      PROVE  /\ inbox'[d] = inbox[d] /\ seq'[d] = seq[d]
             /\ stateChr'[d] = stateChr[d] /\ missed'[d] = missed[d]
  BY <1>1 DEF publishState, Notify, TypeOK
<1>2. CASE ButtonDown(a) \/ ButtonUp(a) \/ heartbeat(a)
  BY <1>1, <1>2 DEF ButtonDown, ButtonUp, heartbeat, PublishAndNotify,
                    hostVars, budgetVars, Elsewhere
<1>3. CASE LongHoldReset(a) \/ onWrite(a)
  <2>1. PICK o : applyControlOutcome(a, o)
    BY <1>3 DEF LongHoldReset, onWrite
  <2>2. publishState(a) /\ \E heard : Notify(a, heard)
    BY <2>1 DEF applyControlOutcome
  <2> QED
    BY <1>1, <1>3, <2>2 DEF LongHoldReset, onWrite, hostVars, budgetVars,
                            Elsewhere
<1>4. CASE ForeignControl(a)
  BY <1>4 DEF ForeignControl, publishState, channelVars, hostVars, Elsewhere,
              TypeOK
<1>5. CASE Reboot(a)
  <2>1. inbox'[d] = inbox[d]
    BY <1>5 DEF Reboot, EndConnection, TypeOK
  <2> QED
    BY <1>5, <2>1 DEF Reboot, hostVars, Elsewhere, TypeOK
<1> QED
  BY <1>2, <1>3, <1>4, <1>5 DEF DeviceStep

LEMMA ConnectionElsewhere ==
    ASSUME TypeOK, NEW a \in Devices, ConnectionStep(a),
           NEW d \in Devices \ {a}
    PROVE  Elsewhere(d)
<1>1. CASE GattConnect(a)
  BY <1>1 DEF GattConnect, publishState, hostVars, budgetVars, Elsewhere,
              TypeOK
<1>2. CASE CreateEntry(a)
  BY <1>2 DEF CreateEntry, deviceVars, budgetVars, Elsewhere, TypeOK
<1>3. CASE SubscribeResult(a) \/ SubscribeState(a)
  BY <1>3 DEF SubscribeResult, SubscribeState, deviceVars, hostVars,
              budgetVars, Elsewhere, TypeOK
<1>4. CASE AnswerRead(a)
  BY <1>4 DEF AnswerRead, deviceVars, hostVars, budgetVars, Elsewhere, TypeOK
<1>5. CASE LoseNotification(a)
  BY <1>5 DEF LoseNotification, deviceVars, hostVars, Elsewhere, TypeOK
<1>6. CASE Drop(a)
  <2>1. inbox'[d] = inbox[d]
    BY <1>6 DEF Drop, EndConnection, TypeOK
  <2> QED
    BY <1>6, <2>1 DEF Drop, hostVars, Elsewhere, TypeOK
<1> QED
  BY <1>1, <1>2, <1>3, <1>4, <1>5, <1>6 DEF ConnectionStep

LEMMA HostElsewhere ==
    ASSUME TypeOK, NEW a \in Devices, HostStep(a), NEW d \in Devices \ {a}
    PROVE  Elsewhere(d)
<1>1. CASE ApplyState(a) \/ IgnoreState(a)
  <2>1. phase'[d] = phase[d]
    BY <1>1 DEF ApplyState, IgnoreState, ReadDone, TypeOK
  <2>2. entry'[d] = entry[d]
    BY <1>1 DEF ApplyState, IgnoreState, TypeOK
  <2> QED
    BY <1>1, <2>1, <2>2 DEF ApplyState, IgnoreState, Receive, deviceVars,
                            budgetVars, Elsewhere, TypeOK
<1>2. CASE HostDisconnected(a)
  BY <1>2, GoneOthers DEF HostDisconnected, Receive, deviceVars, budgetVars,
                          Elsewhere, TypeOK
<1>3. CASE DeliverResult(a)
  BY <1>3 DEF DeliverResult, Receive, deviceVars, budgetVars, Elsewhere,
              TypeOK
<1>4. CASE WriteDone(a) \/ WriteFail(a) \/ Timeout(a)
  BY <1>4 DEF WriteDone, WriteFail, Timeout, deviceVars, channelVars,
              budgetVars, Elsewhere
<1>5. CASE \/ linkAsSlot(a) \/ unlinkDevice(a) \/ setArmed(a)
           \/ identifyDevice(a)
  BY <1>5 DEF linkAsSlot, unlinkDevice, setArmed, identifyDevice, Command,
              deviceVars, Elsewhere
<1>6. CASE Expire(a)
  BY <1>6 DEF Expire, deviceVars, channelVars, budgetVars, Elsewhere, TypeOK
<1> QED
  BY <1>1, <1>2, <1>3, <1>4, <1>5, <1>6 DEF HostStep

\* The handlers of a connected device publish, and the page hears it.
LEMMA DeviceSync ==
    ASSUME TypeOK, TypeOK', NEW d \in Devices, DeviceStep(d), connected'[d],
           connected[d] => Synced(d)
    PROVE  Synced(d)'
<1>1. stateChr'[d] \in States
  BY DEF TypeOK
<1>2. CASE ButtonDown(d) \/ ButtonUp(d) \/ heartbeat(d)
  <2>1. /\ publishState(d) /\ Notify(d, Heard(d, StateEvent(stateChr'[d])))
        /\ UNCHANGED <<connected, entry, phase, faults>>
    BY <1>2 DEF ButtonDown, ButtonUp, heartbeat, PublishAndNotify, hostVars,
                budgetVars
  <2> QED
    BY <1>1, <2>1, StateOnce, PublishSync
<1>3. CASE LongHoldReset(d) \/ onWrite(d)
  <2>1. PICK o \in ControlOutcome : applyControlOutcome(d, o)
    <3>1. CASE LongHoldReset(d)
      <4>1. makeClear(link[d], "FACTORY_RESET_LINK") \in ControlOutcome
        BY ClearType DEF TypeOK, Commands
      <4> QED
        BY <3>1, <4>1 DEF LongHoldReset
    <3>2. CASE onWrite(d)
      <4>1. write[d] \in [packet: Packets, handled: BOOLEAN]
        BY <3>2 DEF TypeOK, onWrite
      <4>2. evaluateControl(write[d].packet, link[d]) \in ControlOutcome
        BY <4>1, EvaluateType DEF TypeOK
      <4> QED
        BY <3>2, <4>2 DEF onWrite
    <3> QED
      BY <1>3, <3>1, <3>2
  <2>2. UNCHANGED <<connected, entry, phase, faults>>
    BY <1>3 DEF LongHoldReset, onWrite, hostVars, budgetVars
  <2>3. PICK heard :
          /\ Notify(d, heard)
          /\ heard = IF Emissions(o) = <<"R", "P">>
                     THEN Heard(d, ResultEvent(o))
                            \o Heard(d, StateEvent(stateChr'[d]))
                     ELSE Heard(d, StateEvent(stateChr'[d]))
                            \o Heard(d, ResultEvent(o))
    BY <2>1 DEF applyControlOutcome
  <2>4. HeardOnce(d, heard)
    BY <1>1, <2>3, OutcomeOnce
  <2>5. publishState(d)
    BY <2>1 DEF applyControlOutcome
  <2> QED
    BY <2>2, <2>3, <2>4, <2>5, PublishSync
<1>4. CASE ForeignControl(d)
  BY <1>4 DEF ForeignControl
<1>5. CASE Reboot(d)
  BY <1>5 DEF Reboot, TypeOK
<1> QED
  BY <1>2, <1>3, <1>4, <1>5 DEF DeviceStep

\* A page that does not listen has found nothing yet.
LEMMA DeafSync ==
    ASSUME TypeOK', NEW d \in Devices, phase'[d] \notin Listening,
           Len(inbox'[d]) <= InboxCap, ~ Known(d)',
           \A i \in DOMAIN inbox'[d] : ~ IsPacket(inbox'[d][i])
    PROVE  Synced(d)'
<1>1. Len(inbox'[d]) \in Nat /\ DOMAIN inbox'[d] = 1 .. Len(inbox'[d])
  BY LenProperties DEF TypeOK
<1>2. Places(d)' = {}
  BY <1>1 DEF Places
<1> QED
  BY <1>2, NoPlacesSync DEF Synced, Listening

\* A connection is made and set up.
LEMMA ConnectionSync ==
    ASSUME TypeOK, TypeOK', EntryFollowsConnection, ChannelInOrder,
           PacketsInOrder, NEW d \in Devices, ConnectionStep(d), connected'[d],
           connected[d] => Synced(d)
    PROVE  Synced(d)'
<1>1. CASE GattConnect(d)
  <2>1. /\ inbox' = inbox /\ entry' = entry /\ phase'[d] = "gatt"
        /\ phase[d] = "off" /\ ~ Online(d)
    BY <1>1 DEF GattConnect, hostVars, TypeOK
  <2>2. inbox[d] = <<>> /\ ~ Known(d)'
    BY <2>1 DEF ChannelInOrder, Known, Online
  <2>3. Len(inbox'[d]) <= InboxCap /\ DOMAIN inbox'[d] = {}
    BY <2>1, <2>2, BoundsAssumption
  <2> QED
    BY <2>1, <2>2, <2>3, DeafSync DEF Listening
<1>2. CASE CreateEntry(d)
  <2> DEFINE e == [connected |-> TRUE, state |-> None, fresh |-> FALSE]
  <2>1. /\ inbox' = inbox /\ phase'[d] = "entry" /\ phase[d] = "gatt"
        /\ connected' = connected /\ entry'[d] = e
    BY <1>2 DEF CreateEntry, deviceVars, TypeOK
  <2>2. ~ Known(d)'
    <3>1. e.state = None
      OBVIOUS
    <3> HIDE DEF e
    <3> QED
      BY <2>1, <3>1 DEF Known
  <2>3. \A i \in DOMAIN inbox[d] : ~ IsPacket(inbox[d][i])
    BY <2>1 DEF ChannelInOrder, Listening
  <2>4. Len(inbox[d]) <= InboxCap
    BY <2>1 DEF Synced
  <2> QED
    BY <2>1, <2>2, <2>3, <2>4, DeafSync DEF Listening
<1>3. CASE SubscribeResult(d) \/ SubscribeState(d)
  <2>1. /\ UNCHANGED <<connected, inbox, entry, seq, stateChr, missed, faults>>
        /\ \/ phase[d] = "entry" /\ phase'[d] = "results"
           \/ phase[d] = "results" /\ phase'[d] = "states"
    BY <1>3 DEF SubscribeResult, SubscribeState, deviceVars, hostVars,
                budgetVars, TypeOK
  <2>2. faults <= faults'
    BY <2>1, BoundsAssumption DEF TypeOK
  <2> QED
    BY <2>1, <2>2, SameSync, EntryKnown DEF Listening
<1>4. CASE AnswerRead(d)
  BY <1>4, AnswerSync DEF AnswerRead
<1>5. CASE LoseNotification(d)
  BY <1>5, LostSync DEF LoseNotification, deviceVars
<1>6. CASE Drop(d)
  BY <1>6 DEF Drop, TypeOK
<1> QED
  BY <1>1, <1>2, <1>3, <1>4, <1>5, <1>6 DEF ConnectionStep

\* The page takes a packet.  It drops none but the one it has: equal seqs
\* stand for the same packet.
LEMMA PacketSync ==
    ASSUME TypeOK, TypeOK', ChannelInOrder, ReadAsked, NEW d \in Devices,
           ApplyState(d) \/ IgnoreState(d), Synced(d)
    PROVE  Synced(d)'
<1>1. /\ Receive(d, {"state", "read"}) /\ ReadDone(d)
      /\ UNCHANGED <<seq, stateChr, missed, faults>>
  BY DEF ApplyState, IgnoreState, deviceVars, budgetVars
<1>2. /\ Online(d) /\ phase[d] \in Listening /\ IsPacket(inbox[d][1])
      /\ inbox[d][1] = Head(inbox[d]) /\ 1 \in DOMAIN inbox[d]
      /\ Head(inbox[d]).state \in States
  BY <1>1, PacketOnline
<1>3. /\ phase'[d] \in Listening
      /\ phase'[d] \in {"reading", "up"} => phase[d] \in {"reading", "up"}
  <2>1. CASE Head(inbox[d]).kind = "read"
    <3>1. phase[d] \in {"reading", "up"}
      BY <1>2, <2>1 DEF ReadAsked
    <3>2. phase'[d] = "up"
      BY <1>1, <2>1 DEF ReadDone, TypeOK
    <3> QED
      BY <3>1, <3>2 DEF Listening
  <2>2. CASE Head(inbox[d]).kind # "read"
    BY <1>1, <1>2, <2>2 DEF ReadDone
  <2> QED
    BY <2>1, <2>2
<1>4. Known(d)' /\ entry'[d].state = Head(inbox[d]).state
  <2>1. CASE ApplyState(d)
    <3>1. Known(d)' /\ entry'[d].state \in States
      BY <2>1, ApplyLearned
    <3>2. entry'[d] = [entry[d] EXCEPT !.state = Head(inbox[d]).state,
                                       !.fresh = TRUE]
      BY <2>1 DEF ApplyState, TypeOK
    <3>3. entry[d] \in Entries
      BY <1>2 DEF Online, TypeOK
    <3>4. entry'[d].state = Head(inbox[d]).state
      BY <3>2, <3>3 DEF Entries
    <3> QED
      BY <3>1, <3>4
  <2>2. CASE IgnoreState(d)
    <3>1. /\ entry' = entry /\ entry[d].state # None
          /\ entry[d].state.seq = Head(inbox[d]).state.seq
      BY <2>2 DEF IgnoreState, IsDuplicate
    <3>2. Known(d)
      BY <1>2, <3>1 DEF Known
    <3>3. 0 \in Places(d) /\ 1 \in Places(d)
      <4>1. Len(inbox[d]) \in Nat /\ DOMAIN inbox[d] = 1 .. Len(inbox[d])
        BY InboxDomain
      <4> QED
        BY <1>2, <3>2, <4>1 DEF Places
    <3>4. Copy(d, 0) = entry[d].state /\ Copy(d, 1) = Head(inbox[d]).state
      BY <1>2 DEF Copy
    <3>5. entry[d].state = Head(inbox[d]).state
      BY <3>1, <3>3, <3>4 DEF Synced, SeqsUnique
    <3> QED
      BY <3>1, <3>2, <3>5 DEF Known, Online
  <2> QED
    BY <2>1, <2>2
<1> QED
  BY <1>1, <1>3, <1>4, TakeSync

\* The page takes a packet, a result or the end of the connection, or does
\* what has nothing to do with the inbox.
LEMMA HostSync ==
    ASSUME TypeOK, TypeOK', ChannelInOrder, ReadAsked, NEW d \in Devices,
           HostStep(d), connected'[d], connected[d] => Synced(d)
    PROVE  Synced(d)'
<1>1. UNCHANGED connected /\ Synced(d)
  BY DEF HostStep, ApplyState, IgnoreState, HostDisconnected, DeliverResult,
         WriteDone, WriteFail, Timeout, linkAsSlot, unlinkDevice, setArmed,
         identifyDevice, Command, Expire, deviceVars
<1>2. CASE ApplyState(d) \/ IgnoreState(d)
  BY <1>1, <1>2, PacketSync
<1>3. CASE HostDisconnected(d)
  <2>1. ~ connected[d]
    BY <1>3, GoneLast DEF HostDisconnected
  <2> QED
    BY <1>1, <2>1
<1>4. CASE DeliverResult(d)
  <2>1. /\ Receive(d, {"result"})
        /\ UNCHANGED <<entry, seq, stateChr, missed, faults, phase>>
    BY <1>4 DEF DeliverResult, deviceVars, budgetVars
  <2>2. SameKnown(d)
    BY <2>1, EntryKnown
  <2> QED
    BY <1>1, <2>1, <2>2, ResultSync
<1>5. CASE WriteDone(d) \/ WriteFail(d) \/ Timeout(d)
  <2>1. Elsewhere(d)
    BY <1>5 DEF WriteDone, WriteFail, Timeout, deviceVars, channelVars,
                budgetVars, Elsewhere
  <2> QED
    BY <1>1, <2>1, ElsewhereSync
<1>6. CASE \/ linkAsSlot(d) \/ unlinkDevice(d) \/ setArmed(d)
           \/ identifyDevice(d)
  <2>1. Elsewhere(d)
    BY <1>6 DEF linkAsSlot, unlinkDevice, setArmed, identifyDevice, Command,
                deviceVars, Elsewhere
  <2> QED
    BY <1>1, <2>1, ElsewhereSync
<1>7. CASE Expire(d)
  <2>1. /\ entry[d] # None /\ entry'[d] = [entry[d] EXCEPT !.fresh = FALSE]
        /\ UNCHANGED <<inbox, seq, stateChr, missed, faults, phase>>
    BY <1>7 DEF Expire, deviceVars, channelVars, budgetVars, TypeOK
  <2>2. entry[d] \in Entries
    BY <2>1 DEF TypeOK
  <2>3. /\ entry'[d] \in Entries /\ entry'[d].connected = entry[d].connected
        /\ entry'[d].state = entry[d].state
    BY <2>1, <2>2 DEF Entries
  <2>4. SameKnown(d)
    BY <2>1, <2>3, NoneAssumption DEF SameKnown, Known, Online
  <2>5. faults <= faults'
    BY <2>1, BoundsAssumption DEF TypeOK
  <2> QED
    BY <1>1, <2>1, <2>4, <2>5, SameSync
<1> QED
  BY <1>2, <1>3, <1>4, <1>5, <1>6, <1>7 DEF HostStep

\* Only a connection that is being read or up has an answer on its way.
LEMMA KeepReadAsked ==
    ASSUME TypeOK, TypeOK', EntryFollowsConnection, ChannelInOrder, ReadAsked,
           [Next]_vars
    PROVE  ReadAsked'
<1> SUFFICES ASSUME NEW d \in Devices, NEW i \in DOMAIN inbox'[d],
                    inbox'[d][i].kind = "read"
             PROVE  phase'[d] \in {"reading", "up"}
  BY DEF ReadAsked
<1>1. Linked(d)
  BY NextLinked
<1>2. PICK k \in {0, 1}, m \in Nat : Moves(d, k, m)
  BY NextMoves DEF InboxMoves
<1>3. i \in Nat
  BY LenProperties DEF TypeOK
<1>4. CASE i <= m
  <2>1. phase[d] \in {"reading", "up"}
    BY <1>2, <1>4, MovesOld DEF ReadAsked
  <2>2. phase'[d] # "off"
    <3>1. phase'[d] = "off" => inbox'[d] = <<>>
      BY <1>1 DEF Linked
    <3> QED
      BY <3>1
  <2> QED
    BY <1>1, <2>1, <2>2 DEF Linked
<1>5. CASE i > m
  BY <1>2, <1>5, MovesNew DEF New, Gone
<1> QED
  BY <1>3, <1>4, <1>5

\* Every step keeps it.
LEMMA NextSync ==
    ASSUME TypeOK, TypeOK', EntryFollowsConnection, ActiveInv, SyncInv,
           [Next]_vars
    PROVE  SyncInv'
<1>1. ChannelInOrder /\ PacketsInOrder /\ ReadAsked
  BY DEF ActiveInv, SyncInv
<1>2. ReadAsked'
  BY <1>1, KeepReadAsked
<1>3. ASSUME NEW d \in Devices, connected'[d] PROVE Synced(d)'
  <2>0. connected[d] => Synced(d)
    BY DEF SyncInv
  <2>1. CASE Elsewhere(d)
    BY <1>3, <2>0, <2>1, ElsewhereSync
  <2>2. ASSUME NEW a \in Devices, DeviceStep(a) PROVE Synced(d)'
    BY <1>3, <2>0, <2>1, <2>2, DeviceSync, DeviceElsewhere
  <2>3. ASSUME NEW a \in Devices, ConnectionStep(a) PROVE Synced(d)'
    BY <1>1, <1>3, <2>0, <2>1, <2>3, ConnectionSync, ConnectionElsewhere
  <2>4. ASSUME NEW a \in Devices, HostStep(a) PROVE Synced(d)'
    BY <1>1, <1>3, <2>0, <2>1, <2>4, HostSync, HostElsewhere
  <2>5. CASE PageStep
    <3>1. CASE PageReload
      BY <1>3, <3>1 DEF PageReload
    <3>2. CASE NewGroup \/ ResetActive \/ Tick
      BY <2>1, <3>2 DEF NewGroup, ResetActive, Tick, Elsewhere, deviceVars,
                        channelVars, budgetVars
    <3> QED
      BY <2>5, <3>1, <3>2 DEF PageStep
  <2>6. CASE UNCHANGED vars
    BY <2>1, <2>6 DEF vars, deviceVars, channelVars, hostVars, budgetVars,
                      Elsewhere
  <2> QED
    BY <2>2, <2>3, <2>4, <2>5, <2>6 DEF Next
<1> QED
  BY <1>2, <1>3 DEF SyncInv

(***************************************************************************)
(* The theorems.                                                           *)
(***************************************************************************)

\* At the start nothing is connected.
LEMMA InitSync == Init => SyncInv
BY DEF Init, InitIdle, SyncInv, ReadAsked

\* What a page can find of a connected device is recent, told apart by seq,
\* and ends with the characteristic: always.
THEOREM SyncInvariant == Spec => []SyncInv
<1>1. TypeOK /\ EntryFollowsConnection /\ ActiveInv /\ SyncInv /\ [Next]_vars
        => SyncInv'
  BY NextType, NextSync
<1> QED
  BY <1>1, InitSync, TypeCorrect, ActiveInvariant, PTL DEF Spec

\* A connection that is up, with nothing on its way and the last packet not
\* lost, shows the page the device as it is.
THEOREM PageIsInSync == Spec => []InSync
<1>1. TypeOK /\ ActiveInv /\ SyncInv => InSync
  <2> SUFFICES ASSUME TypeOK, ActiveInv, SyncInv,
                      NEW d \in Devices, phase[d] = "up", connected[d],
                      inbox[d] = <<>>, ~ missed[d]
               PROVE  /\ entry[d].connected /\ entry[d].state # None
                      /\ entry[d].state.pressed = pressed[d]
                      /\ entry[d].state.armed = link[d].armed
                      /\ entry[d].state.group = link[d].group
                      /\ entry[d].state.slot = link[d].slot
    BY DEF InSync
  <2>1. PICK i \in Places(d) : Copy(d, i) = stateChr[d]
    BY DEF SyncInv, Synced, LastCurrent
  <2>2. i = 0
    <3>1. Len(inbox[d]) = 0
      OBVIOUS
    <3> QED
      BY <3>1 DEF Places
  <2>3. Known(d) /\ entry[d].state = stateChr[d]
    BY <2>1, <2>2 DEF Places, Copy
  <2>4. stateChr[d] = ButtonState(d)
    BY DEF ActiveInv, PacketsInOrder
  <2>5. /\ stateChr[d].pressed = pressed[d]
        /\ stateChr[d].armed = link[d].armed
        /\ stateChr[d].group = link[d].group
        /\ stateChr[d].slot = link[d].slot
    BY <2>4 DEF ButtonState
  <2> QED
    BY <2>3, <2>5 DEF Known, Online
<1> QED
  BY <1>1, TypeCorrect, ActiveInvariant, SyncInvariant, PTL
=============================================================================
