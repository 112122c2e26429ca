------------------------- MODULE LinkControlProofs -------------------------
(***************************************************************************)
(* What evaluateControl() guarantees for every packet and link state.      *)
(***************************************************************************)
EXTENDS LinkControl, TLAPS

\* The next generation is a generation.
LEMMA RelinkType ==
    ASSUME NEW current \in LinkState, NEW group \in GroupIds,
           NEW slot \in Slots \cup {0}
    PROVE  /\ Relink(current, group, slot) \in LinkState
           /\ Relink(current, group, slot).group = group
           /\ Relink(current, group, slot).slot = slot
           /\ Relink(current, group, slot).armed = current.armed
           /\ Relink(current, group, slot).gen = (current.gen + 1) % GenMod
<1>1. (current.gen + 1) % GenMod \in 0 .. GenMod - 1
  BY GenModAssumption DEF LinkState
<1> QED
  BY <1>1 DEF LinkState, Relink

\* A reject is an outcome, and changes nothing.
LEMMA RejectType ==
    ASSUME NEW current \in LinkState,
           NEW cmd \in Commands \cup {"unknown", "undecodable"},
           NEW aux \in 0 .. 7
    PROVE  makeReject(current, cmd, aux) \in ControlOutcome
BY DEF makeReject, ControlOutcome, Orders

\* An accepted command that leaves the link alone has an outcome.
LEMMA AcceptType ==
    ASSUME NEW current \in LinkState,
           NEW cmd \in Commands \cup {"unknown", "undecodable"},
           NEW type \in {"State", "Link", "Error"}, NEW blink \in BOOLEAN,
           NEW order \in Orders
    PROVE  Accept(current, cmd, type, blink, order) \in ControlOutcome
BY DEF Accept, ControlOutcome

\* Clearing the link is an outcome.
LEMMA ClearType ==
    ASSUME NEW current \in LinkState, NEW cmd \in Commands
    PROVE  makeClear(current, cmd) \in ControlOutcome
<1> DEFINE S == Relink(current, NoGroup, 0)
<1>1. S \in LinkState
  BY RelinkType DEF GroupIds
<1> HIDE DEF S
<1>2. Accept(S, cmd, "Link", TRUE, "BlinkPublishResult") \in ControlOutcome
  BY <1>1, AcceptType DEF Orders
<1>3. makeClear(current, cmd) =
        [Accept(S, cmd, "Link", TRUE, "BlinkPublishResult")
            EXCEPT !.persist = TRUE]
  BY DEF makeClear, S
<1> QED
  BY <1>2, <1>3 DEF ControlOutcome

\* evaluateControl() is total: every packet, in every link state, has an
\* outcome of the declared shape.
THEOREM EvaluateType ==
    ASSUME NEW p \in Packets, NEW current \in LinkState
    PROVE  evaluateControl(p, current) \in ControlOutcome
<1>0. p.command \in Commands \cup {"undecodable", "unknown"}
      /\ p.slot \in Slots \cup {0, 3} /\ p.flag0 \in BOOLEAN /\ p.group \in GroupIds
  BY DEF Packets
<1>1. CASE p.command = "LINK"
  <2>1. EvaluateLink(p, current) \in ControlOutcome
    <3> DEFINE S == Relink(current, p.group, p.slot)
               A == Accept(S, "LINK", "Link", TRUE, "ResultBlinkPublish")
    <3>1. ASSUME p.slot \in Slots PROVE [A EXCEPT !.persist = TRUE] \in ControlOutcome
      <4>1. S \in LinkState
        BY <1>0, <3>1, RelinkType
      <4> HIDE DEF S
      <4>2. A \in ControlOutcome
        BY <4>1, AcceptType DEF Orders, Commands
      <4> QED
        BY <4>2 DEF ControlOutcome
    <3>2. \A aux \in 0 .. 7 : makeReject(current, "LINK", aux) \in ControlOutcome
      BY RejectType DEF Commands
    <3> QED
      BY <3>1, <3>2 DEF EvaluateLink
  <2> QED
    BY <1>1, <2>1 DEF evaluateControl
<1>2. CASE p.command = "UNLINK"
  <2>1. EvaluateUnlink(p, current) \in ControlOutcome
    <3>1. Accept(current, "UNLINK", "Link", FALSE, "ResultPublishBlink") \in ControlOutcome
      BY AcceptType DEF Commands, Orders
    <3>2. makeReject(current, "UNLINK", 5) \in ControlOutcome
      BY RejectType DEF Commands
    <3>3. makeClear(current, "UNLINK") \in ControlOutcome
      BY ClearType DEF Commands
    <3> QED
      BY <3>1, <3>2, <3>3 DEF EvaluateUnlink
  <2> QED
    BY <1>2, <2>1 DEF evaluateControl
<1>3. CASE p.command = "SET_ARMED"
  <2>1. [current EXCEPT !.armed = p.flag0] \in LinkState
    BY <1>0 DEF LinkState
  <2>2. EvaluateSetArmed(p, current) \in ControlOutcome
    BY <2>1, AcceptType DEF EvaluateSetArmed, Commands, Orders
  <2> QED
    BY <1>3, <2>2 DEF evaluateControl
<1>4. CASE p.command = "IDENTIFY"
  <2>1. Accept(current, "IDENTIFY", "State", TRUE, "ResultBlinkPublish") \in ControlOutcome
    BY AcceptType DEF Commands, Orders
  <2> QED
    BY <1>4, <2>1 DEF evaluateControl
<1>5. CASE p.command = "FACTORY_RESET_LINK"
  <2>1. EvaluateFactoryReset(p, current) \in ControlOutcome
    BY RejectType, ClearType DEF EvaluateFactoryReset, Commands
  <2> QED
    BY <1>5, <2>1 DEF evaluateControl
<1>6. CASE p.command \in {"undecodable", "unknown"}
  <2>1. /\ makeReject(current, p.command, 1) \in ControlOutcome
        /\ makeReject(current, p.command, 7) \in ControlOutcome
    BY <1>6, RejectType
  <2> QED
    BY <1>6, <2>1 DEF evaluateControl
<1> QED
  BY <1>0, <1>1, <1>2, <1>3, <1>4, <1>5, <1>6 DEF Commands

\* A link changes only together with its generation, and what changes is
\* saved; a rejected command changes nothing at all (SPEC 10).
THEOREM LinkChange ==
    ASSUME NEW p \in Packets, NEW current \in LinkState
    PROVE  LET o == evaluateControl(p, current)
           IN  /\ ~ o.ok => o.state = current /\ ~ o.persist
               /\ ~ o.persist => /\ o.state.group = current.group
                                 /\ o.state.slot = current.slot
                                 /\ o.state.gen = current.gen
               /\ o.persist => o.state.gen = (current.gen + 1) % GenMod
<1>0. p.command \in Commands \cup {"undecodable", "unknown"} /\ p.group \in GroupIds
  BY DEF Packets
<1>1. \A g \in GroupIds, s \in Slots \cup {0} :
        Relink(current, g, s).gen = (current.gen + 1) % GenMod
  BY RelinkType
<1> HIDE DEF Relink
<1>2. \A cmd, aux : LET o == makeReject(current, cmd, aux)
                    IN  ~ o.ok /\ o.state = current /\ ~ o.persist
  BY DEF makeReject
<1>3. \A cmd : LET o == makeClear(current, cmd)
               IN  o.ok /\ o.persist /\ o.state.gen = (current.gen + 1) % GenMod
  BY <1>1 DEF makeClear, Accept, GroupIds
<1>5. CASE p.command = "LINK"
  BY <1>0, <1>1, <1>2, <1>5 DEF evaluateControl, EvaluateLink, Accept
<1>6. CASE p.command = "UNLINK"
  BY <1>2, <1>3, <1>6 DEF evaluateControl, EvaluateUnlink, Accept
<1>7. CASE p.command = "SET_ARMED"
  BY <1>7 DEF evaluateControl, EvaluateSetArmed, Accept, LinkState
<1>8. CASE p.command = "IDENTIFY"
  BY <1>8 DEF evaluateControl, Accept
<1>9. CASE p.command = "FACTORY_RESET_LINK"
  BY <1>2, <1>3, <1>9 DEF evaluateControl, EvaluateFactoryReset
<1>10. CASE p.command \in {"undecodable", "unknown"}
  BY <1>2, <1>10 DEF evaluateControl
<1> QED
  BY <1>0, <1>5, <1>6, <1>7, <1>8, <1>9, <1>10 DEF Commands

\* No command leaves half a link: group 0 and slot 0 go together (main.cpp
\* loadLink relies on it, the state machine tests the group alone).
THEOREM StaysNormal ==
    ASSUME NEW p \in Packets, NEW current \in LinkState, Normal(current)
    PROVE  Normal(evaluateControl(p, current).state)
<1>0. p.command \in Commands \cup {"undecodable", "unknown"} /\ p.group \in GroupIds
  BY DEF Packets
<1>1. \A g \in GroupIds, s \in Slots \cup {0} :
        Relink(current, g, s).group = g /\ Relink(current, g, s).slot = s
  BY RelinkType
<1>2. \A cmd, aux : makeReject(current, cmd, aux).state = current
  BY DEF makeReject
<1>3. \A cmd : Normal(makeClear(current, cmd).state)
  BY <1>1 DEF makeClear, Accept, Normal, GroupIds
<1>5. CASE p.command = "LINK"
  BY <1>0, <1>1, <1>2, <1>5
  DEF evaluateControl, EvaluateLink, Accept, Normal, Slots
<1>6. CASE p.command = "UNLINK"
  BY <1>2, <1>3, <1>6 DEF evaluateControl, EvaluateUnlink, Accept
<1>7. CASE p.command = "SET_ARMED"
  BY <1>7 DEF evaluateControl, EvaluateSetArmed, Accept, LinkState, Normal
<1>8. CASE p.command = "IDENTIFY"
  BY <1>8 DEF evaluateControl, Accept
<1>9. CASE p.command = "FACTORY_RESET_LINK"
  BY <1>2, <1>3, <1>9 DEF evaluateControl, EvaluateFactoryReset
<1>10. CASE p.command \in {"undecodable", "unknown"}
  BY <1>2, <1>10 DEF evaluateControl
<1> QED
  BY <1>0, <1>5, <1>6, <1>7, <1>8, <1>9, <1>10 DEF Commands

\* An accepted LINK leaves the device in the group and slot it named.
LEMMA LinkAccepted ==
    ASSUME NEW p \in Packets, NEW current \in LinkState,
           evaluateControl(p, current).ok,
           evaluateControl(p, current).cmd = "LINK"
    PROVE  LET s == evaluateControl(p, current).state
           IN  s.group \in Groups /\ s.slot \in Slots
<1>0. p.command \in Commands \cup {"undecodable", "unknown"} /\ p.group \in GroupIds
  BY DEF Packets
<1>1. p.command = "LINK"
  BY <1>0 DEF evaluateControl, EvaluateUnlink, EvaluateSetArmed,
              EvaluateFactoryReset, makeReject, makeClear, Accept, Commands
<1>2. /\ p.group \in Groups /\ p.slot \in Slots
      /\ evaluateControl(p, current).state = Relink(current, p.group, p.slot)
  BY <1>0, <1>1 DEF evaluateControl, EvaluateLink, makeReject, Accept, GroupIds
<1> QED
  BY <1>0, <1>2, RelinkType
=============================================================================
