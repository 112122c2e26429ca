-------------------------- MODULE MCDeviceTasks --------------------------
(***************************************************************************)
(* Small instances of DeviceTasks for TLC.                                 *)
(***************************************************************************)
EXTENDS DeviceTasks
CONSTANTS g1, g2

Packet(command, slot, flag, group) ==
    [command |-> command, slot |-> slot, flag0 |-> flag, group |-> group]

\* Every kind of command, and both ways in which a LINK meets an old link.
AllCommands ==
    {Packet("LINK", 1, FALSE, g1), Packet("LINK", 2, TRUE, g2),
     Packet("LINK", 2, FALSE, g1),
     Packet("UNLINK", 0, FALSE, NoGroup), Packet("UNLINK", 0, FALSE, g1),
     Packet("SET_ARMED", 0, FALSE, NoGroup), Packet("IDENTIFY", 0, FALSE, g1),
     Packet("FACTORY_RESET_LINK", 0, TRUE, NoGroup),
     Packet("undecodable", 0, FALSE, NoGroup)}

\* States that differ in the histories that no formula of the run reads, in
\* what a task had in hand before it decided, or in the words of an outcome,
\* have the same steps.
InHand(t) ==
    LET h == task[t]
    IN  IF h.outcome = None THEN <<h.todo, h.packet, h.current>>
        ELSE <<h.todo, h.outcome.state, h.outcome.persist>>

View == <<ram, nvs, info, raced, ops, crashes, [t \in Tasks |-> InHand(t)]>>

\* One command that moves the link and one that leaves it alone.
LinkAndArm ==
    {Packet("LINK", 1, FALSE, g1), Packet("SET_ARMED", 0, FALSE, NoGroup)}

\* No command that could link the device.
ArmOnly == {Packet("SET_ARMED", 0, FALSE, NoGroup)}
===========================================================================
