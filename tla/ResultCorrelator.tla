-------------------------- MODULE ResultCorrelator --------------------------
(***************************************************************************)
(* createResultCorrelator(): the host's table of commands that wait for    *)
(* their ControlResult.  A result carries only its cmd, so it settles the  *)
(* oldest expectation of that cmd, whichever write it answers.             *)
(*                                                                         *)
(* An attempt is one run of writeConfirmed().  It is pending while result  *)
(* is None; written says that its GATT write has been acknowledged.  Both  *)
(* must come before the caller of writeConfirmed() goes on.                *)
(*                                                                         *)
(* Source: web-debug/control-result.js, app.js writeConfirmed              *)
(***************************************************************************)
EXTENDS Integers, Sequences, SequencesExt

CONSTANT None

expect(attempts, cmd, slot) ==
    Append(attempts,
           [cmd |-> cmd, slot |-> slot, written |-> FALSE, result |-> None])

Pending(a) == a.result = None

Matches(attempts, result) ==
    {i \in DOMAIN attempts : Pending(attempts[i])
                             /\ attempts[i].cmd = result.cmd}

\* The index deliver() resolves, 0 when nobody waits for the result.
Oldest(attempts, result) ==
    IF Matches(attempts, result) = {} THEN 0
    ELSE CHOOSE i \in Matches(attempts, result) :
             \A j \in Matches(attempts, result) : i <= j

deliver(attempts, result) ==
    IF Oldest(attempts, result) = 0 THEN attempts
    ELSE [attempts EXCEPT ![Oldest(attempts, result)].result = result]

\* The write was acknowledged.  One GATT operation is in flight at a time, so
\* at most one attempt is unwritten.
acknowledge(attempts) ==
    [i \in DOMAIN attempts |-> [attempts[i] EXCEPT !.written = TRUE]]

\* remove(): the table without its i-th attempt.
remove(attempts, i) == RemoveAt(attempts, i)

\* The write failed: cancel() and the exception end the unwritten attempt.
cancel(attempts) ==
    IF \E i \in DOMAIN attempts : ~ attempts[i].written
    THEN remove(attempts, CHOOSE i \in DOMAIN attempts : ~ attempts[i].written)
    ELSE attempts

\* The attempts whose caller can go on, at most one after each event.
Settled(attempts) ==
    {i \in DOMAIN attempts : attempts[i].written /\ ~ Pending(attempts[i])}

\* Mutant: any ok result of the cmd confirms the link.
confirmsAnyOk(result, group, slot) == result.ok

confirmsLink(result, group, slot) ==
    result.ok /\ result.group = group /\ result.slot = slot
=============================================================================
