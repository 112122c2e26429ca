--------------------------- MODULE MCHostConnect ---------------------------
(***************************************************************************)
(* Small instances of HostConnect for TLC.                                 *)
(***************************************************************************)
EXTENDS HostConnect, TLC

FlowsAlike == Permutations(Flows)

\* Packets of one connection are compared with their predecessor only, so a
\* state stands for all its rotations of seq.
Aged(b, packet) ==
    IF packet = None THEN None
    ELSE [packet EXCEPT !.seq = (seq[b] - @) % SeqWrap]

\* What an entry made for an ended connection holds tells nothing apart.
Kept(f, b) ==
    IF gatt[b] /\ entry[f][b].connected THEN Aged(b, entry[f][b].state) ELSE None

View ==
    <<gatt, pressed, presses, notifying, flow, devices,
      [f \in Flows |-> [b \in Browsed |-> <<entry[f][b].connected, Kept(f, b)>>]],
      listeners, tracker, [b \in Browsed |-> Aged(b, heard[b])], edges, drops>>
=============================================================================
