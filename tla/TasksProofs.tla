----------------------------- MODULE TasksProofs -----------------------------
(***************************************************************************)
(* Theorems about DeviceTasks: types; and, for every packet, however the   *)
(* handlers of the two tasks interleave and wherever a power loss falls,   *)
(* what is saved, shown and in use when no handler is changing the link.   *)
(***************************************************************************)
EXTENDS DeviceTasks, LinkControlProofs, SequenceTheorems

(***************************************************************************)
(* Programs and what is left of them.                                      *)
(***************************************************************************)

LEMMA RestFacts ==
    ASSUME NEW S, NEW p \in Seq(S), NEW k \in 1 .. Len(p)
    PROVE  /\ Rest(p, k) \in Seq(S) /\ Rest(p, k) # << >>
           /\ Head(Rest(p, k)) = p[k]
           /\ k < Len(p) => Tail(Rest(p, k)) = Rest(p, k + 1)
           /\ Tail(Rest(p, k)) = << >> <=> k = Len(p)
<1> DEFINE n == Len(p)
<1>1. /\ n \in Nat /\ k \in 1 .. n /\ n \in k .. n
      /\ \A i \in k .. n : p[i] \in S
  OBVIOUS
<1>2. Head(Rest(p, k)) = p[k] /\ Tail(Rest(p, k)) = Rest(p, k + 1)
  BY <1>1, HeadTailOfSubSeq DEF Rest
<1>3. Rest(p, k) \in Seq(S) /\ Len(Rest(p, k)) = n - k + 1
  <2>1. k \in Int /\ n \in Int
    BY <1>1
  <2> HIDE DEF n
  <2>2. /\ SubSeq(p, k, n) \in Seq(S)
        /\ Len(SubSeq(p, k, n)) = IF k <= n THEN n - k + 1 ELSE 0
    BY <1>1, <2>1, SubSeqProperties
  <2> QED
    BY <1>1, <2>2 DEF Rest, n
<1>4. Rest(p, k) # << >>
  BY <1>1, <1>3
<1>5. Len(Tail(Rest(p, k))) = n - k /\ Tail(Rest(p, k)) \in Seq(S)
  BY <1>1, <1>3, <1>4, HeadTailProperties
<1>6. Tail(Rest(p, k)) = << >> <=> k = n
  <2> DEFINE t == Tail(Rest(p, k))
  <2>1. t \in Seq(S) /\ Len(t) = n - k
    BY <1>5
  <2> HIDE DEF t
  <2>2. t = << >> <=> Len(t) = 0
    BY <2>1, EmptySeq
  <2> HIDE DEF n
  <2>3. t = << >> <=> k = n
    BY <1>1, <2>1, <2>2
  <2> QED
    BY <2>3 DEF t
<1> QED
  BY <1>2, <1>3, <1>4, <1>6

LEMMA RestOfWhole ==
    ASSUME NEW S, NEW p \in Seq(S) PROVE Rest(p, 1) = p
BY SubSeqFull DEF Rest

Steps == Ops \X {"group", "slot", "gen", "armed", "all"}

\* Programs are made of rows of steps.
LEMMA TupleOf ==
    ASSUME NEW S, NEW n \in Nat, NEW f \in [1 .. n -> S]
    PROVE  f \in Seq(S) /\ Len(f) = n
BY LenProperties

LEMMA AppendTo ==
    ASSUME NEW S, NEW s \in Seq(S), NEW e \in S, NEW n \in Nat, Len(s) = n
    PROVE  /\ Append(s, e) \in Seq(S) /\ Len(Append(s, e)) = n + 1
           /\ \A i \in 1 .. n : Append(s, e)[i] = s[i]
           /\ Append(s, e)[n + 1] = e
BY AppendProperties

\* The handler's first steps.
LEMMA ReadsSteps ==
    /\ Reads \in Seq(Steps) /\ Len(Reads) = 5
    /\ \A i \in 1 .. 4 : Reads[i] = <<"load", LinkFields[i]>>
    /\ Reads[5] = <<"decide", "all">>
<1>1. \A i \in 1 .. 4 : <<"load", LinkFields[i]>> \in Steps
  BY DEF LinkFields, Steps, Ops
<1>2. Loads = [i \in 1 .. 4 |-> <<"load", LinkFields[i]>>]
  <2>1. DOMAIN LinkFields = 1 .. 4
    BY DEF LinkFields
  <2>2. Loads = [i \in DOMAIN LinkFields |-> <<"load", LinkFields[i]>>]
    BY DEF Loads, Each, LinkFields
  <2> QED
    BY <2>1, <2>2
<1>3. Loads \in Seq(Steps) /\ Len(Loads) = 4
  BY <1>1, <1>2, TupleOf
<1>4. <<"decide", "all">> \in Steps
  BY DEF Steps, Ops
<1>5. \A n \in Nat, e \in Steps : Len(Loads) = n =>
          /\ Append(Loads, e) \in Seq(Steps) /\ Len(Append(Loads, e)) = n + 1
          /\ \A i \in 1 .. n : Append(Loads, e)[i] = Loads[i]
          /\ Append(Loads, e)[n + 1] = e
  BY <1>3, AppendTo
<1>6. Len(Loads) = 4 =>
          /\ Reads \in Seq(Steps) /\ Len(Reads) = 4 + 1
          /\ \A i \in 1 .. 4 : Reads[i] = Loads[i]
          /\ Reads[4 + 1] = <<"decide", "all">>
  BY <1>4, <1>5 DEF Reads
<1> QED
  BY <1>1, <1>2, <1>3, <1>6

\* Where the elements of a concatenation come from.
LEMMA ConcatTo ==
    ASSUME NEW S, NEW s \in Seq(S), NEW t \in Seq(S)
    PROVE  /\ s \o t \in Seq(S) /\ Len(s \o t) = Len(s) + Len(t)
           /\ \A i \in 1 .. Len(s) : (s \o t)[i] = s[i]
           /\ \A i \in 1 .. Len(t) : (s \o t)[Len(s) + i] = t[i]
<1> DEFINE m == Len(s)
           n == Len(t)
<1>1. m \in Nat /\ n \in Nat
  OBVIOUS
<1>2. /\ s \o t \in Seq(S) /\ Len(s \o t) = m + n
      /\ \A i \in 1 .. m + n : (s \o t)[i] = IF i <= m THEN s[i] ELSE t[i - m]
  BY ConcatProperties
<1> HIDE DEF m, n
<1>3. ASSUME NEW i \in 1 .. m PROVE (s \o t)[i] = s[i]
  <2>1. i \in 1 .. m + n /\ i <= m
    BY <1>1, <1>3
  <2> QED
    BY <1>2, <2>1
<1>4. ASSUME NEW i \in 1 .. n PROVE (s \o t)[m + i] = t[i]
  <2>1. m + i \in 1 .. m + n /\ ~ (m + i <= m) /\ (m + i) - m = i
    BY <1>1, <1>4
  <2> QED
    BY <1>2, <2>1
<1> QED
  BY <1>2, <1>3, <1>4 DEF m, n

\* The steps that apply an outcome.
LEMMA ReplaySteps ==
    ASSUME NEW o \in ControlOutcome
    PROVE  LET p == replayControlOutcome(o)
           IN  /\ p \in Seq(Steps)
               /\ Len(p) = IF o.persist THEN 10 ELSE 6
               /\ \A i \in 1 .. 4 : p[i] = <<"store", LinkFields[i]>>
               /\ o.persist => /\ \A i \in 1 .. 3 : p[4 + i] = <<"put", LinkFields[i]>>
                               /\ p[8] = <<"refresh", "all">>
                               /\ \A i \in 1 .. 2 : p[8 + i] = Emit(o)[i]
               /\ ~ o.persist => \A i \in 1 .. 2 : p[4 + i] = Emit(o)[i]
<1>1. /\ Stores = [i \in 1 .. 4 |-> <<"store", LinkFields[i]>>]
      /\ saveLink = [i \in 1 .. 3 |-> <<"put", LinkFields[i]>>]
  <2>1. DOMAIN <<"group", "slot", "gen", "armed">> = 1 .. 4
        /\ DOMAIN <<"group", "slot", "gen">> = 1 .. 3
    OBVIOUS
  <2>2. \A i \in 1 .. 3 : <<"group", "slot", "gen">>[i] = LinkFields[i]
    BY DEF LinkFields
  <2> QED
    BY <2>1, <2>2 DEF Stores, saveLink, Each, LinkFields
<1>2. /\ \A i \in 1 .. 4 : <<"store", LinkFields[i]>> \in Steps
      /\ \A i \in 1 .. 3 : <<"put", LinkFields[i]>> \in Steps
      /\ <<"refresh", "all">> \in Steps
      /\ \A i \in 1 .. 2 : Emit(o)[i] \in {<<"R", "all">>, <<"P", "all">>}
      /\ <<"R", "all">> \in Steps /\ <<"P", "all">> \in Steps
  BY DEF LinkFields, Steps, Ops, Emit, Emissions
<1>3. Stores \in Seq(Steps) /\ Len(Stores) = 4
  BY <1>1, <1>2, TupleOf
<1>4. saveLink \in Seq(Steps) /\ Len(saveLink) = 3
  BY <1>1, <1>2, TupleOf
<1>5. Emit(o) \in Seq(Steps) /\ Len(Emit(o)) = 2
  <2>1. Emit(o) \in [1 .. 2 -> Steps]
    BY <1>2 DEF Emit
  <2> QED
    BY <2>1, TupleOf
<1>6. << <<"refresh", "all">> >> \in Seq(Steps)
      /\ Len(<< <<"refresh", "all">> >>) = 1
      /\ << <<"refresh", "all">> >>[1] = <<"refresh", "all">>
  BY <1>2
<1>7. \A s, t \in Seq(Steps) :
        /\ s \o t \in Seq(Steps) /\ Len(s \o t) = Len(s) + Len(t)
        /\ \A i \in 1 .. Len(s) : (s \o t)[i] = s[i]
        /\ \A i \in 1 .. Len(t) : (s \o t)[Len(s) + i] = t[i]
  BY ConcatTo
<1> DEFINE R == << <<"refresh", "all">> >>
           E == Emit(o)
           A == Stores
           V == saveLink
           W == V \o R
           AW == A \o W
           P == AW \o E
           Q == A \o E
<1>9. CASE o.persist
  <2>0. replayControlOutcome(o) = P
    BY <1>9 DEF replayControlOutcome
  <2> HIDE DEF R, E, A, V
  <2>1. /\ W \in Seq(Steps) /\ Len(W) = 4
        /\ \A i \in 1 .. 3 : W[i] = <<"put", LinkFields[i]>>
        /\ W[4] = <<"refresh", "all">>
    <3>1. /\ W \in Seq(Steps) /\ Len(W) = 3 + 1
          /\ \A i \in 1 .. 3 : W[i] = V[i]
          /\ \A i \in 1 .. 1 : W[3 + i] = R[i]
      <4>1. /\ W \in Seq(Steps) /\ Len(W) = Len(V) + Len(R)
            /\ \A i \in 1 .. Len(V) : W[i] = V[i]
            /\ \A i \in 1 .. Len(R) : W[Len(V) + i] = R[i]
        BY <1>4, <1>6, <1>7 DEF R, V
      <4> QED
        BY <4>1, <1>4, <1>6 DEF R, V
    <3>2. 1 \in 1 .. 1
      OBVIOUS
    <3>3. W[3 + 1] = R[1]
      BY <3>1, <3>2
    <3> QED
      BY <1>1, <1>6, <3>1, <3>3 DEF R, V
  <2> HIDE DEF W
  <2>2. /\ AW \in Seq(Steps) /\ Len(AW) = 4 + 4
        /\ \A i \in 1 .. 4 : AW[i] = A[i]
        /\ \A i \in 1 .. 4 : AW[4 + i] = W[i]
    <3>1. /\ AW \in Seq(Steps) /\ Len(AW) = Len(A) + Len(W)
          /\ \A i \in 1 .. Len(A) : AW[i] = A[i]
          /\ \A i \in 1 .. Len(W) : AW[Len(A) + i] = W[i]
      BY <1>3, <1>7, <2>1 DEF A
    <3> QED
      BY <1>3, <2>1, <3>1 DEF A
  <2> HIDE DEF AW
  <2>3. Len(AW) = 8
    BY <2>2
  <2>4. /\ P \in Seq(Steps) /\ Len(P) = 8 + 2
        /\ \A i \in 1 .. 8 : P[i] = AW[i]
        /\ \A i \in 1 .. 2 : P[8 + i] = E[i]
    <3>1. /\ P \in Seq(Steps) /\ Len(P) = Len(AW) + Len(E)
          /\ \A i \in 1 .. Len(AW) : P[i] = AW[i]
          /\ \A i \in 1 .. Len(E) : P[Len(AW) + i] = E[i]
      BY <1>5, <1>7, <2>2 DEF E
    <3> QED
      BY <1>5, <2>3, <3>1 DEF E
  <2> HIDE DEF P
  <2>5. \A i \in 1 .. 4 : P[i] = A[i]
    BY <2>2, <2>4
  <2>6. \A i \in 1 .. 4 : P[4 + i] = W[i]
    <3>1. \A i \in 1 .. 4 : 4 + i \in 1 .. 8
      OBVIOUS
    <3> QED
      BY <2>2, <2>4, <3>1
  <2>7. 4 \in 1 .. 4 /\ 4 + 4 = 8
    OBVIOUS
  <2>8. P[8] = <<"refresh", "all">>
    BY <2>1, <2>6, <2>7
  <2>9. \A i \in 1 .. 3 : P[4 + i] = <<"put", LinkFields[i]>>
    BY <2>1, <2>6
  <2> QED
    BY <1>1, <1>9, <2>0, <2>4, <2>5, <2>8, <2>9 DEF A, E
<1>10. CASE ~ o.persist
  <2>0. replayControlOutcome(o) = Q
    <3>1. replayControlOutcome(o) = A \o << >> \o E
      BY <1>10 DEF replayControlOutcome
    <3>2. A \o << >> = A
      BY <1>3, ConcatEmptySeq
    <3> QED
      BY <3>1, <3>2
  <2> HIDE DEF E, A
  <2>1. /\ Q \in Seq(Steps) /\ Len(Q) = 4 + 2
        /\ \A i \in 1 .. 4 : Q[i] = A[i]
        /\ \A i \in 1 .. 2 : Q[4 + i] = E[i]
    <3>1. /\ Q \in Seq(Steps) /\ Len(Q) = Len(A) + Len(E)
          /\ \A i \in 1 .. Len(A) : Q[i] = A[i]
          /\ \A i \in 1 .. Len(E) : Q[Len(A) + i] = E[i]
      BY <1>3, <1>5, <1>7 DEF A, E
    <3> QED
      BY <1>3, <1>5, <3>1 DEF A, E
  <2> HIDE DEF Q
  <2> QED
    BY <1>1, <1>10, <2>0, <2>1 DEF A, E
<1> QED
  BY <1>9, <1>10 DEF ControlOutcome

(***************************************************************************)
(* Where a task is, and where its next step takes it.                      *)
(***************************************************************************)

\* A task that reads: four loads, then the decision.
LEMMA ReadAt ==
    ASSUME NEW t \in Tasks, NEW k \in 1 .. Len(Reads),
           task[t].todo = Rest(Reads, k)
    PROVE  /\ ~ Free(t)
           /\ task[t].todo \in Programs
           /\ k <= 4 => /\ Head(task[t].todo)[1] = "load" /\ Field(t) = LinkFields[k]
                        /\ Tail(task[t].todo) = Rest(Reads, k + 1)
                        /\ k + 1 \in 1 .. Len(Reads)
           /\ k > 4 => Head(task[t].todo)[1] = "decide" /\ k = 5
<1>1. Reads \in Seq(Steps) /\ Len(Reads) = 5 /\ k \in 1 .. 5
  BY ReadsSteps
<1>2. /\ Rest(Reads, k) \in Seq(Steps) /\ Rest(Reads, k) # << >>
      /\ Head(Rest(Reads, k)) = Reads[k]
      /\ k < Len(Reads) => Tail(Rest(Reads, k)) = Rest(Reads, k + 1)
  BY <1>1, RestFacts
<1>3. CASE k <= 4
  <2>1. Reads[k] = <<"load", LinkFields[k]>>
    BY <1>1, <1>3, ReadsSteps
  <2> QED
    BY <1>1, <1>2, <1>3, <2>1 DEF Free, Field, Programs, Steps
<1>4. CASE k > 4
  <2>1. k = 5 /\ Reads[k] = <<"decide", "all">>
    BY <1>1, <1>4, ReadsSteps
  <2> QED
    BY <1>1, <1>2, <1>4, <2>1 DEF Free, Field, Programs, Steps
<1> QED
  BY <1>1, <1>3, <1>4

\* A task that applies an outcome: the stores, the puts and the refresh of a
\* link that is saved, and two emissions; and what Advance makes of it.
LEMMA ReplayAt ==
    ASSUME NEW t \in Tasks, task[t].outcome \in ControlOutcome,
           NEW k \in 1 .. Len(replayControlOutcome(task[t].outcome)),
           task[t].todo = Rest(replayControlOutcome(task[t].outcome), k)
    PROVE  LET o == task[t].outcome
               p == replayControlOutcome(o)
               op == Head(task[t].todo)[1]
           IN  /\ ~ Free(t)
               /\ task[t].todo \in Programs
               /\ k \in 1 .. 4 => op = "store" /\ Field(t) = LinkFields[k]
               /\ o.persist /\ k \in 5 .. 7 => op = "put" /\ Field(t) = LinkFields[k - 4]
               /\ o.persist /\ k = 8 => op = "refresh"
               /\ (o.persist => k > 8) /\ k > 4 => op \in {"R", "P"}
               /\ Advance(t) =>
                      task' = [task EXCEPT ![t] =
                                  IF k = Len(p) THEN IdleTask
                                  ELSE [task[t] EXCEPT !.todo = Rest(p, k + 1)]]
               /\ k # Len(p) => k + 1 \in 1 .. Len(p)
<1> DEFINE o == task[t].outcome
           p == replayControlOutcome(o)
<1>1. /\ p \in Seq(Steps)
      /\ Len(p) = IF o.persist THEN 10 ELSE 6
      /\ \A i \in 1 .. 4 : p[i] = <<"store", LinkFields[i]>>
      /\ o.persist => /\ \A i \in 1 .. 3 : p[4 + i] = <<"put", LinkFields[i]>>
                      /\ p[8] = <<"refresh", "all">>
                      /\ \A i \in 1 .. 2 : p[8 + i] = Emit(o)[i]
      /\ ~ o.persist => \A i \in 1 .. 2 : p[4 + i] = Emit(o)[i]
  BY ReplaySteps
<1>2. \A i \in 1 .. 2 : Emit(o)[i][1] \in {"R", "P"}
  BY DEF Emit, Emissions
<1>3. o.persist \in BOOLEAN
  BY DEF ControlOutcome
<1> HIDE DEF o, p
<1>4. k \in 1 .. Len(p) /\ task[t].todo = Rest(p, k)
  BY DEF o, p
<1>5. /\ Rest(p, k) \in Seq(Steps) /\ Rest(p, k) # << >>
      /\ Head(Rest(p, k)) = p[k]
      /\ k < Len(p) => Tail(Rest(p, k)) = Rest(p, k + 1)
      /\ Tail(Rest(p, k)) = << >> <=> k = Len(p)
  <2>1. p \in Seq(Steps) /\ k \in 1 .. Len(p)
    BY <1>1, <1>4
  <2> QED
    BY <2>1, RestFacts, Zenon
<1>6. k \in Nat /\ Len(p) \in Nat /\ k <= Len(p)
  BY <1>1, <1>4
<1>7. Head(task[t].todo) = p[k]
  BY <1>4, <1>5
<1>8. k \in 1 .. 4 => p[k] = <<"store", LinkFields[k]>>
  BY <1>1
<1>9. o.persist /\ k \in 5 .. 7 => p[k] = <<"put", LinkFields[k - 4]>>
  <2>1. k \in 5 .. 7 => k - 4 \in 1 .. 3 /\ 4 + (k - 4) = k
    OBVIOUS
  <2> QED
    BY <1>1, <2>1
<1>10. (o.persist => k > 8) /\ k > 4 => p[k][1] \in {"R", "P"}
  <2>1. CASE o.persist /\ k > 8
    <3>1. k - 8 \in 1 .. 2 /\ 8 + (k - 8) = k
      BY <1>1, <1>6, <2>1
    <3> QED
      BY <1>1, <1>2, <2>1, <3>1
  <2>2. CASE ~ o.persist /\ k > 4
    <3>1. k - 4 \in 1 .. 2 /\ 4 + (k - 4) = k
      BY <1>1, <1>6, <2>2
    <3> QED
      BY <1>1, <1>2, <2>2, <3>1
  <2> QED
    BY <1>3, <2>1, <2>2
<1>11. Advance(t) =>
         task' = [task EXCEPT ![t] = IF k = Len(p) THEN IdleTask
                                     ELSE [task[t] EXCEPT !.todo = Rest(p, k + 1)]]
  <2>1. CASE k = Len(p)
    BY <1>4, <1>5, <2>1 DEF Advance
  <2>2. CASE k # Len(p)
    <3>1. Tail(task[t].todo) # << >> /\ Tail(task[t].todo) = Rest(p, k + 1)
      BY <1>4, <1>5, <1>6, <2>2
    <3> QED
      BY <2>2, <3>1 DEF Advance
  <2> QED
    BY <2>1, <2>2
<1>12. k # Len(p) => k + 1 \in 1 .. Len(p)
  BY <1>6
<1>13. ~ Free(t) /\ task[t].todo \in Programs
  BY <1>4, <1>5 DEF Free, Programs, Steps
<1> QED
  BY <1>1, <1>6, <1>7, <1>8, <1>9, <1>10, <1>11, <1>12, <1>13 DEF Field, o, p

\* A task that applies an outcome does not read or decide.
LEMMA ReplayNeverReads ==
    ASSUME NEW t \in Tasks, task[t].outcome \in ControlOutcome,
           NEW k \in 1 .. Len(replayControlOutcome(task[t].outcome)),
           task[t].todo = Rest(replayControlOutcome(task[t].outcome), k)
    PROVE  Head(task[t].todo)[1] \notin {"load", "decide"}
<1> DEFINE o == task[t].outcome
           p == replayControlOutcome(o)
           op == Head(task[t].todo)[1]
<1>1. /\ k \in 1 .. 4 => op = "store"
      /\ o.persist /\ k \in 5 .. 7 => op = "put"
      /\ o.persist /\ k = 8 => op = "refresh"
      /\ (o.persist => k > 8) /\ k > 4 => op \in {"R", "P"}
  BY ReplayAt
<1>2. o.persist \in BOOLEAN
  BY DEF ControlOutcome
<1>3. Len(p) \in {6, 10}
  BY ReplaySteps
<1> HIDE DEF o, p, op
<1>4. k \in Nat /\ k >= 1
  BY <1>3 DEF p
<1>5. op \notin {"load", "decide"}
  BY <1>1, <1>2, <1>4
<1> QED
  BY <1>5 DEF op

(***************************************************************************)
(* Types.                                                                  *)
(***************************************************************************)

Task == [todo: Programs, packet: Packets \cup {None}, current: LinkState,
         outcome: ControlOutcome \cup {None}]

LEMMA IdleTaskType == IdleTask \in Task
<1>1. << >> \in Programs
  BY DEF Programs
<1>2. [group |-> NoGroup, slot |-> 0, gen |-> 0, armed |-> TRUE] \in LinkState
  BY GenModAssumption DEF LinkState, GroupIds
<1> QED
  BY <1>1, <1>2 DEF IdleTask, Task

\* A field that is copied from one link state to another keeps its type.
LEMMA FieldType ==
    ASSUME NEW s \in LinkState, NEW u \in LinkState, NEW k \in 1 .. 4
    PROVE  [s EXCEPT ![LinkFields[k]] = u[LinkFields[k]]] \in LinkState
BY DEF LinkFields, LinkState

LEMMA LinkType ==
    ASSUME NEW s \in LinkState PROVE Link(s) \in SavedLink
BY DEF Link, LinkState, SavedLink

\* What was saved makes a device that boots with half a link or none unlinked.
LEMMA BootedFacts ==
    ASSUME NEW s \in SavedLink
    PROVE  /\ Booted(s) \in LinkState
           /\ loadLink(s) = Link(Booted(s))
           /\ Normal(loadLink(s))
<1> DEFINE l == loadLink(s)
<1>1. l \in SavedLink /\ l.gen = s.gen /\ Normal(l)
  <2>1. CASE s.slot \notin Slots \/ s.group = NoGroup
    <3>1. l = [s EXCEPT !.group = NoGroup, !.slot = 0]
      BY <2>1 DEF loadLink
    <3> QED
      BY <3>1 DEF SavedLink, Normal, GroupIds
  <2>2. CASE s.slot \in Slots /\ s.group # NoGroup
    <3>1. l = s
      BY <2>2 DEF loadLink
    <3> QED
      BY <2>2, <3>1 DEF Normal, Slots
  <2> QED
    BY <2>1, <2>2
<1>2. l = [group |-> l.group, slot |-> l.slot, gen |-> l.gen]
  BY <1>1 DEF SavedLink
<1> HIDE DEF l
<1>3. Booted(s) = [group |-> l.group, slot |-> l.slot, gen |-> s.gen, armed |-> TRUE]
  BY DEF Booted, l
<1>4. Booted(s) \in LinkState
  BY <1>1, <1>3 DEF LinkState, SavedLink
<1>5. Link(Booted(s)) = l
  BY <1>1, <1>2, <1>3 DEF Link
<1> QED
  BY <1>1, <1>4, <1>5 DEF l

\* Deciding yields an outcome.
LEMMA DecideType ==
    ASSUME NEW t \in Tasks, NEW c \in LinkState, NEW q, t = "ble" => q \in Packets
    PROVE  (IF t = "loop" THEN makeClear(c, "FACTORY_RESET_LINK")
            ELSE evaluateControl(q, c)) \in ControlOutcome
BY ClearType, EvaluateType DEF Tasks, Commands

\* The link globals, the keys in NVS and what each task has in hand keep their
\* types, and each task is somewhere in a program of its own, however the
\* handlers of the two tasks and the power losses interleave.
THEOREM DeviceTypes == Spec => [](TypeOK /\ ProgramInv)
<1> DEFINE TaskInv(t) ==
             \/ task[t] = IdleTask
             \/ /\ t = "ble" => task[t].packet \in Packets
                /\ \E k \in 1 .. Len(Reads) : task[t].todo = Rest(Reads, k)
             \/ /\ task[t].outcome \in ControlOutcome
                /\ \E k \in 1 .. Len(replayControlOutcome(task[t].outcome)) :
                       task[t].todo = Rest(replayControlOutcome(task[t].outcome), k)
<1>0. ProgramInv <=> \A t \in Tasks : TaskInv(t)
  BY DEF ProgramInv
<1>a. ProgramInv' <=> \A t \in Tasks : TaskInv(t)'
  BY DEF ProgramInv
<1>1. Init => TypeOK /\ ProgramInv
  <2> SUFFICES ASSUME Init PROVE TypeOK /\ ProgramInv
    OBVIOUS
  <2>1. nvs \in SavedLink
    BY GenModAssumption DEF Init, SavedLink, GroupIds
  <2>2. ram \in LinkState /\ info \in SavedLink
    BY <2>1, BootedFacts, LinkType DEF Init
  <2>3. task \in [Tasks -> Task]
    BY IdleTaskType DEF Init
  <2>4. /\ seen \in SUBSET SavedLink /\ reset \in BOOLEAN /\ raced \in BOOLEAN
        /\ ops \in 0 .. MaxOps /\ crashes \in 0 .. MaxCrashes
    <3>1. seen = {info} /\ ops = 0 /\ crashes = 0
      BY DEF Init
    <3>2. reset \in BOOLEAN /\ raced \in BOOLEAN
      BY DEF Init
    <3>3. seen \in SUBSET SavedLink
      BY <2>2, <3>1
    <3>4. ops \in 0 .. MaxOps /\ crashes \in 0 .. MaxCrashes
      BY <3>1, LimitsAssumption
    <3> QED
      BY <3>2, <3>3, <3>4
  <2>5. ProgramInv
    BY DEF ProgramInv, Init
  <2> QED
    BY <2>1, <2>2, <2>3, <2>4, <2>5 DEF TypeOK, Task
<1>2. TypeOK /\ ProgramInv /\ [Next]_vars => (TypeOK /\ ProgramInv)'
  <2> SUFFICES ASSUME TypeOK, ProgramInv, [Next]_vars PROVE TypeOK' /\ ProgramInv'
    OBVIOUS
  <2>0. /\ ram \in LinkState /\ nvs \in SavedLink /\ info \in SavedLink
        /\ task \in [Tasks -> Task]
        /\ seen \in SUBSET SavedLink /\ reset \in BOOLEAN /\ raced \in BOOLEAN
        /\ ops \in 0 .. MaxOps /\ crashes \in 0 .. MaxCrashes
    BY DEF TypeOK, Task
  <2>t. /\ ram' \in LinkState /\ nvs' \in SavedLink /\ info' \in SavedLink
        /\ task' \in [Tasks -> Task]
        /\ seen' \in SUBSET SavedLink /\ reset' \in BOOLEAN /\ raced' \in BOOLEAN
        /\ ops' \in 0 .. MaxOps /\ crashes' \in 0 .. MaxCrashes
        => TypeOK'
    BY DEF TypeOK, Task
  <2>r. Reads \in Seq(Steps) /\ Len(Reads) = 5
    BY ReadsSteps
  <2>s. ASSUME NEW t \in Tasks, NEW q \in Packets \cup {None},
               t = "ble" => q \in Packets, Start(t, q)
        PROVE  /\ task' \in [Tasks -> Task] /\ ProgramInv'
               /\ ops' \in 0 .. MaxOps
    <3>1. task' = [task EXCEPT ![t] = [IdleTask EXCEPT !.todo = Reads, !.packet = q]]
      BY <2>s DEF Start, Reads
    <3>2. Reads \in Programs
      BY <2>r DEF Programs, Steps
    <3>3. [IdleTask EXCEPT !.todo = Reads, !.packet = q] \in Task
      BY <3>2, IdleTaskType DEF Task
    <3>4. Reads = Rest(Reads, 1) /\ 1 \in 1 .. Len(Reads)
      BY <2>r, SubSeqFull DEF Rest
    <3>5. TaskInv(t)'
      <4>1. task'[t].todo = Reads /\ task'[t].packet = q
        BY <2>0, <3>1, IdleTaskType DEF Task
      <4> QED
        BY <2>s, <3>4, <4>1
    <3>6. \A u \in Tasks \ {t} : TaskInv(u)'
      BY <1>0, <2>0, <3>1
    <3>7. ops' \in 0 .. MaxOps
      BY <2>0, <2>s, LimitsAssumption DEF Start
    <3> QED
      BY <1>a, <2>0, <3>1, <3>3, <3>5, <3>6, <3>7
  <2>1. CASE onWrite
    <3>1. PICK q \in CommandPackets :
              Start("ble", q) /\ reset' = (reset /\ q.command # "LINK")
      BY <2>1 DEF onWrite
    <3>2. q \in Packets /\ "ble" \in Tasks
      BY PacketsAssumption DEF Tasks
    <3>3. UNCHANGED <<ram, nvs, info, seen, raced, crashes>> /\ reset' \in BOOLEAN
      BY <2>0, <3>1 DEF Start
    <3> QED
      BY <2>0, <2>t, <2>s, <3>1, <3>2, <3>3
  <2>2. CASE LongHold
    <3>1. "loop" \in Tasks /\ "loop" # "ble"
      BY DEF Tasks
    <3>2. UNCHANGED <<ram, nvs, info, seen, raced, crashes>> /\ reset' \in BOOLEAN
      BY <2>2 DEF LongHold, Start
    <3> QED
      BY <2>0, <2>t, <2>s, <2>2, <3>1, <3>2 DEF LongHold
  <2>3. CASE PowerCycle
    <3>1. ram' \in LinkState /\ info' \in SavedLink
      BY <2>0, <2>3, BootedFacts, LinkType DEF PowerCycle
    <3>2. task' \in [Tasks -> Task] /\ \A t \in Tasks : TaskInv(t)'
      BY <2>3, IdleTaskType DEF PowerCycle
    <3>3. crashes' \in 0 .. MaxCrashes
      BY <2>0, <2>3, LimitsAssumption DEF PowerCycle
    <3> QED
      BY <1>a, <2>0, <2>t, <2>3, <3>1, <3>2, <3>3 DEF PowerCycle
  <2>4. ASSUME NEW t \in Tasks, TaskStep(t) PROVE TypeOK' /\ ProgramInv'
    <3> DEFINE o == task[t].outcome
    <3>0. ~ Free(t)
      BY <2>4 DEF TaskStep, LoadField, Decide, StoreField, Put, Refresh,
                  EmitResult, EmitState, At
    <3>1. task[t] # IdleTask
      BY <3>0 DEF Free, IdleTask
    <3>2. UNCHANGED <<reset, ops, crashes>> /\ raced' \in BOOLEAN
      BY <2>0, <2>4 DEF TaskStep, LoadField, Decide, StoreField, Put, Refresh,
                        EmitResult, EmitState
    <3>3. CASE /\ t = "ble" => task[t].packet \in Packets
               /\ \E k \in 1 .. Len(Reads) : task[t].todo = Rest(Reads, k)
      <4>0. PICK k \in 1 .. Len(Reads) : task[t].todo = Rest(Reads, k)
        BY <3>3
      <4>1. /\ k <= 4 => /\ Head(task[t].todo)[1] = "load" /\ Field(t) = LinkFields[k]
                         /\ Tail(task[t].todo) = Rest(Reads, k + 1)
                         /\ k + 1 \in 1 .. Len(Reads)
            /\ k > 4 => Head(task[t].todo)[1] = "decide" /\ k = 5
        BY <4>0, ReadAt
      <4>2. CASE k <= 4
        <5>1. LoadField(t)
          BY <2>4, <4>1, <4>2 DEF TaskStep, Decide, StoreField, Put, Refresh,
                                  EmitResult, EmitState, At
        <5> DEFINE c == [task[t].current EXCEPT ![LinkFields[k]] = ram[LinkFields[k]]]
        <5>2. task' = [task EXCEPT ![t].todo = Rest(Reads, k + 1), ![t].current = c]
          BY <2>0, <4>1, <4>2, <5>1 DEF LoadField, Task
        <5>3. c \in LinkState
          <6>1. k \in 1 .. 4 /\ task[t].current \in LinkState
            BY <2>0, <2>r, <4>2 DEF Task
          <6> QED
            BY <2>0, <6>1, FieldType
        <5>4. Rest(Reads, k + 1) \in Programs
          <6>1. k + 1 \in 1 .. Len(Reads)
            BY <4>1, <4>2
          <6> QED
            BY <2>r, <6>1, RestFacts DEF Programs, Steps
        <5> HIDE DEF c
        <5>5. task' \in [Tasks -> Task]
          BY <2>0, <5>2, <5>3, <5>4 DEF Task
        <5>6. task'[t].todo = Rest(Reads, k + 1) /\ task'[t].packet = task[t].packet
          BY <2>0, <5>2 DEF Task
        <5>7. TaskInv(t)'
          BY <3>3, <4>1, <4>2, <5>6
        <5>8. \A u \in Tasks \ {t} : TaskInv(u)'
          BY <1>0, <2>0, <5>2
        <5> QED
          BY <1>a, <2>0, <2>t, <3>2, <5>1, <5>5, <5>7, <5>8 DEF LoadField
      <4>3. CASE k > 4
        <5>1. Decide(t)
          BY <2>4, <4>1, <4>3 DEF TaskStep, LoadField, StoreField, Put, Refresh,
                                  EmitResult, EmitState, At
        <5> DEFINE d == IF t = "loop"
                        THEN makeClear(task[t].current, "FACTORY_RESET_LINK")
                        ELSE evaluateControl(task[t].packet, task[t].current)
                   p == replayControlOutcome(d)
        <5>2. task' = [task EXCEPT ![t].outcome = d, ![t].todo = p]
          BY <5>1 DEF Decide
        <5>3. d \in ControlOutcome
          <6>1. task[t].current \in LinkState
            BY <2>0 DEF Task
          <6> QED
            BY <3>3, <6>1, DecideType
        <5> HIDE DEF d
        <5>4. p \in Seq(Steps) /\ Len(p) \in {6, 10}
          BY <5>3, ReplaySteps
        <5>5. p = Rest(p, 1) /\ 1 \in 1 .. Len(p)
          <6>1. p = Rest(p, 1)
            BY <5>4, RestOfWhole
          <6>2. 1 \in 1 .. Len(p)
            BY <5>4
          <6> QED
            BY <6>1, <6>2
        <5>6. p \in Programs
          BY <5>4 DEF Programs, Steps
        <5>7. task' \in [Tasks -> Task]
          <6> HIDE DEF p
          <6> QED
            BY <2>0, <5>2, <5>3, <5>6 DEF Task
        <5>8. task'[t].outcome = d /\ task'[t].todo = p
          <6> HIDE DEF p
          <6> QED
            BY <2>0, <5>2 DEF Task
        <5>9. TaskInv(t)'
          BY <5>3, <5>5, <5>8
        <5>10. \A u \in Tasks \ {t} : TaskInv(u)'
          BY <1>0, <2>0, <5>2
        <5> QED
          BY <1>a, <2>0, <2>t, <3>2, <5>1, <5>7, <5>9, <5>10 DEF Decide
      <4> QED
        BY <2>r, <4>2, <4>3
    <3>4. CASE /\ o \in ControlOutcome
               /\ \E k \in 1 .. Len(replayControlOutcome(o)) :
                      task[t].todo = Rest(replayControlOutcome(o), k)
      <4> DEFINE p == replayControlOutcome(o)
      <4>0. PICK k \in 1 .. Len(p) : task[t].todo = Rest(p, k)
        BY <3>4
      <4>1. /\ k \in 1 .. 4 => Head(task[t].todo)[1] = "store" /\ Field(t) = LinkFields[k]
            /\ o.persist /\ k \in 5 .. 7 =>
                   Head(task[t].todo)[1] = "put" /\ Field(t) = LinkFields[k - 4]
            /\ o.persist /\ k = 8 => Head(task[t].todo)[1] = "refresh"
            /\ (o.persist => k > 8) /\ k > 4 => Head(task[t].todo)[1] \in {"R", "P"}
            /\ Advance(t) =>
                  task' = [task EXCEPT ![t] =
                              IF k = Len(p) THEN IdleTask
                              ELSE [task[t] EXCEPT !.todo = Rest(p, k + 1)]]
            /\ k # Len(p) => k + 1 \in 1 .. Len(p)
        BY <3>4, <4>0, ReplayAt
      <4>2. p \in Seq(Steps) /\ Len(p) \in {6, 10}
        BY <3>4, ReplaySteps
      <4> HIDE DEF o, p
      <4>3. Advance(t) => task' \in [Tasks -> Task] /\ ProgramInv'
        <5> SUFFICES ASSUME Advance(t) PROVE task' \in [Tasks -> Task] /\ ProgramInv'
          OBVIOUS
        <5>1. CASE k = Len(p)
          <6>1. task' = [task EXCEPT ![t] = IdleTask]
            BY <4>1, <5>1
          <6>2. \A u \in Tasks : TaskInv(u)'
            BY <1>0, <2>0, <6>1
          <6> QED
            BY <1>a, <2>0, <6>1, <6>2, IdleTaskType
        <5>2. CASE k # Len(p)
          <6>1. task' = [task EXCEPT ![t] = [task[t] EXCEPT !.todo = Rest(p, k + 1)]]
                /\ k + 1 \in 1 .. Len(p)
            BY <4>1, <5>2
          <6>2. Rest(p, k + 1) \in Programs
            BY <4>2, <6>1, RestFacts DEF Programs, Steps
          <6>3. [task[t] EXCEPT !.todo = Rest(p, k + 1)] \in Task
            BY <2>0, <6>2 DEF Task
          <6>4. task' \in [Tasks -> Task]
            BY <2>0, <6>1, <6>3
          <6>5. task'[t].todo = Rest(p, k + 1) /\ task'[t].outcome = o
            BY <2>0, <6>1 DEF Task, o
          <6>6. TaskInv(t)'
            <7>1. o \in ControlOutcome
              BY <3>4
            <7> QED
              BY <6>1, <6>5, <7>1 DEF p
          <6>7. \A u \in Tasks \ {t} : TaskInv(u)'
            BY <1>0, <2>0, <6>1
          <6> QED
            BY <1>a, <6>4, <6>6, <6>7
        <5> QED
          BY <5>1, <5>2
      <4>4. Head(task[t].todo)[1] \notin {"load", "decide"}
        <5>1. o.persist \in BOOLEAN
          BY <3>4 DEF ControlOutcome
        <5> QED
          BY <4>1, <4>2, <5>1
      <4>5. CASE StoreField(t)
        <5>1. k \in 1 .. 4 /\ Field(t) = LinkFields[k]
          <6>1. o.persist \in BOOLEAN
            BY <3>4 DEF ControlOutcome
          <6> QED
            BY <4>1, <4>2, <4>5, <6>1 DEF StoreField, At
        <5>2. ram' \in LinkState
          <6>1. o.state \in LinkState
            BY <3>4 DEF ControlOutcome
          <6> QED
            BY <2>0, <4>5, <5>1, <6>1, FieldType DEF StoreField, o
        <5> QED
          BY <2>0, <2>t, <3>2, <4>3, <4>5, <5>2 DEF StoreField
      <4>6. CASE Put(t)
        <5>1. k - 4 \in 1 .. 3 /\ Field(t) = LinkFields[k - 4]
          <6>1. o.persist \in BOOLEAN
            BY <3>4 DEF ControlOutcome
          <6> QED
            BY <4>1, <4>2, <4>6, <6>1 DEF Put, At
        <5>2. nvs' \in SavedLink
          BY <2>0, <4>6, <5>1 DEF Put, LinkFields, SavedLink, LinkState
        <5> QED
          BY <2>0, <2>t, <3>2, <4>3, <4>6, <5>2 DEF Put
      <4>7. CASE Refresh(t)
        BY <2>0, <2>t, <3>2, <4>3, <4>7, LinkType DEF Refresh
      <4>8. CASE EmitResult(t)
        BY <2>0, <2>t, <3>2, <4>3, <4>8, LinkType DEF EmitResult
      <4>9. CASE EmitState(t)
        BY <2>0, <2>t, <3>2, <4>3, <4>9 DEF EmitState
      <4> QED
        BY <2>4, <4>4, <4>5, <4>6, <4>7, <4>8, <4>9 DEF TaskStep, LoadField, Decide, At
    <3> QED
      BY <1>0, <3>1, <3>3, <3>4
  <2>5. CASE UNCHANGED vars
    BY <1>0, <1>a, <2>0, <2>t, <2>5 DEF vars
  <2> QED
    BY <2>1, <2>2, <2>3, <2>4, <2>5 DEF Next
<1> QED
  BY <1>1, <1>2, PTL DEF Spec
(***************************************************************************)
(* Handlers.  The two tasks interleave and a power loss falls between any  *)
(* two steps, so the invariant says how far each task has come.            *)
(***************************************************************************)

\* What a device wakes with, when the link is saved.
LEMMA SavedIsWhole ==
    ASSUME TypeOK, Saved PROVE Normal(ram)
<1>1. Normal(loadLink(nvs)) /\ loadLink(nvs) = Link(ram)
  BY BootedFacts DEF TypeOK, Saved
<1>2. Link(ram).group = ram.group /\ Link(ram).slot = ram.slot
  BY DEF Link
<1> QED
  BY <1>1, <1>2 DEF Normal

\* Clearing the link, or saving another one, makes it whole whatever it was.
LEMMA PersistNormal ==
    ASSUME NEW current \in LinkState
    PROVE  /\ \A cmd : Normal(makeClear(current, cmd).state)
           /\ \A p \in Packets : evaluateControl(p, current).persist =>
                                     Normal(evaluateControl(p, current).state)
<1>1. \A g \in GroupIds, s \in Slots \cup {0} :
        Relink(current, g, s).group = g /\ Relink(current, g, s).slot = s
  BY RelinkType
<1>2. \A cmd, aux : ~ makeReject(current, cmd, aux).persist
  BY DEF makeReject
<1>3. \A cmd : Normal(makeClear(current, cmd).state)
  BY <1>1 DEF makeClear, Accept, Normal, GroupIds
<1>4. ASSUME NEW p \in Packets, evaluateControl(p, current).persist
      PROVE  Normal(evaluateControl(p, current).state)
  <2>0. p.command \in Commands \cup {"undecodable", "unknown"} /\ p.group \in GroupIds
    BY DEF Packets
  <2>1. CASE p.command = "LINK"
    BY <2>0, <1>1, <1>2, <1>4, <2>1
    DEF evaluateControl, EvaluateLink, Accept, Normal, Slots
  <2>2. CASE p.command = "UNLINK"
    BY <1>2, <1>3, <1>4, <2>2 DEF evaluateControl, EvaluateUnlink, Accept
  <2>3. CASE p.command = "SET_ARMED"
    BY <1>4, <2>3 DEF evaluateControl, EvaluateSetArmed, Accept
  <2>4. CASE p.command = "IDENTIFY"
    BY <1>4, <2>4 DEF evaluateControl, Accept
  <2>5. CASE p.command = "FACTORY_RESET_LINK"
    BY <1>2, <1>3, <1>4, <2>5 DEF evaluateControl, EvaluateFactoryReset
  <2>6. CASE p.command \in {"undecodable", "unknown"}
    BY <1>2, <1>4, <2>6 DEF evaluateControl
  <2> QED
    BY <2>0, <2>1, <2>2, <2>3, <2>4, <2>5, <2>6 DEF Commands
<1> QED
  BY <1>3, <1>4

\* A read: what has been read so far is what the link is.
LEMMA ReadStep ==
    ASSUME TypeOK, NEW t \in Tasks, Reading(t), LoadField(t)
    PROVE  Reading(t)'
<1>0. task \in [Tasks -> Task] /\ ram \in LinkState
  BY DEF TypeOK, Task
<1>1. PICK k \in 1 .. Len(Reads) :
          /\ task[t].todo = Rest(Reads, k)
          /\ \A i \in 1 .. k - 1 : task[t].current[LinkFields[i]] = ram[LinkFields[i]]
  BY DEF Reading
<1>2. Len(Reads) = 5
  BY ReadsSteps
<1>3. /\ k <= 4 /\ Field(t) = LinkFields[k]
      /\ Tail(task[t].todo) = Rest(Reads, k + 1) /\ k + 1 \in 1 .. Len(Reads)
  BY <1>1, <1>2, ReadAt DEF LoadField, At
<1> DEFINE c == [task[t].current EXCEPT ![LinkFields[k]] = ram[LinkFields[k]]]
<1>4. task' = [task EXCEPT ![t].todo = Rest(Reads, k + 1), ![t].current = c]
  BY <1>0, <1>3 DEF LoadField, Task
<1>5. \A i \in 1 .. k : c[LinkFields[i]] = ram[LinkFields[i]]
  <2>1. task[t].current \in LinkState
    BY <1>0 DEF Task
  <2>2. \A i \in 1 .. 4 : LinkFields[i] \in DOMAIN task[t].current
    BY <2>1 DEF LinkState, LinkFields
  <2>3. \A i \in 1 .. k : i \in 1 .. 4 /\ (i \in 1 .. k - 1 \/ i = k)
    BY <1>2, <1>3
  <2> QED
    BY <1>1, <2>2, <2>3
<1> HIDE DEF c
<1>6. task'[t].todo = Rest(Reads, k + 1) /\ task'[t].current = c
  BY <1>0, <1>4 DEF Task
<1>7. ram' = ram
  BY DEF LoadField
<1>8. \A i \in 1 .. (k + 1) - 1 : task'[t].current[LinkFields[i]] = ram'[LinkFields[i]]
  BY <1>1, <1>2, <1>5, <1>6, <1>7
<1> QED
  BY <1>3, <1>6, <1>8 DEF Reading

\* The decision.  A new link is whole, whatever has been read, and on its way
\* to be saved; what was decided on the link as it is leaves it alone otherwise.
LEMMA DecideStep ==
    ASSUME TypeOK, ProgramInv, NEW t \in Tasks, Decide(t)
    PROVE  \/ Saving(t, 1)'
           \/ raced' = raced /\ (Reading(t) => Keeping(t)')
<1>0. task \in [Tasks -> Task] /\ ram \in LinkState
  BY DEF TypeOK, Task
<1> DEFINE c == task[t].current
           q == task[t].packet
<1>1. Head(task[t].todo)[1] = "decide" /\ ~ Free(t)
  BY DEF Decide, At
<1>2. c \in LinkState
  BY <1>0 DEF Task
<1>3. t = "ble" => q \in Packets
  <2>1. ~ (task[t].outcome \in ControlOutcome /\
             \E j \in 1 .. Len(replayControlOutcome(task[t].outcome)) :
                 task[t].todo = Rest(replayControlOutcome(task[t].outcome), j))
    <3> SUFFICES ASSUME task[t].outcome \in ControlOutcome,
                        NEW j \in 1 .. Len(replayControlOutcome(task[t].outcome)),
                        task[t].todo = Rest(replayControlOutcome(task[t].outcome), j)
                 PROVE  FALSE
      OBVIOUS
    <3> QED
      BY <1>1, ReplayNeverReads
  <2>2. task[t] # IdleTask
    BY <1>1 DEF Free, IdleTask
  <2> QED
    BY <2>1, <2>2 DEF ProgramInv
<1> DEFINE d == IF t = "loop" THEN makeClear(c, "FACTORY_RESET_LINK")
                ELSE evaluateControl(q, c)
           p == replayControlOutcome(d)
<1>4. d \in ControlOutcome
  BY <1>2, <1>3, DecideType
<1>5. ~ d.persist => /\ d.state.group = c.group /\ d.state.slot = c.slot
                     /\ d.state.gen = c.gen
  <2>1. CASE t = "loop"
    BY <2>1 DEF makeClear, Accept
  <2>2. CASE t # "loop"
    BY <1>2, <1>3, <2>2, LinkChange DEF Tasks
  <2> QED
    BY <2>1, <2>2
<1>6. d.persist => Normal(d.state)
  <2>1. CASE t = "loop"
    BY <1>2, <2>1, PersistNormal
  <2>2. CASE t # "loop"
    BY <1>2, <1>3, <2>2, PersistNormal DEF Tasks
  <2> QED
    BY <2>1, <2>2
<1>7. /\ task' = [task EXCEPT ![t].outcome = d, ![t].todo = p]
      /\ ram' = ram /\ nvs' = nvs
  BY DEF Decide
<1>8. ~ d.persist => raced' = raced
  <2>1. raced \in BOOLEAN
    BY DEF TypeOK
  <2>2. raced' = (raced /\ ~ d.persist)
    BY DEF Decide
  <2> HIDE DEF d
  <2> QED
    BY <2>1, <2>2
<1> HIDE DEF d, c, q
<1>9. task'[t].outcome = d /\ task'[t].todo = p
  <2> HIDE DEF p
  <2> QED
    BY <1>0, <1>7 DEF Task
<1>10. p = Rest(p, 1) /\ 1 \in 1 .. Len(p) /\ d.persist \in BOOLEAN
  <2>1. p \in Seq(Steps) /\ Len(p) \in {6, 10}
    BY <1>4, ReplaySteps
  <2>2. p = Rest(p, 1)
    BY <2>1, RestOfWhole
  <2>3. 1 \in 1 .. Len(p)
    <3> HIDE DEF p
    <3>1. \A n \in {6, 10} : 1 \in 1 .. n
      OBVIOUS
    <3> QED
      BY <2>1, <3>1, Zenon
  <2> QED
    BY <1>4, <2>2, <2>3 DEF ControlOutcome
<1>11. CASE ~ d.persist
  <2>1. ASSUME Reading(t) PROVE Keeping(t)'
    <3>1. PICK k \in 1 .. Len(Reads) :
              /\ task[t].todo = Rest(Reads, k)
              /\ \A i \in 1 .. k - 1 : task[t].current[LinkFields[i]] = ram[LinkFields[i]]
      BY <2>1 DEF Reading
    <3>2. Len(Reads) = 5
      BY ReadsSteps
    <3>3. k = 5
      BY <1>1, <3>1, <3>2, ReadAt
    <3>4. 1 \in 1 .. k - 1 /\ 2 \in 1 .. k - 1 /\ 3 \in 1 .. k - 1
      BY <3>3
    <3>5. LinkFields[1] = "group" /\ LinkFields[2] = "slot" /\ LinkFields[3] = "gen"
      BY DEF LinkFields
    <3>6. c.group = ram.group /\ c.slot = ram.slot /\ c.gen = ram.gen
      BY <3>1, <3>4, <3>5 DEF c
    <3>7. Link(d.state) = Link(ram')
      BY <1>5, <1>7, <1>11, <3>6 DEF Link
    <3> QED
      BY <1>4, <1>9, <1>10, <1>11, <3>7 DEF Keeping
  <2> QED
    BY <1>8, <1>11, <2>1
<1>12. CASE d.persist
  <2>1. /\ \A i \in 1 .. 4 : ~ (i < 1)
        /\ \A i \in 1 .. 3 : ~ (i + 4 < 1)
    OBVIOUS
  <2> DEFINE o2 == task'[t].outcome
             p2 == replayControlOutcome(o2)
  <2>2. o2 = d /\ p2 = p
    BY <1>9
  <2>3. task'[t].todo = Rest(p2, 1)
    BY <1>9, <1>10, <2>2
  <2>4. o2 \in ControlOutcome /\ o2.persist /\ Normal(o2.state)
    BY <1>4, <1>6, <1>12, <2>2
  <2>5. Saving(t, 1)' <=>
          /\ o2 \in ControlOutcome /\ o2.persist /\ Normal(o2.state)
          /\ task'[t].todo = Rest(p2, 1)
          /\ \A i \in 1 .. 4 : i < 1 => ram'[LinkFields[i]] = o2.state[LinkFields[i]]
          /\ \A i \in 1 .. 3 : i + 4 < 1 => nvs'[LinkFields[i]] = o2.state[LinkFields[i]]
    BY DEF Saving
  <2> HIDE DEF o2, p2
  <2> QED
    BY <2>1, <2>3, <2>4, <2>5
<1> QED
  BY <1>10, <1>11, <1>12

\* A step that applies an outcome: which one it is, from where the task is.
LEMMA ReplayKind ==
    ASSUME NEW t \in Tasks, task[t].outcome \in ControlOutcome,
           NEW k \in 1 .. Len(replayControlOutcome(task[t].outcome)),
           task[t].todo = Rest(replayControlOutcome(task[t].outcome), k),
           TaskStep(t)
    PROVE  LET o == task[t].outcome
               n == Len(replayControlOutcome(o))
           IN  /\ Advance(t)
               /\ n = IF o.persist THEN 10 ELSE 6
               /\ k \in Nat /\ 1 <= k /\ k <= n
               /\ \/ StoreField(t) /\ k \in 1 .. 4 /\ Field(t) = LinkFields[k]
                  \/ /\ Put(t) /\ o.persist /\ k \in 5 .. 7
                     /\ Field(t) = LinkFields[k - 4]
                  \/ Refresh(t) /\ o.persist /\ k = 8
                  \/ /\ EmitResult(t) \/ EmitState(t)
                     /\ IF o.persist THEN k \in 9 .. 10 ELSE k \in 5 .. 6
<1> DEFINE o == task[t].outcome
           n == Len(replayControlOutcome(o))
           op == Head(task[t].todo)[1]
<1>1. /\ k \in 1 .. 4 => op = "store" /\ Field(t) = LinkFields[k]
      /\ o.persist /\ k \in 5 .. 7 => op = "put" /\ Field(t) = LinkFields[k - 4]
      /\ o.persist /\ k = 8 => op = "refresh"
      /\ (o.persist => k > 8) /\ k > 4 => op \in {"R", "P"}
  BY ReplayAt
<1>2. o.persist \in BOOLEAN
  BY DEF ControlOutcome
<1>3. n = IF o.persist THEN 10 ELSE 6
  BY ReplaySteps
<1>4. k \in 1 .. n
  OBVIOUS
<1>5. op \notin {"load", "decide"}
  BY ReplayNeverReads
<1>6. \/ StoreField(t) /\ op = "store" /\ Advance(t)
      \/ Put(t) /\ op = "put" /\ Advance(t)
      \/ Refresh(t) /\ op = "refresh" /\ Advance(t)
      \/ (EmitResult(t) \/ EmitState(t)) /\ op \in {"R", "P"} /\ Advance(t)
  <2>1. ~ LoadField(t) /\ ~ Decide(t)
    BY <1>5 DEF LoadField, Decide, At
  <2>2. StoreField(t) => op = "store" /\ Advance(t)
    BY DEF StoreField, At
  <2>3. Put(t) => op = "put" /\ Advance(t)
    BY DEF Put, At
  <2>4. Refresh(t) => op = "refresh" /\ Advance(t)
    BY DEF Refresh, At
  <2>5. EmitResult(t) => op = "R" /\ Advance(t)
    BY DEF EmitResult, At
  <2>6. EmitState(t) => op = "P" /\ Advance(t)
    BY DEF EmitState, At
  <2> HIDE DEF op
  <2> QED
    BY <2>1, <2>2, <2>3, <2>4, <2>5, <2>6 DEF TaskStep
<1> HIDE DEF o, n, op
<1>7. n \in Nat /\ k \in Nat /\ 1 <= k /\ k <= n
  BY <1>2, <1>3, <1>4
<1>8. \/ k \in 1 .. 4
      \/ o.persist /\ k \in 5 .. 7
      \/ o.persist /\ k = 8
      \/ o.persist /\ k \in 9 .. 10
      \/ ~ o.persist /\ k \in 5 .. 6
  BY <1>2, <1>3, <1>7
<1>9. CASE k \in 1 .. 4
  BY <1>1, <1>3, <1>6, <1>7, <1>9 DEF o, n
<1>10. CASE o.persist /\ k \in 5 .. 7
  BY <1>1, <1>3, <1>6, <1>7, <1>10 DEF o, n
<1>11. CASE o.persist /\ k = 8
  BY <1>1, <1>3, <1>6, <1>7, <1>11 DEF o, n
<1>12. CASE o.persist /\ k \in 9 .. 10
  BY <1>1, <1>3, <1>6, <1>7, <1>12 DEF o, n
<1>13. CASE ~ o.persist /\ k \in 5 .. 6
  BY <1>1, <1>3, <1>6, <1>7, <1>13 DEF o, n
<1> QED
  BY <1>8, <1>9, <1>10, <1>11, <1>12, <1>13

\* Where a step that applies an outcome takes its task.
LEMMA ReplayNext ==
    ASSUME TypeOK, NEW t \in Tasks, task[t].outcome \in ControlOutcome,
           NEW k \in 1 .. Len(replayControlOutcome(task[t].outcome)),
           task[t].todo = Rest(replayControlOutcome(task[t].outcome), k),
           Advance(t)
    PROVE  LET p == replayControlOutcome(task[t].outcome)
           IN  /\ k = Len(p) => task'[t] = IdleTask
               /\ k # Len(p) => /\ task'[t].outcome = task[t].outcome
                                /\ task'[t].todo = Rest(p, k + 1)
                                /\ k + 1 \in 1 .. Len(p)
<1> DEFINE p == replayControlOutcome(task[t].outcome)
<1>1. task \in [Tasks -> Task]
  BY DEF TypeOK, Task
<1>2. /\ task' = [task EXCEPT ![t] = IF k = Len(p) THEN IdleTask
                                     ELSE [task[t] EXCEPT !.todo = Rest(p, k + 1)]]
      /\ k # Len(p) => k + 1 \in 1 .. Len(p)
  BY ReplayAt
<1> HIDE DEF p
<1>3. k = Len(p) => task'[t] = IdleTask
  BY <1>1, <1>2
<1>4. k # Len(p) => task'[t].outcome = task[t].outcome /\ task'[t].todo = Rest(p, k + 1)
  BY <1>1, <1>2 DEF Task
<1> QED
  BY <1>2, <1>3, <1>4 DEF p

\* The last two steps that apply an outcome are its emissions.
LEMMA EmitsLast ==
    ASSUME NEW o \in ControlOutcome,
           NEW k \in 1 .. Len(replayControlOutcome(o)),
           IF o.persist THEN k > 8 ELSE k > 4
    PROVE  /\ Rest(replayControlOutcome(o), k) # << >>
           /\ Head(Rest(replayControlOutcome(o), k))[1] \in {"R", "P"}
<1> DEFINE p == replayControlOutcome(o)
<1>1. /\ p \in Seq(Steps)
      /\ Len(p) = IF o.persist THEN 10 ELSE 6
      /\ o.persist => \A i \in 1 .. 2 : p[8 + i] = Emit(o)[i]
      /\ ~ o.persist => \A i \in 1 .. 2 : p[4 + i] = Emit(o)[i]
  BY ReplaySteps
<1>2. \A i \in 1 .. 2 : Emit(o)[i][1] \in {"R", "P"}
  BY DEF Emit, Emissions
<1> HIDE DEF p
<1>3. k \in 1 .. Len(p)
  BY DEF p
<1>4. Rest(p, k) # << >> /\ Head(Rest(p, k)) = p[k]
  BY <1>1, <1>3, RestFacts, Zenon
<1>5. p[k][1] \in {"R", "P"}
  <2>1. CASE o.persist
    <3>1. k - 8 \in 1 .. 2 /\ 8 + (k - 8) = k
      BY <1>1, <1>3, <2>1
    <3> QED
      BY <1>1, <1>2, <2>1, <3>1
  <2>2. CASE ~ o.persist
    <3>1. k - 4 \in 1 .. 2 /\ 4 + (k - 4) = k
      BY <1>1, <1>3, <2>2
    <3> QED
      BY <1>1, <1>2, <2>2, <3>1
  <2> QED
    BY <2>1, <2>2
<1> QED
  BY <1>4, <1>5 DEF p

\* A task that emits touches the link no more.
LEMMA EmitStep ==
    ASSUME TypeOK, ProgramInv, NEW t \in Tasks, EmitResult(t) \/ EmitState(t)
    PROVE  ~ Linking(t)' /\ UNCHANGED <<ram, nvs, info>>
<1> DEFINE o == task[t].outcome
           p == replayControlOutcome(o)
<1>1. /\ TaskStep(t) /\ Advance(t) /\ UNCHANGED <<ram, nvs, info>>
      /\ ~ Free(t) /\ Head(task[t].todo)[1] \in {"R", "P"}
  BY DEF TaskStep, EmitResult, EmitState, At
<1>2. ~ (\E k \in 1 .. Len(Reads) : task[t].todo = Rest(Reads, k))
  <2> SUFFICES ASSUME NEW k \in 1 .. Len(Reads), task[t].todo = Rest(Reads, k)
               PROVE  FALSE
    OBVIOUS
  <2>1. k <= 4 \/ k > 4
    BY ReadsSteps
  <2> QED
    BY <1>1, <2>1, ReadAt
<1>3. task[t] # IdleTask
  BY <1>1 DEF Free, IdleTask
<1>4. o \in ControlOutcome
  BY <1>2, <1>3 DEF ProgramInv
<1>5. PICK k \in 1 .. Len(p) : task[t].todo = Rest(p, k)
  BY <1>2, <1>3 DEF ProgramInv
<1>6. k \in Nat /\ IF o.persist THEN k \in 9 .. 10 ELSE k \in 5 .. 6
  <2>1. ~ StoreField(t) /\ ~ Put(t) /\ ~ Refresh(t)
    BY <1>1 DEF StoreField, Put, Refresh, At
  <2>2. /\ k \in Nat
        /\ \/ StoreField(t) \/ Put(t) \/ Refresh(t)
           \/ IF o.persist THEN k \in 9 .. 10 ELSE k \in 5 .. 6
    BY <1>1, <1>4, <1>5, ReplayKind
  <2> QED
    BY <2>1, <2>2
<1>7. /\ k = Len(p) => task'[t] = IdleTask
      /\ k # Len(p) => task'[t].todo = Rest(p, k + 1) /\ k + 1 \in 1 .. Len(p)
  BY <1>1, <1>4, <1>5, ReplayNext
<1> HIDE DEF o, p
<1>8. task'[t].todo # << >> => Head(task'[t].todo)[1] \in {"R", "P"}
  <2>1. CASE k = Len(p)
    BY <1>7, <2>1 DEF IdleTask
  <2>2. CASE k # Len(p)
    <3>1. k + 1 \in 1 .. Len(p) /\ (IF o.persist THEN k + 1 > 8 ELSE k + 1 > 4)
      BY <1>6, <1>7, <2>2
    <3>2. Head(Rest(p, k + 1))[1] \in {"R", "P"}
      BY <1>4, <3>1, EmitsLast DEF p
    <3> QED
      BY <1>7, <2>2, <3>2
  <2> QED
    BY <2>1, <2>2
<1>9. ~ Linking(t)'
  BY <1>8 DEF Linking, Changing, At, Free
<1> QED
  BY <1>1, <1>9

\* What a task knows of the link stays true of a link that stays what it is,
\* and a task that has nothing in hand does not care.
LEMMA SettledStays ==
    ASSUME NEW u \in Tasks, Settled(u), task'[u] = task[u],
           ram' = ram \/ ~ Linking(u)
    PROVE  Settled(u)'
<1>1. CASE ~ Linking(u)
  <2>1. ~ Linking(u)'
    BY <1>1 DEF Linking, Changing, At, Free
  <2> QED
    BY <2>1 DEF Settled
<1>2. CASE ram' = ram /\ Reading(u)
  <2>1. Reading(u)'
    BY <1>2 DEF Reading
  <2> QED
    BY <2>1 DEF Settled
<1>3. CASE ram' = ram /\ Keeping(u)
  <2>1. Keeping(u)'
    BY <1>3 DEF Keeping
  <2> QED
    BY <2>1 DEF Settled
<1> QED
  BY <1>1, <1>2, <1>3 DEF Settled

\* An outcome that leaves the link alone is applied, and nothing changes.
LEMMA KeepStep ==
    ASSUME TypeOK, NEW t \in Tasks, Keeping(t), TaskStep(t)
    PROVE  /\ UNCHANGED <<nvs, info>> /\ Link(ram') = Link(ram)
           /\ Settled(t)'
           /\ ~ Put(t) /\ ~ Refresh(t) /\ ~ LoadField(t) /\ ~ Decide(t)
<1> DEFINE o == task[t].outcome
           p == replayControlOutcome(o)
<1>1. o \in ControlOutcome /\ ~ o.persist /\ Link(o.state) = Link(ram)
  BY DEF Keeping
<1>2. PICK k \in 1 .. Len(p) : task[t].todo = Rest(p, k)
  BY DEF Keeping
<1>3. /\ Advance(t)
      /\ \/ StoreField(t) /\ k \in 1 .. 4 /\ Field(t) = LinkFields[k]
         \/ EmitResult(t) \/ EmitState(t)
  BY <1>1, <1>2, ReplayKind
<1>4. /\ k = Len(p) => task'[t] = IdleTask
      /\ k # Len(p) => /\ task'[t].outcome = o
                       /\ task'[t].todo = Rest(p, k + 1)
                       /\ k + 1 \in 1 .. Len(p)
  BY <1>1, <1>2, <1>3, ReplayNext
<1> HIDE DEF o, p
<1>5. UNCHANGED <<nvs, info>> /\ Link(ram') = Link(ram)
  <2>1. CASE StoreField(t) /\ k \in 1 .. 4 /\ Field(t) = LinkFields[k]
    <3>1. ram' = [ram EXCEPT ![LinkFields[k]] = o.state[LinkFields[k]]]
      BY <2>1 DEF StoreField, o
    <3>2. /\ o.state.group = ram.group /\ o.state.slot = ram.slot
          /\ o.state.gen = ram.gen
      BY <1>1 DEF Link
    <3>3. ram \in LinkState
      BY DEF TypeOK
    <3>4. /\ ram'.group = ram.group /\ ram'.slot = ram.slot /\ ram'.gen = ram.gen
      BY <2>1, <3>1, <3>2, <3>3 DEF LinkState, LinkFields
    <3> QED
      BY <2>1, <3>4 DEF StoreField, Link
  <2>2. CASE EmitResult(t)
    BY <2>2 DEF EmitResult
  <2>3. CASE EmitState(t)
    BY <2>3 DEF EmitState
  <2> QED
    BY <1>3, <2>1, <2>2, <2>3
<1>6. CASE k = Len(p)
  <2>1. ~ Linking(t)'
    BY <1>4, <1>6 DEF Linking, Changing, At, Free, IdleTask
  <2> QED
    BY <1>3, <1>5, <2>1 DEF Settled, StoreField, EmitResult, EmitState,
                            Put, Refresh, LoadField, Decide, At
<1>7. CASE k # Len(p)
  <2>1. /\ task'[t].outcome \in ControlOutcome /\ ~ task'[t].outcome.persist
        /\ Link(task'[t].outcome.state) = Link(ram')
    BY <1>1, <1>4, <1>5, <1>7
  <2>2. /\ k + 1 \in 1 .. Len(replayControlOutcome(task'[t].outcome))
        /\ task'[t].todo = Rest(replayControlOutcome(task'[t].outcome), k + 1)
    BY <1>4, <1>7 DEF p
  <2>3. Keeping(t)'
    BY <2>1, <2>2 DEF Keeping
  <2> QED
    BY <1>3, <1>5, <2>3 DEF Settled, StoreField, EmitResult, EmitState,
                            Put, Refresh, LoadField, Decide, At
<1> QED
  BY <1>6, <1>7

\* A task that knows the link as it is leaves it alone, and knows it still,
\* unless it decides on a new one.
LEMMA SettledStep ==
    ASSUME TypeOK, ProgramInv, NEW t \in Tasks, Settled(t), TaskStep(t)
    PROVE  \/ Saving(t, 1)'
           \/ /\ UNCHANGED <<nvs, info>> /\ Link(ram') = Link(ram)
              /\ ram' = ram \/ StoreField(t)
              /\ Settled(t)'
<1>1. ~ StoreField(t) /\ ~ Put(t) /\ ~ Refresh(t) => ram' = ram
  BY DEF TaskStep, LoadField, Decide, EmitResult, EmitState
<1>2. CASE ~ Linking(t)
  <2>1. EmitResult(t) \/ EmitState(t)
    BY <1>2 DEF TaskStep, Linking, Changing, LoadField, Decide, StoreField, Put, Refresh
  <2> QED
    BY <2>1, EmitStep DEF Settled
<1>3. CASE Reading(t)
  <2>1. PICK k \in 1 .. Len(Reads) : task[t].todo = Rest(Reads, k)
    BY <1>3 DEF Reading
  <2>2. Head(task[t].todo)[1] \in {"load", "decide"}
    <3>1. k <= 4 \/ k > 4
      BY ReadsSteps
    <3> QED
      BY <2>1, <3>1, ReadAt
  <2>3. LoadField(t) \/ Decide(t)
    BY <2>2 DEF TaskStep, StoreField, Put, Refresh, EmitResult, EmitState, At
  <2>4. UNCHANGED <<ram, nvs, info>>
    BY <2>3 DEF LoadField, Decide
  <2>5. Reading(t)' \/ Keeping(t)' \/ Saving(t, 1)'
    BY <1>3, <2>3, ReadStep, DecideStep
  <2> QED
    BY <2>4, <2>5 DEF Settled
<1>4. CASE Keeping(t)
  BY <1>1, <1>4, KeepStep
<1> QED
  BY <1>2, <1>3, <1>4 DEF Settled

\* A task that is at one of the eight steps is at work on the link.
LEMMA SavingChanges ==
    ASSUME NEW t \in Tasks, NEW k \in 1 .. 8, Saving(t, k)
    PROVE  Changing(t) /\ k \in 1 .. Len(replayControlOutcome(task[t].outcome))
<1> DEFINE o == task[t].outcome
           p == replayControlOutcome(o)
           op == Head(task[t].todo)[1]
<1>1. o \in ControlOutcome /\ o.persist /\ task[t].todo = Rest(p, k)
  BY DEF Saving
<1>2. Len(p) = 10
  BY <1>1, ReplaySteps
<1>3. k \in 1 .. Len(p)
  <2> HIDE DEF p
  <2> QED
    BY <1>2
<1>4. /\ ~ Free(t)
      /\ k \in 1 .. 4 => op = "store"
      /\ k \in 5 .. 7 => op = "put"
      /\ k = 8 => op = "refresh"
  BY <1>1, <1>3, ReplayAt
<1>5. op \in {"store", "put", "refresh"}
  <2> HIDE DEF op
  <2>1. k \in 1 .. 4 \/ k \in 5 .. 7 \/ k = 8
    OBVIOUS
  <2> QED
    BY <1>4, <2>1
<1>6. Changing(t)
  BY <1>4, <1>5 DEF Changing, At
<1> QED
  BY <1>3, <1>6

\* A new link is stored, saved and shown, one step after the other.
LEMMA SaveStep ==
    ASSUME TypeOK, NEW t \in Tasks, NEW k \in 1 .. 8, Saving(t, k), TaskStep(t)
    PROVE  /\ k < 8 => Saving(t, k + 1)'
           /\ k = 8 => Saved' /\ ~ Linking(t)'
           /\ ram' = ram \/ StoreField(t)
<1> DEFINE o == task[t].outcome
           p == replayControlOutcome(o)
           Done(r, v, j) ==
             /\ \A i \in 1 .. 4 : i < j => r[LinkFields[i]] = o.state[LinkFields[i]]
             /\ \A i \in 1 .. 3 : i + 4 < j => v[LinkFields[i]] = o.state[LinkFields[i]]
<1>1. o \in ControlOutcome /\ o.persist /\ Normal(o.state)
  BY DEF Saving
<1>2. k \in 1 .. Len(p) /\ task[t].todo = Rest(p, k) /\ Done(ram, nvs, k)
  BY SavingChanges DEF Saving
<1>3. /\ Advance(t) /\ Len(p) = 10
      /\ \/ StoreField(t) /\ k \in 1 .. 4 /\ Field(t) = LinkFields[k]
         \/ Put(t) /\ k \in 5 .. 7 /\ Field(t) = LinkFields[k - 4]
         \/ Refresh(t) /\ k = 8
  <2>1. ~ (k \in 9 .. 10)
    OBVIOUS
  <2> QED
    BY <1>1, <1>2, <2>1, ReplayKind
<1>4. k # Len(p)
  BY <1>3
<1>5. task'[t].outcome = o /\ task'[t].todo = Rest(p, k + 1) /\ k + 1 \in 1 .. Len(p)
  BY <1>1, <1>2, <1>3, <1>4, ReplayNext
<1> HIDE DEF o, p
<1>6. ram \in LinkState /\ nvs \in SavedLink /\ o.state \in LinkState
  BY <1>1 DEF TypeOK, ControlOutcome
<1>7. CASE StoreField(t) /\ k \in 1 .. 4 /\ Field(t) = LinkFields[k]
  <2>1. ram' = [ram EXCEPT ![LinkFields[k]] = o.state[LinkFields[k]]]
    BY <1>7 DEF StoreField, o
  <2>2. \A j \in 1 .. 4 : LinkFields[j] \in DOMAIN ram
    BY <1>6 DEF LinkState, LinkFields
  <2>3. \A j \in 1 .. 4 : j < k + 1 => ram'[LinkFields[j]] = o.state[LinkFields[j]]
    <3>1. \A j \in 1 .. 4 : j < k + 1 => j < k \/ j = k
      BY <1>7
    <3> QED
      BY <1>2, <2>1, <2>2, <3>1
  <2>4. \A j \in 1 .. 3 : ~ (j + 4 < k + 1)
    BY <1>7
  <2>5. Done(ram', nvs', k + 1)
    BY <2>3, <2>4
  <2>6. Saving(t, k + 1)'
    BY <1>1, <1>5, <2>5 DEF Saving, p
  <2> QED
    BY <1>7, <2>6
<1>8. CASE Put(t) /\ k \in 5 .. 7 /\ Field(t) = LinkFields[k - 4]
  <2>1. nvs' = [nvs EXCEPT ![LinkFields[k - 4]] = ram[LinkFields[k - 4]]]
        /\ ram' = ram
    BY <1>8 DEF Put
  <2>2. \A j \in 1 .. 3 : LinkFields[j] \in DOMAIN nvs
    BY <1>6 DEF SavedLink, LinkFields
  <2>3. \A j \in 1 .. 4 : ram[LinkFields[j]] = o.state[LinkFields[j]]
    <3>1. \A j \in 1 .. 4 : j < k
      BY <1>8
    <3> QED
      BY <1>2, <3>1
  <2>4. \A j \in 1 .. 3 : j + 4 < k + 1 =>
            nvs'[LinkFields[j]] = o.state[LinkFields[j]]
    <3>1. \A j \in 1 .. 3 : j + 4 < k + 1 => j + 4 < k \/ j = k - 4
      BY <1>8
    <3>2. \A j \in 1 .. 3 : j \in 1 .. 4
      OBVIOUS
    <3> QED
      BY <1>2, <2>1, <2>2, <2>3, <3>1, <3>2
  <2>5. Done(ram', nvs', k + 1)
    BY <2>1, <2>3, <2>4
  <2>6. Saving(t, k + 1)'
    BY <1>1, <1>5, <2>5 DEF Saving, p
  <2> QED
    BY <1>8, <2>1, <2>6
<1>9. CASE Refresh(t) /\ k = 8
  <2>1. ram' = ram /\ nvs' = nvs /\ info' = Link(ram)
    BY <1>9 DEF Refresh
  <2>2. (\A l \in 1 .. 4 : l < k) /\ (\A l \in 1 .. 3 : l + 4 < k)
    BY <1>9
  <2>3. /\ \A l \in 1 .. 4 : ram[LinkFields[l]] = o.state[LinkFields[l]]
        /\ \A l \in 1 .. 3 : nvs[LinkFields[l]] = o.state[LinkFields[l]]
    BY <1>2, <2>2
  <2>4. /\ ram.group = o.state.group /\ ram.slot = o.state.slot /\ ram.gen = o.state.gen
        /\ nvs.group = o.state.group /\ nvs.slot = o.state.slot /\ nvs.gen = o.state.gen
    <3>1. LinkFields[1] = "group" /\ LinkFields[2] = "slot" /\ LinkFields[3] = "gen"
      BY DEF LinkFields
    <3>2. 1 \in 1 .. 3 /\ 2 \in 1 .. 3 /\ 3 \in 1 .. 3
          /\ 1 \in 1 .. 4 /\ 2 \in 1 .. 4 /\ 3 \in 1 .. 4
      OBVIOUS
    <3> QED
      BY <2>3, <3>1, <3>2
  <2>5. nvs = [group |-> nvs.group, slot |-> nvs.slot, gen |-> nvs.gen]
    BY <1>6 DEF SavedLink
  <2>6. loadLink(nvs) = nvs
    <3>1. (nvs.group = NoGroup) <=> (nvs.slot = 0)
      BY <1>1, <2>4 DEF Normal
    <3>2. nvs.slot \in Slots \cup {0}
      BY <1>6 DEF SavedLink
    <3>3. CASE nvs.slot # 0
      BY <3>1, <3>2, <3>3 DEF loadLink
    <3>4. CASE nvs.slot = 0
      BY <2>5, <3>1, <3>4 DEF loadLink
    <3> QED
      BY <3>3, <3>4
  <2>7. nvs = Link(ram)
    BY <2>4, <2>5 DEF Link
  <2>8. Saved'
    BY <2>1, <2>6, <2>7 DEF Saved
  <2>9. ~ Linking(t)'
    <3>1. k + 1 > 8 /\ k + 1 \in 1 .. Len(replayControlOutcome(o))
      BY <1>5, <1>9 DEF p
    <3>2. Head(Rest(p, k + 1))[1] \in {"R", "P"}
      BY <1>1, <3>1, EmitsLast DEF p
    <3> QED
      BY <1>5, <3>2 DEF Linking, Changing, At, Free
  <2> QED
    BY <1>9, <2>1, <2>8, <2>9
<1> QED
  BY <1>3, <1>7, <1>8, <1>9

\* A step of one task leaves the other where it is.
LEMMA OthersStay ==
    ASSUME TypeOK, NEW t \in Tasks, TaskStep(t), NEW u \in Tasks \ {t}
    PROVE  task'[u] = task[u]
<1>1. task \in [Tasks -> Task]
  BY DEF TypeOK, Task
<1>2. CASE LoadField(t)
  BY <1>1, <1>2 DEF LoadField
<1>3. CASE Decide(t)
  BY <1>1, <1>3 DEF Decide
<1>4. CASE Advance(t)
  BY <1>1, <1>4 DEF Advance
<1> QED
  BY <1>2, <1>3, <1>4 DEF TaskStep, StoreField, Put, Refresh, EmitResult, EmitState

\* A task that is where it was, over the link that was, is as far as it was; to
\* what is saved that matters from the first put on.
LEMMA SavingStays ==
    ASSUME NEW t \in Tasks, NEW k \in 1 .. 8, Saving(t, k),
           task'[t] = task[t], ram' = ram, nvs' = nvs \/ k <= 4
    PROVE  Saving(t, k)'
<1>1. \A i \in 1 .. 3 : k <= 4 => ~ (i + 4 < k)
  OBVIOUS
<1>2. CASE nvs' = nvs
  BY <1>2 DEF Saving
<1>3. CASE k <= 4
  BY <1>1, <1>3 DEF Saving
<1> QED
  BY <1>2, <1>3

\* A handler that starts has read nothing yet.
LEMMA StartStep ==
    ASSUME TypeOK, HandlerInv, NEW t \in Tasks, NEW q, Start(t, q)
    PROVE  HandlerInv'
<1>0. task \in [Tasks -> Task]
  BY DEF TypeOK, Task
<1>1. UNCHANGED <<ram, nvs, info, raced>> /\ Free(t)
  BY DEF Start
<1>2. task' = [task EXCEPT ![t] = [IdleTask EXCEPT !.todo = Reads, !.packet = q]]
  BY DEF Start, Reads
<1>3. \A u \in Tasks \ {t} : task'[u] = task[u]
  BY <1>0, <1>2
<1>4. Settled(t)'
  <2>1. Reads = Rest(Reads, 1) /\ 1 \in 1 .. Len(Reads)
    BY ReadsSteps, RestOfWhole
  <2>2. task'[t].todo = Rest(Reads, 1)
    BY <1>0, <1>2, <2>1 DEF IdleTask
  <2>3. \A i \in 1 .. 1 - 1 :
            task'[t].current[LinkFields[i]] = ram'[LinkFields[i]]
    OBVIOUS
  <2>4. Reading(t)'
    BY <2>1, <2>2, <2>3 DEF Reading
  <2> QED
    BY <2>4 DEF Settled
<1>5. \A u \in Tasks : Settled(u) => Settled(u)'
  BY <1>1, <1>3, <1>4, SettledStays
<1>6. CASE raced
  BY <1>1, <1>6 DEF HandlerInv
<1>7. CASE Saved /\ \A u \in Tasks : Settled(u)
  BY <1>1, <1>5, <1>7 DEF HandlerInv, Saved
<1>8. ASSUME NEW v \in Tasks, NEW k \in 1 .. 8, Saving(v, k),
             4 < k => \A u \in Tasks \ {v} : Settled(u)
      PROVE  HandlerInv'
  <2>1. v # t
    BY <1>1, <1>8, SavingChanges DEF Changing, At
  <2>2. Saving(v, k)'
    BY <1>1, <1>3, <1>8, <2>1, SavingStays
  <2> QED
    BY <1>5, <1>8, <2>2 DEF HandlerInv
<1> QED
  BY <1>6, <1>7, <1>8 DEF HandlerInv

\* So does every step of a handler preserve HandlerInv.
LEMMA HandlerStep ==
    ASSUME TypeOK, ProgramInv, HandlerInv, NEW t \in Tasks, TaskStep(t)
    PROVE  HandlerInv'
<1>0. raced \in BOOLEAN
  BY DEF TypeOK
<1>1. \A u \in Tasks \ {t} : task'[u] = task[u]
  BY OthersStay
<1>2. Saving(t, 1)' => HandlerInv'
  <2>1. 1 \in 1 .. 8 /\ ~ (4 < 1)
    OBVIOUS
  <2> QED
    BY <2>1 DEF HandlerInv
<1>3. CASE Decide(t)
  <2>1. UNCHANGED <<ram, nvs, info>>
    BY <1>3 DEF Decide
  <2>2. CASE Saving(t, 1)'
    BY <1>2, <2>2
  <2>3. CASE raced' = raced /\ (Reading(t) => Keeping(t)')
    <3>1. Settled(t) => Settled(t)'
      <4>1. Settled(t) => Reading(t) \/ Keeping(t)
        BY <1>3 DEF Settled, Linking, Decide
      <4>2. ~ Keeping(t)
        BY <1>3, KeepStep
      <4> QED
        BY <2>3, <4>1, <4>2 DEF Settled
    <3>2. \A u \in Tasks : Settled(u) => Settled(u)'
      BY <1>1, <2>1, <3>1, SettledStays
    <3>3. CASE raced
      BY <2>3, <3>3 DEF HandlerInv
    <3>4. CASE Saved /\ \A u \in Tasks : Settled(u)
      BY <2>1, <3>2, <3>4 DEF HandlerInv, Saved
    <3>5. ASSUME NEW v \in Tasks, NEW k \in 1 .. 8, Saving(v, k),
                 4 < k => \A u \in Tasks \ {v} : Settled(u)
          PROVE  HandlerInv'
      <4>1. v # t
        <5>1. Head(task[t].todo)[1] = "decide"
          BY <1>3 DEF Decide, At
        <5> QED
          BY <3>5, <5>1, SavingChanges DEF Changing, At
      <4>2. Saving(v, k)'
        BY <1>1, <2>1, <3>5, <4>1, SavingStays
      <4> QED
        BY <3>2, <3>5, <4>2 DEF HandlerInv
    <3> QED
      BY <3>3, <3>4, <3>5 DEF HandlerInv
  <2> QED
    BY <1>3, <2>2, <2>3, DecideStep
<1>4. CASE ~ Decide(t) /\ raced'
  BY <1>4 DEF HandlerInv
<1>5. CASE ~ Decide(t) /\ ~ raced'
  <2>1. /\ ~ raced
        /\ StoreField(t) => \A u \in Tasks \ {t} : ~ Linking(u)
    <3> DEFINE X == \E u \in Tasks \ {t} : Linking(u)
    <3>1. CASE StoreField(t)
      <4>1. raced' = (raced \/ X)
        BY <3>1 DEF StoreField
      <4> HIDE DEF X
      <4>2. ~ raced /\ ~ X
        BY <1>0, <1>5, <4>1, Zenon
      <4> QED
        BY <4>2 DEF X
    <3>2. CASE ~ StoreField(t)
      <4>1. raced' = raced
        BY <1>5, <3>2 DEF TaskStep, LoadField, Put, Refresh, EmitResult, EmitState
      <4> QED
        BY <1>5, <3>2, <4>1
    <3> QED
      BY <3>1, <3>2
  <2>2. ram' = ram \/ StoreField(t) =>
            \A u \in Tasks \ {t} : Settled(u) => Settled(u)'
    BY <1>1, <2>1, SettledStays
  <2>3. CASE Saved /\ \A u \in Tasks : Settled(u)
    <3>1. CASE Saving(t, 1)'
      BY <1>2, <3>1
    <3>2. CASE /\ UNCHANGED <<nvs, info>> /\ Link(ram') = Link(ram)
               /\ ram' = ram \/ StoreField(t)
               /\ Settled(t)'
      <4>1. Saved'
        BY <2>3, <3>2 DEF Saved
      <4>2. \A u \in Tasks : Settled(u)'
        BY <2>2, <2>3, <3>2
      <4> QED
        BY <4>1, <4>2 DEF HandlerInv
    <3> QED
      BY <2>3, <3>1, <3>2, SettledStep
  <2>4. ASSUME NEW k \in 1 .. 8, Saving(t, k),
               4 < k => \A u \in Tasks \ {t} : Settled(u)
        PROVE  HandlerInv'
    <3>1. /\ k < 8 => Saving(t, k + 1)'
          /\ k = 8 => Saved' /\ ~ Linking(t)'
          /\ ram' = ram \/ StoreField(t)
      BY <2>4, SaveStep
    <3>2. 4 < k + 1 => \A u \in Tasks \ {t} : Settled(u)'
      <4>1. CASE StoreField(t)
        BY <2>1, <2>2, <4>1 DEF Settled
      <4>2. CASE ~ StoreField(t) /\ 4 < k
        BY <2>2, <2>4, <3>1, <4>2
      <4>3. 4 < k + 1 /\ ~ (4 < k) => k = 4
        OBVIOUS
      <4>4. k = 4 => StoreField(t)
        <5> SUFFICES ASSUME k = 4 PROVE StoreField(t)
          OBVIOUS
        <5>1. /\ task[t].outcome \in ControlOutcome
              /\ k \in 1 .. Len(replayControlOutcome(task[t].outcome))
              /\ task[t].todo = Rest(replayControlOutcome(task[t].outcome), k)
          BY <2>4, SavingChanges DEF Saving
        <5>2. k \in 1 .. 4
          OBVIOUS
        <5>3. Head(task[t].todo)[1] = "store"
          BY <5>1, <5>2, ReplayAt
        <5> QED
          BY <5>3 DEF TaskStep, LoadField, Decide, Put, Refresh, EmitResult,
                      EmitState, At
      <4> QED
        BY <4>1, <4>2, <4>3, <4>4
    <3>3. CASE k < 8
      <4>1. k + 1 \in 1 .. 8
        BY <3>3
      <4> QED
        BY <3>1, <3>2, <3>3, <4>1 DEF HandlerInv
    <3>4. CASE k = 8
      <4>1. \A u \in Tasks : Settled(u)'
        BY <3>1, <3>2, <3>4 DEF Settled
      <4> QED
        BY <3>1, <3>4, <4>1 DEF HandlerInv
    <3> QED
      BY <3>3, <3>4
  <2>5. ASSUME NEW v \in Tasks \ {t}, NEW k \in 1 .. 8, Saving(v, k),
               4 < k => \A u \in Tasks \ {v} : Settled(u)
        PROVE  HandlerInv'
    <3>1. ~ StoreField(t)
      BY <2>1, <2>5, SavingChanges DEF Linking
    <3>2. ram' = ram
      BY <3>1 DEF TaskStep, LoadField, Decide, Put, Refresh, EmitResult, EmitState
    <3>3. CASE k <= 4
      <4>1. Saving(v, k)'
        BY <1>1, <2>5, <3>2, <3>3, SavingStays
      <4>2. ~ (4 < k)
        BY <3>3
      <4> QED
        BY <4>1, <4>2 DEF HandlerInv
    <3>4. CASE ~ (k <= 4)
      <4>0. 4 < k
        BY <3>4
      <4>1. \A u \in Tasks \ {v} : Settled(u)
        BY <2>5, <4>0
      <4>2. CASE Saving(t, 1)'
        BY <1>2, <4>2
      <4>3. CASE nvs' = nvs /\ Settled(t)'
        <5>1. Saving(v, k)'
          BY <1>1, <2>5, <3>2, <4>3, SavingStays
        <5>2. \A u \in Tasks \ {v} : Settled(u)'
          BY <2>2, <3>2, <4>1, <4>3
        <5> QED
          BY <5>1, <5>2 DEF HandlerInv
      <4> QED
        BY <4>1, <4>2, <4>3, SettledStep
    <3> QED
      BY <3>3, <3>4
  <2>6. \/ Saved /\ \A u \in Tasks : Settled(u)
        \/ \E v \in Tasks, k \in 1 .. 8 :
               Saving(v, k) /\ (4 < k => \A u \in Tasks \ {v} : Settled(u))
    BY <2>1 DEF HandlerInv
  <2> QED
    BY <2>3, <2>4, <2>5, <2>6
<1> QED
  BY <1>3, <1>4, <1>5

\* HandlerInv holds of every device, whatever a phone writes, whenever the
\* button is held and wherever a power loss falls.
LEMMA HandlerInvariant == Spec => []HandlerInv
<1>0. \A t \in Tasks : task[t] = IdleTask => ~ Linking(t)
  BY DEF Linking, Changing, At, Free, IdleTask
<1>1. Init => HandlerInv
  <2> SUFFICES ASSUME Init PROVE HandlerInv
    OBVIOUS
  <2>1. nvs \in SavedLink
    BY GenModAssumption DEF Init, SavedLink, GroupIds
  <2>2. Saved
    BY <2>1, BootedFacts DEF Init, Saved
  <2>3. \A t \in Tasks : Settled(t)
    BY <1>0 DEF Init, Settled
  <2> QED
    BY <2>2, <2>3 DEF HandlerInv
<1>2. TypeOK /\ ProgramInv /\ HandlerInv /\ [Next]_vars => HandlerInv'
  <2> SUFFICES ASSUME TypeOK, ProgramInv, HandlerInv, [Next]_vars PROVE HandlerInv'
    OBVIOUS
  <2>1. CASE onWrite
    <3>1. PICK q \in CommandPackets : Start("ble", q)
      BY <2>1 DEF onWrite
    <3>2. "ble" \in Tasks
      BY DEF Tasks
    <3> QED
      BY <3>1, <3>2, StartStep
  <2>2. CASE LongHold
    <3>1. "loop" \in Tasks /\ Start("loop", None)
      BY <2>2 DEF LongHold, Tasks
    <3> QED
      BY <3>1, StartStep
  <2>3. CASE PowerCycle
    <3>1. loadLink(nvs) = Link(Booted(nvs))
      BY BootedFacts DEF TypeOK
    <3>2. Saved'
      BY <2>3, <3>1 DEF PowerCycle, Saved
    <3>3. \A t \in Tasks : ~ Linking(t)'
      BY <2>3 DEF PowerCycle, Linking, Changing, At, Free, IdleTask
    <3> QED
      BY <3>2, <3>3 DEF HandlerInv, Settled
  <2>4. CASE \E t \in Tasks : TaskStep(t)
    BY <2>4, HandlerStep
  <2>5. CASE UNCHANGED vars
    <3>1. \A t \in Tasks : task'[t] = task[t]
      BY <2>5 DEF vars
    <3>2. \A t \in Tasks : Settled(t) => Settled(t)'
      BY <2>5, <3>1, SettledStays DEF vars
    <3>3. \A t \in Tasks, k \in 1 .. 8 : Saving(t, k) => Saving(t, k)'
      BY <2>5, <3>1, SavingStays DEF vars
    <3> QED
      BY <2>5, <3>2, <3>3 DEF vars, HandlerInv, Saved
  <2> QED
    BY <2>1, <2>2, <2>3, <2>4, <2>5 DEF Next
<1> QED
  BY <1>1, <1>2, DeviceTypes, PTL DEF Spec

\* Of a device none of whose tasks is changing the link, HandlerInv says that
\* the link is saved and shown.
LEMMA QuietIsSaved ==
    ASSUME HandlerInv, ~ raced, Quiet PROVE Saved
BY SavingChanges DEF HandlerInv, Quiet

\* With the types and the programs, that is the inductive invariant.
THEOREM DeviceInvariant == Spec => []DeviceInv
<1>1. TypeOK /\ ProgramInv /\ HandlerInv => DeviceInv
  BY DEF DeviceInv
<1> QED
  BY <1>1, DeviceTypes, HandlerInvariant, PTL

\* Whatever the two tasks read and emit in the meantime, when neither is
\* storing, saving or showing a link the one in use is the one that is saved and
\* shown.  The exception is a store that fell between the first read and the
\* last step of the other task's change, until the next change or boot.
THEOREM DeviceWakesAsIs == Spec => []WakesAsIs
<1>1. HandlerInv => WakesAsIs
  BY QuietIsSaved DEF WakesAsIs
<1> QED
  BY <1>1, HandlerInvariant, PTL

\* With the same exception, the device has a whole link or none.
THEOREM DeviceLinkIsWhole == Spec => []LinkIsWhole
<1>1. TypeOK /\ HandlerInv => LinkIsWhole
  BY QuietIsSaved, SavedIsWhole DEF LinkIsWhole
<1> QED
  BY <1>1, HandlerInvariant, DeviceTypes, PTL

\* With the same exception, the link that a ControlResult reports survives a
\* power loss right after it.
THEOREM ReportedLinkSurvives == Spec => ResultSurvives
<1>1. HandlerInv /\ [Next]_vars
        => [\A t \in Tasks :
               EmitResult(t) /\ ~ raced /\ Quiet => loadLink(nvs) = Link(ram)]_vars
  BY QuietIsSaved DEF Saved
<1> QED
  BY <1>1, HandlerInvariant, PTL DEF Spec, ResultSurvives
=============================================================================
