---------------------------- MODULE PublishProofs ----------------------------
(***************************************************************************)
(* Theorems about StatePublish, however handlers overlap: types, that a    *)
(* press is sent or replaced, and that a packet says long_pressed only of  *)
(* a press that has lasted, but for the moment in which one begins.        *)
(***************************************************************************)
EXTENDS StatePublish, SequenceTheorems, TLAPS

(***************************************************************************)
(* The programs.                                                           *)
(***************************************************************************)

\* publishState(), step by step.
LEMMA PublishSteps ==
    LET P == publishState
    IN  /\ P \in Seq(Ops) /\ Len(P) = 8
        /\ P[1] = "seq = nextSeq(seq)" /\ P[2] = "store seq" /\ P[3] = "stablePressed"
        /\ P[4] = "armed" /\ P[5] = "long pressed" /\ P[6] = "seq"
        /\ P[7] = "setValue" /\ P[8] = "notify"
<1> DEFINE E == <<"setValue", "notify">>
           P == Snapshot \o E
<1>1. Snapshot \in Seq(Ops) /\ Len(Snapshot) = 6 /\ E \in Seq(Ops) /\ Len(E) = 2
  BY DEF Snapshot, Ops
<1>2. /\ Snapshot[1] = "seq = nextSeq(seq)" /\ Snapshot[2] = "store seq"
      /\ Snapshot[3] = "stablePressed" /\ Snapshot[4] = "armed"
      /\ Snapshot[5] = "long pressed" /\ Snapshot[6] = "seq"
      /\ E[1] = "setValue" /\ E[2] = "notify"
  BY DEF Snapshot
<1> HIDE DEF E
<1>3. /\ P \in Seq(Ops) /\ Len(P) = Len(Snapshot) + Len(E)
      /\ \A i \in 1 .. Len(Snapshot) + Len(E) :
             P[i] = IF i <= Len(Snapshot) THEN Snapshot[i] ELSE E[i - Len(Snapshot)]
  BY <1>1, ConcatProperties
<1> HIDE DEF P
<1>4. /\ P \in Seq(Ops) /\ Len(P) = 8
      /\ \A i \in 1 .. 8 : P[i] = IF i <= 6 THEN Snapshot[i] ELSE E[i - 6]
  BY <1>1, <1>3
<1>5. publishState = P
  BY DEF publishState, P, E
<1>6. (\A i \in 1 .. 6 : P[i] = Snapshot[i]) /\ \A i \in 7 .. 8 : P[i] = E[i - 6]
  BY <1>4
<1>7. /\ P[1] = Snapshot[1] /\ P[2] = Snapshot[2] /\ P[3] = Snapshot[3]
      /\ P[4] = Snapshot[4] /\ P[5] = Snapshot[5] /\ P[6] = Snapshot[6]
      /\ P[7] = E[1] /\ P[8] = E[2]
  BY <1>6
<1> QED
  BY <1>2, <1>4, <1>5, <1>7

\* One step before publishState().
LEMMA StepThenPublish ==
    ASSUME NEW s \in Ops
    PROVE  /\ <<s>> \o publishState \in Seq(Ops)
           /\ Len(<<s>> \o publishState) = 9
           /\ (<<s>> \o publishState)[1] = s
           /\ \A i \in 2 .. 9 : (<<s>> \o publishState)[i] = publishState[i - 1]
<1> DEFINE S == <<s>>
           P == S \o publishState
<1>1. S \in Seq(Ops) /\ Len(S) = 1 /\ S[1] = s
  OBVIOUS
<1>2. publishState \in Seq(Ops) /\ Len(publishState) = 8
  BY PublishSteps
<1> HIDE DEF S
<1>3. /\ P \in Seq(Ops) /\ Len(P) = Len(S) + Len(publishState)
      /\ \A i \in 1 .. Len(S) + Len(publishState) :
             P[i] = IF i <= Len(S) THEN S[i] ELSE publishState[i - Len(S)]
  BY <1>1, <1>2, ConcatProperties
<1> HIDE DEF P
<1>4. /\ P \in Seq(Ops) /\ Len(P) = 9
      /\ \A i \in 1 .. 9 : P[i] = IF i <= 1 THEN S[i] ELSE publishState[i - 1]
  BY <1>1, <1>2, <1>3
<1>5. P[1] = s /\ \A i \in 2 .. 9 : P[i] = publishState[i - 1]
  BY <1>1, <1>4
<1> QED
  BY <1>4, <1>5 DEF P, S

\* A debounced press, step by step.
LEMMA DownSteps ==
    LET P == buttonDown
    IN  /\ P \in Seq(Ops) /\ Len(P) = 10
        /\ P[1] = "down" /\ P[2] = "pressStartedAtMs"
        /\ P[3] = "seq = nextSeq(seq)" /\ P[4] = "store seq" /\ P[5] = "stablePressed"
        /\ P[6] = "armed" /\ P[7] = "long pressed" /\ P[8] = "seq"
        /\ P[9] = "setValue" /\ P[10] = "notify"
<1> DEFINE E == <<"down", "pressStartedAtMs">>
           P == E \o publishState
<1>1. E \in Seq(Ops) /\ Len(E) = 2 /\ E[1] = "down" /\ E[2] = "pressStartedAtMs"
  BY DEF Ops
<1>2. publishState \in Seq(Ops) /\ Len(publishState) = 8
  BY PublishSteps
<1> HIDE DEF E
<1>3. /\ P \in Seq(Ops) /\ Len(P) = Len(E) + Len(publishState)
      /\ \A i \in 1 .. Len(E) + Len(publishState) :
             P[i] = IF i <= Len(E) THEN E[i] ELSE publishState[i - Len(E)]
  BY <1>1, <1>2, ConcatProperties
<1> HIDE DEF P
<1>4. /\ P \in Seq(Ops) /\ Len(P) = 10
      /\ \A i \in 1 .. 10 : P[i] = IF i <= 2 THEN E[i] ELSE publishState[i - 2]
  BY <1>1, <1>2, <1>3
<1>5. P[1] = "down" /\ P[2] = "pressStartedAtMs"
      /\ \A i \in 3 .. 10 : P[i] = publishState[i - 2]
  BY <1>1, <1>4
<1>6. /\ P[3] = publishState[1] /\ P[4] = publishState[2] /\ P[5] = publishState[3]
      /\ P[6] = publishState[4] /\ P[7] = publishState[5] /\ P[8] = publishState[6]
      /\ P[9] = publishState[7] /\ P[10] = publishState[8]
  BY <1>5
<1>7. buttonDown = P
  BY DEF buttonDown, P, E
<1> QED
  BY <1>4, <1>5, <1>6, <1>7, PublishSteps

\* Only a press starts with "down", and only as its first step.
LEMMA OnlyDown ==
    ASSUME NEW t \in Tasks, NEW program \in Programs(t), NEW k \in DOMAIN program
    PROVE  /\ program \in Seq(Ops) /\ DOMAIN program = 1 .. Len(program)
           /\ 1 \in DOMAIN program
           /\ program[k] = "down" => t = "loop" /\ program = buttonDown /\ k = 1
<1>1. \A i \in 1 .. 8 : publishState[i] # "down"
  <2>1. \A i \in 1 .. 8 : i = 1 \/ i = 2 \/ i = 3 \/ i = 4 \/ i = 5 \/ i = 6 \/ i = 7 \/ i = 8
    OBVIOUS
  <2> QED
    BY <2>1, PublishSteps
<1>2. ASSUME NEW s \in Ops \ {"down"}
      PROVE  \A i \in 1 .. 9 : (<<s>> \o publishState)[i] # "down"
  <2>1. /\ (<<s>> \o publishState)[1] = s
        /\ \A i \in 2 .. 9 : (<<s>> \o publishState)[i] = publishState[i - 1]
    BY StepThenPublish
  <2>2. \A i \in 1 .. 9 : i = 1 \/ (i \in 2 .. 9 /\ i - 1 \in 1 .. 8)
    OBVIOUS
  <2> QED
    BY <1>1, <2>1, <2>2
<1>3. \A i \in 2 .. 10 : buttonDown[i] # "down"
  <2>1. \A i \in 2 .. 10 : i = 2 \/ i = 3 \/ i = 4 \/ i = 5 \/ i = 6 \/ i = 7 \/ i = 8
                           \/ i = 9 \/ i = 10
    OBVIOUS
  <2> QED
    BY <2>1, DownSteps
<1>4. CASE program = buttonDown
  <2>1. t = "loop"
    <3>1. buttonDown \notin {onWrite, onConnect, onDisconnect}
      <4>1. Len(buttonDown) = 10
        BY DownSteps
      <4>2. Len(onWrite) = 9 /\ Len(onConnect) = 9
        BY StepThenPublish DEF onWrite, onConnect, Ops
      <4>3. Len(onDisconnect) = 1
        BY DEF onDisconnect
      <4> QED
        BY <4>1, <4>2, <4>3
    <3> QED
      BY <1>4, <3>1 DEF Programs
  <2>2. program \in Seq(Ops) /\ Len(program) = 10 /\ DOMAIN program = 1 .. Len(program)
    BY <1>4, DownSteps, LenProperties
  <2>3. k = 1 \/ k \in 2 .. 10
    BY <2>2
  <2>4. 1 \in DOMAIN program
    BY <2>2
  <2> QED
    BY <1>3, <1>4, <2>1, <2>2, <2>3, <2>4
<1>5. CASE program = publishState
  <2>1. program \in Seq(Ops) /\ Len(program) = 8 /\ DOMAIN program = 1 .. Len(program)
    BY <1>5, PublishSteps, LenProperties
  <2> QED
    BY <1>1, <1>5, <2>1
<1>6. ASSUME NEW s \in Ops \ {"down"}, program = <<s>> \o publishState
      PROVE  /\ program \in Seq(Ops) /\ DOMAIN program = 1 .. Len(program)
             /\ 1 \in DOMAIN program /\ program[k] # "down"
  <2>1. program \in Seq(Ops) /\ Len(program) = 9
    BY <1>6, StepThenPublish
  <2>2. DOMAIN program = 1 .. Len(program)
    BY <2>1, LenProperties
  <2> QED
    BY <1>2, <1>6, <2>1, <2>2
<1>7. CASE program = onDisconnect
  <2>1. program = <<"disconnected">> /\ "disconnected" \in Ops
    BY <1>7 DEF onDisconnect, Ops
  <2>2. program \in Seq(Ops) /\ DOMAIN program = 1 .. 1 /\ Len(program) = 1
        /\ program[1] = "disconnected"
    BY <2>1
  <2> QED
    BY <2>2
<1>8. \/ program \in {buttonDown, publishState, onDisconnect}
      \/ \E s \in Ops \ {"down"} : program = <<s>> \o publishState
  <2>1. {"up", "toggle armed", "connected"} \subseteq Ops \ {"down"}
    BY DEF Ops
  <2> QED
    BY <2>1 DEF Programs, buttonUp, heartbeat, onWrite, onConnect
<1> QED
  BY <1>4, <1>5, <1>6, <1>7, <1>8

(***************************************************************************)
(* Types, and each task in a program of its own.                           *)
(***************************************************************************)

TaskType == [todo: Seq(Ops), seq: 0 .. SeqWrap - 1, packet: PacketType]

\* A task between handlers is a task.
LEMMA IdleType == IdleTask \in TaskType /\ NoPacket \in PacketType
BY BoundsAssumption DEF IdleTask, NoPacket, TaskType, PacketType

\* Where a task stands when it starts, and where it goes on to.
LEMMA StandsFacts ==
    ASSUME NEW t \in Tasks, NEW program \in Seq(Ops), NEW k \in 1 .. Len(program),
           task[t].todo = SubSeq(program, k, Len(program))
    PROVE  /\ ~ Free(t) /\ Head(task[t].todo) = program[k]
           /\ k < Len(program) =>
                  /\ Tail(task[t].todo) = SubSeq(program, k + 1, Len(program))
                  /\ Tail(task[t].todo) # << >>
           /\ k = Len(program) => Tail(task[t].todo) = << >>
<1> DEFINE n == Len(program)
           s == task[t].todo
<1>1. n \in Nat /\ k \in 1 .. n /\ n \in k .. n /\ k \in Int /\ n \in Int
      /\ \A i \in k .. n : program[i] \in Ops
  OBVIOUS
<1>2. Head(s) = program[k] /\ Tail(s) = SubSeq(program, k + 1, n)
  BY <1>1, HeadTailOfSubSeq
<1> HIDE DEF n
<1>3. SubSeq(program, k, n) \in Seq(Ops) /\ Len(SubSeq(program, k, n)) = n - k + 1
  <2>1. Len(SubSeq(program, k, n)) = IF k <= n THEN n - k + 1 ELSE 0
    BY <1>1, SubSeqProperties
  <2> QED
    BY <1>1, <2>1, SubSeqProperties
<1>4. s \in Seq(Ops) /\ Len(s) = n - k + 1
  BY <1>3 DEF n
<1> HIDE DEF s
<1>5. s # << >>
  BY <1>1, <1>4
<1>6. Tail(s) \in Seq(Ops) /\ Len(Tail(s)) = n - k
  BY <1>1, <1>4, <1>5, HeadTailProperties
<1>7. k < n => Tail(s) # << >>
  <2>1. Tail(s) = << >> => Len(Tail(s)) = 0
    BY EmptySeq, Zenon
  <2>2. k < n => n - k # 0
    BY <1>1
  <2> QED
    BY <1>6, <2>1, <2>2
<1>8. k = n => Tail(s) = << >>
  <2>1. Len(Tail(s)) = 0 => Tail(s) = << >>
    BY <1>6, EmptySeq
  <2> QED
    BY <1>1, <1>6, <2>1
<1> QED
  BY <1>2, <1>5, <1>7, <1>8 DEF Free, s, n

\* Every step of a task goes on to the next, with a record of the right type;
\* only the read of stablePressed changes the press in its snapshot.
LEMMA StepGoes ==
    ASSUME TypeOK, NEW t \in Tasks, Step(t)
    PROVE  \E w \in TaskType :
               /\ w.todo = task[t].todo /\ Go(t, w) /\ ~ Free(t)
               /\ w.packet.pressed = IF Head(task[t].todo) = "stablePressed"
                                     THEN pressed ELSE task[t].packet.pressed
<1> DEFINE w0 == task[t]
<1>1. w0 \in TaskType
  BY DEF TypeOK, TaskType
<1>2. /\ seq \in 0 .. SeqWrap - 1 /\ pressed \in BOOLEAN /\ armed \in BOOLEAN
      /\ ripe \in BOOLEAN
  BY DEF TypeOK
<1>3. CASE StorePressed(t)
  BY <1>1, <1>3 DEF StorePressed, Skip, At
<1>4. CASE StoreStart(t)
  BY <1>1, <1>4 DEF StoreStart, Skip, At
<1>5. CASE StoreOther(t)
  <2>1. Go(t, w0)
    BY <1>5 DEF StoreOther, Skip
  <2>2. ~ Free(t) /\ Head(w0.todo) # "stablePressed"
    BY <1>5 DEF StoreOther, At
  <2> QED
    BY <1>1, <2>1, <2>2
<1>6. CASE LoadSeq(t)
  <2>1. (seq + 1) % SeqWrap \in 0 .. SeqWrap - 1
    BY <1>2, BoundsAssumption
  <2> DEFINE w == [w0 EXCEPT !.seq = (seq + 1) % SeqWrap]
  <2>2. w \in TaskType /\ w.todo = w0.todo /\ w.packet = w0.packet
    BY <1>1, <2>1 DEF TaskType
  <2>3. Go(t, w) /\ ~ Free(t) /\ Head(w0.todo) # "stablePressed"
    BY <1>6 DEF LoadSeq, At
  <2> HIDE DEF w
  <2> QED
    BY <2>2, <2>3
<1>7. CASE StoreSeq(t)
  BY <1>1, <1>7 DEF StoreSeq, Skip, At
<1>8. CASE ReadField(t)
  <2>1. CASE At(t, "stablePressed") /\ Go(t, [w0 EXCEPT !.packet.pressed = pressed])
    <3> DEFINE w == [w0 EXCEPT !.packet.pressed = pressed]
    <3>1. w \in TaskType /\ w.todo = w0.todo /\ w.packet.pressed = pressed
      BY <1>1, <1>2 DEF TaskType, PacketType
    <3> QED
      BY <2>1, <3>1 DEF At
  <2>2. CASE At(t, "armed") /\ Go(t, [w0 EXCEPT !.packet.armed = armed])
    <3> DEFINE w == [w0 EXCEPT !.packet.armed = armed]
    <3>1. w \in TaskType /\ w.todo = w0.todo /\ w.packet.pressed = w0.packet.pressed
      BY <1>1, <1>2 DEF TaskType, PacketType
    <3> QED
      BY <2>2, <3>1 DEF At
  <2>3. ASSUME At(t, "seq"), NEW n \in {seq, w0.seq}, Go(t, [w0 EXCEPT !.packet.seq = n])
        PROVE  \E w \in TaskType :
               /\ w.todo = task[t].todo /\ Go(t, w) /\ ~ Free(t)
               /\ w.packet.pressed = IF Head(task[t].todo) = "stablePressed"
                                     THEN pressed ELSE task[t].packet.pressed
    <3> DEFINE w == [w0 EXCEPT !.packet.seq = n]
    <3>1. w \in TaskType /\ w.todo = w0.todo /\ w.packet.pressed = w0.packet.pressed
      BY <1>1, <1>2 DEF TaskType, PacketType
    <3> QED
      BY <2>3, <3>1 DEF At
  <2> QED
    BY <1>8, <2>1, <2>2, <2>3 DEF ReadField
<1>9. CASE ReadLong(t)
  <2> DEFINE w == [w0 EXCEPT !.packet.long = pressed /\ ripe]
  <2>1. (pressed /\ ripe) \in BOOLEAN
    OBVIOUS
  <2>2. w \in TaskType /\ w.todo = w0.todo /\ w.packet.pressed = w0.packet.pressed
    BY <1>1, <2>1 DEF TaskType, PacketType
  <2>3. Go(t, w) /\ ~ Free(t) /\ Head(w0.todo) # "stablePressed"
    BY <1>9 DEF ReadLong, At
  <2> HIDE DEF w
  <2> QED
    BY <2>2, <2>3
<1>10. CASE SetValue(t)
  BY <1>1, <1>10 DEF SetValue, Skip, At
<1>11. CASE Notify(t)
  BY <1>1, <1>11 DEF Notify, Skip, At
<1> QED
  BY <1>3, <1>4, <1>5, <1>6, <1>7, <1>8, <1>9, <1>10, <1>11 DEF Step

\* Where a step takes a task.
LEMMA GoNext ==
    ASSUME task \in [Tasks -> TaskType], NEW t \in Tasks, NEW w \in TaskType,
           w.todo = task[t].todo, Go(t, w),
           NEW program \in Seq(Ops), NEW k \in 1 .. Len(program),
           task[t].todo = SubSeq(program, k, Len(program))
    PROVE  /\ task' \in [Tasks -> TaskType]
           /\ \A u \in Tasks \ {t} : task'[u] = task[u]
           /\ k = Len(program) => task'[t] = IdleTask
           /\ k # Len(program) =>
                  /\ k + 1 \in 1 .. Len(program)
                  /\ task'[t].packet = w.packet
                  /\ task'[t].todo = SubSeq(program, k + 1, Len(program))
<1>1. /\ k < Len(program) =>
             /\ Tail(w.todo) = SubSeq(program, k + 1, Len(program))
             /\ Tail(w.todo) # << >>
      /\ k = Len(program) => Tail(w.todo) = << >>
      /\ ~ Free(t)
  BY StandsFacts
<1>2. Len(program) \in Nat /\ k \in 1 .. Len(program)
  OBVIOUS
<1>4. CASE k = Len(program)
  <2>1. task' = [task EXCEPT ![t] = IdleTask]
    BY <1>1, <1>4 DEF Go
  <2> QED
    BY <1>4, <2>1, IdleType
<1>5. CASE k # Len(program)
  <2>1. k < Len(program) /\ k + 1 \in 1 .. Len(program)
    BY <1>2, <1>5
  <2> DEFINE v == [w EXCEPT !.todo = Tail(w.todo)]
  <2>2. task' = [task EXCEPT ![t] = v]
    BY <1>1, <2>1 DEF Go
  <2>3. Tail(w.todo) \in Seq(Ops)
    <3>1. w.todo \in Seq(Ops) /\ w.todo # << >>
      BY <1>1 DEF TaskType, Free
    <3> QED
      BY <3>1, HeadTailProperties
  <2>4. v \in TaskType /\ v.packet = w.packet /\ v.todo = Tail(w.todo)
    BY <2>3 DEF TaskType
  <2> HIDE DEF v
  <2>5. task' \in [Tasks -> TaskType] /\ task'[t] = v
        /\ \A u \in Tasks \ {t} : task'[u] = task[u]
    BY <2>2, <2>4
  <2> QED
    BY <1>1, <1>5, <2>1, <2>4, <2>5
<1> QED
  BY <1>4, <1>5

\* A task that starts a program stands at its first step.
LEMMA StartStands ==
    ASSUME task \in [Tasks -> TaskType], NEW t \in Tasks,
           NEW program \in Programs(t), Start(t, program)
    PROVE  /\ task' \in [Tasks -> TaskType]
           /\ Stands(t, program, 1)'
           /\ \A u \in Tasks \ {t} : task'[u] = task[u]
<1>1. DOMAIN program # {} => program \in Seq(Ops) /\ 1 \in DOMAIN program
  BY OnlyDown
<1>2. program \in Seq(Ops) /\ 1 \in DOMAIN program
  <2>1. DOMAIN program # {}
    <3>1. Len(buttonDown) = 10 /\ buttonDown \in Seq(Ops)
      BY DownSteps
    <3>2. Len(publishState) = 8 /\ publishState \in Seq(Ops)
      BY PublishSteps
    <3>3. \A s \in Ops : /\ <<s>> \o publishState \in Seq(Ops)
                         /\ Len(<<s>> \o publishState) = 9
      BY StepThenPublish
    <3>4. "up" \in Ops /\ "toggle armed" \in Ops /\ "connected" \in Ops
          /\ "disconnected" \in Ops
      BY DEF Ops
    <3>5. onDisconnect \in Seq(Ops) /\ Len(onDisconnect) = 1
      <4>1. \A s \in Ops : <<s>> \in Seq(Ops) /\ Len(<<s>>) = 1
        OBVIOUS
      <4> QED
        BY <3>4, <4>1, Zenon DEF onDisconnect
    <3>6. program \in Seq(Ops) /\ Len(program) \in {1, 8, 9, 10}
      <4>1. \/ program \in {buttonDown, publishState, onDisconnect}
            \/ \E s \in Ops : program = <<s>> \o publishState
        BY <3>4 DEF Programs, buttonUp, heartbeat, onWrite, onConnect
      <4>2. CASE \E s \in Ops : program = <<s>> \o publishState
        BY <3>3, <4>2
      <4> QED
        BY <3>1, <3>2, <3>5, <4>1, <4>2
    <3>7. DOMAIN program = 1 .. Len(program)
      BY <3>6, LenProperties
    <3> HIDE DEF Programs
    <3>8. \A n \in {1, 8, 9, 10} : 1 .. n # {}
      OBVIOUS
    <3> QED
      BY <3>6, <3>7, <3>8
  <2> QED
    BY <1>1, <2>1
<1>3. task' = [task EXCEPT ![t].todo = program]
  BY DEF Start
<1>4. task' \in [Tasks -> TaskType] /\ task'[t].todo = program
      /\ \A u \in Tasks \ {t} : task'[u] = task[u]
  BY <1>2, <1>3 DEF TaskType
<1>5. program = SubSeq(program, 1, Len(program))
  BY <1>2, SubSeqFull
<1> QED
  BY <1>2, <1>4, <1>5 DEF Stands

\* The part of the types that no program has a say in.
DataOK ==
    /\ pressed \in BOOLEAN /\ ripe \in BOOLEAN /\ heldLong \in BOOLEAN
    /\ armed \in BOOLEAN /\ connected \in BOOLEAN
    /\ seq \in 0 .. SeqWrap - 1 /\ chr \in PacketType
    /\ subscribed \in BOOLEAN
    /\ host \in PacketType \cup {None} /\ (subscribed <=> host # None)
    /\ owed \in BOOLEAN /\ replaced \in BOOLEAN
    /\ presses \in 0 .. MaxPress /\ handlers \in 0 .. MaxBle

LEMMA TypeParts == TypeOK <=> DataOK /\ task \in [Tasks -> TaskType]
BY DEF TypeOK, DataOK, TaskType

\* A step of a task keeps the types of what the tasks share.
LEMMA StepData ==
    ASSUME TypeOK, NEW t \in Tasks, Step(t)
    PROVE  DataOK'
<1> USE DEF TypeOK
<1>1. CASE StorePressed(t)
  <2>1. /\ pressed' \in BOOLEAN /\ owed' \in BOOLEAN /\ heldLong' \in BOOLEAN
        /\ replaced' \in BOOLEAN
    BY <1>1 DEF StorePressed, At
  <2> QED
    BY <1>1, <2>1 DEF StorePressed, DataOK, hostVars, sentVars
<1>2. CASE StoreStart(t)
  BY <1>2 DEF StoreStart, DataOK, hostVars, sentVars
<1>3. CASE StoreOther(t)
  <2>1. CASE armed' = ~ armed /\ UNCHANGED <<connected, hostVars, sentVars>>
    BY <1>3, <2>1 DEF StoreOther, DataOK, hostVars, sentVars, buttonVars
  <2>2. CASE connected' = TRUE /\ UNCHANGED <<armed, hostVars, sentVars>>
    BY <1>3, <2>2 DEF StoreOther, DataOK, hostVars, sentVars, buttonVars
  <2>3. CASE /\ connected' = FALSE /\ subscribed' = FALSE /\ host' = None
             /\ owed' = FALSE /\ UNCHANGED <<armed, replaced>>
    BY <1>3, <2>3 DEF StoreOther, DataOK, hostVars, sentVars, buttonVars
  <2> QED
    BY <1>3, <2>1, <2>2, <2>3 DEF StoreOther
<1>4. CASE LoadSeq(t)
  BY <1>4 DEF LoadSeq, DataOK, hostVars, sentVars, buttonVars
<1>5. CASE StoreSeq(t)
  <2>1. task[t].seq \in 0 .. SeqWrap - 1
    OBVIOUS
  <2> QED
    BY <1>5, <2>1 DEF StoreSeq, DataOK, hostVars, sentVars, buttonVars
<1>6. CASE ReadField(t)
  BY <1>6 DEF ReadField, DataOK, hostVars, sentVars, buttonVars
<1>7. CASE ReadLong(t)
  BY <1>7 DEF ReadLong, DataOK, hostVars, sentVars, buttonVars
<1>8. CASE SetValue(t)
  <2>1. task[t].packet \in PacketType /\ replaced' \in BOOLEAN
    BY <1>8 DEF SetValue
  <2> QED
    BY <1>8, <2>1 DEF SetValue, DataOK, hostVars, sentVars, buttonVars
<1>9. CASE Notify(t)
  <2>1. CASE connected /\ subscribed
    <3>1. host' \in PacketType /\ owed' \in BOOLEAN
      BY <1>9, <2>1 DEF Notify
    <3> QED
      BY <1>9, <2>1, <3>1, NoneAssumption DEF Notify, DataOK, buttonVars, sentVars
  <2>2. CASE ~ (connected /\ subscribed)
    BY <1>9, <2>2 DEF Notify, DataOK, buttonVars, sentVars
  <2> QED
    BY <2>1, <2>2
<1> QED
  BY <1>1, <1>2, <1>3, <1>4, <1>5, <1>6, <1>7, <1>8, <1>9 DEF Step

\* The types and ProgramInv: no handler leaves its program, and no store of
\* either task leaves its range, however the tasks interleave.
THEOREM PublishTypes == Spec => [](TypeOK /\ ProgramInv)
<1>1. Init => TypeOK /\ ProgramInv
  <2> SUFFICES ASSUME Init PROVE TypeOK /\ ProgramInv
    OBVIOUS
  <2>1. task \in [Tasks -> TaskType] /\ ProgramInv
    BY IdleType DEF Init, ProgramInv, Free, IdleTask
  <2>2. chr \in PacketType /\ seq \in 0 .. SeqWrap - 1
    BY BoundsAssumption DEF Init, PacketType
  <2>3. host \in PacketType \cup {None} /\ (subscribed <=> host # None)
    BY <2>2, NoneAssumption DEF Init
  <2>4. /\ pressed \in BOOLEAN /\ ripe \in BOOLEAN /\ heldLong \in BOOLEAN
        /\ armed \in BOOLEAN /\ connected \in BOOLEAN /\ subscribed \in BOOLEAN
        /\ owed \in BOOLEAN /\ replaced \in BOOLEAN
    BY DEF Init
  <2>5. presses \in 0 .. MaxPress /\ handlers \in 0 .. MaxBle
    BY BoundsAssumption DEF Init
  <2> QED
    BY <2>1, <2>2, <2>3, <2>4, <2>5, TypeParts DEF DataOK
<1>2. TypeOK /\ ProgramInv /\ [Next]_vars => (TypeOK /\ ProgramInv)'
  <2> SUFFICES ASSUME TypeOK, ProgramInv, [Next]_vars PROVE TypeOK' /\ ProgramInv'
    OBVIOUS
  <2>0. /\ DataOK /\ task \in [Tasks -> TaskType]
        /\ DataOK' /\ task' \in [Tasks -> TaskType] => TypeOK'
    BY TypeParts DEF TypeOK, DataOK, TaskType
  <2>1. ASSUME NEW t \in Tasks, NEW program \in Programs(t), Start(t, program),
               presses' \in 0 .. MaxPress, handlers' \in 0 .. MaxBle
        PROVE  TypeOK' /\ ProgramInv'
    <3>1. /\ task' \in [Tasks -> TaskType] /\ Stands(t, program, 1)'
          /\ \A u \in Tasks \ {t} : task'[u] = task[u]
      BY <2>0, <2>1, StartStands
    <3>3. DataOK'
      BY <2>0, <2>1 DEF Start, DataOK, hostVars, sentVars
    <3>4. ProgramInv'
      <4>1. 1 \in DOMAIN program /\ Stands(t, program, 1)'
        BY <3>1 DEF Stands
      <4>2. \A u \in Tasks \ {t} :
                Free(u)' \/ \E p \in Programs(u) : \E k \in DOMAIN p : Stands(u, p, k)'
        BY <3>1 DEF ProgramInv, Free, Stands
      <4> QED
        BY <2>1, <4>1, <4>2 DEF ProgramInv
    <3> QED
      BY <2>0, <3>1, <3>3, <3>4
  <2>2. CASE Down \/ Up \/ Beat
    <3>1. "loop" \in Tasks /\ {buttonDown, buttonUp, heartbeat} \subseteq Programs("loop")
      BY DEF Tasks, Programs
    <3>2. presses' \in 0 .. MaxPress /\ handlers' \in 0 .. MaxBle
      BY <2>0, <2>2, BoundsAssumption DEF Down, Up, Beat, DataOK
    <3> QED
      BY <2>1, <2>2, <3>1, <3>2 DEF Down, Up, Beat
  <2>3. CASE Ble
    <3>1. "ble" \in Tasks /\ {onWrite, onConnect, onDisconnect} \subseteq Programs("ble")
      BY DEF Tasks, Programs
    <3>2. presses' \in 0 .. MaxPress /\ handlers' \in 0 .. MaxBle
      BY <2>0, <2>3, BoundsAssumption DEF Ble, DataOK
    <3> QED
      BY <2>1, <2>3, <3>1, <3>2 DEF Ble
  <2>4. CASE Ripen
    BY <2>0, <2>4 DEF Ripen, DataOK, hostVars, sentVars, ProgramInv, Free, Stands
  <2>5. CASE Subscribe
    BY <2>0, <2>5, NoneAssumption DEF Subscribe, DataOK, buttonVars, sentVars,
                                      ProgramInv, Free, Stands
  <2>6. ASSUME NEW t \in Tasks, Step(t) PROVE TypeOK' /\ ProgramInv'
    <3>1. PICK w \in TaskType : w.todo = task[t].todo /\ Go(t, w) /\ ~ Free(t)
      BY <2>6, StepGoes
    <3>a. PICK program \in Programs(t) : \E k \in DOMAIN program : Stands(t, program, k)
      BY <3>1 DEF ProgramInv
    <3>2. PICK k \in DOMAIN program : Stands(t, program, k)
      BY <3>a
    <3>3. program \in Seq(Ops) /\ DOMAIN program = 1 .. Len(program)
      BY OnlyDown
    <3>4. /\ task' \in [Tasks -> TaskType]
          /\ \A u \in Tasks \ {t} : task'[u] = task[u]
          /\ k = Len(program) => task'[t] = IdleTask
          /\ k # Len(program) =>
                 /\ k + 1 \in 1 .. Len(program)
                 /\ task'[t].todo = SubSeq(program, k + 1, Len(program))
      BY <2>0, <3>1, <3>2, <3>3, GoNext DEF Stands
    <3>5. DataOK'
      BY <2>6, StepData
    <3>6. Free(t)' \/ \E j \in DOMAIN program : Stands(t, program, j)'
      BY <3>3, <3>4 DEF Free, IdleTask, Stands
    <3>7. \A u \in Tasks \ {t} :
              Free(u)' \/ \E p \in Programs(u) : \E j \in DOMAIN p : Stands(u, p, j)'
      BY <3>4 DEF ProgramInv, Free, Stands
    <3>8. ProgramInv'
      BY <3>2, <3>6, <3>7 DEF ProgramInv
    <3> QED
      BY <2>0, <3>4, <3>5, <3>8
  <2>7. CASE UNCHANGED vars
    BY <2>0, <2>7 DEF vars, buttonVars, hostVars, sentVars, DataOK,
                       ProgramInv, Free, Stands
  <2> QED
    BY <2>2, <2>3, <2>4, <2>5, <2>6, <2>7 DEF Next
<1> QED
  BY <1>1, <1>2, PTL DEF Spec

(***************************************************************************)
(* The press on its way.                                                   *)
(***************************************************************************)

\* Whatever it does with a press under way, loop() gets on with sending it.
LEMMA LoopSends ==
    ASSUME TypeOK, ProgramInv, PressInv, ~ replaced, owed, owed', Step("loop")
    PROVE  /\ pressed' /\ connected' /\ subscribed'
           /\ \E k \in 2 .. Len(buttonDown) : Sent(k)'
<1>0. task \in [Tasks -> TaskType] /\ "loop" \in Tasks
  BY TypeParts DEF Tasks
<1>1. PICK k \in 2 .. Len(buttonDown) : Sent(k)
  BY DEF PressInv, PressUnderWay
<1>2. pressed /\ connected /\ subscribed
  BY DEF PressInv, PressUnderWay
<1>3. /\ buttonDown \in Seq(Ops) /\ Len(buttonDown) = 10
      /\ buttonDown[2] = "pressStartedAtMs" /\ buttonDown[3] = "seq = nextSeq(seq)"
      /\ buttonDown[4] = "store seq" /\ buttonDown[5] = "stablePressed"
      /\ buttonDown[6] = "armed" /\ buttonDown[7] = "long pressed"
      /\ buttonDown[8] = "seq" /\ buttonDown[9] = "setValue"
      /\ buttonDown[10] = "notify"
  BY DownSteps
<1>4. k \in 1 .. Len(buttonDown)
  BY <1>1
<1>a. Len(buttonDown) = 10
  BY DownSteps
<1>b. k \in 2 .. 10
  BY <1>a
<1>5. k = 2 \/ k = 3 \/ k = 4 \/ k = 5 \/ k = 6 \/ k = 7 \/ k = 8 \/ k = 9 \/ k = 10
  BY <1>b
<1>6. Head(task["loop"].todo) = buttonDown[k]
  <2>1. task["loop"].todo = SubSeq(buttonDown, k, Len(buttonDown))
    BY <1>1 DEF Sent, Stands
  <2>2. buttonDown \in Seq(Ops) /\ k \in 1 .. Len(buttonDown)
    BY <1>3, <1>4
  <2> QED
    BY <1>0, <2>1, <2>2, StandsFacts
<1>7. PICK w \in TaskType :
          /\ w.todo = task["loop"].todo /\ Go("loop", w)
          /\ w.packet.pressed = IF Head(task["loop"].todo) = "stablePressed"
                                THEN pressed ELSE task["loop"].packet.pressed
  BY <1>0, StepGoes
<1>8. k # Len(buttonDown) =>
          /\ k + 1 \in 1 .. Len(buttonDown)
          /\ task'["loop"].packet = w.packet
          /\ task'["loop"].todo = SubSeq(buttonDown, k + 1, Len(buttonDown))
  BY <1>0, <1>1, <1>3, <1>4, <1>7, GoNext DEF Sent, Stands
<1>9. k # 10
  <2> SUFFICES ASSUME k = 10 PROVE FALSE
    OBVIOUS
  <2>1. Notify("loop")
    BY <1>3, <1>6 DEF Step, StorePressed, StoreStart, StoreOther, LoadSeq, StoreSeq,
                      ReadField, ReadLong, SetValue, At
  <2>2. chr.pressed
    BY <1>1 DEF Sent
  <2> QED
    BY <1>2, <2>1, <2>2 DEF Notify
<1>10. k + 1 \in 2 .. Len(buttonDown) /\ Stands("loop", buttonDown, k + 1)'
  <2>1. DOMAIN buttonDown = 1 .. Len(buttonDown)
    BY <1>3, LenProperties
  <2>2. k # Len(buttonDown) /\ k + 1 \in 2 .. Len(buttonDown)
    BY <1>a, <1>b, <1>9
  <2> QED
    BY <1>8, <2>1, <2>2 DEF Stands
<1>11. 5 < k + 1 => task'["loop"].packet.pressed
  <2>1. CASE k = 5
    <3>1. w.packet.pressed = pressed
      BY <1>3, <1>6, <1>7, <2>1
    <3>2. task'["loop"].packet.pressed = pressed
      BY <1>3, <1>8, <2>1, <3>1
    <3> QED
      BY <1>2, <3>2
  <2>2. CASE 5 < k
    <3>1. buttonDown[k] # "stablePressed"
      <4>1. k = 6 \/ k = 7 \/ k = 8 \/ k = 9 \/ k = 10
        BY <1>b, <2>2
      <4> QED
        BY <1>3, <4>1
    <3>2. task["loop"].packet.pressed
      BY <1>1, <2>2 DEF Sent
    <3>3. w.packet.pressed = task["loop"].packet.pressed
      BY <1>6, <1>7, <3>1
    <3>4. task'["loop"].packet = w.packet
      BY <1>a, <1>8, <1>9
    <3>5. task'["loop"].packet.pressed = task["loop"].packet.pressed
      BY <3>3, <3>4
    <3> QED
      BY <3>2, <3>5
  <2> QED
    BY <1>5, <2>1, <2>2
<1>12. 9 < k + 1 => chr'.pressed
  <2> SUFFICES ASSUME 9 < k + 1 PROVE chr'.pressed
    OBVIOUS
  <2>1. k = 9
    BY <1>5, <1>9
  <2>2. SetValue("loop")
    BY <1>3, <1>6, <2>1 DEF Step, StorePressed, StoreStart, StoreOther, LoadSeq,
                            StoreSeq, ReadField, ReadLong, Notify, At
  <2>3. task["loop"].packet.pressed
    BY <1>1, <2>1 DEF Sent
  <2> QED
    BY <2>2, <2>3 DEF SetValue
<1>13. UNCHANGED <<pressed, connected, subscribed>>
  <2>1. ~ StorePressed("loop") /\ ~ StoreOther("loop")
    BY <1>3, <1>5, <1>6 DEF StorePressed, StoreOther, At
  <2>2. CASE StoreStart("loop")
    BY <2>2 DEF StoreStart, hostVars
  <2>3. CASE LoadSeq("loop")
    BY <2>3 DEF LoadSeq, hostVars, buttonVars
  <2>4. CASE StoreSeq("loop")
    BY <2>4 DEF StoreSeq, hostVars, buttonVars
  <2>5. CASE ReadField("loop")
    BY <2>5 DEF ReadField, hostVars, buttonVars
  <2>6. CASE ReadLong("loop")
    BY <2>6 DEF ReadLong, hostVars, buttonVars
  <2>7. CASE SetValue("loop")
    BY <2>7 DEF SetValue, hostVars, buttonVars
  <2>8. CASE Notify("loop")
    BY <2>8 DEF Notify, buttonVars
  <2> QED
    BY <2>1, <2>2, <2>3, <2>4, <2>5, <2>6, <2>7, <2>8 DEF Step
<1> QED
  BY <1>2, <1>10, <1>11, <1>12, <1>13 DEF Sent

\* A task that stands at a step of buttonDown is not free.
LEMMA StandsBusy ==
    ASSUME NEW k, Stands("loop", buttonDown, k)
    PROVE  ~ Free("loop") /\ Head(task["loop"].todo) = buttonDown[k]
<1>1. buttonDown \in Seq(Ops) /\ DOMAIN buttonDown = 1 .. Len(buttonDown)
  BY DownSteps, LenProperties
<1>2. k \in 1 .. Len(buttonDown) /\ "loop" \in Tasks
      /\ task["loop"].todo = SubSeq(buttonDown, k, Len(buttonDown))
  BY <1>1 DEF Stands, Tasks
<1> QED
  BY <1>1, <1>2, StandsFacts

\* A press that loop() takes note of stands at the next step.
LEMMA DownStands ==
    ASSUME TypeOK, ProgramInv, NEW t \in Tasks, StorePressed(t), At(t, "down")
    PROVE  t = "loop" /\ Stands("loop", buttonDown, 2)'
<1>0. task \in [Tasks -> TaskType]
  BY TypeParts
<1>1. PICK program \in Programs(t) : \E k \in DOMAIN program : Stands(t, program, k)
  BY DEF ProgramInv, At
<1>2. PICK k \in DOMAIN program : Stands(t, program, k)
  BY <1>1
<1>3. /\ program \in Seq(Ops) /\ DOMAIN program = 1 .. Len(program)
      /\ program[k] = "down" => t = "loop" /\ program = buttonDown /\ k = 1
  BY OnlyDown
<1>4. Head(task[t].todo) = program[k]
  BY <1>2, <1>3, StandsFacts DEF Stands
<1>5. t = "loop" /\ program = buttonDown /\ k = 1
  BY <1>3, <1>4 DEF At
<1>6. Len(buttonDown) = 10
  BY DownSteps
<1>7. PICK w \in TaskType : w.todo = task[t].todo /\ Go(t, w)
  BY StepGoes DEF Step
<1>8. k # Len(program) =>
          /\ k + 1 \in 1 .. Len(program)
          /\ task'[t].todo = SubSeq(program, k + 1, Len(program))
  BY <1>0, <1>2, <1>3, <1>7, GoNext DEF Stands
<1>9. k + 1 = 2 /\ k # Len(program)
  BY <1>5, <1>6
<1> QED
  BY <1>3, <1>5, <1>8, <1>9 DEF Stands

\* A handler that starts leaves a press on its way alone: loop() starts none
\* inside another.
LEMMA StartPress ==
    ASSUME TypeOK, PressInv, NEW t \in Tasks, NEW program \in Programs(t),
           Start(t, program)
    PROVE  PressInv'
<1>0. task \in [Tasks -> TaskType]
  BY TypeParts
<1>1. /\ UNCHANGED <<pressed, ripe, heldLong, connected, chr, subscribed, owed, replaced>>
      /\ Free(t)
  BY DEF Start, hostVars, sentVars
<1>2. \A u \in Tasks \ {t} : task'[u] = task[u]
  BY <1>0, StartStands
<1>3. CASE t = "loop"
  <2>1. \A k : ~ Stands("loop", buttonDown, k)
    BY <1>1, <1>3, StandsBusy
  <2> QED
    BY <1>1, <2>1 DEF PressInv, PressUnderWay, RipeInTime, Sent
<1>4. CASE t # "loop"
  <2>1. task'["loop"] = task["loop"]
    BY <1>2, <1>4 DEF Tasks
  <2> QED
    BY <1>1, <2>1 DEF PressInv, PressUnderWay, RipeInTime, Sent, Stands
<1> QED
  BY <1>3, <1>4

\* A step of the NimBLE task leaves a press on its way alone, or replaces it.
LEMMA OtherSends ==
    ASSUME TypeOK, PressInv, NEW t \in Tasks, t # "loop", Step(t), owed, owed',
           ~ replaced', ~ StorePressed(t), task'["loop"] = task["loop"]
    PROVE  \E k \in 2 .. Len(buttonDown) : Sent(k)'
<1>1. ~ replaced
  BY DEF Step, StoreStart, StoreOther, LoadSeq, StoreSeq, ReadField, ReadLong,
         SetValue, Notify, sentVars
<1>2. PICK k \in 2 .. Len(buttonDown) : Sent(k)
  BY <1>1 DEF PressInv, PressUnderWay
<1>3. 9 < k => chr'.pressed
  <2> SUFFICES ASSUME 9 < k PROVE chr'.pressed
    OBVIOUS
  <2>1. k = 10
    <3>1. Len(buttonDown) = 10
      BY DownSteps
    <3> QED
      BY <3>1
  <2>2. At("loop", "notify") /\ chr.pressed
    BY <1>2, <2>1, StandsBusy, DownSteps DEF Sent, At
  <2>3. CASE SetValue(t)
    BY <2>2, <2>3 DEF SetValue
  <2>4. CASE ~ SetValue(t)
    BY <2>2, <2>4 DEF Step, StoreStart, StoreOther, LoadSeq, StoreSeq, ReadField,
                      ReadLong, Notify
  <2> QED
    BY <2>3, <2>4
<1> QED
  BY <1>2, <1>3 DEF Sent, Stands

\* A step of a task gets on with the press, or leaves it alone.
LEMMA PressStep ==
    ASSUME TypeOK, ProgramInv, PressInv, NEW t \in Tasks, Step(t)
    PROVE  PressInv'
<1>0. task \in [Tasks -> TaskType]
  BY TypeParts
<1>1. PICK w \in TaskType : w.todo = task[t].todo /\ Go(t, w) /\ ~ Free(t)
  BY StepGoes
<1>2. \A u \in Tasks \ {t} : task'[u] = task[u]
  BY <1>0, <1>1 DEF Go
<1>3. (subscribed => connected)'
  <2>0. subscribed => connected
    BY DEF PressInv
  <2>1. CASE StoreOther(t)
    <3>1. CASE armed' = ~ armed /\ UNCHANGED <<connected, hostVars, sentVars>>
      BY <2>0, <3>1 DEF hostVars
    <3>2. CASE connected' = TRUE
      BY <3>2
    <3>3. CASE subscribed' = FALSE
      BY <3>3
    <3> QED
      BY <2>1, <3>1, <3>2, <3>3 DEF StoreOther
  <2>2. CASE ~ StoreOther(t)
    <3>1. UNCHANGED <<subscribed, connected>>
      BY <2>2 DEF Step, StorePressed, StoreStart, LoadSeq, StoreSeq, ReadField,
                  ReadLong, SetValue, Notify, hostVars
    <3> QED
      BY <2>0, <3>1
  <2> QED
    BY <2>1, <2>2
<1>4. ASSUME t # "loop" PROVE task'["loop"] = task["loop"] /\ ~ At(t, "down")
  <2>1. task'["loop"] = task["loop"]
    BY <1>2, <1>4 DEF Tasks
  <2>2. ASSUME At(t, "down") PROVE FALSE
    <3>1. StorePressed(t)
      BY <2>2 DEF Step, StoreStart, StoreOther, LoadSeq, StoreSeq, ReadField,
                  ReadLong, SetValue, Notify, At
    <3> QED
      BY <1>4, <2>2, <3>1, DownStands
  <2> QED
    BY <2>1, <2>2
<1>6. ASSUME owed' PROVE PressUnderWay'
  <2>1. CASE StorePressed(t)
    <3>1. At(t, "down") /\ subscribed
      BY <1>6, <2>1 DEF StorePressed
    <3>2. Stands("loop", buttonDown, 2)'
      BY <2>1, <3>1, DownStands
    <3>3. pressed' /\ connected' /\ subscribed'
      BY <2>1, <3>1 DEF StorePressed, PressInv, hostVars
    <3>4. 2 \in 2 .. Len(buttonDown) /\ ~ (5 < 2) /\ ~ (9 < 2)
      <4>1. Len(buttonDown) = 10
        BY DownSteps
      <4> QED
        BY <4>1
    <3> QED
      BY <3>2, <3>3, <3>4 DEF PressUnderWay, Sent
  <2>2. CASE ~ StorePressed(t)
    <3>1. owed
      BY <1>6, <2>2 DEF Step, StoreStart, StoreOther, LoadSeq, StoreSeq, ReadField,
                        ReadLong, SetValue, Notify, sentVars
    <3>2. pressed' /\ connected' /\ subscribed'
      <4>1. pressed /\ connected /\ subscribed
        BY <3>1 DEF PressInv, PressUnderWay
      <4>2. CASE StoreOther(t)
        <5>1. pressed' = pressed
          BY <4>2 DEF StoreOther, buttonVars
        <5>2. CASE armed' = ~ armed /\ UNCHANGED <<connected, hostVars, sentVars>>
          BY <4>1, <5>1, <5>2 DEF hostVars
        <5>3. CASE connected' = TRUE /\ UNCHANGED <<armed, hostVars, sentVars>>
          BY <4>1, <5>1, <5>3 DEF hostVars
        <5> QED
          BY <1>6, <4>2, <5>2, <5>3 DEF StoreOther
      <4>3. CASE ~ StoreOther(t)
        BY <2>2, <4>1, <4>3 DEF Step, StoreStart, LoadSeq, StoreSeq, ReadField,
                                ReadLong, SetValue, Notify, hostVars, buttonVars
      <4> QED
        BY <4>2, <4>3
    <3>3. ASSUME ~ replaced' PROVE \E k \in 2 .. Len(buttonDown) : Sent(k)'
      <4>1. CASE t = "loop"
        <5>1. ~ replaced
          BY <2>2, <3>3 DEF Step, StoreStart, StoreOther, LoadSeq, StoreSeq,
                            ReadField, ReadLong, SetValue, Notify, sentVars
        <5> QED
          BY <1>6, <3>1, <4>1, <5>1, LoopSends
      <4>2. CASE t # "loop"
        BY <1>4, <1>6, <2>2, <3>1, <3>3, <4>2, OtherSends
      <4> QED
        BY <4>1, <4>2
    <3> QED
      BY <3>2, <3>3 DEF PressUnderWay
  <2> QED
    BY <2>1, <2>2
<1>7. RipeInTime'
  <2>1. CASE StorePressed(t)
    <3>1. CASE At(t, "down")
      BY <2>1, <3>1, DownStands DEF RipeInTime
    <3>2. CASE ~ At(t, "down")
      BY <2>1, <3>2 DEF StorePressed, RipeInTime
    <3> QED
      BY <3>1, <3>2
  <2>2. CASE StoreStart(t)
    BY <2>2 DEF StoreStart, RipeInTime
  <2>3. CASE ~ StorePressed(t) /\ ~ StoreStart(t)
    <3>1. UNCHANGED <<pressed, ripe, heldLong>>
      BY <2>3 DEF Step, StoreOther, LoadSeq, StoreSeq, ReadField, ReadLong, SetValue,
                  Notify, buttonVars
    <3>2. ASSUME Stands("loop", buttonDown, 2) PROVE Stands("loop", buttonDown, 2)'
      <4>1. Head(task["loop"].todo) = "pressStartedAtMs"
        BY <3>2, StandsBusy, DownSteps
      <4>2. t # "loop"
        BY <2>3, <4>1 DEF Step, StoreOther, LoadSeq, StoreSeq, ReadField, ReadLong,
                          SetValue, Notify, At
      <4> QED
        BY <1>4, <3>2, <4>2 DEF Stands
    <3> QED
      BY <3>1, <3>2 DEF PressInv, RipeInTime
  <2> QED
    BY <2>1, <2>2, <2>3
<1> QED
  BY <1>3, <1>6, <1>7 DEF PressInv, PressUnderWay

\* PressInv holds of every behaviour, for any number of presses, connections
\* and commands.
LEMMA PressInvariant == Spec => []PressInv
<1>1. Init => PressInv
  BY DEF Init, PressInv, PressUnderWay, RipeInTime
<1>2. TypeOK /\ ProgramInv /\ PressInv /\ [Next]_vars => PressInv'
  <2> SUFFICES ASSUME TypeOK, ProgramInv, PressInv, [Next]_vars PROVE PressInv'
    OBVIOUS
  <2>1. CASE Down \/ Up \/ Beat
    <3>1. "loop" \in Tasks /\ {buttonDown, buttonUp, heartbeat} \subseteq Programs("loop")
      BY DEF Tasks, Programs
    <3> QED
      BY <2>1, <3>1, StartPress DEF Down, Up, Beat
  <2>2. CASE Ble
    <3>1. "ble" \in Tasks /\ {onWrite, onConnect, onDisconnect} \subseteq Programs("ble")
      BY DEF Tasks, Programs
    <3> QED
      BY <2>2, <3>1, StartPress DEF Ble
  <2>3. CASE Ripen
    <3>1. \A k : ~ Stands("loop", buttonDown, k)
      BY <2>3, StandsBusy DEF Ripen, Tasks
    <3>2. heldLong' = pressed /\ UNCHANGED <<pressed, replaced, task, connected,
                                             subscribed, owed, chr>>
      BY <2>3 DEF Ripen, hostVars, sentVars
    <3> QED
      BY <3>1, <3>2 DEF PressInv, PressUnderWay, RipeInTime, Sent
  <2>4. CASE Subscribe
    <3>1. connected /\ subscribed' /\ UNCHANGED <<buttonVars, replaced, task,
                                                  connected, owed, chr>>
      BY <2>4 DEF Subscribe, sentVars
    <3> QED
      BY <3>1 DEF PressInv, PressUnderWay, RipeInTime, Sent, Stands, buttonVars
  <2>5. ASSUME NEW t \in Tasks, Step(t) PROVE PressInv'
    BY <2>5, PressStep
  <2>6. CASE UNCHANGED vars
    BY <2>6 DEF vars, buttonVars, hostVars, sentVars, PressInv, PressUnderWay,
                RipeInTime, Sent, Stands
  <2> QED
    BY <2>1, <2>2, <2>3, <2>4, <2>5, <2>6 DEF Next
<1> QED
  BY <1>1, <1>2, PublishTypes, PTL DEF Spec

\* With the types and the programs, that is the inductive invariant.
THEOREM PublishInvariant == Spec => []PublishInv
<1>1. TypeOK /\ ProgramInv /\ PressInv => PublishInv
  BY DEF PublishInv
<1> QED
  BY <1>1, PublishTypes, PressInvariant, PTL

\* However handlers overlap, a press is sent before loop() is done with the
\* edge, unless an older packet took its place between setValue() and notify().
THEOREM PressIsSent == Spec => []PressSent
<1>1. PressInv => PressSent
  BY StandsBusy DEF PressInv, PressUnderWay, PressSent, Sent
<1> QED
  BY <1>1, PressInvariant, PTL

\* However handlers overlap, long_pressed is said only of a press that has
\* lasted, but for a packet that is put together between the two stores of a
\* press.
THEOREM LongPressIsHonest == Spec => LongPressedHonest
<1>1. PressInv
        => [\A t \in Tasks :
               ReadLong(t) /\ pressed /\ ripe
                   => heldLong \/ At("loop", "pressStartedAtMs")]_vars
  <2>1. Stands("loop", buttonDown, 2) => At("loop", "pressStartedAtMs")
    BY StandsBusy, DownSteps DEF At
  <2> QED
    BY <2>1 DEF PressInv, RipeInTime
<1> QED
  BY <1>1, PressInvariant, PTL DEF Spec, LongPressedHonest
=============================================================================
