---------------------------- MODULE ConnectProofs ----------------------------
(***************************************************************************)
(* Theorems about HostConnect, for any devices, flows, presses and drops:  *)
(* however the set-ups of a device overlap, each edge it hears toggles its *)
(* slot once, and its card shows what was heard last.                      *)
(***************************************************************************)
EXTENDS HostConnect, SequenceTheorems, FiniteSetTheorems, WellFoundedInduction, TLAPS

(***************************************************************************)
(* All the listeners of a device, one after the other.                     *)
(***************************************************************************)

\* A set of numbers that is not empty has a least element.
LEMMA LeastOf ==
    ASSUME NEW M, M \subseteq Nat, M # {}
    PROVE  \E i \in M : \A j \in M : i <= j
<1> DEFINE R == OpToRel(<, Nat)
<1>1. \A i, j \in Nat : j < i => <<j, i>> \in R
  BY DEF OpToRel
<1>2. IsWellFoundedOn(R, Nat)
  BY NatLessThanWellFounded
<1> HIDE DEF R
<1>3. PICK i \in M : \A j \in M : ~ (<<j, i>> \in R)
  BY <1>2, WFMin
<1>4. \A j \in M : ~ j < i
  BY <1>1, <1>3
<1> QED
  BY <1>4

\* A set of positions has a last one.
LEMMA LastOf ==
    ASSUME NEW n \in Nat, NEW S, S \subseteq 1 .. n, S # {}
    PROVE  Max(S) \in S /\ \A i \in S : i <= Max(S)
<1> DEFINE M == {k \in 0 .. n : \A i \in S : i <= k}
<1>1. M \subseteq Nat /\ n \in M
  OBVIOUS
<1>2. PICK k \in M : \A j \in M : k <= j
  BY <1>1, LeastOf
<1>3. k \in 0 .. n /\ \A i \in S : i <= k
  OBVIOUS
<1>4. k \in S
  <2> SUFFICES ASSUME k \notin S PROVE FALSE
    OBVIOUS
  <2>1. \A i \in S : i \in 1 .. n /\ i <= k - 1
    BY <1>3
  <2>2. k - 1 \in 0 .. n
    <3>1. PICK i \in S : TRUE
      OBVIOUS
    <3> QED
      BY <1>3, <2>1, <3>1
  <2>3. k - 1 \in M
    BY <2>1, <2>2
  <2> QED
    BY <1>2, <1>3, <2>3
<1>5. Max(S) = CHOOSE x \in S : \A y \in S : x >= y
  BY DEF Max
<1>6. Max(S) \in S /\ \A i \in S : Max(S) >= i
  BY <1>3, <1>4, <1>5
<1> QED
  BY <1>6

\* Of the listeners in the places S, one feeds an entry that takes the packet.
Fed(b, packet, l, S) == \E i \in S : Takes(entry[l[i]][b].state, packet)

\* What they all do to a tracker.
Followed(b, packet, l, t, S) ==
    IF Fed(b, packet, l, S) THEN reduceActive(t, packet.pressed) ELSE t

\* A tracker that has seen the packet does not care to see it again.
LEMMA FollowTwice ==
    ASSUME NEW t, NEW own, NEW packet
    PROVE  Follows(reduceActive(t, packet.pressed), own, packet)
               = reduceActive(t, packet.pressed)
BY DEF Follows, reduceActive, DownEdge, Sample

\* So the last listener of S does what the others left to do.
LEMMA FollowedLast ==
    ASSUME NEW b, NEW packet, NEW l, NEW t, NEW S, NEW x \in S
    PROVE  Followed(b, packet, l, t, S)
               = Follows(Followed(b, packet, l, t, S \ {x}), entry[l[x]][b].state, packet)
<1>1. Fed(b, packet, l, S)
          <=> Fed(b, packet, l, S \ {x}) \/ Takes(entry[l[x]][b].state, packet)
  BY DEF Fed
<1>2. CASE Fed(b, packet, l, S \ {x})
  BY <1>1, <1>2, FollowTwice DEF Followed
<1>3. CASE ~ Fed(b, packet, l, S \ {x})
  BY <1>1, <1>3 DEF Followed, Follows
<1> QED
  BY <1>2, <1>3

\* One step of the fold.
Iterates(g, b, packet, t, l) ==
    g = [s \in SUBSET (DOMAIN l) |->
            IF s = {} THEN t
            ELSE Follows(g[s \ {Max(s)}], entry[l[Max(s)]][b].state, packet)]

LEMMA FoldEquation ==
    ASSUME NEW b, NEW packet
    PROVE  AllFollow(b, packet)
               = (CHOOSE g : Iterates(g, b, packet, tracker[b], listeners[b]))
                     [DOMAIN listeners[b]]
BY Zenon DEF AllFollow, FoldLeft, MapThenFoldSet, Iterates

\* The listeners follow the packet once, or not at all.
LEMMA FoldFollowed ==
    ASSUME NEW b, NEW packet, listeners[b] \in Seq(Flows)
    PROVE  AllFollow(b, packet)
               = Followed(b, packet, listeners[b], tracker[b], DOMAIN listeners[b])
<1> DEFINE l == listeners[b]
           t == tracker[b]
           n == Len(l)
           G(S) == Followed(b, packet, l, t, S)
           it == CHOOSE g : Iterates(g, b, packet, t, l)
<1>1. n \in Nat /\ DOMAIN l = 1 .. n
  BY LenProperties
<1>2. G({}) = t
  BY DEF Followed, Fed
<1>a. \A S : \A x \in S :
          G(S) = Follows(G(S \ {x}), entry[l[x]][b].state, packet)
  BY FollowedLast
<1> HIDE DEF G
<1>3. \A S \in SUBSET (1 .. n) : S # {} =>
          /\ Max(S) \in S
          /\ G(S) = Follows(G(S \ {Max(S)}), entry[l[Max(S)]][b].state, packet)
  <2> SUFFICES ASSUME NEW S \in SUBSET (1 .. n), S # {}
               PROVE  /\ Max(S) \in S
                      /\ G(S) = Follows(G(S \ {Max(S)}), entry[l[Max(S)]][b].state, packet)
    OBVIOUS
  <2>1. Max(S) \in S
    BY <1>1, LastOf
  <2> QED
    BY <1>a, <2>1
<1> HIDE DEF n, l, t
<1>4. Iterates([S \in SUBSET (1 .. n) |-> G(S)], b, packet, t, l)
  <2> DEFINE g == [S \in SUBSET (1 .. n) |-> G(S)]
  <2>1. \A S \in SUBSET (1 .. n) :
            g[S] = IF S = {} THEN t
                   ELSE Follows(g[S \ {Max(S)}], entry[l[Max(S)]][b].state, packet)
    BY <1>2, <1>3
  <2>2. g = [S \in SUBSET (1 .. n) |-> g[S]]
    OBVIOUS
  <2> HIDE DEF g
  <2>3. g = [S \in SUBSET (1 .. n) |->
                IF S = {} THEN t
                ELSE Follows(g[S \ {Max(S)}], entry[l[Max(S)]][b].state, packet)]
    BY <2>1, <2>2
  <2> QED
    BY <1>1, <2>3 DEF Iterates, g
<1>5. Iterates(it, b, packet, t, l)
  BY <1>4
<1> HIDE DEF it
<1>6. \A S \in SUBSET (1 .. n) :
          it[S] = IF S = {} THEN t
                  ELSE Follows(it[S \ {Max(S)}], entry[l[Max(S)]][b].state, packet)
  BY <1>1, <1>5 DEF Iterates
<1> DEFINE Wrong == {k \in 0 .. n : it[1 .. k] # G(1 .. k)}
<1>7. Wrong = {}
  <2> SUFFICES ASSUME Wrong # {} PROVE FALSE
    OBVIOUS
  <2>0. Wrong \subseteq Nat
    OBVIOUS
  <2>1. PICK k \in Wrong : \A j \in Wrong : k <= j
    BY <2>0, LeastOf
  <2>2. k \in 0 .. n /\ it[1 .. k] # G(1 .. k)
    OBVIOUS
  <2>3. k # 0
    <3>1. 1 .. 0 = {}
      OBVIOUS
    <3> QED
      BY <1>2, <1>6, <2>2, <3>1
  <2>a. k \in Nat /\ k >= 1 /\ k <= n
    BY <1>1, <2>2, <2>3
  <2>4. k - 1 \in 0 .. n /\ k - 1 \notin Wrong
    BY <1>1, <2>1, <2>a
  <2> HIDE DEF Wrong
  <2>5. 1 .. k \in SUBSET (1 .. n) /\ 1 .. k # {} /\ k \in 1 .. k
    <3>1. \A i \in 1 .. k : i \in 1 .. n
      BY <1>1, <2>a
    <3>2. k \in 1 .. k
      BY <2>a
    <3> QED
      BY <3>1, <3>2
  <2>6. Max(1 .. k) = k
    <3>1. Max(1 .. k) \in 1 .. k /\ \A i \in 1 .. k : i <= Max(1 .. k)
      BY <2>5, <1>1, LastOf
    <3> QED
      BY <2>a, <2>5, <3>1
  <2>7. (1 .. k) \ {k} = 1 .. k - 1
    BY <2>a
  <2>8. it[1 .. k - 1] = G(1 .. k - 1)
    BY <2>4 DEF Wrong
  <2>9. it[1 .. k] = Follows(it[1 .. k - 1], entry[l[k]][b].state, packet)
    BY <1>6, <2>5, <2>6, <2>7
  <2>10. G(1 .. k) = Follows(G(1 .. k - 1), entry[l[k]][b].state, packet)
    BY <1>3, <2>5, <2>6, <2>7
  <2> QED
    BY <2>2, <2>8, <2>9, <2>10
<1>8. it[1 .. n] = G(1 .. n)
  BY <1>1, <1>7
<1> QED
  <2>1. AllFollow(b, packet) = it[DOMAIN l]
    BY FoldEquation DEF it, l, t
  <2> QED
    BY <1>1, <1>8, <2>1 DEF G, l, t

(***************************************************************************)
(* Types of what the helpers return.                                       *)
(***************************************************************************)

FlowType == [todo: Seq(Browsed), at: Awaits]

EntryType == [connected: BOOLEAN, state: PacketType \cup {None}]

\* The next seq is a seq, and another one.
LEMMA NextSeq ==
    ASSUME NEW n \in 0 .. SeqWrap - 1
    PROVE  (n + 1) % SeqWrap \in 0 .. SeqWrap - 1 /\ (n + 1) % SeqWrap # n
<1>1. (n + 1) % SeqWrap = IF n + 1 = SeqWrap THEN 0 ELSE n + 1
  BY BoundsAssumption
<1> QED
  BY <1>1, BoundsAssumption

\* addEventListener() adds a listener that was not there.
LEMMA AddedListens ==
    ASSUME NEW l \in Seq(Flows), NEW f \in Flows
    PROVE  /\ Append(l, f) \in Seq(Flows) /\ Append(l, f) # <<>>
           /\ ToSet(Append(l, f)) = ToSet(l) \cup {f}
           /\ f \notin ToSet(l) /\ IsInjective(l) => IsInjective(Append(l, f))
<1> DEFINE k == Append(l, f)
           n == Len(l)
<1>1. n \in Nat /\ DOMAIN l = 1 .. n /\ k \in Seq(Flows) /\ k # <<>>
  BY AppendProperties, LenProperties
<1>2. DOMAIN k = 1 .. n + 1 /\ k[n + 1] = f /\ \A i \in 1 .. n : k[i] = l[i]
  BY <1>1, AppendProperties, LenProperties
<1> HIDE DEF k, n
<1>3. ToSet(k) = ToSet(l) \cup {f}
  <2>1. \A x : x \in ToSet(k) => x \in ToSet(l) \cup {f}
    <3> SUFFICES ASSUME NEW i \in 1 .. n + 1 PROVE k[i] \in ToSet(l) \cup {f}
      BY <1>2 DEF ToSet
    <3>1. i = n + 1 \/ i \in 1 .. n
      BY <1>1
    <3> QED
      BY <1>1, <1>2, <3>1 DEF ToSet
  <2>2. \A x : x \in ToSet(l) => x \in ToSet(k)
    <3> SUFFICES ASSUME NEW i \in 1 .. n PROVE l[i] \in ToSet(k)
      BY <1>1 DEF ToSet
    <3>1. i \in 1 .. n + 1
      BY <1>1
    <3> QED
      BY <1>2, <3>1 DEF ToSet
  <2>3. f \in ToSet(k)
    <3>1. n + 1 \in 1 .. n + 1
      BY <1>1
    <3> QED
      BY <1>2, <3>1 DEF ToSet
  <2> QED
    BY <2>1, <2>2, <2>3
<1>4. ASSUME f \notin ToSet(l), IsInjective(l) PROVE IsInjective(k)
  <2> SUFFICES ASSUME NEW i \in 1 .. n + 1, NEW j \in 1 .. n + 1, k[i] = k[j]
               PROVE  i = j
    BY <1>2 DEF IsInjective
  <2>1. \A m \in 1 .. n : k[m] \in ToSet(l)
    BY <1>1, <1>2 DEF ToSet
  <2>2. (i = n + 1 \/ i \in 1 .. n) /\ (j = n + 1 \/ j \in 1 .. n)
    BY <1>1
  <2>3. CASE i \in 1 .. n /\ j \in 1 .. n
    BY <1>1, <1>2, <1>4, <2>3 DEF IsInjective
  <2> QED
    BY <1>2, <1>4, <2>1, <2>2, <2>3
<1> QED
  BY <1>1, <1>3, <1>4 DEF k

\* A device without listeners has no listener.
LEMMA NoListener ==
    ASSUME NEW l \in Seq(Flows)
    PROVE  l # <<>> <=> \E f \in Flows : f \in ToSet(l)
<1>1. Len(l) \in Nat /\ DOMAIN l = 1 .. Len(l) /\ \A i \in DOMAIN l : l[i] \in Flows
  BY LenProperties, ElementOfSeq
<1>2. l # <<>> <=> Len(l) # 0
  BY EmptySeq
<1>3. Len(l) # 0 <=> 1 \in DOMAIN l
  BY <1>1
<1>4. Len(l) = 0 => DOMAIN l = {}
  BY <1>1
<1> QED
  BY <1>1, <1>2, <1>3, <1>4 DEF ToSet

\* getDevices() gives the granted devices in some order.
LEMMA AllInTurn == SetToSeq(Browsed) \in Seq(Browsed)
<1> DEFINE n == Cardinality(Browsed)
<1>1. n \in Nat /\ ExistsBijection(1 .. n, Browsed)
  BY BrowsedAssumption, FS_CardinalityType
<1>2. PICK f \in [1 .. n -> Browsed] : IsInjective(f)
  BY <1>1 DEF ExistsBijection, Bijection, Injection, IsInjective
<1>3. SetToSeq(Browsed) \in [1 .. n -> Browsed]
  BY <1>2 DEF SetToSeq
<1> QED
  BY <1>1, <1>3, SeqDef

\* A flow that is done with a device is back at its loop.
LEMMA RestType ==
    ASSUME NEW w \in FlowType, w.todo # <<>>
    PROVE  Rest(w) \in FlowType /\ Rest(w).at = "call"
<1>1. Tail(w.todo) \in Seq(Browsed)
  BY HeadTailProperties DEF FlowType
<1> QED
  BY <1>1 DEF Rest, FlowType, Awaits

\* The parts of the types.
LEMMA TypeParts ==
    ASSUME TypeOK
    PROVE  /\ flow \in [Flows -> FlowType]
           /\ entry \in [Flows -> [Browsed -> EntryType]]
           /\ listeners \in [Browsed -> Seq(Flows)]
           /\ tracker \in [Browsed -> Trackers]
           /\ heard \in [Browsed -> PacketType \cup {None}]
           /\ edges \in [Browsed -> {0, 1}]
           /\ devices \in [Browsed -> Flows \cup {None}]
           /\ \A b \in Browsed : Packet(b) \in PacketType
BY DEF TypeOK, FlowType, EntryType, Packet, PacketType

(***************************************************************************)
(* A packet is heard.                                                      *)
(***************************************************************************)

\* What it does to the device that sent it.
LEMMA HearSelf ==
    ASSUME TypeOK, NEW b \in Browsed, NEW packet \in PacketType, Hear(b, packet)
    PROVE  /\ \A f \in Flows :
                  /\ entry'[f][b].connected = entry[f][b].connected
                  /\ entry'[f][b].state =
                         IF Listens(f, b) /\ Takes(entry[f][b].state, packet)
                         THEN packet ELSE entry[f][b].state
           /\ tracker'[b] = AllFollow(b, packet)
           /\ heard'[b] = packet
           /\ edges'[b] = IF heard[b] # None /\ ~ heard[b].pressed /\ packet.pressed
                          THEN 1 - edges[b] ELSE edges[b]
           /\ UNCHANGED <<devices, listeners>>
<1>1. entry \in [Flows -> [Browsed -> EntryType]] /\ tracker \in [Browsed -> Trackers]
  BY TypeParts
<1>2. heard \in [Browsed -> PacketType \cup {None}] /\ edges \in [Browsed -> {0, 1}]
  BY TypeParts
<1>3. ASSUME NEW f \in Flows
      PROVE  /\ entry'[f][b].connected = entry[f][b].connected
             /\ entry'[f][b].state =
                    IF Listens(f, b) /\ Takes(entry[f][b].state, packet)
                    THEN packet ELSE entry[f][b].state
  <2>1. entry'[f] = IF Listens(f, b) /\ Takes(entry[f][b].state, packet)
                    THEN [entry[f] EXCEPT ![b].state = packet] ELSE entry[f]
    BY DEF Hear, Listens
  <2>2. entry[f] \in [Browsed -> EntryType]
    BY <1>1
  <2>3. [entry[f] EXCEPT ![b].state = packet][b] = [entry[f][b] EXCEPT !.state = packet]
    BY <2>2
  <2>4. entry[f][b] \in EntryType
    BY <2>2
  <2>5. /\ [entry[f][b] EXCEPT !.state = packet].connected = entry[f][b].connected
        /\ [entry[f][b] EXCEPT !.state = packet].state = packet
    BY <2>4 DEF EntryType
  <2> QED
    BY <2>1, <2>3, <2>5
<1> QED
  BY <1>1, <1>2, <1>3 DEF Hear

\* And to the others: nothing.
LEMMA HearOthers ==
    ASSUME TypeOK, NEW b \in Browsed, NEW packet \in PacketType, Hear(b, packet),
           NEW c \in Browsed \ {b}
    PROVE  /\ \A f \in Flows : entry'[f][c] = entry[f][c]
           /\ tracker'[c] = tracker[c] /\ heard'[c] = heard[c] /\ edges'[c] = edges[c]
<1>1. entry \in [Flows -> [Browsed -> EntryType]] /\ tracker \in [Browsed -> Trackers]
  BY TypeParts
<1>2. heard \in [Browsed -> PacketType \cup {None}] /\ edges \in [Browsed -> {0, 1}]
  BY TypeParts
<1>3. ASSUME NEW f \in Flows PROVE entry'[f][c] = entry[f][c]
  <2>1. entry'[f] \in {[entry[f] EXCEPT ![b].state = packet], entry[f]}
    BY DEF Hear
  <2>2. entry[f] \in [Browsed -> EntryType]
    BY <1>1
  <2> QED
    BY <2>1, <2>2
<1> QED
  BY <1>1, <1>2, <1>3 DEF Hear

\* reduceActive() makes a tracker.
LEMMA ReduceType ==
    ASSUME NEW t \in Trackers, NEW p \in BOOLEAN
    PROVE  reduceActive(t, p) \in Trackers
<1>1. Sample(p) \in {"unknown", "up", "down"}
  BY DEF Sample
<1> QED
  BY <1>1 DEF reduceActive, Trackers

LEMMA HearType ==
    ASSUME TypeOK, NEW b \in Browsed, NEW packet \in PacketType, Hear(b, packet)
    PROVE  /\ entry' \in [Flows -> [Browsed -> EntryType]]
           /\ tracker' \in [Browsed -> Trackers]
           /\ heard' \in [Browsed -> PacketType \cup {None}]
           /\ edges' \in [Browsed -> {0, 1}]
           /\ UNCHANGED <<devices, listeners>>
<1>0. /\ entry \in [Flows -> [Browsed -> EntryType]] /\ tracker \in [Browsed -> Trackers]
      /\ heard \in [Browsed -> PacketType \cup {None}] /\ edges \in [Browsed -> {0, 1}]
      /\ listeners[b] \in Seq(Flows)
  BY TypeParts
<1>1. ASSUME NEW f \in Flows PROVE entry'[f] \in [Browsed -> EntryType]
  <2>1. entry'[f] \in {[entry[f] EXCEPT ![b].state = packet], entry[f]}
    BY DEF Hear
  <2>2. entry[f] \in [Browsed -> EntryType]
    BY <1>0
  <2>3. [entry[f][b] EXCEPT !.state = packet] \in EntryType
    BY <2>2 DEF EntryType
  <2>4. [entry[f] EXCEPT ![b].state = packet]
            = [entry[f] EXCEPT ![b] = [entry[f][b] EXCEPT !.state = packet]]
    BY <2>2
  <2>5. [entry[f] EXCEPT ![b].state = packet] \in [Browsed -> EntryType]
    BY <2>2, <2>3, <2>4
  <2> QED
    BY <2>1, <2>2, <2>5
<1>2. entry' = [f \in Flows |-> entry'[f]]
  BY DEF Hear
<1>3. AllFollow(b, packet) \in Trackers
  <2>1. tracker[b] \in Trackers /\ packet.pressed \in BOOLEAN
    BY <1>0 DEF PacketType
  <2> QED
    BY <1>0, <2>1, FoldFollowed, ReduceType DEF Followed
<1>4. entry' \in [Flows -> [Browsed -> EntryType]]
  BY <1>1, <1>2
<1>5. edges' \in [Browsed -> {0, 1}]
  BY <1>0 DEF Hear
<1> QED
  BY <1>0, <1>3, <1>4, <1>5 DEF Hear

\* The card of the device and its tracker are right again, if the packet is
\* the characteristic, and not heard before under its seq.
LEMMA HearKeeps ==
    ASSUME TypeOK, NEW b \in Browsed, NEW packet \in PacketType, Hear(b, packet),
           CardFed(b), HeardInOrder(b), listeners[b] # <<>>,
           gatt'[b] = gatt[b], notifying'[b], packet = Packet(b)',
           heard[b] # None => heard[b].seq # packet.seq \/ heard[b] = packet
    PROVE  CardFed(b)' /\ HeardInOrder(b)'
<1>0. /\ listeners[b] \in Seq(Flows) /\ devices[b] \in Flows \cup {None}
      /\ edges[b] \in {0, 1} /\ heard[b] \in PacketType \cup {None}
      /\ packet # None /\ packet.pressed \in BOOLEAN
      /\ \A f \in Flows : entry[f][b].state \in PacketType \cup {None}
  BY TypeParts, NoneAssumption DEF EntryType, PacketType
<1>1. \A f \in Flows : Listens(f, b)' <=> Listens(f, b)
  BY HearSelf DEF Listens
<1>2. Online(b)' <=> Online(b)
  BY <1>0, HearSelf, FlowsAssumption DEF Online
<1>3. \A f \in Flows : Listens(f, b) =>
          /\ entry'[f][b].state = packet
          /\ Takes(entry[f][b].state, packet) \/ heard[b] = packet
  BY <1>0, HearSelf DEF CardFed, Takes
<1>4. CardFed(b)'
  <2>1. ASSUME Online(b)', entry'[devices'[b]][b].state # None
        PROVE  Listens(devices[b], b)
    <3>1. devices[b] \in Flows
      BY <1>0, <1>2, <2>1 DEF Online
    <3> QED
      BY <1>2, <2>1, <3>1, HearSelf DEF CardFed
  <2>2. \A f \in Flows : Listens(f, b)' => Online(b)' /\ entry'[f][b].state = heard'[b]
    BY <1>1, <1>2, <1>3, HearSelf DEF CardFed
  <2>3. Online(b)' => gatt'[b]
    BY <1>2 DEF CardFed
  <2>4. devices' = devices /\ Listens(devices[b], b)' = Listens(devices[b], b)
    BY HearSelf DEF Listens
  <2> QED
    BY <2>1, <2>2, <2>3, <2>4 DEF CardFed
<1>5. tracker'[b] = Followed(b, packet, listeners[b], tracker[b], DOMAIN listeners[b])
  BY <1>0, HearSelf, FoldFollowed
<1>6. Fed(b, packet, listeners[b], DOMAIN listeners[b])
          <=> \E f \in Flows : Listens(f, b) /\ Takes(entry[f][b].state, packet)
  BY <1>0, ElementOfSeq, LenProperties DEF Fed, Listens, ToSet
<1>7. PICK f \in Flows : Listens(f, b)
  BY <1>0, NoListener DEF Listens
<1>8. tracker'[b] = [active |-> edges'[b] = 1, prev |-> Sample(packet.pressed)]
  <2>1. CASE heard[b] = None
    <3>1. tracker[b] = INITIAL_ACTIVE /\ edges'[b] = 0
      BY <2>1, HearSelf DEF HeardInOrder
    <3>2. Fed(b, packet, listeners[b], DOMAIN listeners[b])
      BY <1>0, <1>3, <1>6, <1>7, <2>1
    <3>3. ~ DownEdge(tracker[b], packet.pressed) /\ tracker[b].active = FALSE
      BY <3>1 DEF INITIAL_ACTIVE, resetActive, DownEdge
    <3>4. tracker'[b] = [active |-> FALSE, prev |-> Sample(packet.pressed)]
      BY <1>5, <3>2, <3>3 DEF Followed, reduceActive
    <3>5. (edges'[b] = 1) = FALSE
      BY <3>1
    <3> QED
      BY <3>4, <3>5
  <2>2. CASE heard[b] # None /\ Fed(b, packet, listeners[b], DOMAIN listeners[b])
    <3>1. tracker[b] = [active |-> edges[b] = 1, prev |-> Sample(heard[b].pressed)]
      BY <2>2 DEF HeardInOrder
    <3>2. tracker'[b] = reduceActive(tracker[b], packet.pressed)
      BY <1>5, <2>2 DEF Followed
    <3>3. DownEdge(tracker[b], packet.pressed) <=> ~ heard[b].pressed /\ packet.pressed
      BY <3>1 DEF DownEdge, Sample
    <3>4. edges'[b] = IF DownEdge(tracker[b], packet.pressed) THEN 1 - edges[b]
                      ELSE edges[b]
      BY <2>2, <3>3, HearSelf
    <3>5. (edges'[b] = 1) = (IF DownEdge(tracker[b], packet.pressed)
                             THEN ~ (edges[b] = 1) ELSE edges[b] = 1)
      BY <1>0, <3>4
    <3>6. tracker[b].active = (edges[b] = 1)
      BY <3>1
    <3>7. CASE DownEdge(tracker[b], packet.pressed)
      <4>1. tracker'[b] = [active |-> ~ tracker[b].active, prev |-> Sample(packet.pressed)]
        BY <3>2, <3>7 DEF reduceActive
      <4>2. (edges'[b] = 1) = ~ tracker[b].active
        BY <3>5, <3>6, <3>7
      <4> QED
        BY <4>1, <4>2
    <3>8. CASE ~ DownEdge(tracker[b], packet.pressed)
      <4>1. tracker'[b] = [active |-> tracker[b].active, prev |-> Sample(packet.pressed)]
        BY <3>2, <3>8 DEF reduceActive
      <4>2. (edges'[b] = 1) = tracker[b].active
        BY <3>5, <3>6, <3>8
      <4> QED
        BY <4>1, <4>2
    <3> QED
      BY <3>7, <3>8
  <2>3. CASE heard[b] # None /\ ~ Fed(b, packet, listeners[b], DOMAIN listeners[b])
    <3>1. heard[b] = packet
      BY <1>3, <1>6, <1>7, <2>3
    <3> QED
      BY <1>5, <2>3, <3>1, HearSelf DEF HeardInOrder, Followed
  <2> QED
    BY <2>1, <2>2, <2>3
<1>9. HeardInOrder(b)'
  BY <1>0, <1>8, HearSelf DEF HeardInOrder
<1> QED
  BY <1>4, <1>9

(***************************************************************************)
(* What a step leaves alone.                                               *)
(***************************************************************************)

\* A device to which nothing happens.
Untouched(b) ==
    /\ gatt'[b] = gatt[b] /\ notifying'[b] = notifying[b]
    /\ pressed'[b] = pressed[b] /\ seq'[b] = seq[b]
    /\ devices'[b] = devices[b] /\ \A f \in Flows : entry'[f][b] = entry[f][b]
    /\ listeners'[b] = listeners[b] /\ tracker'[b] = tracker[b]
    /\ heard'[b] = heard[b] /\ edges'[b] = edges[b]

LEMMA UntouchedKeeps ==
    ASSUME TypeOK, NEW b \in Browsed, Untouched(b), CardFed(b), HeardInOrder(b)
    PROVE  CardFed(b)' /\ HeardInOrder(b)'
<1>1. devices[b] \in Flows \cup {None}
  BY TypeParts
<1>2. Online(b)' <=> Online(b)
  BY <1>1 DEF Online, Untouched
<1>3. \A f : Listens(f, b)' <=> Listens(f, b)
  BY DEF Listens, Untouched
<1>4. Packet(b)' = Packet(b)
  BY DEF Packet, Untouched
<1>5. CardFed(b)'
  BY <1>1, <1>2, <1>3 DEF CardFed, Untouched, Online
<1>6. HeardInOrder(b)'
  BY <1>4 DEF HeardInOrder, Untouched
<1> QED
  BY <1>5, <1>6

\* A flow that stays, or is back at its loop, on a device that keeps its
\* connection and its listeners.
LEMMA FlowKeeps ==
    ASSUME NEW f \in Flows, NEW b \in Browsed, FlowInOrder(f, b),
           flow'[f] = flow[f] \/ flow'[f].at = "call",
           gatt[b] => gatt'[b], Online(b) => Online(b)', notifying[b] => notifying'[b],
           Listens(f, b)' <=> Listens(f, b),
           At(f, b, "results") => entry'[f][b].state = entry[f][b].state
    PROVE  FlowInOrder(f, b)'
<1>1. CASE flow'[f].at = "call"
  BY <1>1 DEF FlowInOrder, At, Holds
<1>2. CASE flow'[f] = flow[f]
  <2>1. \A await : At(f, b, await)' <=> At(f, b, await)
    BY <1>2 DEF At, Idle
  <2> QED
    BY <1>2, <2>1 DEF FlowInOrder
<1> QED
  BY <1>1, <1>2

\* A flow that is with another device.
LEMMA FlowAway ==
    ASSUME NEW f \in Flows, NEW b \in Browsed, NEW c \in Browsed \ {b},
           Head(flow'[f].todo) = b
    PROVE  FlowInOrder(f, c)'
BY DEF FlowInOrder, At, Holds

(***************************************************************************)
(* The device.                                                             *)
(***************************************************************************)

\* A device publishes, after an edge or on a heartbeat.
LEMMA PublishKeeps ==
    ASSUME ConnectInv, NEW b \in Browsed, Publish(b),
           pressed' \in [Browsed -> BOOLEAN], presses' \in [Browsed -> 0 .. MaxPress],
           \A c \in Browsed \ {b} : pressed'[c] = pressed[c]
    PROVE  ConnectInv'
<1>0. /\ TypeOK
      /\ \A c \in Browsed : CardFed(c) /\ HeardInOrder(c)
      /\ \A f \in Flows, c \in Browsed : FlowInOrder(f, c)
  BY DEF ConnectInv
<1>1. seq \in [Browsed -> 0 .. SeqWrap - 1] /\ listeners \in [Browsed -> Seq(Flows)]
  BY <1>0 DEF TypeOK
<1>2. /\ seq' \in [Browsed -> 0 .. SeqWrap - 1] /\ seq'[b] # seq[b]
      /\ \A c \in Browsed \ {b} : seq'[c] = seq[c]
  <2>1. (seq[b] + 1) % SeqWrap \in 0 .. SeqWrap - 1 /\ (seq[b] + 1) % SeqWrap # seq[b]
    BY <1>1, NextSeq
  <2>2. seq' = [seq EXCEPT ![b] = (seq[b] + 1) % SeqWrap]
    BY DEF Publish
  <2> QED
    BY <1>1, <2>1, <2>2
<1>3. Packet(b)' \in PacketType /\ Packet(b)'.seq = seq'[b]
  BY <1>2 DEF Packet, PacketType
<1>4. UNCHANGED <<gatt, notifying, flow, drops>>
  BY DEF Publish
<1>5. CASE notifying[b] /\ listeners[b] # <<>>
  <2>1. Hear(b, Packet(b)')
    BY <1>5 DEF Publish
  <2>2. CardFed(b)' /\ HeardInOrder(b)'
    <3>1. heard[b] # None => heard[b].seq # Packet(b)'.seq
      <4>1. Packet(b).seq = seq[b]
        BY DEF Packet
      <4>2. heard[b] # None => heard[b] = Packet(b)
        BY <1>0 DEF HeardInOrder
      <4> QED
        BY <1>2, <1>3, <4>1, <4>2
    <3> QED
      BY <1>0, <1>3, <1>4, <1>5, <2>1, <3>1, HearKeeps
  <2>3. ASSUME NEW c \in Browsed \ {b} PROVE Untouched(c)
    BY <1>0, <1>2, <1>3, <1>4, <2>1, <2>3, HearOthers, HearType DEF Untouched
  <2>4. \A c \in Browsed : CardFed(c)' /\ HeardInOrder(c)'
    BY <1>0, <2>2, <2>3, UntouchedKeeps
  <2>5. ASSUME NEW f \in Flows, NEW c \in Browsed PROVE FlowInOrder(f, c)'
    <3>1. UNCHANGED <<devices, listeners>>
      BY <1>0, <1>3, <2>1, HearType
    <3>2. Listens(f, c)' <=> Listens(f, c)
      BY <3>1 DEF Listens
    <3>3. At(f, c, "results") => entry'[f][c].state = entry[f][c].state
      <4>1. CASE c = b
        BY <1>0, <1>3, <2>1, <4>1, HearSelf DEF FlowInOrder
      <4>2. CASE c # b
        BY <1>0, <1>3, <2>1, <4>2, HearOthers
      <4> QED
        BY <4>1, <4>2
    <3>4. Online(c) => Online(c)'
      <4>1. devices[c] \in Flows \cup {None}
        BY <1>0, TypeParts
      <4>2. \A g \in Flows : entry'[g][c].connected = entry[g][c].connected
        BY <1>0, <1>3, <2>1, HearSelf, HearOthers
      <4> QED
        BY <3>1, <4>1, <4>2 DEF Online
    <3> QED
      BY <1>0, <1>4, <3>2, <3>3, <3>4, FlowKeeps
  <2>6. TypeOK'
    BY <1>0, <1>2, <1>3, <1>4, <2>1, HearType DEF TypeOK, EntryType
  <2> QED
    BY <2>4, <2>5, <2>6 DEF ConnectInv
<1>6. CASE ~ (notifying[b] /\ listeners[b] # <<>>)
  <2>1. UNCHANGED <<devices, entry, listeners, tracker, heard, edges>>
    BY <1>6 DEF Publish, pageVars, historyVars
  <2>2. heard[b] = None
    BY <1>0, <1>6 DEF HeardInOrder
  <2>3. CardFed(b)' /\ HeardInOrder(b)'
    <3>1. CardFed(b)'
      BY <1>0, <1>4, <2>1 DEF CardFed, Online, Listens
    <3>2. HeardInOrder(b)'
      BY <1>0, <2>1, <2>2 DEF HeardInOrder
    <3> QED
      BY <3>1, <3>2
  <2>4. ASSUME NEW c \in Browsed \ {b} PROVE Untouched(c)
    BY <1>2, <1>4, <2>1 DEF Untouched
  <2>5. \A c \in Browsed : CardFed(c)' /\ HeardInOrder(c)'
    BY <1>0, <2>3, <2>4, UntouchedKeeps
  <2>6. \A f \in Flows, c \in Browsed : FlowInOrder(f, c)'
    BY <1>0, <1>4, <2>1 DEF FlowInOrder, At, Idle, Online, Listens
  <2>7. TypeOK'
    BY <1>0, <1>2, <1>4, <2>1 DEF TypeOK
  <2> QED
    BY <2>5, <2>6, <2>7 DEF ConnectInv
<1> QED
  BY <1>5, <1>6

LEMMA DeviceKeeps ==
    ASSUME ConnectInv, NEW b \in Browsed, Press(b) \/ Release(b) \/ heartbeat(b)
    PROVE  ConnectInv'
<1>1. pressed \in [Browsed -> BOOLEAN] /\ presses \in [Browsed -> 0 .. MaxPress]
  BY DEF ConnectInv, TypeOK
<1>2. /\ pressed' \in [Browsed -> BOOLEAN] /\ presses' \in [Browsed -> 0 .. MaxPress]
      /\ \A c \in Browsed \ {b} : pressed'[c] = pressed[c]
  <2>1. CASE Press(b)
    BY <1>1, <2>1, BoundsAssumption DEF Press
  <2>2. CASE Release(b) \/ heartbeat(b)
    BY <1>1, <2>2 DEF Release, heartbeat
  <2> QED
    BY <2>1, <2>2
<1>3. Publish(b)
  BY DEF Press, Release, heartbeat
<1> QED
  BY <1>2, <1>3, PublishKeeps

(***************************************************************************)
(* The flows.                                                              *)
(***************************************************************************)

\* A step of a flow that the devices and the page do not notice.
LEMMA QuietKeeps ==
    ASSUME ConnectInv, NEW f \in Flows, flow' \in [Flows -> FlowType],
           UNCHANGED <<deviceVars, pageVars, historyVars, drops>>,
           \A g \in Flows \ {f} : flow'[g] = flow[g],
           \A b \in Browsed : FlowInOrder(f, b)'
    PROVE  ConnectInv'
<1>1. /\ TypeOK
      /\ \A c \in Browsed : CardFed(c) /\ HeardInOrder(c)
      /\ \A g \in Flows, c \in Browsed : FlowInOrder(g, c)
  BY DEF ConnectInv
<1>2. \A c \in Browsed : CardFed(c)' /\ HeardInOrder(c)'
  BY <1>1, UntouchedKeeps DEF Untouched, deviceVars, pageVars, historyVars
<1>3. ASSUME NEW g \in Flows \ {f}, NEW c \in Browsed PROVE FlowInOrder(g, c)'
  BY <1>1, FlowKeeps DEF deviceVars, pageVars, Online, Listens
<1>4. TypeOK'
  BY <1>1 DEF TypeOK, deviceVars, pageVars, historyVars, FlowType
<1> QED
  BY <1>2, <1>3, <1>4 DEF ConnectInv

LEMMA BeginKeeps ==
    ASSUME ConnectInv, NEW f \in Flows, NEW todo \in Seq(Browsed), Begin(f, todo)
    PROVE  ConnectInv'
<1>1. flow \in [Flows -> FlowType]
  BY TypeParts DEF ConnectInv
<1>2. [todo |-> todo, at |-> "call"] \in FlowType
  BY DEF FlowType, Awaits
<1>3. flow' = [flow EXCEPT ![f] = [todo |-> todo, at |-> "call"]]
  BY DEF Begin
<1>4. flow' \in [Flows -> FlowType] /\ \A g \in Flows \ {f} : flow'[g] = flow[g]
  BY <1>1, <1>2, <1>3
<1>5. \A b \in Browsed : FlowInOrder(f, b)'
  BY <1>1, <1>3 DEF FlowInOrder, At, Holds
<1> QED
  BY <1>4, <1>5, QuietKeeps DEF Begin

LEMMA CallKeeps ==
    ASSUME ConnectInv, NEW f \in Flows, NEW b \in Browsed, Call(f, b)
    PROVE  ConnectInv'
<1>1. flow \in [Flows -> FlowType] /\ listeners \in [Browsed -> Seq(Flows)]
  BY TypeParts DEF ConnectInv
<1>2. flow[f].todo # <<>> /\ Head(flow[f].todo) = b
  BY DEF Call, At, Idle
<1>3. CASE Online(b)
  <2>1. flow' = [flow EXCEPT ![f] = Rest(flow[f])]
    BY <1>3 DEF Call, AlreadyConnected
  <2>2. Rest(flow[f]) \in FlowType /\ Rest(flow[f]).at = "call"
    BY <1>1, <1>2, RestType
  <2>3. flow' \in [Flows -> FlowType] /\ \A g \in Flows \ {f} : flow'[g] = flow[g]
    BY <1>1, <2>1, <2>2
  <2>4. \A c \in Browsed : FlowInOrder(f, c)'
    BY <1>1, <2>1, <2>2 DEF FlowInOrder, At, Holds
  <2> QED
    BY <2>3, <2>4, QuietKeeps DEF Call
<1>4. CASE ~ Online(b)
  <2>1. flow' = [flow EXCEPT ![f] = [flow[f] EXCEPT !.at = "connect"]]
    BY <1>4 DEF Call, AlreadyConnected
  <2>2. flow'[f] = [flow[f] EXCEPT !.at = "connect"] /\ flow'[f] \in FlowType
    BY <1>1, <2>1 DEF FlowType, Awaits
  <2>3. flow' \in [Flows -> FlowType] /\ \A g \in Flows \ {f} : flow'[g] = flow[g]
    BY <1>1, <2>1, <2>2
  <2>4. flow'[f].todo = flow[f].todo /\ flow'[f].at = "connect"
    BY <1>1, <2>2 DEF FlowType
  <2>5. ~ Listens(f, b)'
    BY <1>4 DEF ConnectInv, CardFed, Call, pageVars, Listens
  <2>6. \A c \in Browsed : FlowInOrder(f, c)'
    BY <1>2, <2>4, <2>5, FlowAway DEF FlowInOrder, At, Holds
  <2> QED
    BY <2>3, <2>6, QuietKeeps DEF Call
<1> QED
  BY <1>3, <1>4

LEMMA RejectedKeeps ==
    ASSUME ConnectInv, NEW f \in Flows, NEW b \in Browsed, Rejected(f, b)
    PROVE  ConnectInv'
<1>1. flow \in [Flows -> FlowType]
  BY TypeParts DEF ConnectInv
<1>2. Rest(flow[f]) \in FlowType /\ Rest(flow[f]).at = "call"
  BY <1>1, RestType DEF Rejected, Idle
<1>3. flow' = [flow EXCEPT ![f] = Rest(flow[f])]
  BY DEF Rejected, Failed
<1>4. flow' \in [Flows -> FlowType] /\ \A g \in Flows \ {f} : flow'[g] = flow[g]
  BY <1>1, <1>2, <1>3
<1>5. \A c \in Browsed : FlowInOrder(f, c)'
  BY <1>1, <1>2, <1>3 DEF FlowInOrder, At, Holds
<1> QED
  BY <1>4, <1>5, QuietKeeps DEF Rejected

\* A flow that goes from one await to the next.
LEMMA GoesOn ==
    ASSUME TypeOK, NEW f \in Flows, NEW b \in Browsed, NEW from, NEW to \in Awaits,
           At(f, b, from), GoesTo(f, to)
    PROVE  /\ flow' \in [Flows -> FlowType]
           /\ flow'[f].at = to /\ flow'[f].todo # <<>> /\ Head(flow'[f].todo) = b
           /\ \A g \in Flows \ {f} : flow'[g] = flow[g]
           /\ \A c \in Browsed \ {b} : FlowInOrder(f, c)'
<1>1. flow \in [Flows -> FlowType]
  BY TypeParts
<1>2. flow'[f] = [flow[f] EXCEPT !.at = to]
  BY <1>1 DEF GoesTo
<1>3. /\ flow'[f] \in FlowType /\ flow'[f].at = to
      /\ flow'[f].todo = flow[f].todo
  BY <1>1, <1>2 DEF FlowType
<1>4. flow' \in [Flows -> FlowType] /\ \A g \in Flows \ {f} : flow'[g] = flow[g]
  BY <1>1, <1>3 DEF GoesTo
<1>5. flow'[f].todo # <<>> /\ Head(flow'[f].todo) = b
  BY <1>3 DEF At, Idle
<1> QED
  BY <1>3, <1>4, <1>5, FlowAway

\* gatt.connect(): the first one of a device finds nobody who listens.
LEMMA ConnectedKeeps ==
    ASSUME ConnectInv, NEW f \in Flows, NEW b \in Browsed, Connected(f, b)
    PROVE  ConnectInv'
<1>0. /\ TypeOK
      /\ \A c \in Browsed : CardFed(c) /\ HeardInOrder(c)
      /\ \A g \in Flows, c \in Browsed : FlowInOrder(g, c)
  BY DEF ConnectInv
<1>1. /\ gatt \in [Browsed -> BOOLEAN] /\ seq \in [Browsed -> 0 .. SeqWrap - 1]
      /\ listeners \in [Browsed -> Seq(Flows)]
  BY <1>0 DEF TypeOK
<1>2. /\ gatt' = [gatt EXCEPT ![b] = TRUE]
      /\ UNCHANGED <<pressed, presses, notifying, pageVars, historyVars, drops>>
      /\ At(f, b, "connect") /\ GoesTo(f, "info")
  BY DEF Connected
<1>3. /\ seq' \in [Browsed -> 0 .. SeqWrap - 1]
      /\ \A c \in Browsed \ {b} : seq'[c] = seq[c]
      /\ gatt[b] => seq'[b] = seq[b]
  <2>1. (seq[b] + 1) % SeqWrap \in 0 .. SeqWrap - 1
    BY <1>1, NextSeq
  <2>2. seq' = IF gatt[b] THEN seq ELSE [seq EXCEPT ![b] = (seq[b] + 1) % SeqWrap]
    BY DEF Connected
  <2> QED
    BY <1>1, <2>1, <2>2
<1>4. /\ flow' \in [Flows -> FlowType]
      /\ flow'[f].at = "info" /\ flow'[f].todo # <<>> /\ Head(flow'[f].todo) = b
      /\ \A g \in Flows \ {f} : flow'[g] = flow[g]
      /\ \A c \in Browsed \ {b} : FlowInOrder(f, c)'
  BY <1>0, <1>2, GoesOn DEF Awaits
<1>5. \A c \in Browsed : CardFed(c)' /\ HeardInOrder(c)'
  <2>1. ASSUME NEW c \in Browsed, c # b \/ gatt[b] PROVE Untouched(c)
    BY <1>1, <1>2, <1>3, <2>1 DEF Untouched, pageVars, historyVars
  <2>2. CASE ~ gatt[b]
    <3>1. ~ Online(b) /\ \A g \in Flows : ~ Listens(g, b)
      BY <1>0, <2>2 DEF CardFed
    <3>2. heard[b] = None
      BY <1>0, <1>1, <3>1, NoListener DEF HeardInOrder, Listens
    <3>3. CardFed(b)'
      BY <1>2, <3>1 DEF CardFed, Online, Listens, pageVars
    <3>4. HeardInOrder(b)'
      BY <1>0, <1>2, <3>2 DEF HeardInOrder, pageVars, historyVars
    <3> QED
      BY <1>0, <2>1, <3>3, <3>4, UntouchedKeeps
  <2> QED
    BY <1>0, <2>1, <2>2, UntouchedKeeps
<1>6. ASSUME NEW g \in Flows \ {f}, NEW c \in Browsed PROVE FlowInOrder(g, c)'
  BY <1>0, <1>1, <1>2, <1>4, FlowKeeps DEF pageVars, Online, Listens
<1>7. FlowInOrder(f, b)'
  <2>1. ~ Listens(f, b)'
    BY <1>0, <1>2 DEF FlowInOrder, Listens, pageVars
  <2>2. gatt'[b]
    BY <1>1, <1>2
  <2> QED
    BY <1>4, <2>1, <2>2 DEF FlowInOrder, At, Holds
<1>8. TypeOK'
  BY <1>0, <1>2, <1>3, <1>4 DEF TypeOK, pageVars, historyVars, FlowType
<1> QED
  BY <1>4, <1>5, <1>6, <1>7, <1>8 DEF ConnectInv

\* The new entry has no state, and its flow no listener yet.
LEMMA InfoReadKeeps ==
    ASSUME ConnectInv, NEW f \in Flows, NEW b \in Browsed, InfoRead(f, b)
    PROVE  ConnectInv'
<1>0. /\ TypeOK
      /\ \A c \in Browsed : CardFed(c) /\ HeardInOrder(c)
      /\ \A g \in Flows, c \in Browsed : FlowInOrder(g, c)
  BY DEF ConnectInv
<1>1. /\ entry \in [Flows -> [Browsed -> EntryType]]
      /\ devices \in [Browsed -> Flows \cup {None}]
  BY <1>0, TypeParts
<1>2. /\ UNCHANGED <<deviceVars, listeners, tracker, historyVars, drops>>
      /\ At(f, b, "info") /\ GoesTo(f, "results")
  BY DEF InfoRead
<1>3. /\ entry' \in [Flows -> [Browsed -> EntryType]]
      /\ entry'[f][b].connected = TRUE /\ entry'[f][b].state = None
      /\ \A g \in Flows, c \in Browsed :
             g # f \/ c # b => entry'[g][c] = entry[g][c]
  <2> DEFINE e == [connected |-> TRUE, state |-> None]
  <2>1. e \in EntryType
    BY DEF EntryType
  <2>2. entry' = [entry EXCEPT ![f][b] = e]
    BY DEF InfoRead
  <2> HIDE DEF e
  <2>3. entry' \in [Flows -> [Browsed -> EntryType]] /\ entry'[f][b] = e
    BY <1>1, <2>1, <2>2
  <2>4. \A g \in Flows, c \in Browsed : g # f \/ c # b => entry'[g][c] = entry[g][c]
    BY <1>1, <2>2
  <2> QED
    BY <2>3, <2>4 DEF e
<1>4. /\ devices' \in [Browsed -> Flows \cup {None}] /\ devices'[b] = f
      /\ \A c \in Browsed \ {b} : devices'[c] = devices[c]
  BY <1>1 DEF InfoRead
<1>5. /\ flow' \in [Flows -> FlowType]
      /\ flow'[f].at = "results" /\ flow'[f].todo # <<>> /\ Head(flow'[f].todo) = b
      /\ \A g \in Flows \ {f} : flow'[g] = flow[g]
      /\ \A c \in Browsed \ {b} : FlowInOrder(f, c)'
  BY <1>0, <1>2, GoesOn DEF Awaits
<1>6. ~ Listens(f, b) /\ gatt[b]
  BY <1>0, <1>2 DEF FlowInOrder, At, Holds, Idle
<1>7. Online(b)'
  BY <1>3, <1>4, FlowsAssumption DEF Online
<1>8. \A g \in Flows, c \in Browsed : Listens(g, c)' <=> Listens(g, c)
  BY <1>2 DEF Listens
<1>9. CardFed(b)' /\ HeardInOrder(b)'
  <2>1. CardFed(b)'
    BY <1>0, <1>2, <1>3, <1>4, <1>6, <1>7, <1>8
    DEF CardFed, deviceVars, historyVars
  <2>2. HeardInOrder(b)'
    BY <1>0, <1>2 DEF HeardInOrder, Packet, deviceVars, historyVars
  <2> QED
    BY <2>1, <2>2
<1>10. ASSUME NEW c \in Browsed \ {b} PROVE CardFed(c)' /\ HeardInOrder(c)'
  <2>1. Untouched(c)
    BY <1>2, <1>3, <1>4 DEF Untouched, deviceVars, historyVars
  <2> QED
    BY <1>0, <2>1, UntouchedKeeps
<1>11. ASSUME NEW g \in Flows \ {f}, NEW c \in Browsed PROVE FlowInOrder(g, c)'
  <2>1. Online(c) => Online(c)'
    BY <1>1, <1>3, <1>4, <1>7 DEF Online
  <2> QED
    BY <1>0, <1>2, <1>3, <1>5, <1>8, <2>1, FlowKeeps DEF deviceVars
<1>12. FlowInOrder(f, b)'
  BY <1>2, <1>3, <1>5, <1>6, <1>7, <1>8 DEF FlowInOrder, At, Holds, deviceVars
<1>13. TypeOK'
  BY <1>0, <1>2, <1>3, <1>4, <1>5
  DEF TypeOK, deviceVars, historyVars, FlowType, EntryType
<1> QED
  BY <1>5, <1>9, <1>10, <1>11, <1>12, <1>13 DEF ConnectInv

\* The listener of the flow is new, and its entry has no state.
LEMMA ResultsOnKeeps ==
    ASSUME ConnectInv, NEW f \in Flows, NEW b \in Browsed, ResultsOn(f, b)
    PROVE  ConnectInv'
<1>0. /\ TypeOK
      /\ \A c \in Browsed : CardFed(c) /\ HeardInOrder(c)
      /\ \A g \in Flows, c \in Browsed : FlowInOrder(g, c)
  BY DEF ConnectInv
<1>1. /\ listeners \in [Browsed -> Seq(Flows)]
      /\ \A c \in Browsed : IsInjective(listeners[c])
  BY <1>0 DEF TypeOK
<1>2. /\ UNCHANGED <<deviceVars, devices, entry, tracker, historyVars, drops>>
      /\ At(f, b, "results") /\ GoesTo(f, "states")
  BY DEF ResultsOn
<1>3. ~ Listens(f, b) /\ Online(b) /\ entry[f][b].state = None
  BY <1>0, <1>2 DEF FlowInOrder
<1>4. /\ listeners' \in [Browsed -> Seq(Flows)]
      /\ listeners'[b] = Append(listeners[b], f)
      /\ \A c \in Browsed \ {b} : listeners'[c] = listeners[c]
  <2>1. Append(listeners[b], f) \in Seq(Flows)
    BY <1>1, AddedListens
  <2>2. listeners' = [listeners EXCEPT ![b] = Append(listeners[b], f)]
    BY DEF ResultsOn, AddListener
  <2> QED
    BY <1>1, <2>1, <2>2
<1>5. /\ listeners'[b] # <<>> /\ IsInjective(listeners'[b])
      /\ \A g : Listens(g, b)' <=> Listens(g, b) \/ g = f
      /\ \A g : \A c \in Browsed \ {b} : Listens(g, c)' <=> Listens(g, c)
  BY <1>1, <1>3, <1>4, AddedListens DEF Listens
<1>6. /\ flow' \in [Flows -> FlowType]
      /\ flow'[f].at = "states" /\ flow'[f].todo # <<>> /\ Head(flow'[f].todo) = b
      /\ \A g \in Flows \ {f} : flow'[g] = flow[g]
      /\ \A c \in Browsed \ {b} : FlowInOrder(f, c)'
  BY <1>0, <1>2, GoesOn DEF Awaits
<1>7. CardFed(b)' /\ HeardInOrder(b)'
  <2>1. CardFed(b)'
    BY <1>0, <1>2, <1>3, <1>5 DEF CardFed, Online, deviceVars, historyVars
  <2>2. HeardInOrder(b)'
    BY <1>0, <1>2, <1>5 DEF HeardInOrder, Packet, deviceVars, historyVars
  <2> QED
    BY <2>1, <2>2
<1>8. ASSUME NEW c \in Browsed \ {b} PROVE CardFed(c)' /\ HeardInOrder(c)'
  <2>1. Untouched(c)
    BY <1>2, <1>4 DEF Untouched, deviceVars, historyVars
  <2> QED
    BY <1>0, <2>1, UntouchedKeeps
<1>9. ASSUME NEW g \in Flows \ {f}, NEW c \in Browsed PROVE FlowInOrder(g, c)'
  <2>1. Listens(g, c)' <=> Listens(g, c)
    BY <1>5
  <2> QED
    BY <1>0, <1>2, <1>6, <2>1, FlowKeeps DEF deviceVars, Online
<1>10. FlowInOrder(f, b)'
  <2>1. gatt'[b] /\ Listens(f, b)'
    BY <1>0, <1>2, <1>3, <1>5 DEF CardFed, deviceVars
  <2> QED
    BY <1>6, <2>1 DEF FlowInOrder, At, Holds
<1>11. TypeOK'
  <2>1. \A c \in Browsed : IsInjective(listeners'[c])
    BY <1>1, <1>4, <1>5
  <2> QED
    BY <1>0, <1>2, <1>4, <1>6, <2>1 DEF TypeOK, deviceVars, historyVars, FlowType
<1> QED
  BY <1>6, <1>7, <1>8, <1>9, <1>10, <1>11 DEF ConnectInv

LEMMA StatesOnKeeps ==
    ASSUME ConnectInv, NEW f \in Flows, NEW b \in Browsed, StatesOn(f, b)
    PROVE  ConnectInv'
<1>0. /\ TypeOK
      /\ \A c \in Browsed : CardFed(c) /\ HeardInOrder(c)
      /\ \A g \in Flows, c \in Browsed : FlowInOrder(g, c)
  BY DEF ConnectInv
<1>1. /\ UNCHANGED <<gatt, pressed, presses, seq, pageVars, historyVars, drops>>
      /\ At(f, b, "states") /\ GoesTo(f, "reading")
  BY DEF StatesOn
<1>2. /\ notifying' \in [Browsed -> BOOLEAN] /\ notifying'[b] = TRUE
      /\ \A c \in Browsed \ {b} : notifying'[c] = notifying[c]
  BY <1>0 DEF TypeOK, StatesOn
<1>3. /\ flow' \in [Flows -> FlowType]
      /\ flow'[f].at = "reading" /\ flow'[f].todo # <<>> /\ Head(flow'[f].todo) = b
      /\ \A g \in Flows \ {f} : flow'[g] = flow[g]
      /\ \A c \in Browsed \ {b} : FlowInOrder(f, c)'
  BY <1>0, <1>1, GoesOn DEF Awaits
<1>4. CardFed(b)' /\ HeardInOrder(b)'
  <2>1. CardFed(b)'
    BY <1>0, <1>1 DEF CardFed, Online, Listens, pageVars, historyVars
  <2>2. HeardInOrder(b)'
    BY <1>0, <1>1, <1>2 DEF HeardInOrder, Packet, pageVars, historyVars
  <2> QED
    BY <2>1, <2>2
<1>5. ASSUME NEW c \in Browsed \ {b} PROVE CardFed(c)' /\ HeardInOrder(c)'
  <2>1. Untouched(c)
    BY <1>1, <1>2 DEF Untouched, pageVars, historyVars
  <2> QED
    BY <1>0, <2>1, UntouchedKeeps
<1>6. ASSUME NEW g \in Flows \ {f}, NEW c \in Browsed PROVE FlowInOrder(g, c)'
  <2>1. notifying[c] => notifying'[c]
    BY <1>2
  <2> QED
    BY <1>0, <1>1, <1>3, <2>1, FlowKeeps DEF pageVars, Online, Listens
<1>7. FlowInOrder(f, b)'
  <2>1. gatt'[b] /\ Listens(f, b)'
    BY <1>0, <1>1 DEF FlowInOrder, CardFed, Listens, pageVars
  <2> QED
    BY <1>2, <1>3, <2>1 DEF FlowInOrder, At, Holds
<1>8. TypeOK'
  BY <1>0, <1>1, <1>2, <1>3 DEF TypeOK, pageVars, historyVars, FlowType
<1> QED
  BY <1>3, <1>4, <1>5, <1>6, <1>7, <1>8 DEF ConnectInv

\* The flow has asked for the value, and its own listener hears the answer.
LEMMA StateReadKeeps ==
    ASSUME ConnectInv, NEW f \in Flows, NEW b \in Browsed, StateRead(f, b)
    PROVE  ConnectInv'
<1>0. /\ TypeOK
      /\ \A c \in Browsed : CardFed(c) /\ HeardInOrder(c)
      /\ \A g \in Flows, c \in Browsed : FlowInOrder(g, c)
  BY DEF ConnectInv
<1>1. /\ flow \in [Flows -> FlowType] /\ listeners \in [Browsed -> Seq(Flows)]
      /\ devices \in [Browsed -> Flows \cup {None}] /\ Packet(b) \in PacketType
  BY <1>0, TypeParts
<1>2. /\ UNCHANGED <<deviceVars, drops>>
      /\ At(f, b, "reading") /\ Hear(b, Packet(b))
      /\ flow' = [flow EXCEPT ![f] = Rest(flow[f])]
  BY DEF StateRead
<1>3. Listens(f, b) /\ notifying[b] /\ listeners[b] # <<>>
  BY <1>0, <1>1, <1>2, NoListener DEF FlowInOrder, Listens
<1>4. Packet(b)' = Packet(b)
  BY <1>2 DEF Packet, deviceVars
<1>5. CardFed(b)' /\ HeardInOrder(b)'
  <2>1. heard[b] # None => heard[b] = Packet(b)
    BY <1>0 DEF HeardInOrder
  <2>2. gatt'[b] = gatt[b] /\ notifying'[b]
    BY <1>2, <1>3 DEF deviceVars
  <2> QED
    BY <1>0, <1>1, <1>2, <1>3, <1>4, <2>1, <2>2, HearKeeps
<1>6. UNCHANGED <<devices, listeners>>
  BY <1>0, <1>1, <1>2, HearType
<1>7. ASSUME NEW c \in Browsed \ {b} PROVE CardFed(c)' /\ HeardInOrder(c)'
  <2>1. Untouched(c)
    BY <1>0, <1>1, <1>2, <1>6, HearOthers DEF Untouched, deviceVars
  <2> QED
    BY <1>0, <2>1, UntouchedKeeps
<1>8. /\ flow' \in [Flows -> FlowType]
      /\ flow'[f].at = "call"
      /\ \A g \in Flows \ {f} : flow'[g] = flow[g]
  <2>1. Rest(flow[f]) \in FlowType /\ Rest(flow[f]).at = "call"
    BY <1>1, <1>2, RestType DEF At, Idle
  <2> QED
    BY <1>1, <1>2, <2>1
<1>9. ASSUME NEW g \in Flows, NEW c \in Browsed PROVE FlowInOrder(g, c)'
  <2>1. Listens(g, c)' <=> Listens(g, c)
    BY <1>6 DEF Listens
  <2>2. At(g, c, "results") => entry'[g][c].state = entry[g][c].state
    <3>1. CASE c = b
      BY <1>0, <1>1, <1>2, <3>1, HearSelf DEF FlowInOrder
    <3>2. CASE c # b
      BY <1>0, <1>1, <1>2, <3>2, HearOthers
    <3> QED
      BY <3>1, <3>2
  <2>3. Online(c) => Online(c)'
    <3>1. \A h \in Flows : entry'[h][c].connected = entry[h][c].connected
      BY <1>0, <1>1, <1>2, HearSelf, HearOthers
    <3> QED
      BY <1>1, <1>6, <3>1 DEF Online
  <2> QED
    BY <1>0, <1>2, <1>8, <2>1, <2>2, <2>3, FlowKeeps DEF deviceVars
<1>10. TypeOK'
  BY <1>0, <1>1, <1>2, <1>8, HearType DEF TypeOK, deviceVars, FlowType, EntryType
<1> QED
  BY <1>5, <1>7, <1>9, <1>10 DEF ConnectInv

\* The end of a connection leaves its device as if it had never been there.
LEMMA DropKeeps ==
    ASSUME ConnectInv, NEW b \in Browsed, Drop(b)
    PROVE  ConnectInv'
<1>0. /\ TypeOK
      /\ \A c \in Browsed : CardFed(c) /\ HeardInOrder(c)
      /\ \A g \in Flows, c \in Browsed : FlowInOrder(g, c)
  BY DEF ConnectInv
<1>1. /\ flow \in [Flows -> FlowType] /\ listeners \in [Browsed -> Seq(Flows)]
      /\ devices \in [Browsed -> Flows \cup {None}]
      /\ entry \in [Flows -> [Browsed -> EntryType]] /\ tracker \in [Browsed -> Trackers]
      /\ heard \in [Browsed -> PacketType \cup {None}] /\ edges \in [Browsed -> {0, 1}]
  BY <1>0, TypeParts
<1>2. /\ gatt' = [gatt EXCEPT ![b] = FALSE]
      /\ notifying' = [notifying EXCEPT ![b] = FALSE]
      /\ listeners' = [listeners EXCEPT ![b] = <<>>]
      /\ heard' = [heard EXCEPT ![b] = None]
      /\ edges' = [edges EXCEPT ![b] = 0]
      /\ drops < MaxDrops /\ drops' = drops + 1
      /\ UNCHANGED <<pressed, presses, seq, devices>>
  BY DEF Drop
<1>3. /\ gatt' \in [Browsed -> BOOLEAN] /\ notifying' \in [Browsed -> BOOLEAN]
      /\ listeners' \in [Browsed -> Seq(Flows)] /\ listeners'[b] = <<>>
      /\ heard' \in [Browsed -> PacketType \cup {None}] /\ heard'[b] = None
      /\ edges' \in [Browsed -> {0, 1}] /\ edges'[b] = 0
      /\ \A c \in Browsed \ {b} : /\ gatt'[c] = gatt[c] /\ notifying'[c] = notifying[c]
                                  /\ listeners'[c] = listeners[c] /\ heard'[c] = heard[c]
                                  /\ edges'[c] = edges[c]
  <2>1. <<>> \in Seq(Flows)
    BY EmptySeq
  <2> QED
    BY <1>0, <1>1, <1>2, <2>1 DEF TypeOK
<1>4. \A g : ~ Listens(g, b)'
  BY <1>3 DEF Listens, ToSet
<1>5. /\ entry' \in [Flows -> [Browsed -> EntryType]]
      /\ tracker' \in [Browsed -> Trackers] /\ tracker'[b] = INITIAL_ACTIVE
      /\ ~ Online(b)'
      /\ \A c \in Browsed \ {b} :
             tracker'[c] = tracker[c] /\ \A g \in Flows : entry'[g][c] = entry[g][c]
  <2>1. CASE devices[b] = None
    <3>1. UNCHANGED <<entry, tracker>>
      BY <2>1 DEF Drop
    <3>2. ~ Online(b) /\ \A g \in Flows : ~ Listens(g, b)
      BY <1>0, <2>1 DEF Online, CardFed
    <3>3. tracker[b] = INITIAL_ACTIVE
      BY <1>0, <1>1, <3>2, NoListener DEF HeardInOrder, Listens
    <3> QED
      BY <1>1, <1>2, <2>1, <3>1, <3>3 DEF Online
  <2>2. CASE devices[b] # None
    <3> DEFINE f == devices[b]
               e == OfflineEntry(entry[f][b])
    <3>1. f \in Flows /\ entry[f][b] \in EntryType
      BY <1>1, <2>2
    <3>2. e \in EntryType /\ e.connected = FALSE
      <4>1. CASE entry[f][b].state = None
        BY <4>1 DEF OfflineEntry, EntryType
      <4>2. CASE entry[f][b].state # None
        <5>1. entry[f][b].state \in PacketType
          BY <3>1, <4>2 DEF EntryType
        <5>2. [entry[f][b].state EXCEPT !.pressed = FALSE] \in PacketType
          BY <5>1 DEF PacketType
        <5> QED
          BY <4>2, <5>2 DEF OfflineEntry, EntryType
      <4> QED
        BY <4>1, <4>2
    <3> HIDE DEF e
    <3>3. entry' = [entry EXCEPT ![f][b] = e]
      BY <1>1, <2>2, <3>1 DEF Drop, e
    <3>4. tracker' = [tracker EXCEPT ![b] = INITIAL_ACTIVE]
      BY <2>2 DEF Drop
    <3>5. INITIAL_ACTIVE \in Trackers
      BY DEF INITIAL_ACTIVE, resetActive, Trackers
    <3>6. entry' \in [Flows -> [Browsed -> EntryType]] /\ entry'[f][b] = e
      BY <1>1, <3>1, <3>2, <3>3
    <3>7. \A c \in Browsed \ {b} : \A g \in Flows : entry'[g][c] = entry[g][c]
      BY <1>1, <3>1, <3>3
    <3>8. ~ Online(b)'
      BY <1>2, <3>2, <3>6 DEF Online
    <3> QED
      BY <1>1, <3>4, <3>5, <3>6, <3>7, <3>8
  <2> QED
    BY <2>1, <2>2
<1>6. CardFed(b)' /\ HeardInOrder(b)'
  <2>1. CardFed(b)'
    BY <1>4, <1>5 DEF CardFed
  <2>2. HeardInOrder(b)'
    BY <1>3, <1>5 DEF HeardInOrder
  <2> QED
    BY <2>1, <2>2
<1>7. ASSUME NEW c \in Browsed \ {b} PROVE CardFed(c)' /\ HeardInOrder(c)'
  <2>1. Untouched(c)
    BY <1>2, <1>3, <1>5 DEF Untouched
  <2> QED
    BY <1>0, <2>1, UntouchedKeeps
<1>8. /\ flow' \in [Flows -> FlowType]
      /\ \A g \in Flows : IF Holds(flow[g], b) THEN flow'[g].at = "call"
                          ELSE flow'[g] = flow[g]
  <2>1. ASSUME NEW g \in Flows, Holds(flow[g], b)
        PROVE  Rest(flow[g]) \in FlowType /\ Rest(flow[g]).at = "call"
    BY <1>1, <2>1, RestType DEF Holds
  <2>2. flow' = [g \in Flows |-> IF Holds(flow[g], b) THEN Rest(flow[g]) ELSE flow[g]]
    BY DEF Drop, Failed
  <2> QED
    BY <1>1, <2>1, <2>2
<1>9. ASSUME NEW g \in Flows, NEW c \in Browsed PROVE FlowInOrder(g, c)'
  <2>1. CASE Holds(flow[g], b)
    BY <1>8, <2>1 DEF FlowInOrder, At, Holds
  <2>2. CASE ~ Holds(flow[g], b) /\ c # b
    <3>1. flow'[g] = flow[g] /\ (Listens(g, c)' <=> Listens(g, c))
      BY <1>3, <1>8, <2>2 DEF Listens
    <3>2. Online(c) => Online(c)'
      BY <1>1, <1>2, <1>5, <2>2 DEF Online
    <3> QED
      BY <1>0, <1>3, <1>5, <2>2, <3>1, <3>2, FlowKeeps
  <2>3. CASE ~ Holds(flow[g], b) /\ c = b
    <3>1. flow'[g] = flow[g]
      BY <1>8, <2>3
    <3> QED
      BY <1>4, <2>3, <3>1 DEF FlowInOrder, At, Holds, Idle
  <2> QED
    BY <2>1, <2>2, <2>3
<1>10. TypeOK'
  <2>1. ASSUME NEW c \in Browsed PROVE IsInjective(listeners'[c])
    <3>1. CASE c = b
      <4>1. listeners'[c] = <<>>
        BY <1>0, <1>3, <3>1 DEF TypeOK
      <4> QED
        BY <4>1 DEF IsInjective
    <3>2. CASE c # b
      <4>1. listeners'[c] = listeners[c]
        BY <1>0, <1>3, <3>2 DEF TypeOK
      <4>2. IsInjective(listeners[c])
        BY <1>0 DEF TypeOK
      <4> QED
        BY <4>1, <4>2
    <3> QED
      BY <3>1, <3>2
  <2>2. drops' \in 0 .. MaxDrops
    BY <1>0, <1>2, BoundsAssumption DEF TypeOK
  <2> QED
    BY <1>0, <1>2, <1>3, <1>5, <1>8, <2>1, <2>2 DEF TypeOK, FlowType, EntryType
<1> QED
  BY <1>6, <1>7, <1>9, <1>10 DEF ConnectInv

(***************************************************************************)
(* The theorems.                                                           *)
(***************************************************************************)

\* Flows, listeners, cards and the packet heard last fit together, for any
\* number of clicks on any devices and wherever they fail: the inductive
\* invariant.
THEOREM ConnectInvariant == Spec => []ConnectInv
<1>1. Init => ConnectInv
  <2> SUFFICES ASSUME Init PROVE ConnectInv
    OBVIOUS
  <2>1. <<>> \in Seq(Flows) /\ <<>> \in Seq(Browsed)
    BY EmptySeq
  <2>2. \A b \in Browsed : ~ Online(b) /\ \A f \in Flows : ~ Listens(f, b)
    BY DEF Init, Online, Listens, ToSet
  <2>3. TypeOK
    BY <2>1, BoundsAssumption
    DEF Init, TypeOK, Awaits, IsInjective, Trackers, INITIAL_ACTIVE, resetActive
  <2>4. ASSUME NEW b \in Browsed
        PROVE  CardFed(b) /\ HeardInOrder(b) /\ \A f \in Flows : FlowInOrder(f, b)
    BY <2>2, <2>4 DEF Init, CardFed, HeardInOrder, FlowInOrder, At, Idle, Holds
  <2> QED
    BY <2>3, <2>4 DEF ConnectInv
<1>2. ConnectInv /\ [Next]_vars => ConnectInv'
  <2> SUFFICES ASSUME ConnectInv, [Next]_vars PROVE ConnectInv'
    OBVIOUS
  <2>1. ASSUME NEW f \in Flows, addDevice(f) \/ reconnectGrantedDevices(f)
        PROVE  ConnectInv'
    <3>1. \A b \in Browsed : <<b>> \in Seq(Browsed)
      OBVIOUS
    <3>2. PICK todo \in Seq(Browsed) : Begin(f, todo)
      BY <2>1, <3>1, AllInTurn DEF addDevice, reconnectGrantedDevices
    <3> QED
      BY <3>2, BeginKeeps
  <2>2. ASSUME NEW f \in Flows, Proceed(f) PROVE ConnectInv'
    BY <2>2, CallKeeps, ConnectedKeeps, InfoReadKeeps, ResultsOnKeeps, StatesOnKeeps,
       StateReadKeeps, RejectedKeeps DEF Proceed
  <2>3. ASSUME NEW b \in Browsed, Press(b) \/ Release(b) \/ heartbeat(b) \/ Drop(b)
        PROVE  ConnectInv'
    BY <2>3, DeviceKeeps, DropKeeps
  <2>4. CASE UNCHANGED vars
    <3>1. ConnectInv
      OBVIOUS
    <3> QED
      BY <2>4, <3>1 DEF vars, deviceVars, pageVars, historyVars, ConnectInv, TypeOK, CardFed,
                   HeardInOrder, FlowInOrder, At, Idle, Online, Listens, Packet
  <2> QED
    BY <2>1, <2>2, <2>3, <2>4 DEF Next
<1> QED
  BY <1>1, <1>2, PTL DEF Spec

\* However many listeners of however many flows hear an edge, it toggles once.
THEOREM EdgesToggleOnce == Spec => []EdgeTogglesOnce
<1>1. ConnectInv => EdgeTogglesOnce
  <2> SUFFICES ASSUME ConnectInv, NEW b \in Browsed
               PROVE  tracker[b].active <=> edges[b] = 1
    BY DEF EdgeTogglesOnce
  <2>1. HeardInOrder(b)
    BY DEF ConnectInv
  <2>2. CASE heard[b] = None
    BY <2>1, <2>2 DEF HeardInOrder, INITIAL_ACTIVE, resetActive
  <2>3. CASE heard[b] # None
    <3>1. tracker[b] = [active |-> edges[b] = 1, prev |-> Sample(heard[b].pressed)]
      BY <2>1, <2>3 DEF HeardInOrder
    <3>2. ASSUME NEW t, NEW on \in BOOLEAN, NEW p, t = [active |-> on, prev |-> p]
          PROVE  t.active = on
      BY <3>2
    <3>3. (edges[b] = 1) \in BOOLEAN
      OBVIOUS
    <3>4. tracker[b].active = (edges[b] = 1)
      BY <3>1, <3>2, <3>3, Zenon
    <3> QED
      BY <3>4
  <2> QED
    BY <2>2, <2>3
<1> QED
  BY <1>1, ConnectInvariant, PTL

\* Whichever flow's entry is in the map, a card that shows a state shows the
\* last one.
THEOREM CardsAreCurrent == Spec => []CardCurrent
<1>1. ConnectInv => CardCurrent
  <2> SUFFICES ASSUME ConnectInv, NEW b \in Browsed, Online(b),
                      entry[devices[b]][b].state # None
               PROVE  entry[devices[b]][b].state = heard[b]
    BY DEF CardCurrent
  <2>1. devices[b] \in Flows
    BY TypeParts DEF ConnectInv, Online
  <2>2. CardFed(b)
    BY DEF ConnectInv
  <2> QED
    BY <2>1, <2>2 DEF CardFed
<1> QED
  BY <1>1, ConnectInvariant, PTL
=============================================================================
