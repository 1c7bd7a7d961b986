---------------------------- MODULE DebugProofs ----------------------------
(***************************************************************************)
(* Proofs about DebugStream, for any number of buffers with rings of any   *)
(* lengths, any width of the index and any number of losses.               *)
(***************************************************************************)
EXTENDS DebugStream, FiniteSetTheorems, TLAPS

-----------------------------------------------------------------------------
(* The inductive invariant *)

Following(c) == (c + 1) % (2 * W)

\* The index of a block that was added in cycle c, as long as all are sent.
Wrapped(c) == ((c + W) % (2 * W)) - W

\* Datagrams with the index of their cycle.
Dated == {d \in Datagram : d.index = Wrapped(d.cycle)}

\* As long as no block breaks, indices go by the cycle.
Dates ==
    excuses \subseteq {"lost"} =>
        /\ \A p \in Ports : index[p] = Wrapped(IF p < turn THEN Following(cycle) ELSE cycle)
        /\ net \in [Ports -> Seq(Dated)] /\ got \in Seq(Dated)

\* What a call has accepted carries one index, from the first that is positive.
Matched ==
    /\ state = "waiting" =>
          IF got = <<>> THEN out = -1 /\ toRead = Ports
          ELSE out = got[Len(got)].index
    /\ state = "done" => got # <<>>
    /\ got # <<>> /\ got[1].index > 0 =>
          \A n \in DOMAIN got : got[n].index = got[1].index

\* Why blocks of different cycles are never returned together for a positive
\* index.
IInv == TypeOK /\ Dates /\ Matched

\* What has arrived from each buffer since the last call began.
arrived ==
    [p \in Ports |-> IF state = "waiting" /\ p \notin toRead THEN <<got[1]>> \o net[p] ELSE net[p]]

Incremented(i) == ((i + 1 + W) % (2 * W)) - W

\* What the audio thread is about to send for p.
Current(p) == [index |-> index[p], cycle |-> cycle]

Room(p) == BlockLength <= ring[p] - pos[p]

\* Two buffers that have both had their turn, or neither.
Level(p, q) ==
    /\ arrived[p] = arrived[q] /\ index[p] = index[q]
    /\ AllRingsAlike => pos[p] = pos[q]

\* p is still to come and q has had its turn: q is one block further, sent or
\* broken.
Ahead(p, q) ==
    /\ AllRingsAlike => pos[q] = (pos[p] + BlockLength) % ring[p]
    /\ \/ /\ AllRingsAlike => Room(p)
          /\ index[q] = Incremented(index[p])
          /\ arrived[q] = Append(arrived[p], Current(p))
       \/ /\ AllRingsAlike /\ ~Room(p)
          /\ index[q] = index[p]
          /\ arrived[q] = arrived[p]

\* The same has arrived from all buffers.
InStep ==
    \A p, q \in Ports :
        /\ (p < turn <=> q < turn) => Level(p, q)
        /\ ~(p < turn) /\ q < turn => Ahead(p, q)

\* A call has accepted the same datagram from each port that it has read.
Counted ==
    /\ state # "dead"
    /\ state = "waiting" => scan \subseteq toRead /\ Len(got) = NumPorts - Cardinality(toRead)
    /\ state = "done" => Len(got) = NumPorts
    /\ state \in {"waiting", "done"} => \A n \in DOMAIN got : got[n] = got[1]

\* Why a call takes corresponding blocks of a network that loses nothing.
Aligned == Lossless => InStep /\ Counted

-----------------------------------------------------------------------------
(* Guarantees beyond those that the runs check *)

\* Whatever is lost or restarted: a round never reads a port that has delivered,
\* and a call that returns has one block of each buffer.
TakesOneEach ==
    /\ state = "waiting" => scan \subseteq toRead /\ Len(got) = NumPorts - Cardinality(toRead)
    /\ state = "done" => toRead = {} /\ Len(got) = NumPorts

\* A step towards the end of the call: out; a port that delivers; the rest of the
\* round; or a new round, over the ports that have not delivered.
Nearer ==
    \/ state' # "waiting"
    \/ toRead' \subseteq toRead /\ toRead' # toRead /\ out' \in Index
    \/ toRead' = toRead /\ out' = out /\ scan' \subseteq scan /\ scan' # scan
    \/ toRead' = toRead /\ out' = out /\ scan = {} /\ scan' = toRead /\ scan' # {}

\* receive_block() goes on and never back: the audio thread only adds to what
\* waits, and the index that the call looks for, once positive, stays.
EndComesNearer ==
    [][state = "waiting" =>
          /\ Nearer \/ (~ReceiveBlock /\ UNCHANGED receiver)
          /\ out > 0 /\ state' = "waiting" => out' = out]_vars

-----------------------------------------------------------------------------
(* The wrapping index *)

\* What is left of a number that is within one round.
LEMMA WithinRound ==
    ASSUME NEW m \in Nat \ {0}, NEW x \in 0..m - 1
    PROVE  x % m = x
OBVIOUS

\* The remainder is within one round.
LEMMA Remainder ==
    ASSUME NEW m \in Nat \ {0}, NEW x \in Int
    PROVE  x % m \in 0..m - 1
OBVIOUS

\* What is left of a number in the second round.
LEMMA SecondRound ==
    ASSUME NEW m \in Nat \ {0}, NEW x \in m..2 * m - 1
    PROVE  x % m = x - m
OBVIOUS

\* Cycles count 0, 1, ..., 2W - 1 and then 0 again.
LEMMA FollowingCases ==
    ASSUME NEW c \in Cycles
    PROVE  /\ Following(c) \in Cycles
           /\ Following(c) = IF c = 2 * W - 1 THEN 0 ELSE c + 1
<1> USE ConstantsAssumption
<1>1. 2 * W \in Nat \ {0}
  OBVIOUS
<1>2. CASE c = 2 * W - 1
  <2>1. c + 1 = 2 * W /\ 2 * W \in 2 * W..2 * (2 * W) - 1
    BY <1>2
  <2>2. (2 * W) % (2 * W) = 2 * W - 2 * W
    BY <1>1, <2>1, SecondRound
  <2>3. (c + 1) % (2 * W) = 0
    BY <2>1, <2>2
  <2> QED BY <1>2, <2>3 DEF Following, Cycles
<1>3. CASE c # 2 * W - 1
  <2>1. c + 1 \in 0..2 * W - 1
    BY <1>3 DEF Cycles
  <2>2. (c + 1) % (2 * W) = c + 1
    BY <1>1, <2>1, WithinRound
  <2> QED BY <1>3, <2>1, <2>2 DEF Following, Cycles
<1> QED BY <1>2, <1>3

\* Indices count 0, ..., W - 1, -W, ..., -1.
LEMMA WrappedCases ==
    ASSUME NEW c \in Cycles
    PROVE  /\ Wrapped(c) \in Index
           /\ Wrapped(c) = IF c < W THEN c ELSE c - 2 * W
<1> USE ConstantsAssumption
<1>1. 2 * W \in Nat \ {0}
  OBVIOUS
<1>2. CASE c < W
  <2>1. c + W \in 0..2 * W - 1
    BY <1>2 DEF Cycles
  <2>2. (c + W) % (2 * W) = c + W
    BY <1>1, <2>1, WithinRound
  <2> QED BY <1>2, <2>2 DEF Wrapped, Index, Cycles
<1>3. CASE ~(c < W)
  <2>1. c + W \in 2 * W..2 * (2 * W) - 1
    BY <1>3 DEF Cycles
  <2>2. (c + W) % (2 * W) = (c + W) - (2 * W)
    BY <1>1, <2>1, SecondRound
  <2> QED BY <1>3, <2>2 DEF Wrapped, Index, Cycles
<1> QED BY <1>2, <1>3

\* Blocks with the same index are of the same cycle.
LEMMA WrappedInjective ==
    ASSUME NEW c \in Cycles, NEW d \in Cycles, Wrapped(c) = Wrapped(d)
    PROVE  c = d
BY WrappedCases, ConstantsAssumption DEF Cycles

\* Incrementing the index leads to that of the following cycle.
LEMMA WrappedFollowing ==
    ASSUME NEW c \in Cycles
    PROVE  ((Wrapped(c) + 1 + W) % (2 * W)) - W = Wrapped(Following(c))
<1> USE ConstantsAssumption
<1>1. /\ Wrapped(c) \in Int
      /\ Wrapped(c) = IF c < W THEN c ELSE c - 2 * W
  BY WrappedCases DEF Index
<1>2. /\ Following(c) \in Cycles
      /\ Following(c) = IF c = 2 * W - 1 THEN 0 ELSE c + 1
  BY FollowingCases
<1>3. Wrapped(Following(c)) = IF Following(c) < W THEN Following(c) ELSE Following(c) - 2 * W
  BY <1>2, WrappedCases
<1>4. 2 * W \in Nat \ {0}
  OBVIOUS
<1>5. CASE c = W - 1
  <2>1. Wrapped(c) + 1 + W = 2 * W
    BY <1>1, <1>5
  <2>2. (2 * W) % (2 * W) = 2 * W - 2 * W
    BY <1>4, SecondRound
  <2> QED BY <1>2, <1>3, <1>5, <2>1, <2>2
<1>6. CASE c # W - 1
  <2>1. Wrapped(c) + 1 + W \in 0..2 * W - 1
    BY <1>1, <1>6 DEF Cycles
  <2>2. (Wrapped(c) + 1 + W) % (2 * W) = Wrapped(c) + 1 + W
    BY <1>4, <2>1, WithinRound
  <2>3. Wrapped(c) + 1 = Wrapped(Following(c))
    BY <1>1, <1>2, <1>3, <1>6 DEF Cycles
  <2> QED BY <1>1, <2>2, <2>3
<1> QED BY <1>5, <1>6

-----------------------------------------------------------------------------
(* The type invariant *)

\* At the start every variable has its type.
LEMMA TypeInit == Init => TypeOK
<1> SUFFICES ASSUME Init PROVE TypeOK
  OBVIOUS
<1> USE ConstantsAssumption DEF Init
<1>1. /\ ring \in [Ports -> RingLengths] /\ pos \in [Ports -> Nat]
      /\ turn \in Ports /\ cycle \in Cycles
      /\ index \in [Ports -> Index] /\ out \in Index \cup {-1}
  BY DEF Ports, Index, Cycles
<1>2. \A p \in Ports : pos[p] \in 0..ring[p] - 1
  <2> SUFFICES ASSUME NEW p \in Ports PROVE 0 \in 0..ring[p] - 1
    OBVIOUS
  <2>1. ring[p] \in RingLengths
    OBVIOUS
  <2>2. ring[p] \in Nat /\ ring[p] >= BlockLength
    BY <2>1
  <2> QED BY <2>2
<1>3. net \in [Ports -> Seq(Datagram)] /\ got \in Seq(Datagram)
  OBVIOUS
<1>4. /\ losses \in 0..MaxLosses /\ toRead \subseteq Ports /\ scan \subseteq Ports
      /\ state \in {"idle", "waiting", "done", "dead"} /\ excuses \subseteq {"broken", "lost"}
  OBVIOUS
<1> QED BY <1>1, <1>2, <1>3, <1>4 DEF TypeOK

\* Moving on to the next buffer keeps the types of the audio thread's variables.
LEMMA AdvanceType ==
    ASSUME TypeOK, Advance
    PROVE  /\ ring' \in [Ports -> RingLengths] /\ pos' \in [Ports -> Nat]
           /\ \A p \in Ports : pos'[p] \in 0..ring'[p] - 1
           /\ turn' \in Ports /\ cycle' \in Cycles
           /\ turn' = IF turn = NumPorts THEN 1 ELSE turn + 1
<1> USE ConstantsAssumption DEF TypeOK
<1>1. ring[turn] \in Nat \ {0} /\ pos[turn] + BlockLength \in Int
  <2>1. turn \in Ports /\ ring[turn] \in RingLengths
    OBVIOUS
  <2>2. ring[turn] \in Nat /\ ring[turn] >= BlockLength
    BY <2>1
  <2>3. pos[turn] \in 0..ring[turn] - 1
    BY <2>1
  <2> QED BY <2>2, <2>3
<1>2. (pos[turn] + BlockLength) % ring[turn] \in 0..ring[turn] - 1
  <2>1. \A m \in Nat \ {0}, x \in Int : x % m \in 0..m - 1
    BY Remainder
  <2> QED BY <1>1, <2>1
<1>3. turn' = IF turn = NumPorts THEN 1 ELSE turn + 1
  <2>1. CASE turn = NumPorts
    <3>1. turn % NumPorts = NumPorts - NumPorts
      BY <2>1, SecondRound
    <3> QED BY <2>1, <3>1 DEF Advance
  <2>2. CASE turn # NumPorts
    <3>1. turn \in 0..NumPorts - 1
      BY <2>2 DEF Ports
    <3>2. turn % NumPorts = turn
      BY <3>1, WithinRound
    <3> QED BY <2>2, <3>1, <3>2 DEF Advance
  <2> QED BY <2>1, <2>2
<1>4. turn' \in Ports
  BY <1>3 DEF Ports
<1>5. cycle' \in Cycles
  BY FollowingCases DEF Advance, Following
<1>6. ring' = ring
  BY DEF Advance
<1>7. ASSUME NEW p \in Ports
      PROVE  pos'[p] \in 0..ring'[p] - 1
  BY <1>2, <1>6 DEF Advance
<1>8. pos' \in [Ports -> Nat]
  <2>1. (pos[turn] + BlockLength) % ring[turn] \in Nat
    BY <1>1, <1>2
  <2> QED BY <2>1 DEF Advance
<1> QED BY <1>3, <1>4, <1>5, <1>6, <1>7, <1>8

\* Every step keeps the types.
LEMMA TypeStep == TypeOK /\ [Next]_vars => TypeOK'
<1> SUFFICES ASSUME TypeOK, [Next]_vars PROVE TypeOK'
  OBVIOUS
<1> USE ConstantsAssumption DEF TypeOK
<1>1. CASE UNCHANGED vars
  BY <1>1 DEF vars, buffers, receiver
<1>2. CASE AddBroken
  BY <1>2, AdvanceType DEF AddBroken, Advance, receiver
<1>3. CASE SendDebugBlock
  <2>1. index' \in [Ports -> Index]
    <3>1. 2 * W \in Nat \ {0} /\ index[turn] + 1 + W \in Int
      BY DEF Index
    <3>r. \A m \in Nat \ {0}, x \in Int : x % m \in 0..m - 1
      BY Remainder
    <3>i. (index[turn] + 1 + W) % (2 * W) \in 0..2 * W - 1
      BY <3>1, <3>r
    <3>2. ((index[turn] + 1 + W) % (2 * W)) - W \in Index
      BY <3>i DEF Index
    <3> QED BY <1>3, <3>2 DEF SendDebugBlock
  <2>2. net' \in [Ports -> Seq(Datagram)]
    <3>1. [index |-> index[turn], cycle |-> cycle] \in Datagram
      BY DEF Datagram
    <3>2. Append(net[turn], [index |-> index[turn], cycle |-> cycle]) \in Seq(Datagram)
      BY <3>1
    <3> QED BY <1>3, <3>2 DEF SendDebugBlock, Deliver, Lose, Overflow
  <2>3. losses' \in 0..MaxLosses /\ excuses' \subseteq {"broken", "lost"}
    <3>1. CASE Deliver(turn)
      BY <3>1 DEF Deliver
    <3>2. CASE Lose
      BY <3>2 DEF Lose
    <3>3. CASE Overflow(turn)
      BY <3>3 DEF Overflow
    <3> QED BY <1>3, <3>1, <3>2, <3>3 DEF SendDebugBlock
  <2> QED BY <1>3, <2>1, <2>2, <2>3, AdvanceType DEF SendDebugBlock, Advance, receiver
<1>4. CASE Begin
  BY <1>4 DEF Begin, buffers
<1>5. CASE Scan
  BY <1>5 DEF Scan, buffers
<1>6. CASE Return
  BY <1>6 DEF Return, buffers
<1>7. ASSUME NEW p \in Ports, PollEmpty(p)
      PROVE  TypeOK'
  BY <1>7 DEF PollEmpty, buffers
<1>8. ASSUME NEW p \in Ports, Has(p)
      PROVE  /\ Head(net[p]) \in Datagram /\ Bi(p) \in Index
             /\ Consume(p) => net' \in [Ports -> Seq(Datagram)]
  <2>1. net[p] \in Seq(Datagram) /\ net[p] # <<>>
    BY <1>8 DEF Has
  <2>2. Head(net[p]) \in Datagram /\ Tail(net[p]) \in Seq(Datagram)
    BY <2>1
  <2> QED BY <2>2 DEF Bi, Datagram, Consume
<1>9. ASSUME NEW p \in Ports, DropOld(p)
      PROVE  TypeOK'
  BY <1>8, <1>9 DEF DropOld, buffers
<1>10. ASSUME NEW p \in Ports, RestartOthers(p)
       PROVE  TypeOK'
  BY <1>8, <1>10 DEF RestartOthers, buffers
<1>11. ASSUME NEW p \in Ports, Accept(p)
       PROVE  TypeOK'
  <2>1. got' \in Seq(Datagram)
    BY <1>8, <1>11 DEF Accept
  <2> QED BY <1>8, <1>11, <2>1 DEF Accept, buffers
<1> QED BY <1>1, <1>2, <1>3, <1>4, <1>5, <1>6, <1>7, <1>9, <1>10, <1>11
        DEF Next, AddBlock, ReceiveBlock

\* Every variable of the two programs keeps its type.
THEOREM TypeCorrect == Spec => []TypeOK
BY TypeInit, TypeStep, PTL DEF Spec

-----------------------------------------------------------------------------
(* Indices and cycles *)

\* A cycle is numbered as the index when both start.
LEMMA DatesInit == Init => Dates
<1> SUFFICES ASSUME Init PROVE Dates
  OBVIOUS
<1>1. 0 \in Cycles /\ Wrapped(0) = 0
  BY WrappedCases, ConstantsAssumption DEF Cycles
<1>2. \A p \in Ports : ~(p < 1)
  BY DEF Ports
<1> QED BY <1>1, <1>2 DEF Init, Dates

\* Datagrams are sent with the index of their cycle, and received as sent.
LEMMA DatesStep == TypeOK /\ Dates /\ [Next]_vars => Dates'
<1> SUFFICES ASSUME TypeOK, Dates, [Next]_vars, excuses' \subseteq {"lost"}
             PROVE  /\ \A p \in Ports :
                          index'[p] = Wrapped(IF p < turn' THEN Following(cycle') ELSE cycle')
                    /\ net' \in [Ports -> Seq(Dated)] /\ got' \in Seq(Dated)
  BY DEF Dates
<1> USE ConstantsAssumption
<1>1. excuses \subseteq {"lost"}
  BY DEF vars, Next, AddBlock, AddBroken, SendDebugBlock, Deliver, Lose, Overflow, Begin,
         ReceiveBlock, Scan, Return, PollEmpty, DropOld, RestartOthers, Accept
<1>2. /\ \A p \in Ports : index[p] = Wrapped(IF p < turn THEN Following(cycle) ELSE cycle)
      /\ net \in [Ports -> Seq(Dated)] /\ got \in Seq(Dated)
  BY <1>1 DEF Dates
<1>3. ASSUME UNCHANGED buffers
      PROVE  \A p \in Ports :
                 index'[p] = Wrapped(IF p < turn' THEN Following(cycle') ELSE cycle')
  BY <1>2, <1>3 DEF buffers
<1>4. CASE UNCHANGED vars
  BY <1>2, <1>3, <1>4 DEF vars, receiver
<1>5. CASE AddBroken
  BY <1>5 DEF AddBroken
<1>6. CASE SendDebugBlock
  <2>t. turn \in Ports /\ turn' = IF turn = NumPorts THEN 1 ELSE turn + 1
    BY <1>6, AdvanceType DEF SendDebugBlock, TypeOK
  <2>c. cycle \in Cycles /\ cycle' = IF turn = NumPorts THEN Following(cycle) ELSE cycle
    BY <1>6 DEF SendDebugBlock, Advance, Following, TypeOK
  <2>1. index[turn] = Wrapped(cycle)
    BY <1>2, <2>t DEF Ports
  <2>2. index' = [index EXCEPT ![turn] = Wrapped(Following(cycle))]
    <3>1. ((index[turn] + 1 + W) % (2 * W)) - W = Wrapped(Following(cycle))
      BY <2>1, <2>c, WrappedFollowing
    <3> QED BY <1>6, <3>1 DEF SendDebugBlock
  <2>3. ASSUME NEW p \in Ports
        PROVE  index'[p] = Wrapped(IF p < turn' THEN Following(cycle') ELSE cycle')
    <3>1. index'[p] = IF p = turn THEN Wrapped(Following(cycle)) ELSE index[p]
      BY <2>2 DEF TypeOK
    <3>2. CASE turn = NumPorts
      <4>1. cycle' = Following(cycle) /\ ~(p < turn')
        BY <2>t, <2>c, <3>2 DEF Ports
      <4>2. p = turn \/ p < turn
        BY <3>2 DEF Ports
      <4> QED BY <1>2, <3>1, <4>1, <4>2
    <3>3. CASE turn # NumPorts
      <4>1. cycle' = cycle /\ (p < turn' <=> p < turn \/ p = turn)
        BY <2>t, <2>c, <3>3 DEF Ports
      <4> QED BY <1>2, <3>1, <4>1
    <3> QED BY <3>2, <3>3
  <2>4. net' \in [Ports -> Seq(Dated)]
    <3>1. [index |-> index[turn], cycle |-> cycle] \in Dated
      BY <2>1, <2>t, <2>c DEF Dated, Datagram, TypeOK
    <3>2. Append(net[turn], [index |-> index[turn], cycle |-> cycle]) \in Seq(Dated)
      BY <1>2, <2>t, <3>1
    <3> QED BY <1>2, <1>6, <3>2 DEF SendDebugBlock, Deliver, Lose, Overflow
  <2>5. got' = got
    BY <1>6 DEF SendDebugBlock, Advance, receiver
  <2> QED BY <1>2, <2>3, <2>4, <2>5
<1>7. CASE Begin
  BY <1>2, <1>3, <1>7 DEF Begin
<1>8. CASE Scan \/ Return
  BY <1>2, <1>3, <1>8 DEF Scan, Return
<1>9. ASSUME NEW p \in Ports, PollEmpty(p)
      PROVE  UNCHANGED <<buffers, net, got>>
  BY <1>9 DEF PollEmpty
<1>10. ASSUME NEW p \in Ports, Has(p), Consume(p)
       PROVE  /\ net' \in [Ports -> Seq(Dated)]
              /\ Head(net[p]) \in Dated
  <2>1. net[p] \in Seq(Dated) /\ net[p] # <<>>
    BY <1>2, <1>10 DEF Has
  <2>2. Head(net[p]) \in Dated /\ Tail(net[p]) \in Seq(Dated)
    BY <2>1
  <2> QED BY <1>2, <1>10, <2>2 DEF Consume
<1>11. ASSUME NEW p \in Ports, DropOld(p) \/ RestartOthers(p) \/ Accept(p)
       PROVE  /\ UNCHANGED buffers /\ net' \in [Ports -> Seq(Dated)]
              /\ got' \in Seq(Dated)
  <2>1. Has(p) /\ Consume(p) /\ UNCHANGED buffers
    BY <1>11 DEF DropOld, RestartOthers, Accept
  <2>2. net' \in [Ports -> Seq(Dated)] /\ Head(net[p]) \in Dated
    BY <1>10, <2>1
  <2>3. Append(got, Head(net[p])) \in Seq(Dated)
    BY <1>2, <2>2
  <2>4. got' \in {got, <<>>, Append(got, Head(net[p]))}
    BY <1>11 DEF DropOld, RestartOthers, Accept
  <2>5. <<>> \in Seq(Dated)
    OBVIOUS
  <2>6. got' \in Seq(Dated)
    <3>1. CASE got' = <<>>
      BY <2>5, <3>1
    <3>2. CASE got' # <<>>
      BY <1>2, <2>3, <2>4, <3>2, Zenon
    <3> QED BY <3>1, <3>2
  <2> QED BY <2>1, <2>2, <2>6
<1> QED BY <1>2, <1>3, <1>4, <1>5, <1>6, <1>7, <1>8, <1>9, <1>11
        DEF Next, AddBlock, ReceiveBlock

\* Once an index is positive, only that index is accepted.
LEMMA MatchedStep == TypeOK /\ Matched /\ [Next]_vars => Matched'
<1> SUFFICES ASSUME TypeOK, Matched, [Next]_vars PROVE Matched'
  OBVIOUS
<1> USE DEF Matched
<1>1. CASE UNCHANGED <<state, got, out, toRead>>
  BY <1>1
<1>2. CASE UNCHANGED vars \/ AddBlock \/ Scan
  BY <1>2, <1>1 DEF vars, receiver, AddBlock, AddBroken, SendDebugBlock, Advance, Scan
<1>3. CASE Begin
  BY <1>3 DEF Begin
<1>4. CASE Return
  <2>1. Ports # {}
    BY ConstantsAssumption DEF Ports
  <2> QED BY <1>4, <2>1 DEF Return
<1>5. ASSUME NEW p \in Ports, PollEmpty(p) \/ DropOld(p)
      PROVE  Matched'
  BY <1>5, <1>1 DEF PollEmpty, DropOld
<1>6. ASSUME NEW p \in Ports, RestartOthers(p)
      PROVE  Matched'
  BY <1>6 DEF RestartOthers
<1>7. ASSUME NEW p \in Ports, Accept(p)
      PROVE  Matched'
  <2>1. /\ state = "waiting" /\ state' = "waiting"
        /\ got' = Append(got, Head(net[p])) /\ out' = Head(net[p]).index
        /\ out > 0 => Head(net[p]).index = out
    BY <1>7 DEF Accept, IsNext, InSync, Bi
  <2>2. got \in Seq(Datagram) /\ Head(net[p]) \in Datagram
    <3>1. net[p] \in Seq(Datagram) /\ net[p] # <<>>
      BY <1>7 DEF Accept, Has, TypeOK
    <3> QED BY <3>1 DEF TypeOK
  <2>3. /\ got' # <<>> /\ Len(got') = Len(got) + 1 /\ DOMAIN got' = 1..Len(got) + 1
        /\ got'[Len(got) + 1] = Head(net[p])
        /\ \A n \in 1..Len(got) : got'[n] = got[n]
    BY <2>1, <2>2
  <2>4. ASSUME got'[1].index > 0, NEW n \in DOMAIN got'
        PROVE  got'[n].index = got'[1].index
    <3>1. CASE got = <<>>
      BY <2>3, <2>4, <3>1
    <3>2. CASE got # <<>>
      <4>1. Len(got) \in Nat \ {0} /\ got'[1] = got[1]
        BY <2>2, <2>3, <3>2
      <4>2. \A k \in 1..Len(got) : got[k].index = got[1].index
        BY <2>2, <2>4, <3>2, <4>1
      <4>3. out = got[1].index
        BY <2>1, <3>2, <4>1, <4>2
      <4>4. Head(net[p]).index = got[1].index
        BY <2>1, <2>4, <4>1, <4>3
      <4>5. CASE n = Len(got) + 1
        BY <2>3, <4>1, <4>4, <4>5
      <4>6. CASE n # Len(got) + 1
        BY <2>3, <2>4, <4>1, <4>2, <4>6
      <4> QED BY <4>5, <4>6
    <3> QED BY <3>1, <3>2
  <2> QED BY <2>1, <2>3, <2>4
<1> QED BY <1>2, <1>3, <1>4, <1>5, <1>6, <1>7 DEF Next, ReceiveBlock

\* Types, indices and what a call has accepted, whatever is lost.
THEOREM InvCorrect == Spec => []IInv
<1>1. Init => IInv
  BY TypeInit, DatesInit DEF Init, IInv, Matched
<1>2. IInv /\ [Next]_vars => IInv'
  BY TypeStep, DatesStep, MatchedStep DEF IInv
<1> QED BY <1>1, <1>2, PTL DEF Spec

\* Blocks that are returned together for a positive index were added in the same
\* cycle, for any number of lost datagrams, as long as no block was broken.
THEOREM CycleTheorem == Spec => []PositiveIsSameCycle
<1>1. ASSUME IInv PROVE PositiveIsSameCycle
  <2> SUFFICES ASSUME state = "done", excuses \subseteq {"lost"}, got[1].index > 0,
                      NEW n \in DOMAIN got
               PROVE  got[n].cycle = got[1].cycle
    BY DEF PositiveIsSameCycle
  <2>1. got \in Seq(Dated) /\ got # <<>>
    BY <1>1 DEF IInv, Dates, Matched
  <2>2. got[n] \in Dated /\ got[1] \in Dated
    BY <2>1
  <2>3. got[n].index = got[1].index
    BY <1>1, <2>1 DEF IInv, Matched
  <2>4. got[n].cycle \in Cycles /\ got[1].cycle \in Cycles
    BY <2>2 DEF Dated, Datagram
  <2>5. Wrapped(got[n].cycle) = Wrapped(got[1].cycle)
    BY <2>2, <2>3 DEF Dated
  <2> QED BY <2>4, <2>5, WrappedInjective
<1> QED BY InvCorrect, <1>1, PTL

-----------------------------------------------------------------------------
(* A network that loses nothing *)

\* What is appended to a sequence does not change how it begins.
LEMMA HeadOfAppend ==
    ASSUME NEW x \in Seq(Datagram), NEW c \in Datagram, x # <<>>
    PROVE  Append(x, c) # <<>> /\ Head(Append(x, c)) = Head(x)
OBVIOUS

\* A datagram in front is the head, and the rest the tail.
LEMMA Front ==
    ASSUME NEW a \in Datagram, NEW x \in Seq(Datagram)
    PROVE  /\ <<a>> \o x \in Seq(Datagram) /\ <<a>> \o x # <<>>
           /\ Head(<<a>> \o x) = a /\ Tail(<<a>> \o x) = x
<1>1. <<a>> \in Seq(Datagram) /\ Len(<<a>>) = 1 /\ <<a>>[1] = a
  OBVIOUS
<1>2. <<a>> \o x \in Seq(Datagram) /\ Len(<<a>> \o x) = Len(x) + 1
  BY <1>1
<1>3. <<a>> \o x # <<>> /\ Head(<<a>> \o x) = a
  BY <1>1, <1>2
<1>4. \A i \in 1..Len(x) : (<<a>> \o x)[i + 1] = x[i]
  BY <1>1
<1>5. Tail(<<a>> \o x) \in Seq(Datagram) /\ Len(Tail(<<a>> \o x)) = Len(x)
  BY <1>2, <1>3
<1>6. \A i \in 1..Len(x) : Tail(<<a>> \o x)[i] = x[i]
  BY <1>2, <1>3, <1>4, <1>5
<1> QED BY <1>2, <1>3, <1>5, <1>6

\* It does not matter whether the front or the back is added first.
LEMMA FrontAndBack ==
    ASSUME NEW a \in Datagram, NEW c \in Datagram, NEW x \in Seq(Datagram)
    PROVE  <<a>> \o Append(x, c) = Append(<<a>> \o x, c)
<1>1. /\ <<a>> \in Seq(Datagram) /\ Len(<<a>>) = 1
      /\ Append(x, c) \in Seq(Datagram) /\ Len(Append(x, c)) = Len(x) + 1
      /\ <<a>> \o x \in Seq(Datagram) /\ Len(<<a>> \o x) = Len(x) + 1
  OBVIOUS
<1> DEFINE l == <<a>> \o Append(x, c)
           r == Append(<<a>> \o x, c)
<1>2. /\ l \in Seq(Datagram) /\ Len(l) = Len(x) + 2
      /\ r \in Seq(Datagram) /\ Len(r) = Len(x) + 2
  BY <1>1
<1>3. ASSUME NEW i \in 1..Len(x) + 2
      PROVE  l[i] = r[i]
  <2>1. CASE i = 1
    BY <1>1, <2>1
  <2>2. CASE i = Len(x) + 2
    BY <1>1, <2>2
  <2>3. CASE i # 1 /\ i # Len(x) + 2
    <3>1. i - 1 \in 1..Len(x)
      BY <2>3
    <3>2. l[i] = Append(x, c)[i - 1] /\ r[i] = (<<a>> \o x)[i]
      BY <1>1, <2>3
    <3>3. Append(x, c)[i - 1] = x[i - 1] /\ (<<a>> \o x)[i] = x[i - 1]
      BY <1>1, <3>1
    <3> QED BY <3>2, <3>3
  <2> QED BY <2>1, <2>2, <2>3
<1> HIDE DEF l, r
<1>4. l = r
  BY <1>2, <1>3
<1> QED BY <1>4 DEF l, r

\* A call has accepted something as soon as a port need not be read any more.
LEMMA AcceptedType ==
    ASSUME TypeOK, Matched, state = "waiting", toRead # Ports
    PROVE  got # <<>> /\ got[1] \in Datagram
<1>1. got # <<>> /\ got \in Seq(Datagram)
  BY DEF Matched, TypeOK
<1> QED BY <1>1

\* What has arrived are datagrams.
LEMMA ArrivedType ==
    ASSUME TypeOK, Matched, NEW p \in Ports
    PROVE  arrived[p] \in Seq(Datagram)
<1>1. net[p] \in Seq(Datagram)
  BY DEF TypeOK
<1>2. CASE state = "waiting" /\ p \notin toRead
  <2>1. <<got[1]>> \o net[p] \in Seq(Datagram)
    BY <1>1, <1>2, AcceptedType, Front
  <2> QED BY <1>2, <2>1 DEF arrived
<1>3. CASE ~(state = "waiting" /\ p \notin toRead)
  BY <1>1, <1>3 DEF arrived
<1> QED BY <1>2, <1>3

\* The buffers stay in step over steps that touch neither them nor what has
\* arrived from them.
LEMMA KeptInStep ==
    ASSUME InStep, UNCHANGED <<buffers, arrived>>
    PROVE  InStep'
<1>1. UNCHANGED <<ring, pos, index, turn, cycle, arrived>>
  BY DEF buffers
<1> QED BY <1>1 DEF InStep, Level, Ahead, AllRingsAlike, Room, Current

\* The buffers stay in step when one has its turn: either all will send their
\* blocks of this cycle, or all rings are alike and all blocks break.
LEMMA TurnInStep ==
    ASSUME TypeOK, InStep, Advance, Fits \/ AllRingsAlike,
           \A p \in Ports \ {turn} : arrived'[p] = arrived[p] /\ index'[p] = index[p],
           Fits => /\ index'[turn] = Incremented(index[turn])
                   /\ arrived'[turn] = Append(arrived[turn], Current(turn)),
           ~Fits => index'[turn] = index[turn] /\ arrived'[turn] = arrived[turn]
    PROVE  InStep'
<1> USE ConstantsAssumption
<1>t. turn \in Ports /\ turn' = IF turn = NumPorts THEN 1 ELSE turn + 1
  BY AdvanceType DEF TypeOK
<1>c. turn # NumPorts => cycle' = cycle
  BY DEF Advance
<1>r. ring' = ring /\ (AllRingsAlike' <=> AllRingsAlike)
  BY DEF Advance, AllRingsAlike
<1>f. Fits <=> Room(turn)
  BY DEF Fits, Room
<1>p. /\ pos'[turn] = (pos[turn] + BlockLength) % ring[turn]
      /\ \A p \in Ports \ {turn} : pos'[p] = pos[p]
  BY <1>t DEF Advance, TypeOK
<1>a. AllRingsAlike => \A p, q \in Ports : ring[p] = ring[q]
  BY DEF AllRingsAlike
<1>1. ASSUME NEW q \in Ports, q < turn
      PROVE  /\ arrived'[turn] = arrived'[q] /\ index'[turn] = index'[q]
             /\ AllRingsAlike => pos'[turn] = pos'[q]
  <2>1. Ahead(turn, q) /\ q # turn
    BY <1>t, <1>1 DEF InStep, Ports
  <2>2. arrived'[q] = arrived[q] /\ index'[q] = index[q] /\ pos'[q] = pos[q]
    BY <1>p, <2>1
  <2>3. CASE Fits
    BY <1>f, <1>p, <2>1, <2>2, <2>3 DEF Ahead
  <2>4. CASE ~Fits
    BY <1>f, <1>p, <2>1, <2>2, <2>4 DEF Ahead
  <2> QED BY <2>3, <2>4
<1>2. ASSUME NEW p \in Ports, NEW q \in Ports, p < turn, q < turn
      PROVE  /\ arrived'[p] = arrived'[q] /\ index'[p] = index'[q]
             /\ AllRingsAlike => pos'[p] = pos'[q]
  BY <1>1, <1>2
<1>3. ASSUME NEW p \in Ports, NEW q \in Ports, p > turn, q > turn
      PROVE  /\ arrived'[p] = arrived'[q] /\ index'[p] = index'[q]
             /\ AllRingsAlike => pos'[p] = pos'[q]
  <2>1. Level(p, q) /\ p # turn /\ q # turn
    BY <1>t, <1>3 DEF InStep, Ports
  <2> QED BY <1>p, <2>1 DEF Level
<1>4. ASSUME NEW p \in Ports, p > turn
      PROVE  /\ AllRingsAlike => pos'[turn] = (pos'[p] + BlockLength) % ring[p]
             /\ index'[p] = index[p] /\ arrived'[p] = arrived[p] /\ pos'[p] = pos[p]
             /\ \/ /\ AllRingsAlike => Room(p)
                   /\ index'[turn] = Incremented(index[p])
                   /\ arrived'[turn] = Append(arrived[p], Current(p))
                \/ /\ AllRingsAlike /\ ~Room(p)
                   /\ index'[turn] = index[p]
                   /\ arrived'[turn] = arrived[p]
  <2>1. Level(p, turn) /\ p # turn
    BY <1>t, <1>4 DEF InStep, Ports
  <2>2. arrived'[p] = arrived[p] /\ index'[p] = index[p] /\ pos'[p] = pos[p]
    BY <1>p, <2>1
  <2>3. /\ arrived[p] = arrived[turn] /\ index[p] = index[turn]
        /\ AllRingsAlike => pos[p] = pos[turn] /\ ring[p] = ring[turn]
    BY <1>t, <1>a, <2>1 DEF Level
  <2>4. (AllRingsAlike => (Room(p) <=> Room(turn))) /\ Current(p) = Current(turn)
    BY <2>3 DEF Room, Current
  <2>5. CASE Fits
    BY <1>f, <1>p, <2>2, <2>3, <2>4, <2>5
  <2>6. CASE ~Fits
    BY <1>f, <1>p, <2>2, <2>3, <2>4, <2>6
  <2> QED BY <2>5, <2>6
<1>5. CASE turn = NumPorts
  <2>1. turn' = 1 /\ \A p \in Ports : p = turn \/ p < turn
    BY <1>t, <1>5 DEF Ports
  <2>2. \A p \in Ports : ~(p < turn')
    BY <2>1 DEF Ports
  <2>3. ASSUME NEW p \in Ports, NEW q \in Ports
        PROVE  /\ arrived'[p] = arrived'[q] /\ index'[p] = index'[q]
               /\ AllRingsAlike => pos'[p] = pos'[q]
    <3>1. CASE p < turn /\ q < turn
      BY <1>2, <3>1
    <3>2. CASE p = turn /\ q < turn
      BY <1>1, <3>2
    <3>3. CASE p < turn /\ q = turn
      BY <1>1, <3>3
    <3>4. CASE p = turn /\ q = turn
      BY <3>4
    <3> QED BY <2>1, <3>1, <3>2, <3>3, <3>4
  <2> QED BY <1>r, <2>2, <2>3 DEF InStep, Level
<1>6. CASE turn # NumPorts
  <2>1. \A p \in Ports : (p < turn' <=> p < turn \/ p = turn) /\ (~(p < turn') <=> p > turn)
    BY <1>t, <1>6 DEF Ports
  <2>2. ASSUME NEW p \in Ports, NEW q \in Ports, p < turn' <=> q < turn'
        PROVE  /\ arrived'[p] = arrived'[q] /\ index'[p] = index'[q]
               /\ AllRingsAlike => pos'[p] = pos'[q]
    <3>1. CASE p < turn /\ q < turn
      BY <1>2, <3>1
    <3>2. CASE p = turn /\ q < turn
      BY <1>1, <3>2
    <3>3. CASE p < turn /\ q = turn
      BY <1>1, <3>3
    <3>4. CASE p = turn /\ q = turn
      BY <3>4
    <3>5. CASE p > turn /\ q > turn
      BY <1>3, <3>5
    <3> QED BY <2>1, <2>2, <3>1, <3>2, <3>3, <3>4, <3>5
  <2>3. \A p \in Ports : Room(p)' <=> BlockLength <= ring[p] - pos'[p]
    BY <1>r DEF Room
  <2>4. \A p \in Ports : Current(p)' = [index |-> index'[p], cycle |-> cycle]
    BY <1>c, <1>6 DEF Current
  <2>5. ASSUME NEW p \in Ports, NEW q \in Ports, ~(p < turn'), q < turn'
        PROVE  Ahead(p, q)'
    <3>1. p > turn /\ p # turn
      BY <1>t, <2>1, <2>5 DEF Ports
    <3>2. index'[p] = index[p] /\ arrived'[p] = arrived[p] /\ pos'[p] = pos[p]
      BY <1>4, <3>1
    <3>3. (Room(p)' <=> Room(p)) /\ Current(p)' = Current(p)
      BY <2>3, <2>4, <3>2 DEF Room, Current
    <3>4. CASE q = turn
      BY <1>r, <1>4, <3>1, <3>2, <3>3, <3>4 DEF Ahead
    <3>5. CASE q # turn
      <4>1. q < turn /\ ~(p < turn)
        BY <2>1, <2>5, <3>1, <3>5, <1>t DEF Ports
      <4>2. Ahead(p, q)
        BY <4>1 DEF InStep
      <4>3. index'[q] = index[q] /\ arrived'[q] = arrived[q] /\ pos'[q] = pos[q]
        BY <1>p, <3>5
      <4> QED BY <1>r, <3>2, <3>3, <4>2, <4>3 DEF Ahead
    <3> QED BY <3>4, <3>5
  <2> QED BY <1>r, <2>2, <2>5 DEF InStep, Level
<1> QED BY <1>5, <1>6

\* Nothing that sets the buffers apart is ever undone.
LEMMA LosslessBefore == [Next]_vars /\ Lossless' => Lossless /\ ring' = ring
<1> SUFFICES ASSUME [Next]_vars, Lossless' PROVE Lossless /\ ring' = ring
  OBVIOUS
<1>1. ring' = ring /\ excuses \subseteq excuses'
  BY DEF vars, buffers, Next, AddBlock, AddBroken, SendDebugBlock, Advance, Deliver, Lose,
         Overflow, Begin, ReceiveBlock, Scan, Return, PollEmpty, DropOld, RestartOthers, Accept
<1> QED BY <1>1 DEF Lossless, AllRingsAlike

\* Adding a block to a buffer keeps the buffers in step.
LEMMA AddInStep ==
    ASSUME TypeOK, Matched, InStep, AddBlock, Lossless'
    PROVE  InStep'
<1> USE ConstantsAssumption
<1>0. Advance /\ UNCHANGED <<state, toRead, got>> /\ turn \in Ports
  BY DEF AddBlock, AddBroken, SendDebugBlock, Advance, receiver, TypeOK
<1>1. CASE AddBroken
  <2>1. ~Fits /\ UNCHANGED <<index, net>> /\ "broken" \in excuses'
    BY <1>1 DEF AddBroken
  <2>2. AllRingsAlike
    <3>1. AllRingsAlike'
      BY <2>1 DEF Lossless
    <3> QED BY <1>0, <3>1 DEF Advance, AllRingsAlike
  <2>3. arrived' = arrived
    BY <1>0, <2>1 DEF arrived
  <2> QED BY <1>0, <2>1, <2>2, <2>3, TurnInStep
<1>2. CASE SendDebugBlock
  <2>1. Fits /\ Deliver(turn)
    BY <1>2 DEF SendDebugBlock, Lose, Overflow, Lossless
  <2>2. /\ net' = [net EXCEPT ![turn] = Append(@, Current(turn))]
        /\ index' = [index EXCEPT ![turn] = Incremented(@)]
    BY <1>2, <2>1 DEF SendDebugBlock, Deliver, Current, Incremented
  <2>3. Current(turn) \in Datagram /\ net[turn] \in Seq(Datagram)
    BY <1>0 DEF Current, Datagram, TypeOK
  <2>4. /\ net'[turn] = Append(net[turn], Current(turn))
        /\ \A p \in Ports \ {turn} : net'[p] = net[p]
        /\ index'[turn] = Incremented(index[turn])
        /\ \A p \in Ports \ {turn} : index'[p] = index[p]
    BY <1>0, <2>2 DEF TypeOK
  <2>5. \A p \in Ports \ {turn} : arrived'[p] = arrived[p]
    BY <1>0, <2>4 DEF arrived
  <2>6. arrived'[turn] = Append(arrived[turn], Current(turn))
    <3>1. CASE state = "waiting" /\ turn \notin toRead
      <4>1. got[1] \in Datagram
        BY <1>0, <3>1, AcceptedType
      <4>2. <<got[1]>> \o Append(net[turn], Current(turn))
                = Append(<<got[1]>> \o net[turn], Current(turn))
        BY <2>3, <4>1, FrontAndBack
      <4> QED BY <1>0, <2>4, <3>1, <4>2 DEF arrived
    <3>2. CASE ~(state = "waiting" /\ turn \notin toRead)
      BY <1>0, <2>4, <3>2 DEF arrived
    <3> QED BY <3>1, <3>2
  <2> QED BY <1>0, <2>1, <2>4, <2>5, <2>6, TurnInStep
<1> QED BY <1>1, <1>2 DEF AddBlock

\* A port that still has to be read begins with what the others have delivered.
LEMMA SameHead ==
    ASSUME TypeOK, Matched, InStep, Counted, state = "waiting", got # <<>>,
           NEW p \in toRead, net[p] # <<>>
    PROVE  Head(net[p]) = got[1]
<1> USE ConstantsAssumption
<1>1. IsFiniteSet(Ports) /\ Cardinality(Ports) = NumPorts
  BY FS_Interval DEF Ports
<1>2. toRead # Ports
  <2>1. Len(got) # 0
    BY DEF TypeOK
  <2> QED BY <1>1, <2>1 DEF Counted
<1>3. PICK q \in Ports : q \notin toRead
  BY <1>2 DEF TypeOK
<1>4. p \in Ports /\ arrived[p] = net[p] /\ arrived[q] = <<got[1]>> \o net[q]
  BY <1>3 DEF arrived, TypeOK
<1>5. /\ arrived[p] \in Seq(Datagram) /\ arrived[p] # <<>>
      /\ arrived[q] \in Seq(Datagram) /\ arrived[q] # <<>> /\ Head(arrived[q]) = got[1]
  <2>1. got[1] \in Datagram /\ net[q] \in Seq(Datagram) /\ net[p] \in Seq(Datagram)
    BY <1>2, <1>3, <1>4, AcceptedType DEF TypeOK
  <2> QED BY <1>4, <2>1, Front
<1>6. Current(p) \in Datagram /\ Current(q) \in Datagram
  BY <1>3, <1>4 DEF Current, Datagram, TypeOK
<1>7. CASE p < turn <=> q < turn
  BY <1>3, <1>4, <1>5, <1>7 DEF InStep, Level
<1>8. CASE ~(p < turn) /\ q < turn
  <2>1. arrived[q] = Append(arrived[p], Current(p)) \/ arrived[q] = arrived[p]
    BY <1>3, <1>4, <1>8 DEF InStep, Ahead
  <2> QED BY <1>4, <1>5, <1>6, <2>1, HeadOfAppend
<1>9. CASE p < turn /\ ~(q < turn)
  <2>1. arrived[p] = Append(arrived[q], Current(q)) \/ arrived[p] = arrived[q]
    BY <1>3, <1>4, <1>9 DEF InStep, Ahead
  <2> QED BY <1>4, <1>5, <1>6, <2>1, HeadOfAppend
<1> QED BY <1>7, <1>8, <1>9

\* So what is read next always has the index that is looked for.
LEMMA AlwaysInSync ==
    ASSUME TypeOK, Matched, InStep, Counted, NEW p \in Ports, IsNext(p), Has(p)
    PROVE  InSync(p) /\ p \in toRead /\ (got # <<>> => Head(net[p]) = got[1])
<1>1. state = "waiting" /\ p \in toRead /\ net[p] # <<>>
  BY DEF IsNext, Has, Counted
<1>2. CASE got = <<>>
  BY <1>1, <1>2 DEF InSync, Matched
<1>3. CASE got # <<>>
  <2>1. Head(net[p]) = got[1]
    BY <1>1, <1>3, SameHead
  <2>2. Len(got) \in DOMAIN got
    BY <1>3 DEF TypeOK
  <2>3. out = got[1].index
    BY <1>1, <1>3, <2>2 DEF Matched, Counted
  <2> QED BY <1>1, <2>1, <2>3 DEF InSync, Bi
<1> QED BY <1>2, <1>3

\* Accepting a datagram moves it from what waits to what the call has got.
LEMMA AcceptAligned ==
    ASSUME TypeOK, Matched, InStep, Counted, NEW p \in Ports, Accept(p)
    PROVE  InStep' /\ Counted'
<1> USE ConstantsAssumption
<1>0. /\ state = "waiting" /\ state' = "waiting" /\ Has(p) /\ IsNext(p)
      /\ net' = [net EXCEPT ![p] = Tail(@)]
      /\ toRead' = toRead \ {p} /\ scan' = scan \ {p}
      /\ got' = Append(got, Head(net[p])) /\ UNCHANGED buffers
  BY DEF Accept, IsNext, Consume
<1>1. p \in toRead /\ (got # <<>> => Head(net[p]) = got[1])
  BY <1>0, AlwaysInSync
<1>2. net[p] \in Seq(Datagram) /\ net[p] # <<>> /\ Head(net[p]) \in Datagram
  <2>1. net[p] \in Seq(Datagram) /\ net[p] # <<>>
    BY <1>0 DEF Has, TypeOK
  <2> QED BY <2>1
<1>3. /\ got \in Seq(Datagram) /\ Len(got') = Len(got) + 1 /\ DOMAIN got' = 1..Len(got) + 1
      /\ got'[Len(got) + 1] = Head(net[p])
      /\ \A n \in 1..Len(got) : got'[n] = got[n]
  BY <1>0, <1>2 DEF TypeOK
<1>4. got'[1] = Head(net[p]) /\ \A n \in DOMAIN got' : got'[n] = got'[1]
  <2>1. CASE got = <<>>
    BY <1>3, <2>1
  <2>2. CASE got # <<>>
    <3>1. Len(got) \in Nat \ {0} /\ DOMAIN got = 1..Len(got)
      BY <1>3, <2>2
    <3>2. \A n \in 1..Len(got) : got[n] = got[1]
      BY <1>0, <3>1 DEF Counted
    <3>3. got'[1] = got[1] /\ got[1] = Head(net[p])
      BY <1>1, <1>3, <2>2, <3>1
    <3>4. ASSUME NEW n \in 1..Len(got) + 1
          PROVE  got'[n] = got'[1]
      <4>1. n = Len(got) + 1 \/ n \in 1..Len(got)
        BY <3>1
      <4> QED BY <1>3, <3>2, <3>3, <4>1
    <3> QED BY <1>3, <3>3, <3>4
  <2> QED BY <2>1, <2>2
<1>5. ASSUME NEW q \in Ports
      PROVE  arrived'[q] = arrived[q]
  <2>1. CASE q = p
    <3>1. arrived[q] = net[p] /\ arrived'[q] = <<got'[1]>> \o Tail(net[p])
      BY <1>0, <1>1, <2>1 DEF arrived, TypeOK
    <3>2. net[p] = <<Head(net[p])>> \o Tail(net[p])
      BY <1>2
    <3> QED BY <1>4, <3>1, <3>2
  <2>2. CASE q # p /\ q \in toRead
    BY <1>0, <2>2 DEF arrived, TypeOK
  <2>3. CASE q # p /\ q \notin toRead
    <3>1. got # <<>>
      BY <1>0, <2>3, AcceptedType
    <3>2. got'[1] = got[1]
      BY <1>1, <1>4, <3>1
    <3> QED BY <1>0, <2>3, <3>2 DEF arrived, TypeOK
  <2> QED BY <2>1, <2>2, <2>3
<1>6. arrived' = arrived
  BY <1>5 DEF arrived
<1>7. Cardinality(toRead \ {p}) = Cardinality(toRead) - 1 /\ Cardinality(toRead) \in Nat
  <2>1. IsFiniteSet(toRead)
    <3>1. 1 \in Int /\ NumPorts \in Int /\ toRead \subseteq 1..NumPorts
      BY DEF TypeOK, Ports
    <3>2. IsFiniteSet(1..NumPorts)
      BY <3>1, FS_Interval
    <3> QED BY <3>1, <3>2, FS_Subset
  <2> QED BY <1>1, <2>1, FS_RemoveElement, FS_CardinalityType
<1>8. InStep'
  BY <1>0, <1>6, KeptInStep
<1>9. Counted'
  BY <1>0, <1>3, <1>4, <1>7 DEF Counted
<1> QED BY <1>8, <1>9

\* At the start nothing has arrived from any buffer.
LEMMA AlignedInit == Init => Aligned
<1> SUFFICES ASSUME Init PROVE InStep /\ Counted
  BY DEF Aligned
<1>1. \A p \in Ports : arrived[p] = <<>> /\ index[p] = 0 /\ pos[p] = 0 /\ ~(p < turn)
  BY DEF Init, arrived, Ports
<1> QED BY <1>1 DEF Init, InStep, Level, Counted

\* Every step keeps the buffers in step, as long as nothing is lost.
LEMMA AlignedStep == TypeOK /\ Matched /\ Aligned /\ [Next]_vars => Aligned'
<1> SUFFICES ASSUME TypeOK, Matched, Aligned, [Next]_vars, Lossless'
             PROVE  InStep' /\ Counted'
  BY DEF Aligned
<1> USE ConstantsAssumption
<1>1. InStep /\ Counted
  BY LosslessBefore DEF Aligned
<1>2. ASSUME UNCHANGED <<buffers, net, state, toRead, got>>, scan' \subseteq toRead'
      PROVE  InStep' /\ Counted'
  <2>1. arrived' = arrived
    BY <1>2 DEF arrived
  <2> QED BY <1>1, <1>2, <2>1, KeptInStep DEF Counted
<1>3. CASE UNCHANGED vars
  <2>1. UNCHANGED <<buffers, net, state, toRead, got, scan>>
    BY <1>3 DEF vars, receiver
  <2>2. arrived' = arrived
    BY <2>1 DEF arrived
  <2> QED BY <1>1, <2>1, <2>2, KeptInStep DEF Counted
<1>4. CASE AddBlock
  <2>1. UNCHANGED <<state, toRead, got, scan>>
    BY <1>4 DEF AddBlock, AddBroken, SendDebugBlock, Advance, receiver
  <2> QED BY <1>1, <1>4, <2>1, AddInStep DEF Counted
<1>5. CASE Begin
  <2>1. arrived' = arrived
    BY <1>5 DEF Begin, arrived
  <2>2. Cardinality(Ports) = NumPorts
    BY FS_Interval DEF Ports
  <2>3. UNCHANGED buffers /\ state' = "waiting" /\ toRead' = Ports /\ scan' = {} /\ got' = <<>>
    BY <1>5 DEF Begin
  <2>4. Counted'
    BY <2>2, <2>3 DEF Counted
  <2> QED BY <1>1, <2>1, <2>3, <2>4, KeptInStep
<1>6. CASE Scan
  BY <1>2, <1>6 DEF Scan
<1>7. CASE Return
  <2>1. /\ state = "waiting" /\ toRead = {} /\ state' = "done"
        /\ UNCHANGED <<buffers, net, got>>
    BY <1>7 DEF Return
  <2>2. Ports # {}
    BY DEF Ports
  <2>3. got[1] \in Datagram
    BY <2>1, <2>2, AcceptedType
  <2>4. \A p \in Ports : arrived[p] = <<got[1]>> \o net[p] /\ arrived'[p] = net[p]
    BY <2>1 DEF arrived
  <2>5. \A p \in Ports : /\ arrived'[p] = Tail(arrived[p]) /\ arrived'[p] \in Seq(Datagram)
                         /\ arrived[p] = <<got[1]>> \o arrived'[p]
    <3> SUFFICES ASSUME NEW p \in Ports
                 PROVE  /\ arrived'[p] = Tail(arrived[p]) /\ arrived'[p] \in Seq(Datagram)
                        /\ arrived[p] = <<got[1]>> \o arrived'[p]
      OBVIOUS
    <3>1. net[p] \in Seq(Datagram)
      BY DEF TypeOK
    <3>2. Tail(<<got[1]>> \o net[p]) = net[p]
      BY <2>3, <3>1, Front
    <3> QED BY <2>4, <3>1, <3>2
  <2>6. \A p, q \in Ports : arrived[p] = arrived[q] => arrived'[p] = arrived'[q]
    BY <2>5
  <2>7. ASSUME NEW p \in Ports, NEW q \in Ports, arrived[q] = Append(arrived[p], Current(p))
        PROVE  arrived'[q] = Append(arrived'[p], Current(p))
    <3>1. Current(p) \in Datagram
      BY DEF Current, Datagram, TypeOK
    <3>2. arrived[q] = <<got[1]>> \o Append(arrived'[p], Current(p))
      BY <2>3, <2>5, <2>7, <3>1, FrontAndBack
    <3>3. Append(arrived'[p], Current(p)) \in Seq(Datagram)
      BY <2>5, <3>1
    <3>4. Tail(arrived[q]) = Append(arrived'[p], Current(p))
      BY <2>3, <3>2, <3>3, Front
    <3> QED BY <2>5, <3>4
  <2>8. UNCHANGED <<ring, pos, index, turn, cycle>>
    BY <2>1 DEF buffers
  <2>9. \A p, q \in Ports : (Level(p, q) => Level(p, q)') /\ (Ahead(p, q) => Ahead(p, q)')
    <3> SUFFICES ASSUME NEW p \in Ports, NEW q \in Ports
                 PROVE  (Level(p, q) => Level(p, q)') /\ (Ahead(p, q) => Ahead(p, q)')
      OBVIOUS
    <3>1. Current(p)' = Current(p) /\ (Room(p)' <=> Room(p)) /\ (AllRingsAlike' <=> AllRingsAlike)
      BY <2>8 DEF Current, Room, AllRingsAlike
    <3>2. Level(p, q) => Level(p, q)'
      BY <2>6, <2>8, <3>1 DEF Level
    <3>3. Ahead(p, q) => Ahead(p, q)'
      BY <2>6, <2>7, <2>8, <3>1 DEF Ahead
    <3> QED BY <3>2, <3>3
  <2>10. InStep'
    BY <1>1, <2>8, <2>9 DEF InStep
  <2>11. Counted'
    <3>1. Len(got) = NumPorts
      BY <1>1, <2>1, FS_EmptySet DEF Counted
    <3> QED BY <1>1, <2>1, <3>1 DEF Counted
  <2> QED BY <2>10, <2>11
<1>8. ASSUME NEW p \in Ports, PollEmpty(p)
      PROVE  InStep' /\ Counted'
  BY <1>1, <1>2, <1>8 DEF PollEmpty, IsNext, Counted
<1>9. ASSUME NEW p \in Ports, DropOld(p) \/ RestartOthers(p)
      PROVE  FALSE
  BY <1>1, <1>9, AlwaysInSync DEF DropOld, RestartOthers
<1>10. ASSUME NEW p \in Ports, Accept(p)
       PROVE  InStep' /\ Counted'
  BY <1>1, <1>10, AcceptAligned
<1> QED BY <1>3, <1>4, <1>5, <1>6, <1>7, <1>8, <1>9, <1>10 DEF Next, ReceiveBlock

\* Buffers of the same length on a network that loses nothing: every call
\* returns one block of each buffer, all of the same cycle, for any number of
\* buffers, any lengths and any width of the index.
THEOREM AlignedTheorem == Spec => []LosslessIsAligned
<1>1. Init => IInv /\ Aligned
  BY TypeInit, DatesInit, AlignedInit DEF Init, IInv, Matched
<1>2. (IInv /\ Aligned) /\ [Next]_vars => (IInv /\ Aligned)'
  BY TypeStep, DatesStep, MatchedStep, AlignedStep DEF IInv
<1>3. IInv /\ Aligned => LosslessIsAligned
  <2> SUFFICES ASSUME IInv, Aligned, Lossless PROVE LosslessIsAligned
    BY DEF LosslessIsAligned
  <2>1. Counted
    BY DEF Aligned
  <2>2. ASSUME state = "done", NEW m \in DOMAIN got, NEW n \in DOMAIN got
        PROVE  got[m].cycle = got[n].cycle
    <3>1. got[m] = got[1] /\ got[n] = got[1]
      BY <2>1, <2>2 DEF Counted
    <3> QED BY <3>1
  <2>3. state = "done" => Len(got) = NumPorts
    BY <2>1 DEF Counted
  <2>4. state # "dead"
    BY <2>1 DEF Counted
  <2> QED BY <2>2, <2>3, <2>4 DEF LosslessIsAligned
<1> QED BY <1>1, <1>2, <1>3, PTL DEF Spec

-----------------------------------------------------------------------------
(* What a call does whatever is lost *)

\* One port less to read for each datagram that is accepted.
LEMMA TakesOneEachStep == TypeOK /\ TakesOneEach /\ [Next]_vars => TakesOneEach'
<1> SUFFICES ASSUME TypeOK, TakesOneEach, [Next]_vars PROVE TakesOneEach'
  OBVIOUS
<1> USE DEF TakesOneEach
<1>1. IsFiniteSet(Ports) /\ Cardinality(Ports) = NumPorts /\ NumPorts \in Nat
  BY FS_Interval, ConstantsAssumption DEF Ports
<1>2. CASE UNCHANGED receiver
  BY <1>2 DEF receiver
<1>3. CASE Begin
  <2>1. state' = "waiting" /\ toRead' = Ports /\ scan' = {} /\ got' = <<>>
    BY <1>3 DEF Begin
  <2>2. Len(got') = 0 /\ Cardinality(toRead') = NumPorts
    BY <2>1, <1>1
  <2> QED BY <2>1, <2>2, <1>1
<1>4. CASE Scan
  BY <1>4 DEF Scan
<1>5. CASE Return
  <2>1. toRead = {} /\ state = "waiting" /\ state' = "done" /\ UNCHANGED <<toRead, got>>
    BY <1>5 DEF Return
  <2>2. Cardinality(toRead) = 0
    BY <2>1, FS_EmptySet
  <2>3. Len(got) = NumPorts
    BY <2>1, <2>2, <1>1
  <2> QED BY <2>1, <2>3
<1>6. ASSUME NEW p \in Ports, PollEmpty(p) \/ DropOld(p)
      PROVE  TakesOneEach'
  BY <1>6 DEF PollEmpty, DropOld, IsNext
<1>7. ASSUME NEW p \in Ports, RestartOthers(p)
      PROVE  TakesOneEach'
  BY <1>7 DEF RestartOthers
<1>8. ASSUME NEW p \in Ports, Accept(p)
      PROVE  TakesOneEach'
  <2>1. /\ state = "waiting" /\ state' = "waiting" /\ p \in scan /\ scan \subseteq toRead
        /\ toRead' = toRead \ {p} /\ scan' = scan \ {p}
        /\ got' = Append(got, Head(net[p])) /\ net[p] # <<>>
    BY <1>8 DEF Accept, IsNext, Has
  <2>2. Head(net[p]) \in Datagram /\ got \in Seq(Datagram)
    BY <2>1 DEF TypeOK
  <2>3. Len(got') = Len(got) + 1 /\ Len(got) \in Nat
    BY <2>1, <2>2
  <2>4. IsFiniteSet(toRead)
    BY <1>1, FS_Subset DEF TypeOK
  <2>5. Cardinality(toRead') = Cardinality(toRead) - 1 /\ Cardinality(toRead) \in Nat
    BY <2>1, <2>4, FS_RemoveElement, FS_CardinalityType
  <2>6. Len(got) = NumPorts - Cardinality(toRead)
    BY <2>1
  <2>7. Len(got') = NumPorts - Cardinality(toRead')
    BY <2>3, <2>5, <2>6, <1>1
  <2> QED BY <2>1, <2>7
<1>9. AddBlock \/ UNCHANGED vars => UNCHANGED receiver
  BY DEF AddBlock, AddBroken, SendDebugBlock, Advance, vars, receiver
<1> QED BY <1>2, <1>3, <1>4, <1>5, <1>6, <1>7, <1>8, <1>9 DEF Next, ReceiveBlock

\* A call that returns has exactly one block of each buffer, for any number of
\* buffers, losses and restarts.
THEOREM WholeTheorem == Spec => []TakesOneEach
<1>1. Init => TakesOneEach
  BY DEF Init, TakesOneEach
<1> QED BY <1>1, TakesOneEachStep, TypeCorrect, PTL DEF Spec

\* Every step of receive_block() brings its end nearer, for any number of
\* buffers, and it never changes the index that it looks for.  That it finds it is
\* up to the audio thread and the network.
THEOREM EndTheorem == Spec => EndComesNearer
<1>1. ASSUME TypeOK, TakesOneEach, [Next]_vars, state = "waiting"
      PROVE  /\ Nearer \/ (~ReceiveBlock /\ UNCHANGED receiver)
             /\ out > 0 /\ state' = "waiting" => out' = out
  <2> USE <1>1 DEF Nearer
  <2>1. CASE Scan
    BY <2>1 DEF Scan
  <2>2. CASE Return
    BY <2>2 DEF Return
  <2>3. ASSUME NEW p \in Ports, PollEmpty(p) \/ DropOld(p)
        PROVE  /\ Nearer
               /\ out' = out
    BY <2>3 DEF PollEmpty, DropOld, IsNext
  <2>4. ASSUME NEW p \in Ports, RestartOthers(p)
        PROVE  state' # "waiting"
    BY <2>4 DEF RestartOthers
  <2>5. ASSUME NEW p \in Ports, Accept(p)
        PROVE  /\ Nearer
               /\ out > 0 => out' = out
    <3>1. /\ p \in scan /\ p \in toRead /\ toRead' = toRead \ {p}
          /\ out' = Bi(p) /\ InSync(p) /\ net[p] # <<>>
      BY <2>5 DEF Accept, IsNext, Has, TakesOneEach
    <3>2. Bi(p) \in Index
      <4>1. net[p] \in Seq(Datagram)
        BY DEF TypeOK
      <4>2. Head(net[p]) \in Datagram
        BY <3>1, <4>1
      <4> QED BY <4>2 DEF Bi, Datagram
    <3>3. toRead' # toRead
      BY <3>1
    <3> QED BY <3>1, <3>2, <3>3 DEF InSync
  <2>6. CASE ReceiveBlock
    BY <2>1, <2>2, <2>3, <2>4, <2>5, <2>6 DEF ReceiveBlock
  <2>7. CASE AddBlock \/ UNCHANGED vars
    <3>1. UNCHANGED receiver
      BY <2>7 DEF AddBlock, AddBroken, SendDebugBlock, Advance, vars, receiver
    <3>2. out' = out
      BY <3>1 DEF receiver
    <3>3. Nearer \/ (~ReceiveBlock /\ UNCHANGED receiver)
      BY <3>1, <2>6
    <3> QED BY <3>2, <3>3
  <2>8. ~Begin
    BY DEF Begin
  <2> QED BY <2>6, <2>7, <2>8 DEF Next
<1>2. TypeOK /\ TakesOneEach /\ [Next]_vars =>
        [state = "waiting" =>
            /\ Nearer \/ (~ReceiveBlock /\ UNCHANGED receiver)
            /\ out > 0 /\ state' = "waiting" => out' = out]_vars
  BY <1>1
<1> QED BY <1>2, WholeTheorem, TypeCorrect, PTL DEF Spec, EndComesNearer
=============================================================================
