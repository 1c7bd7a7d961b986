---------------------------- MODULE DebugStream ----------------------------
(***************************************************************************)
(* The debug stream: a SignalBuffer with a receiver sends every block that *)
(* is added to it as a datagram; SignalBufferReceiver.receive_block() takes *)
(* one block from each of several buffers, each on a port of its own, and  *)
(* matches them by the index that the datagrams carry.                     *)
(*                                                                         *)
(* The audio thread adds a block to one buffer after the other, MATLAB runs *)
(* in another process.  Datagrams of one buffer do not overtake each other, *)
(* but may be lost.  setDebugReceiver() has been called for every buffer   *)
(* before the first block is added.                                        *)
(***************************************************************************)
EXTENDS Integers, Sequences, FiniteSets

CONSTANTS NumPorts,     \* buffers that send, each to its own port
          W,            \* an index is in -W..W-1: 128 for an int8_t
          OldWindow,    \* how far behind an index may be and is only old
          BlockLength,  \* length of an added block
          RingLengths,  \* lengths of buffers' rings
          Capacity,     \* bound: datagrams that wait at a port
          MaxLosses     \* bound: datagrams lost, or not sent, with room at the port

ASSUME ConstantsAssumption ==
    /\ NumPorts \in Nat \ {0} /\ W \in Nat \ {0} /\ OldWindow \in Nat
    /\ BlockLength \in Nat \ {0} /\ Capacity \in Nat \ {0} /\ MaxLosses \in Nat
    /\ RingLengths \subseteq Nat /\ \A r \in RingLengths : r >= BlockLength

Ports == 1..NumPorts
Index == -W..W - 1
Cycles == 0..2 * W - 1

VARIABLES ring,      \* size + delay of each buffer
          pos,       \* m_timeQueuePointer
          index,     \* debugBlockIndex, what of it is sent
          turn,      \* the buffer that the audio thread is about to serve
          cycle,     \* blocks added to every buffer, modulo 2 * W (history)
          net,       \* net[p]: datagrams that wait at port p
          losses,    \* datagrams lost
          state,     \* of the receiver
          toRead,    \* portsToRead
          scan,      \* what is left of it in the for loop
          out,       \* blockIndexOut
          got,       \* the datagrams that this call has accepted
          excuses    \* why indices may not match (history)

buffers == <<ring, pos, index, turn, cycle>>
receiver == <<state, toRead, scan, out, got>>
vars == <<buffers, net, losses, receiver, excuses>>

Datagram == [index : Index, cycle : Cycles]

Init ==
    /\ ring \in [Ports -> RingLengths]
    /\ pos = [p \in Ports |-> 0]
    /\ index = [p \in Ports |-> 0]
    /\ turn = 1 /\ cycle = 0
    /\ net = [p \in Ports |-> <<>>] /\ losses = 0
    /\ state = "idle" /\ toRead = {} /\ scan = {} /\ out = -1 /\ got = <<>>
    /\ excuses = {}

-----------------------------------------------------------------------------
(* addBlock(), for the last channel *)

Fits == BlockLength <= ring[turn] - pos[turn]

Advance ==
    /\ pos' = [pos EXCEPT ![turn] = (@ + BlockLength) % ring[turn]]
    /\ turn' = (turn % NumPorts) + 1
    /\ cycle' = IF turn = NumPorts THEN (cycle + 1) % (2 * W) ELSE cycle
    /\ UNCHANGED <<ring, receiver>>

\* A block that wraps around is not sent, and the index stays.
AddBroken ==
    /\ ~Fits
    /\ Advance
    /\ excuses' = excuses \cup {"broken"}
    /\ UNCHANGED <<index, net, losses>>

Deliver(p) ==
    /\ Len(net[p]) < Capacity
    /\ net' = [net EXCEPT ![p] = Append(@, [index |-> index[p], cycle |-> cycle])]
    /\ UNCHANGED <<losses, excuses>>

\* sendBlock() refuses samples out of [-1,1], sendto() fails, or the network
\* loses it: the caller does not look at the result.
Lose ==
    /\ losses < MaxLosses
    /\ losses' = losses + 1
    /\ excuses' = excuses \cup {"lost"}
    /\ UNCHANGED net

IsRead(p) == state = "waiting" /\ p \in toRead

\* A port that is not being read loses what does not fit.
Overflow(p) ==
    /\ Len(net[p]) = Capacity /\ ~IsRead(p)
    /\ excuses' = excuses \cup {"lost"}
    /\ UNCHANGED <<net, losses>>

\* Whatever becomes of the datagram, debugBlockIndex is incremented, of which
\* an int8_t is sent.
SendDebugBlock ==
    /\ Fits
    /\ Deliver(turn) \/ Lose \/ Overflow(turn)
    /\ index' = [index EXCEPT ![turn] = ((@ + 1 + W) % (2 * W)) - W]
    /\ Advance

-----------------------------------------------------------------------------
(* receive_block() *)

Begin ==
    /\ state # "waiting"
    /\ state' = "waiting"
    /\ toRead' = Ports /\ scan' = {} /\ out' = -1 /\ got' = <<>>
    /\ UNCHANGED <<buffers, net, losses, excuses>>

\* The for loop goes over what portsToRead is when it begins.
Scan ==
    /\ state = "waiting" /\ scan = {} /\ toRead # {}
    /\ scan' = toRead
    /\ UNCHANGED <<buffers, net, losses, state, toRead, out, got, excuses>>

IsNext(p) == state = "waiting" /\ p \in scan /\ \A q \in scan : p <= q
Has(p) == net[p] # <<>>
Bi(p) == Head(net[p]).index
Consume(p) == net' = [net EXCEPT ![p] = Tail(@)]

PollEmpty(p) ==
    /\ IsNext(p) /\ ~Has(p)
    /\ scan' = scan \ {p}
    /\ UNCHANGED <<buffers, net, losses, state, toRead, out, got, excuses>>

\* Faulty variant: 1 is not positive enough.
InSyncFromTwo(p) == out > 1 => Bi(p) = out

InSync(p) == out > 0 => Bi(p) = out

\* MATLAB's int8 saturates.
Behind(p) == IF out - Bi(p) > W - 1 THEN W - 1 ELSE out - Bi(p)
IsOld(p) == Bi(p) < out /\ Behind(p) < OldWindow

\* Faulty variant: the datagram stays where it is.
DropOldPeeks(p) ==
    /\ IsNext(p) /\ Has(p) /\ ~InSync(p) /\ IsOld(p)
    /\ scan' = scan \ {p}
    /\ UNCHANGED <<buffers, net, losses, state, toRead, out, got, excuses>>

DropOld(p) ==
    /\ IsNext(p) /\ Has(p) /\ ~InSync(p) /\ IsOld(p)
    /\ Consume(p)
    /\ scan' = scan \ {p}
    /\ UNCHANGED <<buffers, losses, state, toRead, out, got, excuses>>

\* "restart others" reads `hudprs', which is not defined: the call ends with an
\* error, and without a result.
RestartOthers(p) ==
    /\ IsNext(p) /\ Has(p) /\ ~InSync(p) /\ ~IsOld(p)
    /\ Consume(p)
    /\ state' = "dead"
    /\ toRead' = {} /\ scan' = {} /\ out' = -1 /\ got' = <<>>
    /\ UNCHANGED <<buffers, losses, excuses>>

\* Faulty variant: the port is read again.
AcceptKeepsPort(p) ==
    /\ IsNext(p) /\ Has(p) /\ InSync(p)
    /\ Consume(p)
    /\ toRead' = IF out = -1 THEN toRead ELSE toRead \ {p}
    /\ scan' = scan \ {p}
    /\ out' = Bi(p)
    /\ got' = Append(got, Head(net[p]))
    /\ UNCHANGED <<buffers, losses, state, excuses>>

Accept(p) ==
    /\ IsNext(p) /\ Has(p) /\ InSync(p)
    /\ Consume(p)
    /\ toRead' = toRead \ {p}
    /\ scan' = scan \ {p}
    /\ out' = Bi(p)
    /\ got' = Append(got, Head(net[p]))
    /\ UNCHANGED <<buffers, losses, state, excuses>>

Return ==
    /\ state = "waiting" /\ scan = {} /\ toRead = {}
    /\ state' = "done" /\ out' = -1
    /\ UNCHANGED <<buffers, net, losses, toRead, scan, got, excuses>>

-----------------------------------------------------------------------------
AddBlock == AddBroken \/ SendDebugBlock
ReceiveBlock ==
    \/ Scan \/ Return
    \/ \E p \in Ports : PollEmpty(p) \/ DropOld(p) \/ RestartOthers(p) \/ Accept(p)

Next == AddBlock \/ Begin \/ ReceiveBlock

\* JACK and ALSA call for blocks for ever, and MATLAB goes on polling.
Spec == Init /\ [][Next]_vars /\ WF_vars(AddBlock) /\ WF_vars(ReceiveBlock)

-----------------------------------------------------------------------------
(* Properties *)

\* Every variable keeps its type.
TypeOK ==
    /\ ring \in [Ports -> RingLengths]
    /\ pos \in [Ports -> Nat] /\ \A p \in Ports : pos[p] \in 0..ring[p] - 1
    /\ index \in [Ports -> Index]
    /\ turn \in Ports /\ cycle \in Cycles
    /\ net \in [Ports -> Seq(Datagram)] /\ losses \in 0..MaxLosses
    /\ state \in {"idle", "waiting", "done", "dead"}
    /\ toRead \subseteq Ports /\ scan \subseteq Ports
    /\ out \in Index \cup {-1} /\ got \in Seq(Datagram)
    /\ excuses \subseteq {"broken", "lost"}

AllRingsAlike == \A p, q \in Ports : ring[p] = ring[q]

\* Nothing has happened yet that may set the buffers' indices apart.
Lossless == excuses \subseteq (IF AllRingsAlike THEN {"broken"} ELSE {})

\* Buffers of the same length and a network that loses nothing: every call of
\* receive_block() returns one block of each buffer, all added in the same
\* cycle, also where the index is not compared; it never has to restart.
LosslessIsAligned ==
    Lossless =>
        /\ state # "dead"
        /\ state = "done" =>
              /\ Len(got) = NumPorts
              /\ \A m, n \in DOMAIN got : got[m].cycle = got[n].cycle

\* Whatever is lost: where the index is compared, the returned blocks were added
\* in the same cycle, or whole rounds of the index apart: lost blocks count, and
\* so do those that sendBlock() refuses.
PositiveIsSameCycle ==
    state = "done" /\ excuses \subseteq {"lost"} /\ got[1].index > 0 =>
        \A n \in DOMAIN got : got[n].cycle = got[1].cycle

\* receive_block() comes to an end, however many old datagrams it finds.
ReceiveEnds == state = "waiting" ~> state # "waiting"

=============================================================================
