----------------------------- MODULE AlsaProofs -----------------------------
(***************************************************************************)
(* Proofs about AlsaStream, for all latencies, periods and buffer sizes    *)
(* and both read modes.                                                    *)
(***************************************************************************)
EXTENDS AlsaStream, TLAPS

-----------------------------------------------------------------------------
(* The inductive invariant *)

Numbers ==
    /\ latency \in Nat /\ last \in Nat /\ base \in Nat
    /\ todo \in Nat /\ missed \in Nat
    /\ avail \in Nat /\ queued \in Nat
    /\ ptr \in [Pair -> Nat]

\* Where the frames are that lie between the two positions: in the rings, or
\* read and not yet written, or left behind by a short read.  While the streams
\* are down nothing is balanced.
Balance ==
    /\ apc \in {"restart", "again", "set", "prefill"} => xrun
    /\ ~xrun /\ missed < LatencyMax =>
          /\ apc \in {"actions", "observers"} => avail + queued = Ring + missed
          /\ apc = "read" => avail + queued = latency + todo + missed
          /\ apc = "buffers" => avail + queued = latency + missed
          /\ apc = "write" => avail + queued + todo = Ring + missed

\* No ring holds more than it has room for, and only short reads leave anything
\* behind.
Rings ==
    /\ ~xrun => avail <= Ring /\ queued <= Ring
    /\ block => missed = 0
    /\ block \in BOOLEAN

\* setparams() begins with the latency that has failed as last_bufsize, and
\* from there on only raises it.
Raised ==
    /\ base <= latency
    /\ apc = "restart" => latency > base
    /\ apc = "again" => last <= latency /\ (latency = base => last = latency)
    /\ apc \in {"set", "prefill", "actions", "read", "buffers", "write", "observers"}
          => latency > base
    /\ apc = "set" => last = latency
    /\ apc \in {"read", "write"} => todo > 0

\* Why playing and recording stay two blocks apart and latencies grow.
IInv == Numbers /\ Balance /\ Rings /\ Raised /\ PairInStep

-----------------------------------------------------------------------------
(* Guarantees beyond those that the runs check *)

\* "playback and capture samples at the exact same moment" (README.md:9) is true
\* of the driver with `block': no read comes up short there, and the distance of
\* the two streams never changes.
SameMomentWhenBlocking == Streaming /\ block => avail + queued = Ring

\* writebuf() is not kept waiting: what readbuf() has taken from one ring is
\* room for the block in the other, unless a read came up short.
WriteFits == apc = "write" /\ ~xrun /\ missed = 0 => queued + todo <= Ring

\* One frame of the device's clock lets a waiting readbuf() or writebuf() go on.
TickServes ==
    [][ Tick /\ apc \in {"read", "write"} =>
            xrun' \/ IF apc = "read" THEN avail' > 0 ELSE queued' < Ring' ]_vars

\* The search for parameters ends: last_bufsize rises in each round, whatever
\* the device answers, and does not pass latency_max.
SearchRises ==
    [][ apc = "again" /\ apc' # "again" =>
            last' > last /\ (apc' = "set" => last' <= LatencyMax) ]_vars

\* Every restart after the warm-up has failed with a longer latency than the one
\* before, so that there are at most latency_max of them.
RestartsRise ==
    [][ apc = "restart" /\ apc' = "again" /\ ~warm =>
            /\ base' > base
            /\ (\A p \in Periods : p <= LatencyMax) => base' <= LatencyMax ]_vars

\* What is left to do for setparams(), and for process() after ~AudioDriverAlsa()
\* has begun.
SearchLeft == 2 * (LatencyMax - last) + (IF apc = "set" THEN 1 ELSE 0)

Distance ==
    CASE apc \in {"ended", "exited"} -> 0
      [] apc = "restart" -> 1
      [] apc = "actions" -> 2
      [] apc = "observers" -> 3
      [] apc = "write" -> 4
      [] apc = "buffers" -> 5
      [] apc = "read" -> 6
      [] apc = "prefill" -> 7
      [] OTHER -> 8

\* Once the driver is being destroyed, each step of the audio thread brings it
\* nearer to its end, and nobody else's takes it away from there: another label,
\* another round of the search, or fewer frames to move.
StopComesNearer ==
    [][ ~running =>
            /\ Audio =>
                  \/ Distance' < Distance
                  \/ Distance' = Distance /\ Distance = 8 /\ SearchLeft' < SearchLeft
                  \/ Distance' = Distance /\ Distance \in {4, 6} /\ todo' < todo
            /\ ~Audio => UNCHANGED <<apc, last, todo>> ]_vars

-----------------------------------------------------------------------------

\* The smaller and the larger of two numbers.
LEMMA Choice ==
    ASSUME NEW m \in Nat, NEW n \in Nat
    PROVE  /\ Smaller(m, n) \in Nat /\ Smaller(m, n) <= m /\ Smaller(m, n) <= n
           /\ Smaller(m, n) \in {m, n}
           /\ Larger(m, n) \in Nat /\ Larger(m, n) >= m /\ Larger(m, n) >= n
BY DEF Smaller, Larger

\* As long as a sum has not reached the longest latency it is not capped.
LEMMA Capped ==
    ASSUME NEW m \in Nat, NEW n \in Nat
    PROVE  /\ Smaller(m + n, LatencyMax) \in 0..LatencyMax
           /\ Smaller(m + n, LatencyMax) < LatencyMax =>
                 m < LatencyMax /\ Smaller(m + n, LatencyMax) = m + n
<1>1. LatencyMax \in Nat /\ LatencyMax > 0
  BY ConstantsAssumption
<1> QED BY <1>1 DEF Smaller

\* The streams are down at the start, and the first latency is positive.
LEMMA InvInit == Init => IInv
<1> SUFFICES ASSUME Init PROVE IInv
  OBVIOUS
<1> USE ConstantsAssumption
<1>1. Numbers
  BY DEF Init, Numbers
<1>2. Balance
  BY DEF Init, Balance
<1>3. Rings
  BY DEF Init, Rings
<1>4. Raised
  BY DEF Init, Raised
<1>5. PairInStep
  BY DEF Init, PairInStep
<1> QED BY <1>1, <1>2, <1>3, <1>4, <1>5 DEF IInv

\* Every step keeps the variables numbers.
LEMMA NumbersStep == Numbers /\ [Next]_vars => Numbers'
<1> SUFFICES ASSUME Numbers, [Next]_vars PROVE Numbers'
  OBVIOUS
<1> USE ConstantsAssumption DEF Numbers
<1>1. ASSUME UNCHANGED <<latency, last, base, todo, missed, avail, queued, ptr>>
      PROVE  Numbers'
  BY <1>1
<1>2. CASE UNCHANGED vars
  BY <1>2, <1>1 DEF vars, setup, device, pair
<1>3. CASE Ends \/ ReadFails \/ WriteFails \/ Observers \/ LoopEnds \/ WarmUpEnds \/ Stop
  BY <1>3, <1>1 DEF Ends, ReadFails, WriteFails, Observers, LoopEnds, WarmUpEnds, Stop,
                    setup, device, pair
<1>4. CASE RestartWarm
  BY <1>4 DEF RestartWarm, device
<1>5. CASE RestartCold
  BY <1>5 DEF RestartCold, device, pair
<1>6. CASE SetParamsAgain
  BY <1>6 DEF SetParamsAgain, device, pair
<1>7. CASE SetParamsSet
  <2>1. PICK p \in Periods, c \in Periods : latency' = Larger(latency, Larger(p, c))
    BY <1>7 DEF SetParamsSet
  <2>2. latency' \in Nat
    BY <2>1 DEF Larger
  <2> QED BY <1>7, <2>2 DEF SetParamsSet, device, pair
<1>8. CASE Prefill
  BY <1>8 DEF Prefill, setup, pair, Ring
<1>9. CASE LoopActions
  <2>1. ptr' \in [Pair -> Nat]
    BY <1>9 DEF LoopActions, pair
  <2> QED BY <1>9, <2>1 DEF LoopActions, setup, device
<1>10. CASE Read
  <2>1. /\ avail' \in Nat /\ todo' \in Nat
    BY <1>10, Choice DEF Read
  <2>2. Smaller(missed + todo', LatencyMax) \in Nat
    BY <2>1, Capped
  <2>3. missed' \in Nat
    BY <1>10, <2>2 DEF Read
  <2> QED BY <1>10, <2>1, <2>3 DEF Read, setup, pair
<1>11. CASE Buffers
  <2>1. ptr' \in [Pair -> Nat]
    BY <1>11 DEF Buffers
  <2> QED BY <1>11, <2>1 DEF Buffers, setup, device
<1>12. CASE Write
  <2>1. Ring - queued \in Nat
    BY <1>12 DEF Write, Ring
  <2>2. Smaller(Ring - queued, todo) \in Nat /\ Smaller(Ring - queued, todo) <= todo
    BY <2>1, Choice
  <2> QED BY <1>12, <2>2 DEF Write, setup, pair
<1>13. CASE Tick
  BY <1>13 DEF Tick, setup, pair
<1> QED BY <1>2, <1>3, <1>4, <1>5, <1>6, <1>7, <1>8, <1>9, <1>10, <1>11, <1>12, <1>13
        DEF Next, Audio

\* No step upsets the balance: what is read, written or passes with time leaves
\* one place for another.
LEMMA BalanceStep == Numbers /\ Balance /\ [Next]_vars => Balance'
<1> SUFFICES ASSUME Numbers, Balance, [Next]_vars PROVE Balance'
  OBVIOUS
<1>n. Numbers'
  BY NumbersStep
<1> USE DEF Numbers, Balance, Goto
<1>1. CASE UNCHANGED vars
  BY <1>1 DEF vars, setup, device, Ring
<1>2. CASE Ends \/ RestartWarm \/ RestartCold \/ SetParamsAgain \/ SetParamsSet
  BY <1>2 DEF Ends, RestartWarm, RestartCold, SetParamsAgain, SetParamsSet, device
<1>3. CASE Prefill
  BY <1>3 DEF Prefill, setup, Ring
<1>4. CASE LoopEnds \/ ReadFails \/ WriteFails
  BY <1>4 DEF LoopEnds, ReadFails, WriteFails, device
<1>5. CASE LoopActions
  BY <1>5 DEF LoopActions, setup, device, Ring
<1>6. CASE Read
  <2>1. PICK n \in Nat : n <= todo /\ avail' = avail - n /\ todo' = todo - n
    BY <1>6, Choice DEF Read
  <2>2. avail' + queued' = avail + queued - n /\ latency' = latency /\ ~xrun
    BY <1>6, <2>1 DEF Read, setup
  <2>3. CASE block /\ todo' > 0
    BY <1>6, <2>1, <2>2, <2>3 DEF Read
  <2>4. CASE ~(block /\ todo' > 0)
    <3>1. apc' = "buffers" /\ missed' = Smaller(missed + todo', LatencyMax)
      BY <1>6, <2>4 DEF Read
    <3>2. missed' < LatencyMax => missed < LatencyMax /\ missed' = missed + todo'
      <4>1. missed \in Nat /\ todo' \in Nat
        BY <1>n
      <4> QED BY <4>1, <3>1, Capped
    <3>3. ~xrun /\ missed < LatencyMax => avail + queued = latency + todo + missed
      BY <1>6 DEF Read
    <3>4. ~xrun' /\ missed' < LatencyMax => avail' + queued' = latency' + missed'
      <4>1. ASSUME missed' < LatencyMax
            PROVE  /\ missed' = missed + todo'
                   /\ avail + queued = latency + todo + missed
        BY <2>2, <3>2, <3>3, <4>1
      <4> QED BY <2>1, <2>2, <4>1
    <3> QED BY <3>1, <3>4
  <2> QED BY <2>3, <2>4
<1>7. CASE Buffers
  BY <1>7 DEF Buffers, setup, device, Ring
<1>8. CASE Write
  <2>1. Ring - queued \in Nat
    BY <1>8 DEF Write, Ring
  <2>2. PICK n \in Nat : n <= todo /\ queued' = queued + n /\ todo' = todo - n
    BY <1>8, <2>1, Choice DEF Write
  <2>3. /\ latency' = latency /\ avail' = avail /\ missed' = missed /\ xrun' = xrun
        /\ apc = "write" /\ (apc' = "write" \/ (apc' = "observers" /\ ~(todo' > 0)))
    BY <1>8 DEF Write, setup
  <2>4. todo' > 0 \/ todo' = 0
    BY <1>n
  <2> QED BY <2>2, <2>3, <2>4 DEF Ring
<1>9. CASE Observers
  BY <1>9 DEF Observers, setup, device, Ring
<1>10. CASE Tick
  BY <1>10 DEF Tick, setup, Ring
<1>11. CASE WarmUpEnds \/ Stop
  BY <1>11 DEF WarmUpEnds, Stop, setup, device, Ring
<1> QED BY <1>1, <1>2, <1>3, <1>4, <1>5, <1>6, <1>7, <1>8, <1>9, <1>10, <1>11
        DEF Next, Audio

\* Frames go where there is room, and with `block' no read is left unfinished.
LEMMA RingsStep == Numbers /\ Balance /\ Rings /\ [Next]_vars => Rings'
<1> SUFFICES ASSUME Numbers, Balance, Rings, [Next]_vars PROVE Rings'
  OBVIOUS
<1>n. Numbers'
  BY NumbersStep
<1> USE DEF Numbers, Rings
<1>1. CASE UNCHANGED vars
  BY <1>1 DEF vars, setup, device, Ring
<1>2. CASE Ends \/ RestartWarm \/ RestartCold \/ SetParamsAgain \/ SetParamsSet
  <2>1. xrun
    BY <1>2 DEF Balance, Ends, RestartWarm, RestartCold, SetParamsAgain, SetParamsSet
  <2>2. UNCHANGED <<block, missed, xrun>>
    BY <1>2 DEF Ends, RestartWarm, RestartCold, SetParamsAgain, SetParamsSet, device
  <2> QED BY <2>1, <2>2
<1>3. CASE Prefill
  BY <1>3 DEF Prefill, setup, Ring
<1>4. CASE LoopEnds \/ LoopActions \/ ReadFails \/ Buffers \/ WriteFails \/ Observers
  BY <1>4 DEF LoopEnds, LoopActions, ReadFails, Buffers, WriteFails, Observers,
              setup, device, Ring
<1>5. CASE Read
  <2>1. PICK n \in Nat : n <= avail /\ avail' = avail - n
    BY <1>5, Choice DEF Read
  <2>2. queued' = queued /\ latency' = latency /\ block' = block /\ ~xrun /\ ~xrun'
    BY <1>5 DEF Read, setup
  <2>3. block => missed' = 0
    <3>1. CASE block /\ todo' > 0
      BY <1>5, <3>1 DEF Read
    <3>2. CASE block /\ ~(todo' > 0)
      <4>1. missed' = Smaller(missed + todo', LatencyMax) /\ missed = 0 /\ todo' = 0
        BY <1>5, <1>n, <3>2 DEF Read
      <4>2. 0 + 0 = 0 /\ Smaller(0, LatencyMax) = 0
        BY ConstantsAssumption DEF Smaller
      <4> QED BY <4>1, <4>2
    <3> QED BY <3>1, <3>2
  <2> QED BY <2>1, <2>2, <2>3 DEF Ring
<1>6. CASE Write
  <2>1. Ring - queued \in Nat
    BY <1>6 DEF Write, Ring
  <2>2. PICK n \in Nat : n <= Ring - queued /\ queued' = queued + n
    BY <1>6, <2>1, Choice DEF Write
  <2>3. /\ latency' = latency /\ avail' = avail /\ missed' = missed /\ xrun' = xrun
        /\ block' = block
    BY <1>6 DEF Write, setup
  <2> QED BY <2>2, <2>3 DEF Ring
<1>7. CASE Tick
  BY <1>7 DEF Tick, setup, Ring
<1>8. CASE WarmUpEnds \/ Stop
  BY <1>8 DEF WarmUpEnds, Stop, setup, device, Ring
<1> QED BY <1>1, <1>2, <1>3, <1>4, <1>5, <1>6, <1>7, <1>8 DEF Next, Audio

\* setparams() only ever raises the latency that it is called with.
LEMMA RaisedStep == Numbers /\ Raised /\ [Next]_vars => Raised'
<1> SUFFICES ASSUME Numbers, Raised, [Next]_vars PROVE Raised'
  OBVIOUS
<1> USE ConstantsAssumption DEF Numbers, Raised, Goto
<1>1. CASE UNCHANGED vars
  BY <1>1 DEF vars, setup
<1>2. CASE Ends \/ LoopEnds
  BY <1>2 DEF Ends, LoopEnds, setup
<1>3. CASE RestartWarm \/ RestartCold
  BY <1>3 DEF RestartWarm, RestartCold
<1>4. CASE SetParamsAgain
  BY <1>4 DEF SetParamsAgain
<1>5. CASE SetParamsSet
  <2>1. PICK p \in Periods, c \in Periods : latency' = Larger(latency, Larger(p, c))
    BY <1>5 DEF SetParamsSet
  <2>2. latency' >= latency /\ latency' \in Nat
    BY <2>1 DEF Larger
  <2>3. /\ base' = base /\ last' = last
        /\ apc = "set" /\ apc' \in {"prefill", "again", "exited"}
    BY <1>5 DEF SetParamsSet
  <2> QED BY <2>2, <2>3
<1>6. CASE Prefill \/ LoopActions \/ ReadFails \/ Buffers \/ WriteFails \/ Observers
  BY <1>6 DEF Prefill, LoopActions, ReadFails, Buffers, WriteFails, Observers, setup
<1>7. CASE Read \/ Write
  <2>1. apc' = apc => todo' > 0
    BY <1>7 DEF Read, Write
  <2>2. /\ UNCHANGED <<latency, last, base>> /\ apc \in {"read", "write"}
        /\ apc' \in {"read", "buffers", "write", "observers"}
        /\ apc' \in {"read", "write"} => apc' = apc
    BY <1>7 DEF Read, Write, setup
  <2> QED BY <2>1, <2>2
<1>8. CASE Tick \/ WarmUpEnds \/ Stop
  BY <1>8 DEF Tick, WarmUpEnds, Stop, setup
<1> QED BY <1>1, <1>2, <1>3, <1>4, <1>5, <1>6, <1>7, <1>8 DEF Next, Audio

\* The two iterators move together or start anew together.
LEMMA PairStep == Numbers /\ PairInStep /\ [Next]_vars => PairInStep'
<1> SUFFICES ASSUME Numbers, PairInStep, [Next]_vars PROVE PairInStep'
  OBVIOUS
<1> USE DEF PairInStep
<1>p. ptr \in [Pair -> Nat] /\ "capture" \in Pair /\ "playback" \in Pair
  BY DEF Numbers, Pair
<1>1. CASE UNCHANGED pair
  BY <1>1 DEF pair
<1>2. CASE RestartWarm
  BY <1>2, <1>p DEF RestartWarm
<1>3. CASE LoopActions
  BY <1>3, <1>p DEF LoopActions, pair
<1>4. CASE Buffers
  BY <1>4, <1>p DEF Buffers
<1>5. CASE UNCHANGED vars \/ (Next /\ ~RestartWarm /\ ~LoopActions /\ ~Buffers)
  <2>1. UNCHANGED pair
    BY <1>5 DEF vars, Next, Audio, Ends, RestartCold, SetParamsAgain, SetParamsSet,
                Prefill, LoopEnds, ReadFails, Read, WriteFails, Write, Observers,
                Tick, WarmUpEnds, Stop
  <2> QED BY <2>1, <1>1
<1> QED BY <1>2, <1>3, <1>4, <1>5

\* The search ends when it passes latency_max, and an answer of the device does
\* not pass it.
LEMMA FitsStep == Numbers /\ BlockFitsBuffers /\ [Next]_vars => BlockFitsBuffers'
<1> SUFFICES ASSUME Numbers, BlockFitsBuffers, [Next]_vars,
                    \A p \in Periods : p <= LatencyMax
             PROVE  apc' # "ended" => latency' <= LatencyMax
  BY DEF BlockFitsBuffers
<1> USE ConstantsAssumption DEF Numbers, Goto
<1>f. apc # "ended" => latency <= LatencyMax
  BY DEF BlockFitsBuffers
<1>1. CASE UNCHANGED <<latency, apc>>
  BY <1>1, <1>f
<1>2. CASE UNCHANGED vars \/ Tick \/ WarmUpEnds \/ Stop
  BY <1>2, <1>1 DEF vars, setup, Tick, WarmUpEnds, Stop
<1>3. CASE Ends \/ SetParamsAgain
  BY <1>3 DEF Ends, SetParamsAgain
<1>4. CASE RestartWarm
  BY <1>4 DEF RestartWarm
<1>5. CASE RestartCold
  BY <1>5, <1>f DEF RestartCold
<1>6. CASE SetParamsSet
  <2>1. PICK p \in Periods, c \in Periods : latency' = Larger(latency, Larger(p, c))
    BY <1>6 DEF SetParamsSet
  <2>2. latency <= LatencyMax /\ p <= LatencyMax /\ c <= LatencyMax
    BY <1>6, <1>f DEF SetParamsSet
  <2> QED BY <2>1, <2>2 DEF Larger
<1>7. CASE Prefill \/ LoopEnds \/ LoopActions \/ ReadFails \/ Buffers
  BY <1>7, <1>f DEF Prefill, LoopEnds, LoopActions, ReadFails, Buffers, setup
<1>8. CASE Read \/ WriteFails \/ Write \/ Observers
  BY <1>8, <1>f DEF Read, WriteFails, Write, Observers, setup
<1> QED BY <1>2, <1>3, <1>4, <1>5, <1>6, <1>7, <1>8 DEF Next, Audio

\* Playing and recording, the latency and the pair of buffers, whatever the
\* device and the clients do.
THEOREM InvCorrect == Spec => []IInv
<1>1. IInv /\ [Next]_vars => IInv'
  BY NumbersStep, BalanceStep, RingsStep, RaisedStep, PairStep DEF IInv
<1> QED BY InvInit, <1>1, PTL DEF Spec

\* Every variable keeps its type, for a device with periods up to latency_max:
\* then no ring holds more than two blocks of that length.
LEMMA TypeStep ==
    ASSUME IInv, BlockFitsBuffers, \A p \in Periods : p <= LatencyMax,
           TypeOK, [Next]_vars
    PROVE  TypeOK'
<1>n. Numbers /\ Rings /\ Numbers'
  BY NumbersStep DEF IInv
<1>f. apc # "ended" => latency <= LatencyMax
  BY DEF BlockFitsBuffers
<1>m. LatencyMax \in Nat /\ Size \in Nat \ {0}
  BY ConstantsAssumption
<1>t. /\ latency \in Nat /\ todo \in Nat /\ missed \in Nat /\ avail \in Nat /\ queued \in Nat
      /\ todo <= LatencyMax /\ missed <= LatencyMax
      /\ avail <= 2 * LatencyMax /\ queued <= 2 * LatencyMax
  BY <1>n DEF TypeOK, Numbers
<1>1. apc' \in Labels
  BY DEF TypeOK, Labels, Goto, Next, Audio, Ends, RestartWarm, RestartCold, SetParamsAgain,
         SetParamsSet, Prefill, LoopEnds, LoopActions, ReadFails, Read, Buffers, WriteFails,
         Write, Observers, Tick, WarmUpEnds, Stop, vars
<1>2. /\ running' \in BOOLEAN /\ block' \in BOOLEAN /\ warm' \in BOOLEAN
      /\ restart' \in BOOLEAN /\ xrun' \in BOOLEAN
  BY DEF TypeOK, Next, Audio, Ends, RestartWarm, RestartCold, SetParamsAgain,
         SetParamsSet, Prefill, LoopEnds, LoopActions, ReadFails, Read, Buffers, WriteFails,
         Write, Observers, Tick, WarmUpEnds, Stop, vars, device
<1>3. added' \in BOOLEAN /\ observed' \subseteq Pair
  BY DEF TypeOK, Next, Audio, Ends, RestartWarm, RestartCold, SetParamsAgain,
         SetParamsSet, Prefill, LoopEnds, LoopActions, ReadFails, Read, Buffers, WriteFails,
         Write, Observers, Tick, WarmUpEnds, Stop, vars, pair
<1>4. ptr' \in [Pair -> 0..Size - 1]
  <2>0. ptr \in [Pair -> 0..Size - 1] /\ 0 \in 0..Size - 1
    BY <1>m DEF TypeOK
  <2>1. CASE Buffers
    <3>1. \A b \in Pair : (ptr[b] + latency) % Size \in 0..Size - 1
      BY <2>0, <1>n, <1>m DEF Numbers
    <3> QED BY <2>0, <2>1, <3>1 DEF Buffers
  <2>2. CASE RestartWarm
    BY <2>0, <2>2 DEF RestartWarm
  <2>3. CASE LoopActions
    BY <2>0, <2>3 DEF LoopActions, pair
  <2>4. CASE ~Buffers /\ ~RestartWarm /\ ~LoopActions
    BY <2>0, <2>4 DEF Next, Audio, Ends, RestartCold, SetParamsAgain, SetParamsSet,
        Prefill, LoopEnds, ReadFails, Read, WriteFails, Write, Observers, Tick, WarmUpEnds,
        Stop, vars, pair
  <2> QED BY <2>1, <2>2, <2>3, <2>4
<1>5. todo' <= LatencyMax
  <2>1. CASE LoopActions \/ Buffers
    BY <1>f, <2>1 DEF LoopActions, Buffers
  <2>2. CASE Read
    <3>1. PICK n \in Nat : n <= todo /\ todo' = todo - n
      BY <1>t, <2>2, Choice DEF Read
    <3> QED BY <1>t, <1>m, <3>1
  <2>3. CASE Write
    <3>1. Ring - queued \in Nat
      BY <1>t, <2>3 DEF Write, Ring
    <3>2. PICK n \in Nat : n <= todo /\ todo' = todo - n
      BY <1>t, <2>3, <3>1, Choice DEF Write
    <3> QED BY <1>t, <1>m, <3>2
  <2>4. CASE ~LoopActions /\ ~Buffers /\ ~Read /\ ~Write
    BY <2>4 DEF TypeOK, Next, Audio, Ends, RestartWarm, RestartCold, SetParamsAgain,
        SetParamsSet, Prefill, LoopEnds, ReadFails, WriteFails, Observers, Tick, WarmUpEnds,
        Stop, vars
  <2> QED BY <2>1, <2>2, <2>3, <2>4
<1>6. missed' <= LatencyMax
  <2>1. CASE Read
    <3>1. missed' = missed \/ missed' = Smaller(missed + todo', LatencyMax)
      BY <2>1 DEF Read
    <3>2. missed \in Nat /\ todo' \in Nat
      BY <1>n DEF Numbers
    <3>3. Smaller(missed + todo', LatencyMax) \in 0..LatencyMax
      BY <3>2, Capped
    <3> QED BY <1>t, <1>m, <3>1, <3>3
  <2>2. CASE ~Read
    BY <1>m, <2>2 DEF TypeOK, Next, Audio, Ends, RestartWarm, RestartCold, SetParamsAgain,
        SetParamsSet, Prefill, LoopEnds, LoopActions, ReadFails, Buffers, WriteFails, Write,
        Observers, Tick, WarmUpEnds, Stop, vars
  <2> QED BY <2>1, <2>2
<1>7. avail' <= 2 * LatencyMax /\ queued' <= 2 * LatencyMax
  <2>0. avail <= 2 * LatencyMax /\ queued <= 2 * LatencyMax
    BY DEF TypeOK
  <2>1. CASE Prefill
    BY <1>n, <1>m, <1>f, <2>1 DEF Prefill, Ring, Numbers
  <2>2. CASE Read
    BY <1>n, <1>m, <2>0, <2>2, Choice DEF Read, Numbers
  <2>3. CASE Write
    <3>1. Ring - queued \in Nat /\ Ring <= 2 * LatencyMax
      BY <1>t, <1>m, <1>f, <2>3 DEF Write, Ring
    <3>2. PICK n \in Nat : n <= Ring - queued /\ queued' = queued + n
      BY <1>t, <2>3, <3>1, Choice DEF Write
    <3>3. avail' = avail /\ Ring \in Nat
      BY <1>t, <2>3 DEF Write, Ring
    <3> QED BY <1>t, <1>m, <3>1, <3>2, <3>3
  <2>4. CASE Tick
    BY <1>n, <1>m, <1>f, <2>0, <2>4 DEF Tick, Numbers, Rings, Ring
  <2>5. CASE ~Prefill /\ ~Read /\ ~Write /\ ~Tick
    BY <2>0, <2>5 DEF Next, Audio, Ends, RestartWarm, RestartCold, SetParamsAgain,
        SetParamsSet, LoopEnds, LoopActions, ReadFails, Buffers, WriteFails, Observers,
        WarmUpEnds, Stop, vars, device
  <2> QED BY <2>1, <2>2, <2>3, <2>4, <2>5
<1> QED BY <1>n, <1>m, <1>1, <1>2, <1>3, <1>4, <1>5, <1>6, <1>7 DEF TypeOK, Numbers

-----------------------------------------------------------------------------
(* The guarantees *)

\* Between two blocks the positions of the two streams are two blocks apart, and
\* what short reads have left behind, after any number of restarts.
THEOREM RoundTripTheorem == Spec => []RoundTrip
<1>1. IInv => RoundTrip
  BY DEF IInv, Balance, RoundTrip, Streaming
<1> QED BY InvCorrect, <1>1, PTL

\* A capture and a playback buffer of one Request are at the same position at
\* all times, if both are observed or none is.
THEOREM PairTheorem == Spec => []PairInStep
<1>1. IInv => PairInStep
  BY DEF IInv
<1> QED BY InvCorrect, <1>1, PTL

\* Once the warm-up is over, setparams() never comes back with a latency that
\* has failed before.
THEOREM LatencyTheorem == Spec => []LatencyGrows
<1>1. IInv => LatencyGrows
  BY DEF IInv, Raised, LatencyGrows
<1> QED BY InvCorrect, <1>1, PTL

\* No block is longer than the buffers of process(), for any range of latencies
\* and any device with periods within it.
THEOREM FitsTheorem == Spec => []BlockFitsBuffers
<1>1. Init => BlockFitsBuffers
  BY ConstantsAssumption DEF Init, BlockFitsBuffers
<1>2. IInv => Numbers
  BY DEF IInv
<1>3. Numbers /\ BlockFitsBuffers /\ [Next]_vars => BlockFitsBuffers'
  BY FitsStep
<1> QED BY InvCorrect, <1>1, <1>2, <1>3, PTL DEF Spec

\* With `block' every sample is recorded exactly two blocks after it is played.
THEOREM BlockingTheorem == Spec => []SameMomentWhenBlocking
<1>1. IInv => SameMomentWhenBlocking
  <2>1. 0 < LatencyMax
    BY ConstantsAssumption
  <2> QED BY <2>1 DEF IInv, Numbers, Balance, Rings, SameMomentWhenBlocking, Streaming, Ring
<1> QED BY InvCorrect, <1>1, PTL

\* There is room for what is left of the block when writebuf() gets to it.
THEOREM WriteTheorem == Spec => []WriteFits
<1>1. IInv => WriteFits
  <2>1. 0 < LatencyMax
    BY ConstantsAssumption
  <2> QED BY <2>1 DEF IInv, Numbers, Balance, WriteFits, Ring
<1> QED BY InvCorrect, <1>1, PTL

\* A thread that waits for the device waits for one frame at most.
THEOREM TickTheorem == Spec => TickServes
<1>1. IInv /\ Tick /\ apc \in {"read", "write"} =>
         xrun' \/ IF apc = "read" THEN avail' > 0 ELSE queued' < Ring'
  BY DEF IInv, Numbers, Rings, Tick, setup, Ring
<1> QED BY <1>1, InvCorrect, PTL DEF Spec, TickServes

\* The search of setparams() comes to an end for any device.
THEOREM SearchTheorem == Spec => SearchRises
<1>1. IInv /\ [Next]_vars /\ apc = "again" /\ apc' # "again" =>
         last' > last /\ (apc' = "set" => last' <= LatencyMax)
  <2> SUFFICES ASSUME IInv, [Next]_vars, apc = "again", apc' # "again"
               PROVE  last' > last /\ (apc' = "set" => last' <= LatencyMax)
    OBVIOUS
  <2>1. SetParamsAgain
    BY DEF Next, Audio, Ends, RestartWarm, RestartCold, SetParamsSet, Prefill,
           LoopEnds, LoopActions, ReadFails, Read, Buffers, WriteFails, Write, Observers,
           Tick, WarmUpEnds, Stop, vars
  <2>2. last <= latency /\ last \in Nat /\ latency \in Nat
    BY DEF IInv, Numbers, Raised
  <2> QED BY <2>1, <2>2, ConstantsAssumption DEF SetParamsAgain, Goto
<1> QED BY <1>1, InvCorrect, PTL DEF Spec, SearchRises

\* After the warm-up the latencies that fail get longer and longer, and for a
\* device with periods up to latency_max none is longer than that.
THEOREM RestartsTheorem == Spec => RestartsRise
<1>1. IInv /\ BlockFitsBuffers /\ [Next]_vars /\ apc = "restart" /\ apc' = "again" /\ ~warm =>
         /\ base' > base
         /\ (\A p \in Periods : p <= LatencyMax) => base' <= LatencyMax
  <2> SUFFICES ASSUME IInv, BlockFitsBuffers, [Next]_vars,
                      apc = "restart", apc' = "again", ~warm
               PROVE  /\ base' > base
                      /\ (\A p \in Periods : p <= LatencyMax) => base' <= LatencyMax
    OBVIOUS
  <2>1. RestartCold
    BY DEF Next, Audio, Ends, RestartWarm, SetParamsAgain, SetParamsSet, Prefill,
           LoopEnds, LoopActions, ReadFails, Read, Buffers, WriteFails, Write, Observers,
           Tick, WarmUpEnds, Stop, vars, Goto
  <2> QED BY <2>1 DEF RestartCold, IInv, Raised, BlockFitsBuffers
<1> QED BY <1>1, InvCorrect, FitsTheorem, PTL DEF Spec, RestartsRise

\* The way of process() to its end after ~AudioDriverAlsa() has begun.
LEMMA StopStep ==
    ASSUME IInv, [Next]_vars, ~running
    PROVE  /\ Audio =>
                 \/ Distance' < Distance
                 \/ Distance' = Distance /\ Distance = 8 /\ SearchLeft' < SearchLeft
                 \/ Distance' = Distance /\ Distance \in {4, 6} /\ todo' < todo
           /\ ~Audio => UNCHANGED <<apc, last, todo>>
<1> USE DEF Goto
<1>n. Numbers /\ Raised /\ Rings
  BY DEF IInv
<1>2. CASE Ends
  BY <1>2 DEF Ends, Distance, Audio
<1>3. ~RestartWarm /\ ~RestartCold /\ ~LoopActions
  BY DEF RestartWarm, RestartCold, LoopActions
<1>4. CASE SetParamsAgain
  <2>1. last' > last /\ last' \in Nat /\ last \in Nat /\ LatencyMax \in Nat
    BY <1>4, <1>n, ConstantsAssumption DEF SetParamsAgain, Numbers, Raised
  <2>2. apc = "again" /\ apc' \in {"ended", "set"}
    BY <1>4 DEF SetParamsAgain
  <2> QED BY <1>4, <2>1, <2>2 DEF Distance, SearchLeft, Audio
<1>5. CASE SetParamsSet
  <2>1. last' = last /\ last \in Nat /\ LatencyMax \in Nat
    BY <1>5, <1>n, ConstantsAssumption DEF SetParamsSet, Numbers
  <2>2. apc = "set" /\ apc' \in {"prefill", "again", "exited"}
    BY <1>5 DEF SetParamsSet
  <2> QED BY <1>5, <2>1, <2>2 DEF Distance, SearchLeft, Audio
<1>6. CASE Prefill \/ LoopEnds \/ ReadFails \/ Buffers \/ WriteFails \/ Observers
  <2>1. \/ apc = "prefill" /\ apc' = "actions"
        \/ apc = "actions" /\ apc' = "restart"
        \/ apc = "read" /\ apc' = "buffers"
        \/ apc = "buffers" /\ apc' = "write"
        \/ apc = "write" /\ apc' = "observers"
        \/ apc = "observers" /\ apc' = "actions"
    BY <1>6 DEF Prefill, LoopEnds, ReadFails, Buffers, WriteFails, Observers
  <2> QED BY <1>6, <2>1 DEF Distance, Audio
<1>7. CASE Read
  <2>1. avail > 0 /\ todo > 0 /\ avail \in Nat /\ todo \in Nat
    BY <1>7, <1>n DEF Read, Numbers, Raised
  <2>2. todo' < todo
    BY <1>7, <2>1 DEF Read, Smaller
  <2>3. apc = "read" /\ apc' \in {"read", "buffers"}
    BY <1>7 DEF Read
  <2> QED BY <1>7, <2>2, <2>3 DEF Distance, Audio
<1>8. CASE Write
  <2>1. queued < Ring /\ todo > 0 /\ queued \in Nat /\ todo \in Nat /\ Ring \in Nat
    BY <1>8, <1>n DEF Write, Numbers, Raised, Ring
  <2>2. todo' < todo
    BY <1>8, <2>1 DEF Write, Smaller
  <2>3. apc = "write" /\ apc' \in {"write", "observers"}
    BY <1>8 DEF Write
  <2> QED BY <1>8, <2>2, <2>3 DEF Distance, Audio
<1>9. CASE ~Audio
  BY <1>9 DEF Next, Tick, WarmUpEnds, Stop, vars, setup
<1> QED BY <1>2, <1>3, <1>4, <1>5, <1>6, <1>7, <1>8, <1>9 DEF Audio

\* Nothing but the device's clock can keep the thread from ending, and that,
\* by TickTheorem, for one frame at a time.
THEOREM StopTheorem == Spec => StopComesNearer
BY StopStep, InvCorrect, PTL DEF Spec, StopComesNearer

\* Every variable keeps its type, and no ring or block is longer than the buffers
\* that are allocated for latency_max.
THEOREM TypeCorrect ==
    ASSUME \A p \in Periods : p <= LatencyMax
    PROVE  Spec => []TypeOK
<1>1. Init => TypeOK
  <2>1. /\ LatencyMin - Grain \in Nat /\ 0 \in 0..LatencyMax /\ 0 \in 0..2 * LatencyMax
        /\ 0 \in 0..Size - 1
    BY ConstantsAssumption
  <2>2. Blocking \subseteq BOOLEAN
    BY ConstantsAssumption
  <2> SUFFICES ASSUME Init PROVE TypeOK
    OBVIOUS
  <2>3. /\ latency \in Nat /\ last \in Nat /\ base \in Nat
        /\ todo \in 0..LatencyMax /\ missed \in 0..LatencyMax
        /\ avail \in 0..2 * LatencyMax /\ queued \in 0..2 * LatencyMax
    BY <2>1 DEF Init
  <2>4. /\ running \in BOOLEAN /\ block \in BOOLEAN /\ warm \in BOOLEAN
        /\ restart \in BOOLEAN /\ xrun \in BOOLEAN /\ added \in BOOLEAN
    BY <2>2 DEF Init
  <2>5. apc \in Labels /\ observed \subseteq Pair /\ ptr \in [Pair -> 0..Size - 1]
    BY <2>1 DEF Init, Labels
  <2> QED BY <2>3, <2>4, <2>5 DEF TypeOK
<1>2. IInv /\ BlockFitsBuffers /\ TypeOK /\ [Next]_vars => TypeOK'
  BY TypeStep
<1> QED BY <1>1, <1>2, InvCorrect, FitsTheorem, PTL DEF Spec
=============================================================================
