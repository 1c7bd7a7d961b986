---------------------------- MODULE SignalRing -----------------------------
(***************************************************************************)
(* A SignalBuffer (signal_buffer.h).  One that records has a block added   *)
(* to every channel in turn by the driver, and is staged by an observer's  *)
(* commit() between two blocks; one that plays was made from samples and   *)
(* has blocks got from it.  resetIterator() rewinds either.  All of it     *)
(* runs in the audio thread.                                               *)
(*                                                                         *)
(* A sample is abstracted to the channel and the frame it was recorded in, *)
(* or has in the samples to play, so that the properties can say which     *)
(* sample is where.  The two overloads of addBlock() differ in where they  *)
(* take the samples from: JACK hands over one float block per channel,     *)
(* ALSA one block of interleaved 16-bit samples and a converter.  Those of *)
(* getBlock() put the same samples in the same frames.  A preprocessor     *)
(* works on a block in place and is taken not to change which frame a      *)
(* sample is from.  The debug receiver is not attached here.               *)
(***************************************************************************)
EXTENDS Integers

CONSTANTS Shapes,     \* buffers to consider: records of the fields below
          Lengths,    \* block lengths (nframes, ALSA's latency) a driver may use
          MaxFrames   \* bound: frames recorded or played

\* size, delay, channels: as in the constructor; converted: filled by the
\* overload with a converter; filtered: setStreamPreprocessor() was called;
\* plays: made from samples (the constructors that take some leave delay and
\* m_timeStage out).
ASSUME ConstantsAssumption ==
    /\ Shapes \subseteq [size : Nat \ {0}, delay : Nat, channels : Nat \ {0},
                         converted : BOOLEAN, filtered : BOOLEAN, plays : BOOLEAN]
    /\ \A s \in Shapes : s.plays => s.delay = 0 /\ ~s.filtered
    /\ Lengths \subseteq Nat \ {0}
    /\ MaxFrames \in Nat

VARIABLES shape,    \* the buffer
          lens,     \* the block lengths its driver uses
          ptr,      \* m_timeQueuePointer
          queue,    \* m_timeQueue: what each float holds
          stage,    \* m_timeStage: stage[c][i], or <<>> before the first stage()
          out,      \* out[c][i]: sample i of the block got from channel c
          past,     \* past[c]: prevBlock of the channel's SignalProcessor
          frames,   \* frames recorded or played (whole blocks)
          fresh,    \* those since resetIterator()
          chan,     \* the channel the driver's loop is at
          len,      \* length of the block in progress, 0 between blocks
          dead      \* addBlock() or getBlock() has thrown

vars == <<shape, lens, ptr, queue, stage, out, past, frames, fresh, chan, len, dead>>

Cycle == shape.size + shape.delay
Channels == 0..shape.channels - 1
Addresses == 0..shape.channels * Cycle - 1

Sample(c, f) == [channel |-> c, frame |-> f]
Silence == [channel |-> -1, frame |-> -1]
Garbage == [channel |-> -2, frame |-> -2]

\* Faulty variant: channels one cell too close.
BaseTooClose(c) == (shape.size - 1) * c

\* getPtrTQ(c), as an index of m_timeQueue
Base(c) == shape.size * c

\* The cell of channel c that a pointer value p, taken round, stands for.
Place(c, p) == Base(c) + (p % Cycle)

\* m_timeQueuePointer += length; ... % (size + delay)
NextPtr(p, n) == (p + n) % Cycle

Init ==
    /\ shape \in Shapes
    /\ lens \in SUBSET Lengths \ {{}}
    /\ ptr = 0
    /\ queue = [a \in Addresses |-> IF shape.plays
                                    THEN Sample(a \div shape.size, a % shape.size)
                                    ELSE Silence]
    /\ stage = <<>>
    /\ out = [c \in Channels |-> <<>>]
    /\ past = [c \in Channels |-> [i \in 0..shape.size - 1 |-> Silence]]
    /\ frames = 0 /\ fresh = 0
    /\ chan = 0 /\ len = 0
    /\ dead = FALSE

-----------------------------------------------------------------------------
(* Adding a block, getting a block *)

\* The driver has the next block of n frames.
StartBlock ==
    /\ ~dead /\ len = 0
    /\ \E n \in lens : n <= shape.size /\ frames + n <= MaxFrames /\ len' = n
    /\ chan' = 0
    /\ UNCHANGED <<shape, lens, ptr, queue, stage, out, past, frames, fresh, dead>>

\* "Invalid block size!": the first channel's addBlock() or getBlock() refuses
\* a block that is longer than the buffer, before anything is copied.
BlockTooLong ==
    /\ ~dead /\ len = 0
    /\ \E n \in lens : n > shape.size /\ frames + n <= MaxFrames
    /\ dead' = TRUE
    /\ UNCHANGED <<shape, lens, ptr, queue, stage, out, past, frames, fresh, chan, len>>

\* Faulty variant: the last cell is not used.
UntilLast == Cycle - ptr - 1

UntilEnd == Cycle - ptr
Breaks == len > UntilEnd

\* The converter's second call starts at srcBlock + untilEnd, in bytes: that is
\* half as many 16-bit samples further on in the interleaved block.
Interleaved(c, i) ==
    IF Breaks /\ i >= UntilEnd
    THEN LET w == (c + (UntilEnd \div 2)) + ((i - UntilEnd) * shape.channels)
         IN  IF UntilEnd % 2 = 1 THEN Garbage
             ELSE Sample(w % shape.channels, frames + (w \div shape.channels))
    ELSE Sample(c, frames + i)

\* Sample i of the block that is copied to channel c.
Source(c, i) == IF shape.converted THEN Interleaved(c, i) ELSE Sample(c, frames + i)

\* Faulty variant: no wrap-around.
CopiedStraight(c) ==
    [a \in Addresses |->
        IF a - Base(c) - ptr \in 0..len - 1 THEN Source(c, a - Base(c) - ptr) ELSE queue[a]]

\* The block goes to the pointer and on, in two operations if it passes the end.
Copied(c) ==
    [a \in Addresses |->
        IF \E i \in 0..len - 1 : a = Place(c, ptr + i)
        THEN Source(c, CHOOSE i \in 0..len - 1 : a = Place(c, ptr + i))
        ELSE queue[a]]

\* "Unsupported setup: stream preprocess can only be used ..."
Unsupported ==
    shape.filtered /\ \/ Breaks
                      \/ shape.size - ((ptr + (shape.size - len)) % shape.size) < len

\* Faulty variant: prevBlock keeps what it was cleared to.
RememberedNever(c) == past

\* SignalProcessor::Process() remembers the raw block for the next call.
Remembered(c) ==
    [past EXCEPT ![c] = [i \in DOMAIN past[c] |->
                            IF i < len THEN Source(c, i) ELSE past[c][i]]]

AddBlock(c) ==
    /\ len > 0 /\ chan = c
    /\ ~dead /\ ~shape.plays
    /\ queue' = Copied(c)
    /\ IF Unsupported
       THEN /\ dead' = TRUE
            /\ UNCHANGED <<ptr, past, frames, fresh, chan, len>>
       ELSE /\ past' = IF shape.filtered THEN Remembered(c) ELSE past
            /\ IF c = shape.channels - 1
               THEN /\ ptr' = NextPtr(ptr, len)
                    /\ frames' = frames + len
                    /\ fresh' = fresh + len
                    /\ chan' = 0 /\ len' = 0
               ELSE /\ chan' = c + 1
                    /\ UNCHANGED <<ptr, frames, fresh, len>>
            /\ UNCHANGED dead
    /\ UNCHANGED <<shape, lens, stage, out>>

\* Faulty variant: the next block starts at the beginning of the samples.
NextPlayRestarts(p, n) == IF p + n >= shape.size THEN 0 ELSE p + n

\* m_timeQueuePointer += length; ... % size
NextPlay(p, n) == (p + n) % shape.size

\* getBlock(), either overload: from the pointer on, in two operations if the
\* block passes the end.
GetBlock(c) ==
    /\ len > 0 /\ chan = c
    /\ shape.plays
    /\ LET untilEnd == shape.size - ptr
       IN  out' = [out EXCEPT ![c] = [i \in 0..len - 1 |->
                       queue[Base(c) + IF i < untilEnd THEN ptr + i ELSE i - untilEnd]]]
    /\ IF c = shape.channels - 1
       THEN /\ ptr' = NextPlay(ptr, len)
            /\ frames' = frames + len /\ fresh' = fresh + len
            /\ chan' = 0 /\ len' = 0
       ELSE /\ chan' = c + 1
            /\ UNCHANGED <<ptr, frames, fresh, len>>
    /\ UNCHANGED <<shape, lens, queue, stage, past, dead>>

-----------------------------------------------------------------------------
(* Between two blocks *)

\* A read outside of m_timeQueue returns anything.
At(a) == IF a \in Addresses THEN queue[a] ELSE Garbage

ReadFrom == (shape.size + ptr) % Cycle
ReadEnd == (ReadFrom + shape.size) % Cycle

\* Faulty variant: stage() starts at the pointer.
StagedFromPtr(c) ==
    [i \in 0..shape.size - 1 |-> At(Place(c, ptr + i))]

\* stage(), for one channel: one copy, or two if the window passes the end.
Staged(c) ==
    [i \in 0..shape.size - 1 |->
        IF ReadEnd >= ReadFrom \/ i < Cycle - ReadFrom
        THEN At(Base(c) + ReadFrom + i)
        ELSE At(Base(c) + i - (Cycle - ReadFrom))]

\* commit() calls it once more than updateInterval = size frames have passed
\* since the buffer was added together with its observer.
Stage ==
    /\ ~dead /\ ~shape.plays /\ len = 0
    /\ frames > shape.size
    /\ stage' = [c \in Channels |-> Staged(c)]
    /\ UNCHANGED <<shape, lens, ptr, queue, out, past, frames, fresh, chan, len, dead>>

\* resetIterator(): addSignal(), or ALSA after an xrun.
Reset ==
    /\ ~dead /\ len = 0
    /\ ptr' = 0
    /\ fresh' = 0
    /\ UNCHANGED <<shape, lens, queue, stage, out, past, frames, chan, len, dead>>

Next == \/ StartBlock \/ BlockTooLong \/ Stage \/ Reset
        \/ \E c \in Channels : AddBlock(c) \/ GetBlock(c)

Spec == Init /\ [][Next]_vars

-----------------------------------------------------------------------------
(* Properties *)

Cell == [channel : Int, frame : Int]

\* Every variable keeps its type; the pointer stays inside the ring.
TypeOK ==
    /\ shape \in Shapes /\ lens \subseteq Lengths
    /\ ptr \in 0..Cycle - 1
    /\ queue \in [Addresses -> Cell]
    /\ past \in [Channels -> [0..shape.size - 1 -> Cell]]
    /\ frames \in Nat /\ fresh \in 0..frames
    /\ \A c \in Channels : \E n \in 0..shape.size : out[c] \in [0..n - 1 -> Cell]
    /\ chan \in Channels /\ len \in {0} \cup (lens \cap 1..shape.size)
    /\ dead \in BOOLEAN

Fixed(n) == lens = {n}

\* Channels are `size' apart but `size + delay' long, so with a delay only a
\* single channel has its ring to itself.  The converter's second copy takes
\* the wrong samples, so an interleaved block must never pass the end.
Sound == /\ ~shape.plays
         /\ shape.delay = 0 \/ shape.channels = 1
         /\ shape.converted => \E n \in lens : Fixed(n) /\ Cycle % n = 0

\* Between two blocks, the last frames recorded since the rewind are in the
\* ring, in order, newest just before the pointer, each channel in its own.
RingHoldsLatest ==
    Sound /\ len = 0 /\ ~dead =>
        \A c \in Channels : \A k \in 1..Cycle :
            k <= fresh => queue[Place(c, ptr - k)] = Sample(c, frames - k)

\* stage() copies `size' consecutive frames of each channel: with a delay of at
\* least one window, those that end delay - size frames ago; without a delay,
\* the newest, provided that the pointer is at 0.
StageIsWindow ==
    [][ Stage /\ Sound /\ fresh >= Cycle
            /\ (shape.delay >= shape.size \/ (shape.delay = 0 /\ ptr = 0))
        => LET lag == IF shape.delay = 0 THEN 0 ELSE shape.delay - shape.size
           IN  \A c \in Channels : \A k \in 1..shape.size :
                   stage'[c][shape.size - k] = Sample(c, frames - lag - k) ]_vars

\* "stream preprocess can only be used with signal buffers having a multiple
\* block size length": with such a buffer addBlock() never throws, for this or
\* any other reason.
MultipleNeverThrows ==
    (\E n \in lens : Fixed(n) /\ shape.size % n = 0 /\ shape.delay % n = 0) => ~dead

\* A preprocessor is called with the block that precedes the current one, as
\* long as the driver does not change its block length.
PreprocessorSeesPast ==
    [][ \A c \in Channels :
            AddBlock(c) /\ shape.filtered /\ ~dead' /\ Sound /\ Fixed(len) /\ frames > 0
            => \A i \in 0..len - 1 : past[c][i] = Sample(c, frames - len + i) ]_vars

\* A buffer is played over and over without a gap, from where it was rewound:
\* when a block is complete, it is on every channel the last len frames of the
\* loop so far.
PlaysInLoop ==
    [][ \A c \in Channels :
            GetBlock(c) /\ len' = 0
            => \A d \in Channels : \A i \in 0..len - 1 :
                   out'[d][i] = Sample(d, (fresh + i) % shape.size) ]_vars

\* "wrap around: need to copy in two ops" (signal_buffer.h:133): whatever is
\* copied out of the ring for a channel is from that channel.  It does not hold
\* for stage(): without a delay it copies the window in one operation.
StageStaysInChannel ==
    stage # <<>> => \A c \in Channels : \A i \in 0..shape.size - 1 :
                        stage[c][i].channel \in {c, -1}
=============================================================================
