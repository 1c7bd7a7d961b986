----------------------------- MODULE AlsaStream -----------------------------
(***************************************************************************)
(* The audio thread of the ALSA driver: AudioDriverAlsa::process() with    *)
(* setparams(), readbuf() and writebuf() (audio_driver_alsa.cpp).          *)
(*                                                                         *)
(* setparams() looks for the smallest block length that both streams       *)
(* accept, two blocks of silence are queued, and the linked streams start  *)
(* together.  Then, block by block, the thread reads, lets the signal      *)
(* buffers take and give their samples, and writes.  An xrun drops the     *)
(* streams and starts all over; during the first seconds with the shortest *)
(* latency, afterwards with a longer one each time.                        *)
(*                                                                         *)
(* The device is external: one clock drives both streams, Tick is one      *)
(* frame of it.  Each stream has room for two blocks, and both stop for    *)
(* good once the capture ring is full or the playback ring is empty.       *)
(*                                                                         *)
(* Of the signal buffers there is one pair, a capture and a playback       *)
(* buffer of the same size, added by one Request (see Registry); an        *)
(* observer may have either, both or none of them.  What they hold is      *)
(* SignalRing's subject, here only their iterators matter.  The           *)
(* configured buffer_size is 0.                                            *)
(***************************************************************************)
EXTENDS Integers

CONSTANTS LatencyMin,  \* latency_min
          LatencyMax,  \* latency_max: the block buffers are allocated for it
          Grain,       \* the 4 frames that a refused latency grows by
          Periods,     \* period lengths the device may answer with
          Size,        \* size of the signal buffers
          Blocking     \* values of `block' to consider

ASSUME ConstantsAssumption ==
    /\ Grain \in Nat \ {0}
    /\ LatencyMin \in Nat /\ LatencyMin > Grain
    /\ LatencyMax \in Nat /\ LatencyMax >= LatencyMin
    /\ Periods \subseteq Nat \ {0}
    /\ Size \in Nat \ {0}
    /\ Blocking \subseteq BOOLEAN

VARIABLES running,   \* m_running
          block,     \* `block'
          warm,      \* less than six seconds since process() began
          latency,   \* the block length
          last,      \* last_bufsize of setparams()
          base,      \* latency that has failed, 0 during the warm-up (history)
          restart,   \* state.restart
          todo,      \* frames that readbuf() or writebuf() still has to move
          missed,    \* frames that readbuf() has not delivered since the start
          apc,       \* where the audio thread is
          avail,     \* device: frames captured and not read
          queued,    \* device: frames written and not played
          xrun,      \* device: stopped by an over- or underrun
          added,     \* the pair of buffers is registered
          observed,  \* which of them an observer in m_bufferPool has
          ptr        \* their iterators (m_timeQueuePointer)

device == <<avail, queued, xrun>>
pair == <<added, observed, ptr>>
setup == <<latency, last, base>>
vars == <<running, block, warm, setup, restart, todo, missed, apc, device, pair>>

Pair == {"capture", "playback"}
Ring == 2 * latency
Smaller(m, n) == IF m < n THEN m ELSE n
Larger(m, n) == IF m < n THEN n ELSE m

Init ==
    /\ running = TRUE /\ warm = TRUE
    /\ block \in Blocking
    /\ latency = LatencyMin - Grain
    /\ last = latency /\ base = 0
    /\ restart = FALSE
    /\ todo = 0 /\ missed = 0
    /\ apc = "restart"
    /\ avail = 0 /\ queued = 0 /\ xrun = TRUE
    /\ added = FALSE /\ observed = {}
    /\ ptr = [b \in Pair |-> 0]

Goto(label) == apc' = label

-----------------------------------------------------------------------------
(* Starting the streams *)

\* while (m_running) ...
Ends ==
    /\ apc = "restart" /\ ~running
    /\ Goto("ended")
    /\ UNCHANGED <<running, block, warm, setup, restart, todo, missed, device, pair>>

\* Faulty variant: the latency starts from the minimum at any time.
RestartAlwaysWarm ==
    /\ apc = "restart" /\ running
    /\ restart' = FALSE
    /\ latency' = LatencyMin - Grain
    /\ ptr' = [b \in Pair |-> IF b \in observed THEN 0 ELSE ptr[b]]
    /\ last' = latency' /\ base' = IF warm THEN 0 ELSE latency
    /\ Goto("again")
    /\ UNCHANGED <<running, block, warm, todo, missed, device, added, observed>>

\* "ignore xruns first 8 seconds": back to the shortest latency, and
\* resetBuffers() for every observer.  Then setparams() is called.
RestartWarm ==
    /\ apc = "restart" /\ running /\ warm
    /\ restart' = FALSE
    /\ latency' = LatencyMin - Grain
    /\ ptr' = [b \in Pair |-> IF b \in observed THEN 0 ELSE ptr[b]]
    /\ last' = latency' /\ base' = 0
    /\ Goto("again")
    /\ UNCHANGED <<running, block, warm, todo, missed, device, added, observed>>

RestartCold ==
    /\ apc = "restart" /\ running /\ ~warm
    /\ restart' = FALSE
    /\ last' = latency /\ base' = latency
    /\ Goto("again")
    /\ UNCHANGED <<running, block, warm, latency, todo, missed, device, pair>>

\* Faulty variant: last_bufsize is not updated.
SetParamsAgainForgets ==
    /\ apc = "again"
    /\ latency' = IF last = latency THEN latency + Grain ELSE latency
    /\ Goto(IF latency' > LatencyMax THEN "ended" ELSE "set")
    /\ UNCHANGED <<running, block, warm, last, base, restart, todo, missed, device, pair>>

\* Faulty variant: latency_max is not looked at.
SetParamsAgainUnbounded ==
    /\ apc = "again"
    /\ latency' = IF last = latency THEN latency + Grain ELSE latency
    /\ last' = latency'
    /\ Goto("set")
    /\ UNCHANGED <<running, block, warm, base, restart, todo, missed, device, pair>>

\* __again: try a longer latency, unless the device has just imposed one.
\* process() ends when it gets too long; m_running is still TRUE then.
SetParamsAgain ==
    /\ apc = "again"
    /\ latency' = IF last = latency THEN latency + Grain ELSE latency
    /\ last' = latency'
    /\ Goto(IF latency' > LatencyMax THEN "ended" ELSE "set")
    /\ UNCHANGED <<running, block, warm, base, restart, todo, missed, device, pair>>

\* __set_it: the device answers with its periods; the streams may differ in
\* period time or need more than two periods, or an error exits the program.
SetParamsSet ==
    /\ apc = "set"
    /\ \E p, c \in Periods : latency' = Larger(latency, Larger(p, c))
    /\ \E label \in {"prefill", "again", "exited"} : Goto(label)
    /\ UNCHANGED <<running, block, warm, last, base, restart, todo, missed, device, pair>>

\* Faulty variant: one block of silence.
PrefillOnce ==
    /\ apc = "prefill"
    /\ avail' = 0 /\ queued' = latency /\ xrun' = FALSE
    /\ missed' = 0
    /\ Goto("actions")
    /\ UNCHANGED <<running, block, warm, setup, restart, todo, pair>>

\* Two blocks of silence; both streams start.
Prefill ==
    /\ apc = "prefill"
    /\ avail' = 0 /\ queued' = Ring /\ xrun' = FALSE
    /\ missed' = 0
    /\ Goto("actions")
    /\ UNCHANGED <<running, block, warm, setup, restart, todo, pair>>

-----------------------------------------------------------------------------
(* One block *)

\* while (m_running && !state.restart) ... else the streams are dropped
LoopEnds ==
    /\ apc = "actions" /\ (~running \/ restart)
    /\ xrun' = TRUE
    /\ Goto("restart")
    /\ UNCHANGED <<running, block, warm, setup, restart, todo, missed, avail, queued, pair>>

\* processActionQueueInAudioThread(): a Request may add the pair or take it
\* away.
LoopActions ==
    /\ apc = "actions" /\ running /\ ~restart
    /\ \/ UNCHANGED pair
       \/ /\ ~added
          /\ added' = TRUE
          /\ \E obs \in SUBSET Pair : observed' = obs
          /\ ptr' = [b \in Pair |-> 0]
       \/ /\ added
          /\ added' = FALSE /\ observed' = {}
          /\ UNCHANGED ptr
    /\ todo' = latency
    /\ Goto("read")
    /\ UNCHANGED <<running, block, warm, setup, restart, missed, device>>

\* readbuf() fails: an overrun, or the playback stream has stopped both.
ReadFails ==
    /\ apc = "read" /\ xrun
    /\ restart' = TRUE
    /\ Goto("buffers")
    /\ UNCHANGED <<running, block, warm, setup, todo, missed, device, pair>>

\* One snd_pcm_readi(): what is there, up to the block length.  Without
\* `block' it is repeated only while there is nothing at all, with it until the
\* block is complete.
Read ==
    /\ apc = "read" /\ ~xrun /\ avail > 0
    /\ LET n == Smaller(avail, todo)
       IN  /\ avail' = avail - n
           /\ todo' = todo - n
    /\ IF block /\ todo' > 0
       THEN UNCHANGED <<missed, apc>>
       ELSE /\ missed' = Smaller(missed + todo', LatencyMax)
            /\ Goto("buffers")
    /\ UNCHANGED <<running, block, warm, setup, restart, queued, xrun, pair>>

\* Faulty variant: the driver leaves out playback when the read has failed.
BuffersSkipPlayback ==
    /\ apc = "buffers"
    /\ ptr' = [b \in Pair |-> IF added /\ (b = "capture" \/ ~restart)
                              THEN (ptr[b] + latency) % Size ELSE ptr[b]]
    /\ todo' = latency
    /\ Goto("write")
    /\ UNCHANGED <<running, block, warm, setup, restart, missed, device, added, observed>>

\* Every signal buffer takes or gives a block of `latency' samples, however
\* many readbuf() has delivered.
Buffers ==
    /\ apc = "buffers"
    /\ ptr' = [b \in Pair |-> IF added THEN (ptr[b] + latency) % Size ELSE ptr[b]]
    /\ todo' = latency
    /\ Goto("write")
    /\ UNCHANGED <<running, block, warm, setup, restart, missed, device, added, observed>>

WriteFails ==
    /\ apc = "write" /\ xrun
    /\ restart' = TRUE
    /\ Goto("observers")
    /\ UNCHANGED <<running, block, warm, setup, todo, missed, device, pair>>

\* One snd_pcm_writei(), repeated until the block is out.
Write ==
    /\ apc = "write" /\ ~xrun /\ queued < Ring
    /\ LET n == Smaller(Ring - queued, todo)
       IN  /\ queued' = queued + n
           /\ todo' = todo - n
    /\ IF todo' > 0 THEN UNCHANGED apc ELSE Goto("observers")
    /\ UNCHANGED <<running, block, warm, setup, restart, missed, avail, xrun, pair>>

\* processSignalBufferObserverInAudioThread(): see ObserverCommit.
Observers ==
    /\ apc = "observers"
    /\ Goto("actions")
    /\ UNCHANGED <<running, block, warm, setup, restart, todo, missed, device, pair>>

Audio ==
    \/ Ends \/ RestartWarm \/ RestartCold
    \/ SetParamsAgain \/ SetParamsSet \/ Prefill
    \/ LoopEnds \/ LoopActions
    \/ ReadFails \/ Read \/ Buffers \/ WriteFails \/ Write \/ Observers

-----------------------------------------------------------------------------
(* The rest of the world *)

\* One frame is captured and one is played.
Tick ==
    /\ ~xrun /\ apc \notin {"ended", "exited"}
    /\ IF avail = Ring \/ queued = 0
       THEN xrun' = TRUE /\ UNCHANGED <<avail, queued>>
       ELSE avail' = avail + 1 /\ queued' = queued - 1 /\ UNCHANGED xrun
    /\ UNCHANGED <<running, block, warm, setup, restart, todo, missed, apc, pair>>

WarmUpEnds ==
    /\ warm /\ warm' = FALSE
    /\ UNCHANGED <<running, block, setup, restart, todo, missed, apc, device, pair>>

\* ~AudioDriverAlsa()
Stop ==
    /\ running /\ running' = FALSE
    /\ UNCHANGED <<block, warm, setup, restart, todo, missed, apc, device, pair>>

Next == Audio \/ Tick \/ WarmUpEnds \/ Stop

\* The audio thread runs, and neither the device's clock nor time stops.
Fairness == WF_vars(Audio) /\ WF_vars(Tick) /\ WF_vars(WarmUpEnds)

Spec == Init /\ [][Next]_vars /\ Fairness

-----------------------------------------------------------------------------
(* Properties *)

Labels == {"restart", "again", "set", "prefill", "actions", "read", "buffers",
           "write", "observers", "ended", "exited"}

\* Every variable keeps its type.
TypeOK ==
    /\ running \in BOOLEAN /\ block \in BOOLEAN /\ warm \in BOOLEAN
    /\ restart \in BOOLEAN /\ xrun \in BOOLEAN /\ added \in BOOLEAN
    /\ latency \in Nat /\ last \in Nat /\ base \in Nat
    /\ todo \in 0..LatencyMax /\ missed \in 0..LatencyMax
    /\ apc \in Labels
    /\ avail \in 0..2 * LatencyMax /\ queued \in 0..2 * LatencyMax
    /\ observed \subseteq Pair
    /\ ptr \in [Pair -> 0..Size - 1]

Streaming == apc = "actions" /\ ~restart /\ ~xrun

\* A sample that is played is recorded two blocks later, and as much later still
\* as short reads have left behind since the streams were started: between two
\* blocks, that is what lies between the positions of the two streams.
RoundTrip == Streaming /\ missed < LatencyMax => avail + queued = Ring + missed

\* The capture and the playback buffer of a Request stay at the same position
\* across xruns and restarts, unless an observer has one of the two only.
PairInStep ==
    added /\ observed \in {{}, Pair} => ptr["capture"] = ptr["playback"]

\* Once the warm-up is over, a restart never comes back with blocks as short
\* as those that have just failed.
LatencyGrows == apc \in {"prefill", "actions"} => latency > base

\* "pcmIn.resize(m_numChannelsCapture * blockSizeMax)": the block buffers hold
\* latency_max frames (audio_driver_alsa.cpp:407-414), and whatever length the
\* search for common parameters goes through, blocks fit them, as long as the
\* device does not answer with periods that are longer.
BlockFitsBuffers ==
    (\A p \in Periods : p <= LatencyMax) =>
        (apc # "ended" => latency <= LatencyMax)

\* After the warm-up the driver does not restart for ever.
EventuallySteady == <>[](apc # "restart" \/ ~running)

\* The thread ends once the driver is being destroyed, wherever it is.
StopEnds == ~running ~> apc \in {"ended", "exited"}

\* "a deterministic timing mechanism that allows you to playback and capture
\* samples at the exact same moment" (README.md:9).  It does not hold: a short
\* read shifts all that is recorded later.
SameMoment == Streaming => avail + queued = Ring
=============================================================================
