# A TLA+ verification of autil

autil plays and records audio through JACK or ALSA and aligns the two to the
sample.  This directory holds TLA+ modules for its core, configurations that
model-check them with TLC, and proofs checked by TLAPS.  Line numbers refer to
the sources in `src/`; PROJECT.json maps every definition that stands for code to
its lines.

## 1. The system

### Components

| Component | Code | State | Operations | Modelled in |
|---|---|---|---|---|
| Request hand-over | `audio_driver_base.*`, callers in `audio_driver_jack.cpp`, `audio_driver_alsa.cpp` | `m_newActions`, `m_evtActionQueueProcessed`, `m_mtxActionQueue`, `m_actionQueue`, `m_running`, `m_paused` | `Request::execute/undo`, `sync`, `commit`, `pauseAudioProcessing`, `processActionQueueInAudioThread`, the ways a driver ends | `ActionQueue`, `AtomicRequests` |
| Registry | `audio_driver_base.*`, `signalPortNew` | `m_buffers`, `m_bufferPool`, `m_bufferPortConnections`, the ports made so far, the `Request` objects | `addBuffer`, `addObserver`, `remove`, `execute`, `executeAndObserve`, `undo`, and in the audio thread `addSignal`, `removeSignal`, `addObserver`, `removeObserver` | `Registry` |
| Observer | `signal_buffer.h`, `audio_driver_base.cpp` | `lastUpdate`, `commiting`, `m_evCommit`, the stages | `processSignalBufferObserverInAudioThread`, `commit`, `waitForCommit`, `reset`, `cancel` | `ObserverCommit`, `SnapshotSlot` |
| SignalBuffer | `signal_buffer.h`, `signal_processor.*` | `m_timeQueue`, `m_timeQueuePointer`, `m_timeStage`, the preprocessors' previous blocks | `addBlock`, `getBlock`, `stage`, `resetIterator` | `SignalRing` |
| ALSA driver | `audio_driver_alsa.*` | block length, restart state, the two rings of the device | `process`, `setparams`, `readbuf`, `writebuf` | `AlsaStream` |
| JACK driver | `audio_driver_jack.*` | ports and their connections, `m_mutedPorts` | `jackProcess`, `signalPortNew`, `muteOthers`, `jackShutdown` | `JackPorts`; `jackProcess` and `jackShutdown` in `ActionQueue` and `Registry` |
| Filters | `signal_processor.h`, `signal_buffer.cpp` | none | `heapMedian3`, `medianfilter`, `medianfilterCausal`, `denoise`, `normalize`, ... | `HeapMedian`, `WindowMedian` |
| Debug stream | `signal_buffer.*`, `net.*`, `matlab/` | block indices, sockets, what a call of the receiver has | `sendDebugBlock`, `sendBlock`, `receive_block` | `DebugStream` |
| Test signals, WAVE files | `test.*`, `file_io.*` | none to speak of | | not modelled |

### How they interact

```
 client threads            audio thread (JACK callback or ALSA thread)      consumer
 Request::execute  --->  actions  --->  slots, connections
      waits       <---   event         | each block: SignalBuffer::addBlock/getBlock
                                       | each block: is an observer due? commit()
                                       |      stage() every buffer, event --->  waitForCommit
                                       |                                        reads, reset()
                                       | each block of a buffer with a receiver
 muteOthers, signalPortNew             |      sendDebugBlock()  --- UDP --->    MATLAB: receive_block
      |                                                                         (another process)
      +---> JACK's graph of connections <--- other JACK clients
```

The audio thread takes no lock.  What keeps the threads apart is a flag and an
event in each direction: `m_newActions` and `m_evtActionQueueProcessed` for
requests, `commiting` and `m_evCommit` for data.  Those two protocols are where
most can go wrong unseen, and they are modelled first, access by access.

### What is hard

* **Interleaving.** Flag, event and queue are read and written by several threads
  one access at a time; events keep their state, so a signal may be taken for the
  answer to another question.
* **Ordering and partial failure.** An action may throw in the audio thread, where
  its exception is swallowed; ports are made one by one in the client thread.
* **Boundaries.** Rings whose size no block length divides; a 32-bit time of last
  update against a longer frame count; slot arrays that are full.
* **Restarts.** ALSA over- and underruns drop the streams and renegotiate.
* **Other processes.** JACK clients connect, disconnect, come and go between any two
  calls of `muteOthers()` and `signalPortNew()`; datagrams get lost, and what is left
  must be matched by an index of eight bits.
* **Liveness.** `commit()` waits without a time limit; `setparams()` loops until
  both streams agree.

What makes each component correct, as the modules state it: a request takes effect
as a whole and its call returns only afterwards (`ActionQueue`); slots and connections
agree, and what a request has put there is taken back by `undo()` (`Registry`); what a consumer
reads was staged at one moment and is not overwritten meanwhile (`ObserverCommit`);
each sample is where it belongs (`SignalRing`); playing and recording stay two
blocks apart, plus what short reads leave behind, and restarts come to an end (`AlsaStream`); what was muted is silent and
what is unmuted is what was muted (`JackPorts`); blocks that are shown together were
added together (`DebugStream`); the median is the median (`HeapMedian`, `WindowMedian`).

## 2. The modules

**`ActionQueue`** — one action per access to a shared variable.  Clients go through
`Begin`, `Lock`, `sync()` (`SyncTest`, `SyncWait`, `SyncReset`), `Push`, `PushedAll`,
`sync()` again, `Raise`, `TestRunning`, `Wait`, `Unlock`; `Pausers` through
`PauseSet`, `PauseRaise`, `PauseWait`; the audio thread through `AudioStart`,
`AudioCheck`, `AudioRunAction`, `AudioDrained`, `AudioClearFlag`, `AudioSignal`,
`AudioBlock`.  `Stop` is `m_running = false`, `AudioFails` a thread that is gone
while `m_running` is still set.  Actions are opaque.  `RttEvent` comes from a library
that is not in the repository: whether `Wait()` resets the event cannot be told from
its uses, so both are allowed (`AutoResets`).  Accesses are taken to be sequentially
consistent, although `m_newActions` and `m_running` are plain members.

**`AtomicRequests`** — what a caller may rely on: `Call`, one indivisible `Apply`,
`Return`.  `ActionQueue` implements it under the mapping at its end.

**`ObserverCommit`** — the clock of an observer (`Tick`, `Due`), `commit()` in its
single steps (`CommitTest`, `CommitMark`, `CommitStage` per buffer, `CommitSignal`),
the consumer's loop (`CallWait`, `WaitReturns`, `Read` per stage, `ResetTest`,
`ResetEvent`, `ResetFlag`) and `cancel()`.  Frame counts are taken modulo `ULong` and
`lastUpdate` modulo `U32`, so that wrap-around happens.  A stage holds the moment at
which it was filled, a frame count modulo `StampSpan`.

**`SnapshotSlot`** — the observer as a slot for one snapshot: `Publish`, `Take`,
`Release`.  `ObserverCommit` implements it.

**`Registry`** — Requests are built (`AddBuffer`, `AddBufferThrows`, `AddObserver`,
`Remove`), handed over (`Execute`, `ExecuteAndObserve`, `Undo`) and run (`RunAddSignal`
and so on, with the exceptions that the audio thread swallows).  It uses what
`ActionQueue` guarantees: requests are handed over one at a time, and no block is
processed in between.  The history variable `mishaps` records that a slot was
overwritten, an `addBuffer()` failed, a request was undone early; each property names
the mishaps after which it no longer holds.  `live` is the set of ports that JACK has: it only
grows, since `signalPortDestroy()`, which `removeSignal()` calls, is an empty virtual
(`audio_driver_base.h:148`) that no driver overrides.

**`SignalRing`** — `StartBlock`, then `AddBlock` or `GetBlock` channel by channel, or
`BlockTooLong`, "Invalid block size!"; `Stage` and `Reset` between two blocks.  A sample is its channel and frame.  The two
overloads of `addBlock()` differ in `Interleaved`: the converter's second call starts
`untilEnd` bytes into an interleaved block.

**`AlsaStream`** — `process()`: `RestartWarm`/`RestartCold`, `SetParamsAgain` and
`SetParamsSet` for the loop of `setparams()`, `Prefill`, then `LoopActions`, `Read`,
`Buffers`, `Write`, `Observers`.  The device is external: `Tick` moves one frame in both
directions, a full capture ring or an empty playback ring stops both streams, and
the device may answer any period out of `Periods`.

**`JackPorts`** — one action per call of JACK's.  `MuteCall` begins `muteOthers()`; `List`,
`Disconnect` and `DisconnectFails` are its loop over the sources of a playback port, `Take`,
`Reconnect`, `ReconnectRetries` and `ReconnectFails` that over `m_mutedPorts`, `Finish` is
`commit()`, of which `ActionQueue` has the rest.  `Register` and what follows it is
`signalPortNew()` in its three kinds of connection and with every throw after the port is
made (`AddFails`); a port once made stays with its links.
`OtherConnects`, `OtherDisconnects`, `OtherQuits` and `OtherStarts` are the other programs.
JACK itself is external and refuses what its documentation says it refuses: to
disconnect what is not connected, to connect what is, or what does not exist.  History
variables record what others have done (`causes`, `excused`, `late`), so that each property
can say whose fault is excused.

**`DebugStream`** — `AddBroken` and `SendDebugBlock` are the end of `addBlock()` for the last
channel of a buffer: a block that wraps around in the ring is not sent, any other gets the
buffer's index, and the datagram is delivered, lost or does not fit.  `Begin`, `Scan`,
`PollEmpty`, `DropOld`, `RestartOthers`, `Accept` and `Return` are `receive_block()`, port by
port.  A datagram is its index and, as history, the cycle in which its block was added.  An
index is in `-W..W-1`; MATLAB's saturating subtraction is kept (`Behind`).

**`WindowMedian`** — `medianfilter()` and `medianfilterCausal()`: the mirrored extension, then
per sample a window of five and one step for each of the three rounds of its partial
selection sort.

**`HeapMedian`** — `heapMedian3<L>()`, one step per iteration of its loops.  The code is
written out for the left and for the right heap; the module has it once, with the
comparison `Before(s, x, y)`.  Nothing in the repository calls the template.

`MC*` modules give TLC small sets.  Definitions marked "Faulty variant" stand just
before the definition they spoil; each is a bug one could make there, and none is
used by a specification.  Every property is broken by at least one of them.

## 3. What TLC checks

| Run | Instance | Result |
|---|---|---|
| `action_queue` | 2 clients (one calls twice), 1 pauser, requests of up to 2 actions | holds, about 397 000 states |
| `observer_commit` | 2 buffers, interval 2, blocks of 1 or 2, U32 = 16, ULong = 32 | holds, about 556 000 |
| `signal_ring` | 10 shapes of 2 to 4 frames, blocks of 1 to 3, 10 frames | holds, about 578 000 |
| `registry` | 3 buffers, 1 observer, 2 requests, 2 slots, 3 calls, 2 blocks | holds, about 1 880 000 |
| `alsa_stream` | latencies 2 and 3, periods 1 to 3, both read modes | holds, about 337 000 |
| `jack_ports` | 1 foreign and 1 own port, 2 playback ports, 3 calls of `muteOthers()`, 3 moves of others | holds, about 686 000 |
| `debug_stream` | 2 buffers, rings of 2 and 3, blocks of 2, an index in -3..2, one datagram per port, one loss | holds, about 999 000 |
| `filters` | `HeapMedian`: L in {4, 5, 8, 9, 15}, four values; `WindowMedian`: signals of 1 to 6 samples, three values | holds, about 1 200 000 |
| `pause_breaks_sync`, `penalty_not_served`, `stage_past_the_end`, `short_read_shifts` | | violated, see 5 |

The properties, each explained where it is defined:

* `ActionQueue`: `CommitMeansApplied`, `QueueExclusive`, `NoDanglingAction`,
  `WholeRequests`, `CallReturns`, `ImplementsAtomicRequests`.  They are promised while the
  driver runs and until the first `pauseAudioProcessing()`.
* `ObserverCommit`: `NoTornRead`, `ResetNeverThrows`, `CommitSpacing`,
  `ConsumerServed`, `CommitReleased`, `ImplementsSlot`; those about the
  consumer until the first `cancel()`.
* `SignalRing`: `RingHoldsLatest`, `StageIsWindow`, `MultipleNeverThrows`,
  `PreprocessorSeesPast`, `PlaysInLoop`.  `Sound` names the shapes for which the
  first two can be expected: with a delay the channels overlap, and a converted block
  that wraps is garbled.
* `Registry`: `SlotsUnique`, `RowsMatch`, `InStep`, `UndoIsComplete`,
  `PassesOnce`, `ObservedAreServed`.  `UndoIsComplete` is about the slots: the JACK ports that
  `addBuffer()` has made stay behind, and `PassesOnce` says what this means for the buffer.
* `AlsaStream`: `RoundTrip`, `PairInStep`, `LatencyGrows`, `BlockFitsBuffers`,
  `EventuallySteady`, `StopEnds`.
* `JackPorts`: `UnmuteRestores`, `MutedIsSilent`, `ThrowsForCause`,
  `HookFollowsPlayback`, `MuteEnds`.
* `DebugStream`: `LosslessIsAligned`, `PositiveIsSameCycle`, `ReceiveEnds`.
* `HeapMedian`: `HeapsHoldOuter`, `MedianIsMiddle`; `WindowMedian`: `ResultIsMedian`.

`TypeOK` and the inductive invariants (`IInv` and its parts, which stand at the top of each proof
module) are proved, see 4, and are not part of the runs: a run keeps to what the system
promises.  Each was checked by TLC on the instance of its run before it was proved, and so
was each of the guarantees that only a theorem states.

**Why these bounds.** `action_queue`: a stale signal needs an earlier round, so one
client calls twice; a half-applied request needs two actions; a third party needs a
second client.  The proofs cover any number.  `observer_commit`: two buffers are
enough for a torn read; U32 and ULong are small so that `lastUpdate` meets its mark,
the frame count outgrows it and wraps, all several times.  U32 = 16 leaves room for five
commits before the frame count outgrows it: the first comes at frame 3 or 4, the second
is due, and may be refused, from frame 6 on, and others follow a refused one.  Stamps
eight frames apart are not told apart; two commits in a row are three or four apart if
none is refused.  `signal_ring`: shapes with
and without a delay, one and two channels, lengths that divide the ring and lengths
that do not, and some that are longer than the buffer; ten frames go round each ring at
least once after a wrap.  `registry`: three
buffers for two slots fill the array and overflow it; three calls allow add, remove
and add again, which succeeds with ALSA and throws with JACK; with two blocks one may come
between two requests and one after them.  `alsa_stream`: one latency that can grow, and one more that cannot.
`jack_ports`: mute, unmute and mute again needs three calls, and an attempt that throws fits
in; three moves let another program take down a link that was listed, make it again and
quit; with two playback ports one can be done while the other is not.  `debug_stream`: with `W = 3` the
index wraps within six blocks, so that it is zero, negative and positive many times; a ring
of 3 breaks every other block of 2 and one of 2 none, so that indices drift apart without
a loss; one loss and one overflow reach every branch of the receiver.  While `receive_block()`
waits for a port, no datagram overflows there (it polls all the time), and
`setDebugReceiver()` is called for all buffers before the first block; otherwise indices
differ from the start.  `filters`: 15 values give heaps of three levels, in which a value is
moved twice both ways, and few values make ties frequent; six samples are more than a
window, one to four leave it hanging over both ends.  Named bounds: `MaxActions`, `MaxOps`,
`CommitCap`, `FailCap`, `StampSpan`, `MaxFrames`, `MaxCalls`, `MaxMoves`, `MaxBlocks`, `MaxLosses`,
`Capacity`, `LatencyMax` (which is the code's own).

**Fairness.** Only weak fairness, and only of what runs by itself.  `ActionQueue`: the
audio callback is called again and again by JACK (or loops, with ALSA), and a thread
in the middle of a call is scheduled; nobody has to begin a call, pause or stop.
`ObserverCommit`: the audio thread; a consumer that loops; and `cancel()` once begun.
`AlsaStream`: the audio thread, the device's clock and the wall clock that ends the
warm-up; xruns and the device's answers are free.  `JackPorts`: the thread inside
`muteOthers()` only; the others may do as they like, and nobody has to call.  `DebugStream`:
the audio thread goes on adding blocks, the receiver in a call goes on polling; nobody has
to begin a call, and what is lost is free.  `SignalRing`, `Registry` and the filters state
no liveness.  Deadlock is not checked where the
system may stop: bounded calls, a driver that was shut down, an addBlock() or getBlock()
that has thrown, an algorithm that is done.  It is checked for `ObserverCommit` and `DebugStream`.

## 4. What is proved

For every value of the constants that satisfies the named assumption
`ConstantsAssumption` of each module.  A proof module begins with the inductive
invariant, in named parts, and with guarantees that the runs do not check; what the
runs check is defined in the component's module.

**The safety core of liveness.** That something happens eventually is beyond the prover,
but not why: a measure that each step of those who must act lowers and that nobody else
raises.  Weak fairness of the former, which is in the specification, then does the rest.
For each liveness property such a step property is proved:

| Property | Theorem | What is proved |
|---|---|---|
| `CallReturns` | `AnswerTheorem`, `NearerTheorem` | a waiting client has been answered or the flag for it is up; the steps left to the audio thread get fewer |
| `CommitReleased` | `StrandedTheorem`, `ReleaseTheorem` | a pending commit always has somebody on its way to signal, wait or reset; the steps left get fewer |
| `ConsumerServed` | `DueTheorem` | each block without a commit makes the time that the audio thread computes grow |
| `EventuallySteady` | `SearchTheorem`, `RestartsTheorem` | each round of a search, and each restart after the warm-up, has a longer latency |
| `StopEnds` | `StopTheorem`, `TickTheorem` | each step of the audio thread is one towards the end; what waits for the device waits for one frame |
| `MuteEnds` | `EndTheorem` of `JackProofs` | each step of the loops goes on, and no other program reaches the loops |
| `ReceiveEnds` | `EndTheorem` of `DebugProofs` | each step goes on in a round or finishes a port; the index looked for stays |

The last is the weakest: that the index looked for arrives in the end is up to what is lost,
and rounds that find nothing are not counted.

`ActionQueueProofs`: `TypeCorrect`, `InvCorrect`, `CommitTheorem`, `ExclusionTheorem`,
`LifetimeTheorem`, `WholeTheorem`, `RefinementTheorem`, `AnswerTheorem`, `NearerTheorem`.  That a call returns only after
its actions have run is not inductive: it depends on why the event is up.  `IInv` adds
(a) `MutexHeld`: who is at a label inside a call owns the mutex; and, while the contract
is in force, (b) `NoForeignFlag`: only the owner of the mutex has raised the flag,
and it is waiting for it, (c) `NoStaleSignal`: from the `Reset()` in `sync()` until the
audio thread signals, the event is down, (d) `QueueIsHolders`: the queue holds what
that owner has pushed and the audio thread has not run, and (e) `Progress`: how much of
each request is pushed and run at each label.  `MutexStep` shows (a) by itself; `InvStep`
goes through the actions of `Next` for the rest.  The four guarantees follow from `IInv`
at their labels, the refinement from `IInv` by mapping `AudioClearFlag` to `Apply` and
all other steps inside a call to stutters.  `AnswerTheorem` says that no wake-up is lost: for a
client that waits, or is about to, the event is up, about to be, or asked for.

`ObserverProofs`: `TypeCorrect`, `InvCorrect`, `SnapshotTheorem`, `ResetTheorem`,
`SpacingTheorem`, `RefinementTheorem`, `StrandedTheorem`, `ReleaseTheorem`, `DueTheorem`.  `IInv` says whose turn the stages are (`Handover`), that staged
buffers agree (`StagesAgree`) and that what was read is still there (`ReadMatches`), until
`cancel()`.  `SpacingTheorem` needs another invariant, `ClockIsLate`, which holds with `cancel()` too:
the code compares `total - lastUpdate` in unsigned arithmetic, where `lastUpdate` may be ahead by a
penalty; `UnsignedGrows` says what adding a block does to such a difference.  It assumes `CommitCap >
Interval`: the time since the last commit is counted further than the property looks.
`StrandedTheorem` needs no assumption at all, `cancel()` included: `commiting` never stays set with
everybody asleep.  `DueTheorem` has an exception that is in the code: `lastUpdate` may come out, by
wrapping, as the value that means that it was never set, and is then set anew.

`AlsaProofs`: `TypeCorrect`, `InvCorrect`, `RoundTripTheorem`, `PairTheorem`, `LatencyTheorem`,
`FitsTheorem`, `BlockingTheorem`, `WriteTheorem`, `TickTheorem`, `SearchTheorem`, `RestartsTheorem`,
`StopTheorem`.  `RoundTrip`
speaks of the moment between two blocks and is not inductive: in between, frames are read
and not yet written.  `IInv` adds (a) `Balance`: at each label of the block, where the
frames between the two positions are, as long as nothing has over- or underrun, and how many
of them short reads have left behind (`missed`, counted up to `LatencyMax`); (b) `Raised`: what `setparams()` has already added to the latency that
failed; and (c) `Numbers`, the part of the type these need.  One lemma per part goes
through the actions.  `BlockingTheorem` is what the configured mode lacks (5, `short_read_shifts`): with
`block` the distance of the two streams is always the same.  `TypeCorrect` and the bound in
`RestartsTheorem` assume a device whose periods are at most `latency_max`; `setparams()` caps what
it asks for, not what it gets.

`RegistryProofs`: `InvCorrect`, `UniqueTheorem`, `InStepTheorem`, `RowsTheorem`,
`PassesTheorem`, `UndoTheorem`, `ServedTheorem`, `CapacityTheorem`, `SetTheorem`.  That a buffer is in
step needs that JACK serves it, so `IInv` adds `RowPorts`, the ports in the row of a
registered buffer; this in turn needs `SlotsUnique`, since `removeSignal()` clears the row of
the one slot it finds.  The rest of `RowsMatch` is `Directions` and `FreeCells`.  `PassesOnce`
rests on `PortsOnce`: ports are never destroyed and their names are in use from then on, so that
a buffer is at most once in all lists of actions together, and in none while it is in a slot.
`PassesStep` goes through the actions and says which of the four ways a buffer goes.  `UndoIsComplete` rests on `Undoable`, every action that
adds something has its counterpart in the undo list of its request, and `Owned`, what a
request has added is still there and a removal of it is in that list or, when `undo()` was
called, in the queue.  The lemmas: the search for a slot returns one (`LowestSlot`,
`AddIndexSlot`, `IndexOfSlot`) and fails when it should (`AddIndexFails`, `IndexOfFails`), rows
do not overlap (`RowsApart`), which is where `ConstantsAssumption` needs
`MAX_CHANNELS_PER_BUFFER` to be at most `MAX_SIGNAL_BUFFERS`, and what lists of actions keep
when one is appended or popped (`AppendFacts`, `TailFacts`).  `ClientCases` and `AudioCases` reduce
the fourteen actions to what they do to lists, rows and ports; the steps of the invariant
go through these cases.  `ServedTheorem` rests on a second invariant, `Tidy`, over `IInv`: an observer
comes and goes with the request of its buffers, but one action at a time, so `Escorted` follows each pair: the
observer is the last addition in the queue (`Coming`), or can be removed by the request that owns the buffer
(`Staying`), or leaves with it (`Leaving`), or has left for good (`Gone`).
`CapacityTheorem` says when the mishaps "evicted" and "overrun", after which the other properties claim
nothing, can happen at all: with as many buffers as there are slots, or as a buffer may have
channels.  `SetTheorem` reads the arrays as the sets they stand for.

`SignalProofs`: `TypeCorrect`, `InvCorrect`, `LatestTheorem`, `MultipleTheorem`, `PastTheorem`,
`LoopTheorem`, `WindowTheorem`.  The properties speak of the time between two blocks, while a
block reaches the channels one after the other.  `Written(c)` is how much of the block
channel `c` has already; with it `Recorded`, `Delivered` and `Remembers` say for every channel
and at every time what is in its ring, what it has delivered and what its preprocessor
remembers.  `Counting` ties the pointer to the number of frames, and `Loaded` says that the
samples to play stay where they are.  The lemmas are about remainders (`ModAdd`,
`ModApart`: places of a ring less than one round apart differ) and cells (`RingsApart`: the
rings of two channels do not overlap if there is no delay, or only one channel).

`FilterProofs`: `FilterTheorem`, `HeapTheorem`, `MedianTheorem`.  The first is about signals of any length over any integers.  The invariant
says which cells of the window are sorted; that three rounds are enough is `MiddleIsMedian`,
and `ExtensionReflects` that the extension is the signal mirrored at its ends.  The other two are about
`HeapMedian`, for any values and any length from 4 to 255.  `HeapInv` looks at each heap as it will be once
the value that moves has found its place (`Settled`): then moving it only exchanges two places
(`ExchangeKeeps`), so that `Partitioned`, which values the heaps have how often, needs no account of
the loops; `NearlyOrdered` says where the order of the heap is suspended.  That the top of a full heap is
the nearest to the median (`TopIsNearest`) takes an induction over the heap, done by the least place that
would be an exception.  `MedianTheorem` counts: the values read further out than the median on one side
map one-to-one into the places of the heap that decides, and those places and the median itself
map one-to-one into the values read that are not further out on the other side.

`JackProofs`: `InvCorrect`, `RestoreTheorem`, `SilenceTheorem`, `CauseTheorem`, `HookTheorem`,
`OwedTheorem`, `EndTheorem`, for
any number of ports, calls and moves of others.  `Owed` follows a broken link through the loops of
`muteOthers(false)`, `Silenced` one that must go through those of `muteOthers(true)`; `ListIsFresh` and
`ListIsTrue` say what the two lists that the loops go over are worth while others interfere;
`FoundFollowsPlayback` is `HookFollowsPlayback` for a source that `signalPortNew()` has found but
not connected yet.  `OwedTheorem` is a law of conservation: what is up and what is owed never overlap, and
`muteOthers()` only moves links between the two; without a cause given by others it makes none
that it has not broken.  This rests on `ListIsOwed`: what lies ahead in `m_mutedPorts` is exactly what is
owed, since the lists have no duplicates.

`DebugProofs`: `TypeCorrect`, `InvCorrect`, `CycleTheorem`, `AlignedTheorem`, `WholeTheorem`, `EndTheorem`, for any number of buffers and losses and
any width of the index.  `Dates`: as long as no block breaks, a buffer's index is the cycle,
wrapped (`Wrapped`, which is injective on one round of cycles), whatever is lost.  `Matched`: what
one call has accepted carries one index from the first positive one on.  `AlignedTheorem`, about
indices that are not compared, uses `Aligned`: as long as nothing sets them apart, buffers that had
their turn in a cycle have sent the same datagrams (`InStep`, over what a port holds and what the current
call took from it), and a call holds one datagram of each port it has read (`Counted`).  `WholeTheorem` has the
number of datagrams without that condition.

**Only model-checked:** everything about liveness (`CallReturns`, `ConsumerServed`,
`CommitReleased`, `EventuallySteady`, `StopEnds`, `MuteEnds`, `ReceiveEnds`) as such; the
safety core of each is proved, see above.  What TLC adds is the step from there to `~>`, and that the
actions whose fairness is assumed are possible (ENABLED).

## 5. Disagreements between the code and what it says

1. **`pause_breaks_sync`** — `pauseAudioProcessing()` uses flag and event without the
   mutex (`audio_driver_base.cpp:32`).  A concurrent `commit()` may take its signal
   and return before its own actions have run, although "sync with driver"
   (`audio_driver_jack.cpp:63`) is what it is called for.
2. **`penalty_not_served`** — "add penalty time" (`audio_driver_base.cpp:132`) moves
   `lastUpdate` ahead of the clock; the unsigned difference is then huge, and the
   observer is due again at the very next block.
3. **`stage_past_the_end`** — without a delay `stage()` (`signal_buffer.h:275`) copies the
   window in one operation from wherever the pointer is, past the end of the channel.
4. **`short_read_shifts`** — in the configured non-blocking mode a short read counts as a
   block (`audio_driver_alsa.cpp:489`); from then on played and captured samples are
   not "at the exact same moment" (README.md:9).

Seen while modelling, without a run of their own, since neither a comment nor a
test says otherwise:

* `getBufferPortConnection()` (`audio_driver_base.h:206`) puts rows 16 apart
  (`MAX_SIGNAL_BUFFERS`) in an array with room for 4 entries per row: from slot 4 on it points
  behind the array.  `Registry` has it as the mishap "overrun", after which nothing is claimed.
* JACK's ports are never destroyed: `removeSignal()` calls `signalPortDestroy()`, an empty virtual
  (`audio_driver_base.h:148`) without an override.  After `remove()`, `undo()` or an `addBuffer()`
  that failed half-way, a port is still there, with its connections and its name, until the client is
  closed; adding the same buffer again throws "Could not create port".  `PassesOnce` states what
  this comes to, and `UndoIsComplete` claims only the slots.
* `audio_driver_jack.cpp` does not compile as it stands.  `AudioDriverJack` declares a `Connect` of
  its own (`audio_driver_jack.h:19`), so that its `signalPortNew()` does not override the one of
  `AudioDriverBase`, which knows no `ToPlaybackSource` and returns a null pointer; `initJack()`,
  `jackProcess()`, `jackShutdown()` and `setBlockSize()` are defined as members of `AudioDriver`
  (lines 125, 167, 232 and 249).  The modules take them for members of `AudioDriverJack`, and
  its `signalPortNew()` for the override that it is meant to be.
* A block longer than its buffer throws "Invalid block size!" in the audio thread (`signal_buffer.h:127`,
  174, 220): nothing compares a buffer's size with the driver's block length when it is added.
* `undo()` removes a buffer by its pointer, whoever has added it since; `UndoIsComplete` asks only
  that it be gone.
* `m_mutedPorts` is never emptied (`audio_driver_jack.cpp:51`): a second `muteOthers(false)` connects
  what is connected and throws.  `ThrowsForCause` therefore excuses it from then on.  Own
  playback ports are muted like others'.  A list of connections without a terminating
  entry at the number of channels is read past its end (`audio_driver_jack.cpp:81`).
* "restart others" in `receive_block()` reads `hudprs`, which is not defined
  (`SignalBufferReceiver.m:94`): the call ends with an error, `RestartOthers`.  `timeDataOut` is
  cleared at each port (line 106), so that only the last one's samples are returned.
  `prevBlockIndex` never changes, since the class is a value class.  Indices are compared only
  while positive, half of the time.
* `medianfilterCausal()` writes `result[0]` for a single sample, also if `result` is NULL, which
  `medianfilter()` allows (`signal_buffer.cpp:258`).

## 6. What is not modelled

* `AudioDriverAlsa`: numbers of channels, sample formats, the device listing (which
  does not compile), scheduling, latency statistics.
* `AudioDriverJack`: `setBlockSize()`, opening the client, the samples that `jackProcess()`
  copies.  Streamers: they are called in `jackProcess()`, but the function
  that registers them is commented out.
* `SignalBuffer`: the spectrum, whose only entry `getFreq()` always throws; contents of
  samples; memory management.
* Debug stream: quantisation, the time stamps of `receive()`, the two other overloads of `Send()`,
  the scripts `stream.m` and `wav_receive.m`, datagrams that overtake each other (one
  sender and one port per buffer).
* Filters: `denoise()`, `normalize()`, `absmax()`, `energy()`, test signals: floating-point
  arithmetic without state.  WAVE files: one call each to libsndfile.
* What the modules leave to each other: a block of `AlsaStream` is a number of frames, not a
  call to each `SignalBuffer`; a buffer of `Registry` counts its blocks and has no samples.
  No module composes these.
* Weak memory: the flags are not atomic, the models interleave whole accesses.

## 7. Plan

Done, in this order: `ActionQueue` with its abstract specification and proofs,
`ObserverCommit` likewise, `SignalRing`, `Registry` and `AlsaStream` with
their proofs, `HeapMedian`, `WindowMedian`, `JackPorts` and `DebugStream` with theirs; the
safety core of every liveness property.

Left: `Duplex` — `SignalRing` for a playing and a recording buffer under `AlsaStream`'s
clock: what is recorded is what was played two blocks before.  `RoundTrip` and
`PairInStep` have it for positions, `PlaysInLoop` and `RingHoldsLatest` for samples.
