--------------------------- MODULE ObserverCommit ---------------------------
(***************************************************************************)
(* A SignalBufferObserver (signal_buffer.h) between the audio thread and   *)
(* the thread that waits for its data.                                     *)
(*                                                                         *)
(* After every block the audio thread runs                                 *)
(* processSignalBufferObserverInAudioThread(): once more than              *)
(* updateInterval frames have passed since lastUpdate it calls commit(),   *)
(* which copies every observed buffer to its stage and signals m_evCommit, *)
(* unless the consumer still holds the previous commit.  The consumer      *)
(* calls waitForCommit(), reads the stages, calls reset() and comes back.  *)
(* A third thread may call cancel().  Nothing here is under a lock:        *)
(* `commiting' (sic) and the event are the whole protocol, so each access  *)
(* to them, and each buffer staged or read, is a step of its own.  The     *)
(* clock variables belong to the audio thread; a block's clock work is one *)
(* step.                                                                   *)
(*                                                                         *)
(* What a stage holds is abstracted to the moment at which stage() filled  *)
(* it, a frame count taken round at StampSpan; which samples those are is  *)
(* SignalRing's subject.                                                   *)
(***************************************************************************)
EXTENDS Integers

CONSTANTS NumHists,     \* number of observed buffers (m_hists)
          Interval,     \* updateInterval, the common size of the buffers
          BlockSizes,   \* nframes the driver may process at once
          U32,          \* 2^32: lastUpdate is a uint32_t
          ULong,        \* values of an unsigned long, m_totalFramesProcessed
          CommitCap,    \* bound: sinceCommit stops counting here
          StampSpan,    \* bound: moments this far apart are not told apart
          FailCap,      \* bound: sinceFail stops counting here (0 leaves it out)
          AutoResets,   \* may RttEvent::Wait() reset the event? a set of BOOLEANs
          Empty         \* no snapshot

ASSUME ConstantsAssumption ==
    /\ NumHists \in Nat \ {0}
    /\ Interval \in Nat \ {0}
    /\ BlockSizes \subseteq Nat \ {0}
    /\ U32 \in Nat /\ U32 > Interval
    /\ ULong \in Nat /\ ULong >= U32
    /\ CommitCap \in Nat /\ FailCap \in Nat
    /\ StampSpan \in Nat \ {0}
    /\ AutoResets \subseteq BOOLEAN
    /\ Empty \notin [1..NumHists -> Nat]

VARIABLES total,        \* m_totalFramesProcessed
          lastUpdate,   \* the observer's lastUpdate
          commiting,    \* the observer's commiting
          ev,           \* m_evCommit is signalled
          staged,       \* staged[h]: the moment at which h was last staged
          at,           \* the next buffer commit() stages
          apc,          \* where the audio thread is
          got,          \* got[h]: what the consumer read from the stage of h
          reading,      \* the next stage the consumer reads
          cpc,          \* where the consumer is
          kpc,          \* where the cancelling thread is
          sinceCommit,  \* frames since the last successful commit (history)
          sinceFail,    \* frames since the last failed commit (history)
          outgrown      \* total has been too large for a uint32_t (history)

ages == <<total, sinceCommit, sinceFail, outgrown>>
clock == <<ages, lastUpdate>>
consumer == <<got, reading, cpc>>
vars == <<clock, commiting, ev, staged, at, apc, consumer, kpc>>

Hists == 1..NumHists
Counts == 0..ULong - 1
Stamps == 0..StampSpan - 1
Moment == total % StampSpan
Unset == U32 - 1   \* lastUpdate(-1)
Nothing == [h \in Hists |-> 0]

Init ==
    /\ total = 0 /\ lastUpdate = Unset
    /\ commiting = FALSE /\ ev = FALSE
    /\ staged = Nothing /\ at = 1 /\ apc = "block"
    /\ got = Nothing /\ reading = 1 /\ cpc = "idle"
    /\ kpc = "idle"
    /\ sinceCommit = CommitCap /\ sinceFail = FailCap /\ outgrown = FALSE

-----------------------------------------------------------------------------
(* Audio thread *)

Older(age, cap) == IF age > cap THEN cap ELSE age

\* m_totalFramesProcessed += nframes, at the end of the block.
Tick(commitAge, failAge) ==
    \E n \in BlockSizes :
        /\ total' = (total + n) % ULong
        /\ sinceCommit' = Older(commitAge + n, CommitCap)
        /\ sinceFail' = Older(failAge + n, FailCap)
        /\ outgrown' = (outgrown \/ (total + n >= U32 /\ ULong > U32))

\* lastUpdate == -1: the first block after the observer was added.
Started == IF lastUpdate = Unset THEN total % U32 ELSE lastUpdate

\* Faulty variant: the interval is not waited for.
DueAlways == TRUE

\* (m_totalFramesProcessed - lastUpdate) > updateInterval, in unsigned long.
Due == (total - Started) % ULong > Interval

NotDue ==
    /\ apc = "block" /\ ~Due
    /\ lastUpdate' = Started
    /\ Tick(sinceCommit, sinceFail)
    /\ UNCHANGED <<commiting, ev, staged, at, apc, consumer, kpc>>

IsDue ==
    /\ apc = "block" /\ Due
    /\ lastUpdate' = total % U32
    /\ apc' = "commit"
    /\ UNCHANGED <<ages, commiting, ev, staged, at, consumer, kpc>>

\* Faulty variant: a refused commit takes the observer from the slow consumer.
CommitRefusedDrops ==
    /\ apc = "commit" /\ commiting
    /\ commiting' = FALSE
    /\ lastUpdate' = (lastUpdate + Interval) % U32
    /\ Tick(sinceCommit, 0)
    /\ apc' = "block"
    /\ UNCHANGED <<ev, staged, at, consumer, kpc>>

\* commit(): if (commiting) return false;   lastUpdate += updateInterval
CommitRefused ==
    /\ apc = "commit" /\ commiting
    /\ lastUpdate' = (lastUpdate + Interval) % U32
    /\ Tick(sinceCommit, 0)
    /\ apc' = "block"
    /\ UNCHANGED <<commiting, ev, staged, at, consumer, kpc>>

\* Faulty variant: commit() overruns the consumer.
CommitAlways ==
    /\ apc = "commit"
    /\ apc' = "mark"
    /\ UNCHANGED <<clock, commiting, ev, staged, at, consumer, kpc>>

CommitTest ==
    /\ apc = "commit" /\ ~commiting
    /\ apc' = "mark"
    /\ UNCHANGED <<clock, commiting, ev, staged, at, consumer, kpc>>

\* commiting = true;
CommitMark ==
    /\ apc = "mark"
    /\ commiting' = TRUE
    /\ apc' = "stage"
    /\ UNCHANGED <<clock, ev, staged, at, consumer, kpc>>

\* h->stage(), for each buffer in turn
CommitStage ==
    /\ apc = "stage" /\ at <= NumHists
    /\ staged' = [staged EXCEPT ![at] = Moment]
    /\ at' = at + 1
    /\ UNCHANGED <<clock, commiting, ev, apc, consumer, kpc>>

CommitStaged ==
    /\ apc = "stage" /\ at > NumHists
    /\ apc' = "signal"
    /\ UNCHANGED <<clock, commiting, ev, staged, at, consumer, kpc>>

\* Faulty variant: the commit is not signalled.
CommitForgetsSignal ==
    /\ apc = "signal"
    /\ Tick(0, sinceFail)
    /\ at' = 1
    /\ apc' = "block"
    /\ UNCHANGED <<ev, lastUpdate, commiting, staged, consumer, kpc>>

\* m_evCommit.Signal(); return true;   and the block is over
CommitSignal ==
    /\ apc = "signal"
    /\ ev' = TRUE
    /\ Tick(0, sinceFail)
    /\ at' = 1
    /\ apc' = "block"
    /\ UNCHANGED <<lastUpdate, commiting, staged, consumer, kpc>>

Audio == NotDue \/ IsDue \/ CommitRefused \/ CommitTest \/ CommitMark
         \/ CommitStage \/ CommitStaged \/ CommitSignal

-----------------------------------------------------------------------------
(* Consumer *)

CallWait ==
    /\ cpc = "idle"
    /\ cpc' = "wait"
    /\ UNCHANGED <<clock, commiting, ev, staged, at, apc, got, reading, kpc>>

\* waitForCommit(): return m_evCommit.Wait() && commiting;
Wake ==
    /\ cpc = "wait" /\ ev
    /\ \E reset \in AutoResets : ev' = ~reset
    /\ cpc' = "woken"
    /\ UNCHANGED <<clock, commiting, staged, at, apc, got, reading, kpc>>

WaitReturns ==
    /\ cpc = "woken"
    /\ cpc' = IF commiting THEN "read" ELSE "idle"
    /\ UNCHANGED <<clock, commiting, ev, staged, at, apc, got, reading, kpc>>

\* The consumer goes through the stages (getTimeStageAll(), getPtrTS()).
Read ==
    /\ cpc = "read" /\ reading <= NumHists
    /\ got' = [got EXCEPT ![reading] = staged[reading]]
    /\ reading' = reading + 1
    /\ UNCHANGED <<clock, commiting, ev, staged, at, apc, cpc, kpc>>

ReadAll ==
    /\ cpc = "read" /\ reading > NumHists
    /\ cpc' = "reset"
    /\ UNCHANGED <<clock, commiting, ev, staged, at, apc, got, reading, kpc>>

\* reset(): if (!commiting) throw ...
ResetTest ==
    /\ cpc = "reset"
    /\ cpc' = IF commiting THEN "resetEvent" ELSE "thrown"
    /\ UNCHANGED <<clock, commiting, ev, staged, at, apc, got, reading, kpc>>

\* m_evCommit.Reset();
ResetEvent ==
    /\ cpc = "resetEvent"
    /\ ev' = FALSE
    /\ cpc' = "resetFlag"
    /\ UNCHANGED <<clock, commiting, staged, at, apc, got, reading, kpc>>

\* Faulty variant: the observer is never released.
ResetKeepsFlag ==
    /\ cpc = "resetFlag"
    /\ cpc' = "idle"
    /\ got' = Nothing /\ reading' = 1
    /\ UNCHANGED <<clock, commiting, ev, staged, at, apc, kpc>>

\* commiting = false;   The consumer is done with what it has read.
ResetFlag ==
    /\ cpc = "resetFlag"
    /\ commiting' = FALSE
    /\ cpc' = "idle"
    /\ got' = Nothing /\ reading' = 1
    /\ UNCHANGED <<clock, ev, staged, at, apc, kpc>>

Consumer == CallWait \/ Wake \/ WaitReturns \/ Read \/ ReadAll
            \/ ResetTest \/ ResetEvent \/ ResetFlag

-----------------------------------------------------------------------------
(* cancel(), called once: commiting = false; m_evCommit.Signal(); *)

CancelFlag ==
    /\ kpc = "idle"
    /\ commiting' = FALSE
    /\ kpc' = "signal"
    /\ UNCHANGED <<clock, ev, staged, at, apc, consumer>>

CancelSignal ==
    /\ kpc = "signal"
    /\ ev' = TRUE
    /\ kpc' = "done"
    /\ UNCHANGED <<clock, commiting, staged, at, apc, consumer>>

-----------------------------------------------------------------------------

Next == Audio \/ Consumer \/ CancelFlag \/ CancelSignal

\* The driver keeps processing blocks, and the consumer is a loop of
\* waitForCommit(), reading and reset(); nobody has to cancel.
Fairness == WF_vars(Audio) /\ WF_vars(Consumer) /\ WF_vars(CancelSignal)

Spec == Init /\ [][Next]_vars /\ Fairness

-----------------------------------------------------------------------------
(* Properties *)

\* Every variable keeps its type.
TypeOK ==
    /\ total \in Counts /\ lastUpdate \in 0..U32 - 1
    /\ sinceCommit \in 0..CommitCap /\ sinceFail \in 0..FailCap /\ outgrown \in BOOLEAN
    /\ commiting \in BOOLEAN /\ ev \in BOOLEAN
    /\ staged \in [Hists -> Stamps] /\ at \in 1..NumHists + 1
    /\ apc \in {"block", "commit", "mark", "stage", "signal"}
    /\ got \in [Hists -> Stamps] /\ reading \in 1..NumHists + 1
    /\ cpc \in {"idle", "wait", "woken", "read", "reset", "resetEvent",
                "resetFlag", "thrown"}
    /\ kpc \in {"idle", "signal", "done"}

InForce == kpc = "idle"

\* The buffers of an observer were all staged at the same moment, and none is
\* staged again while the consumer goes through them: what it has read is one
\* snapshot.  (Without cancel().)
NoTornRead ==
    InForce => \A g, h \in 1..reading - 1 :
        cpc \in {"read", "reset"} => got[g] = got[h] /\ got[g] = staged[g]

\* "Called commited() but not commiting!" is never thrown at a consumer that
\* calls reset() once per TRUE answer of waitForCommit().  (Without cancel().)
ResetNeverThrows == InForce => cpc # "thrown"

\* commit() comes more than one interval after the commit before, whatever
\* the consumer does.  A 64-bit frame count outgrows the uint32_t lastUpdate
\* after 2^32 frames, and every block then commits: hence the condition.
CommitSpacing ==
    apc \in {"mark", "stage", "signal"} /\ ~outgrown
        => sinceCommit > Interval

\* A consumer that waits is woken: the clock and the event never leave it
\* behind, across refused commits and the wrap-around of the frame count.
ConsumerServed == cpc = "wait" ~> cpc # "wait"

\* The observer does not stay busy: whatever was committed is released.
CommitReleased == commiting ~> (~commiting \/ ~InForce)

\* "add penalty time" (audio_driver_base.cpp:132): after a refused commit the
\* observer is left alone for another interval.  It does not hold: lastUpdate
\* is then ahead of the clock and the unsigned difference wraps.
PenaltyIsServed == apc = "commit" => sinceFail >= Interval

-----------------------------------------------------------------------------
(* The abstract specification *)

\* The audio thread is at the stages, or has not signalled them yet.
Filling == {"stage", "signal"}

SlotOf == IF commiting /\ apc \notin Filling THEN staged ELSE Empty
HeldOf == IF cpc \in {"reset", "resetEvent", "resetFlag"} THEN got ELSE Empty

Slot == INSTANCE SnapshotSlot WITH open <- InForce, slot <- SlotOf, held <- HeldOf

\* The observer implements the slot of SnapshotSlot.
ImplementsSlot == Slot!Spec
=============================================================================
