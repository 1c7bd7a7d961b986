---------------------------- MODULE SnapshotSlot ----------------------------
(***************************************************************************)
(* What a SignalBufferObserver promises to the thread that waits on it.    *)
(*                                                                         *)
(* The observer is a slot for one snapshot of all observed SignalBuffers.  *)
(* The audio thread fills it in one step, with every buffer taken at the   *)
(* same moment, and only when it is empty; the consumer sees the whole     *)
(* snapshot, once, and empties the slot.  The promise is void (`open' is   *)
(* FALSE) once cancel() has been called.                                   *)
(*                                                                         *)
(* ObserverCommit refines this specification.                              *)
(***************************************************************************)
CONSTANTS Hists,    \* the observed buffers
          Stamps,   \* the moments a buffer can be staged at
          Empty     \* no snapshot

VARIABLES open,     \* the promise is in force
          slot,     \* the published snapshot, or Empty
          held      \* the snapshot the consumer has copied, or Empty

vars == <<open, slot, held>>

Snapshots == {[h \in Hists |-> s] : s \in Stamps}

Init == open = TRUE /\ slot = Empty /\ held = Empty

\* The audio thread publishes the buffers as they are at one moment.
Publish == /\ slot = Empty
           /\ slot' \in Snapshots
           /\ UNCHANGED held

\* The consumer has the whole snapshot.
Take == /\ slot # Empty /\ held = Empty
        /\ held' = slot
        /\ UNCHANGED slot

\* The consumer is done with it; the audio thread may publish again.
Release == /\ held # Empty
           /\ slot' = Empty /\ held' = Empty

Serve == open /\ open' = TRUE /\ (Publish \/ Take \/ Release)

\* The promise ends, and an unread snapshot may be dropped; from the next step
\* on, anything may happen.
Void == /\ open' = FALSE
        /\ open => slot' \in {slot, Empty} /\ held' = held

Next == Serve \/ Void

Spec == Init /\ [][Next]_vars
=============================================================================
