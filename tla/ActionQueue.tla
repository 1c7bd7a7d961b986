----------------------------- MODULE ActionQueue -----------------------------
(***************************************************************************)
(* The hand-over of requests from client threads to the audio thread in    *)
(* AudioDriverBase (audio_driver_base.h, audio_driver_base.cpp).           *)
(*                                                                         *)
(* Client threads run Request::execute() and Request::undo(), or JACK's    *)
(* muteOthers(), under m_mtxActionQueue.  They push std::functions onto    *)
(* m_actionQueue, raise m_newActions and wait for                          *)
(* m_evtActionQueueProcessed.  The audio thread takes no lock: before each *)
(* block it tests m_newActions, drains the queue, clears the flag and      *)
(* signals the event.  pauseAudioProcessing() raises the same flag and     *)
(* waits for the same event WITHOUT the mutex.  m_running may fall at any  *)
(* time (jackShutdown, the destructors), and the audio thread may go away  *)
(* while m_running is still TRUE (setparams() failing in                   *)
(* AudioDriverAlsa::process(), a JACK callback that ran before the         *)
(* constructor set m_running).                                             *)
(*                                                                         *)
(* Each access to a shared variable is a step of its own.  An action is    *)
(* opaque here: a record naming the client that pushed it and its position *)
(* in that client's request; whether it throws makes no difference, as     *)
(* the audio thread catches the exception and pops it all the same.        *)
(*                                                                         *)
(* RttEvent is external.  Wait() returns once the event is signalled; the  *)
(* uses in src/ do not say whether that also resets it, so AutoResets is   *)
(* the set of answers a run or a theorem allows.                           *)
(***************************************************************************)
EXTENDS Integers, Sequences

CONSTANTS Clients,     \* threads that call execute(), undo(), muteOthers()
          Pausers,     \* threads that call pauseAudioProcessing()
          None,        \* the owner of a free mutex
          MaxActions,  \* bound: actions per request
          MaxOps,      \* bound: MaxOps[t] calls by thread t
          AutoResets   \* may RttEvent::Wait() reset the event? a set of BOOLEANs

ASSUME ConstantsAssumption ==
    /\ Clients \cap Pausers = {}
    /\ None \notin Clients
    /\ MaxActions \in Nat
    /\ MaxOps \in [Clients \cup Pausers -> Nat]
    /\ AutoResets \subseteq BOOLEAN

VARIABLES running,     \* m_running
          newActions,  \* m_newActions
          paused,      \* m_paused, which nothing ever clears
          evt,         \* m_evtActionQueueProcessed is signalled
          mutex,       \* owner of m_mtxActionQueue, or None
          queue,       \* m_actionQueue
          size,        \* size[c]: number of actions of c's current Request
          pushed,      \* pushed[c]: how many of them c has pushed
          ran,         \* ran[c]: how many of them the audio thread has run
          ops,         \* ops[t]: calls t has made
          pc,          \* pc[t]: where thread t is
          apc          \* where the audio thread is

callVars == <<size, pushed, ran, ops>>
vars == <<running, newActions, paused, evt, mutex, queue, callVars, pc, apc>>

Threads == Clients \cup Pausers

Action == [client : Clients, index : 1..MaxActions]

Goto(t, label) == pc' = [pc EXCEPT ![t] = label]

Init ==
    /\ running = TRUE
    /\ newActions = FALSE
    /\ paused = FALSE
    /\ evt = FALSE
    /\ mutex = None
    /\ queue = <<>>
    /\ size = [c \in Clients |-> 0]
    /\ pushed = [c \in Clients |-> 0]
    /\ ran = [c \in Clients |-> 0]
    /\ ops = [t \in Threads |-> 0]
    /\ pc = [t \in Threads |-> "idle"]
    /\ apc = "start"

-----------------------------------------------------------------------------
(* RttEvent, external *)

WaitEvent == /\ evt
             /\ \E reset \in AutoResets : evt' = ~reset

-----------------------------------------------------------------------------
(* Client threads *)

\* A client has a Request of n actions and calls execute() or undo(), or
\* calls muteOthers() (n = 0).
Begin(c) ==
    /\ pc[c] = "idle"
    /\ ops[c] < MaxOps[c]
    /\ \E n \in 0..MaxActions : size' = [size EXCEPT ![c] = n]
    /\ pushed' = [pushed EXCEPT ![c] = 0]
    /\ ran' = [ran EXCEPT ![c] = 0]
    /\ ops' = [ops EXCEPT ![c] = @ + 1]
    /\ Goto(c, "lock")
    /\ UNCHANGED <<running, newActions, paused, evt, mutex, queue, apc>>

\* Faulty variant: m_mtxActionQueue does not exclude anybody.
LockAnyway(c) ==
    /\ pc[c] = "lock"
    /\ mutex' = c
    /\ \/ Goto(c, "sync")
       \/ size[c] = 0 /\ Goto(c, "resync")
    /\ UNCHANGED <<running, newActions, paused, evt, queue, callVars, apc>>

\* RttLocalLock.  execute() and undo() then call sync() themselves;
\* muteOthers() goes straight to commit(), which calls it.
Lock(c) ==
    /\ pc[c] = "lock"
    /\ mutex = None
    /\ mutex' = c
    /\ \/ Goto(c, "sync")
       \/ size[c] = 0 /\ Goto(c, "resync")
    /\ UNCHANGED <<running, newActions, paused, evt, queue, callVars, apc>>

\* sync(): while (m_newActions && m_running) Wait(timeout); then Reset().
\* It is called twice; the arguments are the labels of the call.
SyncTest(c, test, wait, reset) ==
    /\ pc[c] = test
    /\ Goto(c, IF newActions /\ running THEN wait ELSE reset)
    /\ UNCHANGED <<running, newActions, paused, evt, mutex, queue, callVars, apc>>

\* The wait is timed: it ends with the signal or without.
SyncWait(c, wait, test) ==
    /\ pc[c] = wait
    /\ WaitEvent \/ UNCHANGED evt
    /\ Goto(c, test)
    /\ UNCHANGED <<running, newActions, paused, mutex, queue, callVars, apc>>

\* Faulty variant: sync() without its final Reset().
SyncKeepsSignal(c, reset, after) ==
    /\ pc[c] = reset
    /\ Goto(c, after)
    /\ UNCHANGED <<running, newActions, paused, evt, mutex, queue, callVars, apc>>

SyncReset(c, reset, after) ==
    /\ pc[c] = reset
    /\ evt' = FALSE
    /\ Goto(c, after)
    /\ UNCHANGED <<running, newActions, paused, mutex, queue, callVars, apc>>

Sync(c, test, wait, reset, after) ==
    \/ SyncTest(c, test, wait, reset)
    \/ SyncWait(c, wait, test)
    \/ SyncReset(c, reset, after)

\* while (actions.size()) m_actionQueue.push(actions.front()) ...
Push(c) ==
    /\ pc[c] = "push"
    /\ pushed[c] < size[c]
    /\ queue' = Append(queue, [client |-> c, index |-> pushed[c] + 1])
    /\ pushed' = [pushed EXCEPT ![c] = @ + 1]
    /\ UNCHANGED <<running, newActions, paused, evt, mutex, size, ran, ops, pc, apc>>

PushedAll(c) ==
    /\ pc[c] = "push"
    /\ pushed[c] = size[c]
    /\ Goto(c, "resync")
    /\ UNCHANGED <<running, newActions, paused, evt, mutex, queue, callVars, apc>>

\* commit(), after its sync(): m_newActions = true;
Raise(c) ==
    /\ pc[c] = "raise"
    /\ newActions' = TRUE
    /\ Goto(c, "test")
    /\ UNCHANGED <<running, paused, evt, mutex, queue, callVars, apc>>

\* Faulty variant: commit() that does not wait (async).
TestSkipsWait(c) ==
    /\ pc[c] = "test"
    /\ Goto(c, IF running THEN "acked" ELSE "unacked")
    /\ UNCHANGED <<running, newActions, paused, evt, mutex, queue, callVars, apc>>

\* if (!async && m_running) ...   (async is FALSE in every call)
TestRunning(c) ==
    /\ pc[c] = "test"
    /\ Goto(c, IF running THEN "wait" ELSE "unacked")
    /\ UNCHANGED <<running, newActions, paused, evt, mutex, queue, callVars, apc>>

\* ... m_evtActionQueueProcessed.Wait();   (no timeout here)
Wait(c) ==
    /\ pc[c] = "wait"
    /\ WaitEvent
    /\ Goto(c, "acked")
    /\ UNCHANGED <<running, newActions, paused, mutex, queue, callVars, apc>>

\* The lock goes out of scope, execute() returns and the Request may die.
Unlock(c) ==
    /\ pc[c] \in {"acked", "unacked"}
    /\ mutex' = None
    /\ Goto(c, "idle")
    /\ UNCHANGED <<running, newActions, paused, evt, queue, callVars, apc>>

Client(c) ==
    \/ Lock(c)
    \/ Sync(c, "sync", "syncWait", "syncReset", "push")
    \/ Push(c)
    \/ PushedAll(c)
    \/ Sync(c, "resync", "resyncWait", "resyncReset", "raise")
    \/ Raise(c)
    \/ TestRunning(c)
    \/ Wait(c)
    \/ Unlock(c)

-----------------------------------------------------------------------------
(* pauseAudioProcessing() *)

PauseSet(p) ==
    /\ pc[p] = "idle"
    /\ ops[p] < MaxOps[p]
    /\ ops' = [ops EXCEPT ![p] = @ + 1]
    /\ paused' = TRUE
    /\ Goto(p, "pauseRaise")
    /\ UNCHANGED <<running, newActions, evt, mutex, queue, size, pushed, ran, apc>>

PauseRaise(p) ==
    /\ pc[p] = "pauseRaise"
    /\ newActions' = TRUE
    /\ Goto(p, "pauseWait")
    /\ UNCHANGED <<running, paused, evt, mutex, queue, callVars, apc>>

PauseWait(p) ==
    /\ pc[p] = "pauseWait"
    /\ WaitEvent
    /\ Goto(p, "idle")
    /\ UNCHANGED <<running, newActions, paused, mutex, queue, callVars, apc>>

Pauser(p) == PauseRaise(p) \/ PauseWait(p)

-----------------------------------------------------------------------------
(* The audio thread: one iteration per block.                              *)

\* jackProcess: if (!m_running) return 1;  ALSA: while (m_running && ...)
AudioStart ==
    /\ apc = "start"
    /\ apc' = IF running THEN "check" ELSE "ended"
    /\ UNCHANGED <<running, newActions, paused, evt, mutex, queue, callVars, pc>>

\* processActionQueueInAudioThread(): if (m_newActions) ...
AudioCheck ==
    /\ apc = "check"
    /\ apc' = IF newActions THEN "drain" ELSE "block"
    /\ UNCHANGED <<running, newActions, paused, evt, mutex, queue, callVars, pc>>

\* ... m_actionQueue.front()(); m_actionQueue.pop();
AudioRunAction ==
    /\ apc = "drain"
    /\ queue # <<>>
    /\ ran' = [ran EXCEPT ![Head(queue).client] = @ + 1]
    /\ queue' = Tail(queue)
    /\ UNCHANGED <<running, newActions, paused, evt, mutex, size, pushed, ops, pc, apc>>

\* Faulty variant: one action per block instead of draining the queue.
AudioStopsEarly ==
    /\ apc = "drain"
    /\ apc' = "clear"
    /\ UNCHANGED <<running, newActions, paused, evt, mutex, queue, callVars, pc>>

AudioDrained ==
    /\ apc = "drain"
    /\ queue = <<>>
    /\ apc' = "clear"
    /\ UNCHANGED <<running, newActions, paused, evt, mutex, queue, callVars, pc>>

AudioClearFlag ==
    /\ apc = "clear"
    /\ newActions' = FALSE
    /\ apc' = "signal"
    /\ UNCHANGED <<running, paused, evt, mutex, queue, callVars, pc>>

\* Faulty variant: the flag is cleared and nobody is told.
AudioForgetsSignal ==
    /\ apc = "signal"
    /\ apc' = "block"
    /\ UNCHANGED <<running, newActions, paused, evt, mutex, queue, callVars, pc>>

AudioSignal ==
    /\ apc = "signal"
    /\ evt' = TRUE
    /\ apc' = "block"
    /\ UNCHANGED <<running, newActions, paused, mutex, queue, callVars, pc>>

\* The signal buffers and observers of one block (JACK skips them once
\* m_paused is set); the queue's variables are not touched.
AudioBlock ==
    /\ apc = "block"
    /\ apc' = "start"
    /\ UNCHANGED <<running, newActions, paused, evt, mutex, queue, callVars, pc>>

Audio == \/ AudioStart \/ AudioCheck \/ AudioRunAction \/ AudioDrained
         \/ AudioClearFlag \/ AudioSignal \/ AudioBlock

\* The audio thread goes away with m_running still TRUE.
AudioFails ==
    /\ apc = "start"
    /\ apc' = "ended"
    /\ UNCHANGED <<running, newActions, paused, evt, mutex, queue, callVars, pc>>

\* jackShutdown(), ~AudioDriverAlsa(), ~AudioDriverBase().
Stop ==
    /\ running
    /\ running' = FALSE
    /\ UNCHANGED <<newActions, paused, evt, mutex, queue, callVars, pc, apc>>

-----------------------------------------------------------------------------

Next == \/ \E c \in Clients : Begin(c) \/ Client(c)
        \/ \E p \in Pausers : PauseSet(p) \/ Pauser(p)
        \/ Audio
        \/ AudioFails
        \/ Stop

\* The audio callback keeps being called and every thread inside a call is
\* eventually scheduled; nobody is obliged to begin a call or to stop.
Fairness == /\ WF_vars(Audio)
            /\ \A c \in Clients : WF_vars(Client(c))
            /\ \A p \in Pausers : WF_vars(Pauser(p))

Spec == Init /\ [][Next]_vars /\ Fairness

-----------------------------------------------------------------------------
(* Properties *)

Locked == {"sync", "syncWait", "syncReset", "push", "resync", "resyncWait",
           "resyncReset", "raise", "test", "wait", "acked", "unacked"}
ClientLabel == {"idle", "lock"} \cup Locked
PauserLabel == {"idle", "pauseRaise", "pauseWait"}
AudioLabel == {"start", "check", "drain", "clear", "signal", "block", "ended"}

\* Every variable keeps its type.
TypeOK ==
    /\ running \in BOOLEAN
    /\ newActions \in BOOLEAN
    /\ paused \in BOOLEAN
    /\ evt \in BOOLEAN
    /\ mutex \in Clients \cup {None}
    /\ queue \in Seq(Action)
    /\ size \in [Clients -> 0..MaxActions]
    /\ pushed \in [Clients -> 0..MaxActions]
    /\ ran \in [Clients -> Nat]
    /\ ops \in [Threads -> Nat] /\ \A t \in Threads : ops[t] <= MaxOps[t]
    /\ pc \in [Threads -> ClientLabel \cup PauserLabel]
    /\ \A c \in Clients : pc[c] \in ClientLabel
    /\ apc \in AudioLabel

\* The guarantees below hold while the driver runs and until
\* pauseAudioProcessing() is first called.
InForce == running /\ ~paused

\* execute(), undo() and muteOthers() return, having waited, only after the
\* audio thread has run every action of the request: no signal of an earlier
\* round is taken for the answer to this one.
CommitMeansApplied ==
    InForce => \A c \in Clients : pc[c] = "acked" => ran[c] = size[c]

\* m_actionQueue is a plain std::queue: a client never pushes onto it while
\* the audio thread is draining it, nor while another client pushes.
QueueExclusive ==
    InForce => \A c \in Clients :
        pc[c] = "push" => /\ apc # "drain"
                          /\ \A d \in Clients \ {c} : pc[d] # "push"

\* The actions of addBuffer() capture the Request they were built by: while
\* one is queued, the call of that very request has not returned.
NoDanglingAction ==
    InForce => \A i \in 1..Len(queue) :
        pc[queue[i].client] \notin {"idle", "lock"}

\* A block is processed with all actions of a request in effect or with none:
\* what one Request adds starts and stops in the same block.
WholeRequests ==
    InForce /\ apc = "block" =>
        \A c \in Clients : ran[c] \in {0, size[c]}

\* Every call comes back, unless the driver stops, its thread dies or
\* pauseAudioProcessing() interferes.
CallReturns ==
    \A c \in Clients :
        pc[c] # "idle" ~> (pc[c] = "idle" \/ ~InForce \/ apc = "ended")

\* "commit(); // sync with driver" (audio_driver_jack.cpp:63), with no
\* exception for pauseAudioProcessing().  It does not hold.
CommitSyncsWithDriver ==
    running => \A c \in Clients : pc[c] = "acked" => ran[c] = size[c]

-----------------------------------------------------------------------------
(* The abstract specification *)

\* The request of c has been applied: the flag that c raised is down again.
Applied(c) == pc[c] = "acked" \/ (pc[c] \in {"test", "wait"} /\ ~newActions)

Phase(c) == IF pc[c] = "idle" THEN "idle"
            ELSE IF Applied(c) THEN "applied" ELSE "called"

\* What the blocks see: while the queue is drained, none of it yet.
Visible(c) == IF apc \in {"drain", "clear"} /\ mutex = c THEN 0 ELSE ran[c]

PhaseOf == [c \in Clients |-> Phase(c)]
VisibleOf == [c \in Clients |-> Visible(c)]

Promise == INSTANCE AtomicRequests WITH
               open <- InForce, phase <- PhaseOf, visible <- VisibleOf

\* The queue implements the atomic requests of AtomicRequests.
ImplementsAtomicRequests == Promise!Spec
=============================================================================
