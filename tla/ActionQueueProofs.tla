-------------------------- MODULE ActionQueueProofs --------------------------
(***************************************************************************)
(* Proofs about ActionQueue, for every set of client and pausing threads,  *)
(* every bound on actions and calls, and either behaviour of RttEvent.     *)
(***************************************************************************)
EXTENDS ActionQueue, SequenceTheorems, TLAPS

-----------------------------------------------------------------------------
(* The inductive invariant *)

\* The client that holds the mutex is at one of these labels.
HolderAt(labels) == mutex # None /\ pc[mutex] \in labels

MutexHeld == \A c \in Clients : pc[c] \in Locked <=> mutex = c

\* While the contract is in force, nobody pauses and no client finds the flag
\* up in sync(): whoever raised it held the mutex until it was down again.
NoForeignFlag ==
    /\ \A p \in Pausers : pc[p] = "idle"
    /\ \A c \in Clients : pc[c] \notin {"syncWait", "resyncWait", "unacked"}
    /\ newActions => HolderAt({"test", "wait"})
    /\ apc \in {"drain", "clear"} => newActions
    /\ apc = "signal" => ~newActions /\ HolderAt({"test", "wait"})

\* From the Reset() of commit() until AudioSignal, the event is down.
NoStaleSignal ==
    /\ HolderAt({"raise"}) => ~evt
    /\ HolderAt({"test", "wait"}) /\ (newActions \/ apc = "signal") => ~evt

\* The queue holds what the holder of the mutex has pushed and the audio
\* thread has not run yet.
QueueIsHolders ==
    /\ \A i \in 1..Len(queue) : queue[i].client = mutex
    /\ mutex \in Clients => Len(queue) + ran[mutex] = pushed[mutex]
    /\ apc = "clear" => queue = <<>>

\* How far each request has come, by the label of its client.
Progress ==
    \A c \in Clients :
        /\ pc[c] \in {"lock", "sync", "syncReset"} => pushed[c] = 0
        /\ pc[c] \in {"resync", "resyncReset", "raise", "test", "wait", "acked"}
              => pushed[c] = size[c]
        /\ pc[c] \in {"lock", "sync", "syncReset", "push", "resync",
                      "resyncReset", "raise"} => ran[c] = 0
        /\ pc[c] \in {"test", "wait"} /\ newActions /\ apc \notin {"drain", "clear"}
              => ran[c] = 0
        /\ pc[c] \in {"test", "wait"} /\ ~newActions => ran[c] = size[c]
        /\ pc[c] \in {"idle", "acked"} => ran[c] = size[c]

\* Why the safety properties hold: what execute() and the audio thread rely on
\* when they share m_newActions, the event and the queue.
IInv ==
    /\ TypeOK
    /\ MutexHeld
    /\ InForce => NoForeignFlag /\ NoStaleSignal /\ QueueIsHolders /\ Progress

-----------------------------------------------------------------------------
(* Guarantees beyond those that the runs check *)

\* A client that waits for its answer, or is about to, has been answered or will
\* be: the event is up, or about to be, or the flag that asks for it is.
NoLostAnswer ==
    InForce => \A c \in Clients :
        pc[c] \in {"test", "wait"} => evt \/ apc = "signal" \/ newActions

\* The steps that are left to the audio thread until it answers.
AnswerLeft ==
    IF evt THEN 0
    ELSE IF apc = "signal" THEN 1
    ELSE IF apc = "clear" THEN 2
    ELSE IF apc = "drain" THEN 3 + Len(queue)
    ELSE IF apc = "check" THEN 4 + Len(queue)
    ELSE IF apc = "start" THEN 5 + Len(queue)
    ELSE 6 + Len(queue)

\* While a client waits, each step of the audio thread brings the answer nearer,
\* an answer that has been given is not taken away by another thread, and no
\* other thread gives the audio thread more to do.
AnswerComesNearer ==
    [][ \A c \in Clients :
            InForce /\ InForce' /\ pc[c] = "wait" /\ pc'[c] = "wait" =>
                /\ Audio => IF evt THEN evt' ELSE AnswerLeft' < AnswerLeft
                /\ ~Audio => apc' = "ended" \/ UNCHANGED <<evt, apc, queue>> ]_vars

-----------------------------------------------------------------------------

\* The initial state is well typed.
LEMMA TypeInit == Init => TypeOK
<1> SUFFICES ASSUME Init PROVE TypeOK
  OBVIOUS
<1> USE ConstantsAssumption
<1>1. queue \in Seq(Action)
  BY DEF Init
<1>2. /\ size \in [Clients -> 0..MaxActions]
      /\ pushed \in [Clients -> 0..MaxActions]
      /\ ran \in [Clients -> Nat]
  BY DEF Init
<1>3. ops \in [Threads -> Nat] /\ \A t \in Threads : ops[t] <= MaxOps[t]
  BY DEF Init, Threads
<1>4. /\ pc \in [Threads -> ClientLabel \cup PauserLabel]
      /\ \A c \in Clients : pc[c] \in ClientLabel
  BY DEF Init, Threads, ClientLabel, PauserLabel
<1> QED BY <1>1, <1>2, <1>3, <1>4 DEF Init, TypeOK, AudioLabel

\* A move of a client from one of its labels to another keeps pc well typed.
LEMMA ClientMoves ==
    ASSUME TypeOK, NEW c \in Clients, NEW label \in ClientLabel, Goto(c, label)
    PROVE  /\ pc' \in [Threads -> ClientLabel \cup PauserLabel]
           /\ \A d \in Clients : pc'[d] \in ClientLabel
           /\ pc'[c] = label
           /\ \A t \in Threads \ {c} : pc'[t] = pc[t]
BY DEF TypeOK, Goto, Threads

\* Likewise for a thread that pauses: the clients stay where they are.
LEMMA PauserMoves ==
    ASSUME TypeOK, NEW p \in Pausers, NEW label \in PauserLabel, Goto(p, label)
    PROVE  /\ pc' \in [Threads -> ClientLabel \cup PauserLabel]
           /\ \A d \in Clients : pc'[d] = pc[d]
           /\ pc'[p] = label
BY ConstantsAssumption DEF TypeOK, Goto, Threads

\* A Sync(...) call moves its client within the labels of that call.
LEMMA SyncType ==
    ASSUME TypeOK, NEW c \in Clients,
           NEW test \in ClientLabel, NEW wait \in ClientLabel,
           NEW reset \in ClientLabel, NEW after \in ClientLabel,
           Sync(c, test, wait, reset, after)
    PROVE  TypeOK'
<1>1. CASE SyncTest(c, test, wait, reset)
  <2>1. \E l \in {wait, reset} : Goto(c, l)
    BY <1>1 DEF SyncTest
  <2> QED BY <1>1, <2>1, ClientMoves DEF SyncTest, TypeOK, callVars
<1>2. CASE SyncWait(c, wait, test)
  <2>1. evt' \in BOOLEAN
    BY <1>2 DEF SyncWait, WaitEvent, TypeOK
  <2> QED BY <1>2, <2>1, ClientMoves DEF SyncWait, TypeOK, callVars
<1>3. CASE SyncReset(c, reset, after)
  BY <1>3, ClientMoves DEF SyncReset, TypeOK, callVars
<1> QED BY <1>1, <1>2, <1>3 DEF Sync

\* Every step keeps the types.
LEMMA TypeStep == TypeOK /\ [Next]_vars => TypeOK'
<1> SUFFICES ASSUME TypeOK, [Next]_vars
             PROVE  TypeOK'
  OBVIOUS
<1> USE ConstantsAssumption
<1>1. ASSUME NEW c \in Clients, Begin(c)
      PROVE  TypeOK'
  <2>1. PICK n \in 0..MaxActions : size' = [size EXCEPT ![c] = n]
    BY <1>1 DEF Begin
  <2>2. /\ size' \in [Clients -> 0..MaxActions]
        /\ pushed' \in [Clients -> 0..MaxActions]
        /\ ran' \in [Clients -> Nat]
    BY <1>1, <2>1 DEF Begin, TypeOK
  <2>3. ops' \in [Threads -> Nat] /\ \A t \in Threads : ops'[t] <= MaxOps[t]
    BY <1>1 DEF Begin, TypeOK, Threads
  <2>4. Goto(c, "lock") /\ "lock" \in ClientLabel
    BY <1>1 DEF Begin, ClientLabel
  <2> QED BY <1>1, <2>2, <2>3, <2>4, ClientMoves DEF Begin, TypeOK
<1>2. ASSUME NEW c \in Clients, Client(c)
      PROVE  TypeOK'
  <2>1. CASE Lock(c)
    <3>1. \E l \in {"sync", "resync"} : Goto(c, l)
      BY <2>1 DEF Lock
    <3> QED BY <2>1, <3>1, ClientMoves DEF Lock, TypeOK, callVars, ClientLabel, Locked
  <2>2. CASE Sync(c, "sync", "syncWait", "syncReset", "push")
    BY <2>2, SyncType DEF ClientLabel, Locked
  <2>3. CASE Push(c)
    <3>1. /\ [client |-> c, index |-> pushed[c] + 1] \in Action
          /\ pushed[c] + 1 \in 0..MaxActions
      BY <2>3 DEF Push, TypeOK, Action
    <3>2. queue' \in Seq(Action)
      BY <2>3, <3>1, AppendProperties DEF Push, TypeOK
    <3>3. pushed' \in [Clients -> 0..MaxActions]
      BY <2>3, <3>1 DEF Push, TypeOK
    <3> QED BY <2>3, <3>2, <3>3 DEF Push, TypeOK
  <2>4. CASE PushedAll(c)
    BY <2>4, ClientMoves DEF PushedAll, TypeOK, callVars, ClientLabel, Locked
  <2>5. CASE Sync(c, "resync", "resyncWait", "resyncReset", "raise")
    BY <2>5, SyncType DEF ClientLabel, Locked
  <2>6. CASE Raise(c)
    BY <2>6, ClientMoves DEF Raise, TypeOK, callVars, ClientLabel, Locked
  <2>7. CASE TestRunning(c)
    <3>1. \E l \in {"wait", "unacked"} : Goto(c, l)
      BY <2>7 DEF TestRunning
    <3> QED BY <2>7, <3>1, ClientMoves
            DEF TestRunning, TypeOK, callVars, ClientLabel, Locked
  <2>8. CASE Wait(c)
    <3>1. evt' \in BOOLEAN
      BY <2>8 DEF Wait, WaitEvent
    <3> QED BY <2>8, <3>1, ClientMoves DEF Wait, TypeOK, callVars, ClientLabel, Locked
  <2>9. CASE Unlock(c)
    BY <2>9, ClientMoves DEF Unlock, TypeOK, callVars, ClientLabel
  <2> QED BY <1>2, <2>1, <2>2, <2>3, <2>4, <2>5, <2>6, <2>7, <2>8, <2>9 DEF Client
<1>3. ASSUME NEW p \in Pausers, PauseSet(p) \/ Pauser(p)
      PROVE  TypeOK'
  <2>1. CASE PauseSet(p)
    <3>1. ops' \in [Threads -> Nat] /\ \A t \in Threads : ops'[t] <= MaxOps[t]
      BY <2>1 DEF PauseSet, TypeOK, Threads
    <3> QED BY <2>1, <3>1, PauserMoves DEF PauseSet, TypeOK, PauserLabel
  <2>2. CASE PauseRaise(p)
    BY <2>2, PauserMoves DEF PauseRaise, TypeOK, callVars, PauserLabel
  <2>3. CASE PauseWait(p)
    <3>1. evt' \in BOOLEAN
      BY <2>3 DEF PauseWait, WaitEvent
    <3> QED BY <2>3, <3>1, PauserMoves DEF PauseWait, TypeOK, callVars, PauserLabel
  <2> QED BY <1>3, <2>1, <2>2, <2>3 DEF Pauser
<1>4. CASE Audio
  <2>1. CASE AudioRunAction
    <3>1. Head(queue) \in Action /\ Tail(queue) \in Seq(Action)
      BY <2>1, HeadTailProperties DEF AudioRunAction, TypeOK
    <3>2. PICK d \in Clients : Head(queue).client = d
      BY <3>1 DEF Action
    <3>3. ran' \in [Clients -> Nat]
      BY <2>1, <3>2 DEF AudioRunAction, TypeOK
    <3> QED BY <2>1, <3>1, <3>3 DEF AudioRunAction, TypeOK
  <2>2. CASE AudioStart \/ AudioCheck \/ AudioDrained \/ AudioClearFlag
               \/ AudioSignal \/ AudioBlock
    BY <2>2 DEF AudioStart, AudioCheck, AudioDrained, AudioClearFlag, AudioSignal,
                AudioBlock, TypeOK, callVars, AudioLabel
  <2> QED BY <1>4, <2>1, <2>2 DEF Audio
<1>5. CASE AudioFails \/ Stop
  BY <1>5 DEF AudioFails, Stop, TypeOK, callVars, AudioLabel
<1>6. CASE UNCHANGED vars
  BY <1>6 DEF vars, callVars, TypeOK
<1> QED BY <1>1, <1>2, <1>3, <1>4, <1>5, <1>6 DEF Next

\* Every variable of AudioDriverBase's action queue keeps its type, whatever
\* the threads do.
THEOREM TypeCorrect == Spec => []TypeOK
BY TypeInit, TypeStep, PTL DEF Spec

-----------------------------------------------------------------------------
(* The inductive invariant *)

\* At the start nobody holds the mutex, and flag, event and queue are clear.
LEMMA InvInit == Init => IInv
<1> SUFFICES ASSUME Init PROVE IInv
  OBVIOUS
<1>1. TypeOK
  BY TypeInit
<1>2. \A t \in Threads : pc[t] = "idle"
  BY DEF Init
<1>3. MutexHeld
  BY <1>2, ConstantsAssumption DEF Init, MutexHeld, Threads, Locked
<1>4. NoForeignFlag /\ NoStaleSignal
  BY <1>2 DEF Init, NoForeignFlag, NoStaleSignal, HolderAt, Threads
<1>5. QueueIsHolders
  BY ConstantsAssumption DEF Init, QueueIsHolders
<1>6. Progress
  BY <1>2 DEF Init, Progress, Threads
<1> QED BY <1>1, <1>3, <1>4, <1>5, <1>6 DEF IInv

\* Neither stopping the driver nor pausing it is ever undone.
LEMMA ForceEnds == [Next]_vars /\ InForce' => InForce /\ UNCHANGED <<running, paused>>
<1> SUFFICES ASSUME [Next]_vars, InForce'
             PROVE  InForce /\ UNCHANGED <<running, paused>>
  OBVIOUS
<1>1. CASE \E c \in Clients : Begin(c) \/ Client(c)
  <2>1. UNCHANGED <<running, paused>>
    BY <1>1 DEF Begin, Client, Lock, Sync, SyncTest, SyncWait, SyncReset, Push,
                PushedAll, Raise, TestRunning, Wait, Unlock
  <2> QED BY <2>1 DEF InForce
<1>2. ASSUME NEW p \in Pausers, PauseSet(p) \/ Pauser(p)
      PROVE  InForce /\ UNCHANGED <<running, paused>>
  <2>1. ~PauseSet(p)
    BY DEF InForce, PauseSet
  <2>2. UNCHANGED <<running, paused>>
    BY <1>2, <2>1 DEF Pauser, PauseRaise, PauseWait
  <2> QED BY <2>2 DEF InForce
<1>3. CASE Audio \/ AudioFails \/ Stop \/ UNCHANGED vars
  <2>1. ~Stop
    BY DEF InForce, Stop
  <2>2. UNCHANGED <<running, paused>>
    BY <1>3, <2>1 DEF Audio, AudioStart, AudioCheck, AudioRunAction, AudioDrained,
              AudioClearFlag, AudioSignal, AudioBlock, AudioFails, vars
  <2> QED BY <2>2 DEF InForce
<1> QED BY <1>1, <1>2, <1>3 DEF Next

\* The steps of a client inside a call, outside Lock and Unlock: the mutex is
\* its own before and after.
LEMMA HolderMoves ==
    ASSUME TypeOK, MutexHeld, NEW c \in Clients, NEW label \in Locked,
           pc[c] \in Locked, Goto(c, label), UNCHANGED mutex
    PROVE  MutexHeld' /\ mutex = c
<1>1. pc'[c] = label /\ \A t \in Threads \ {c} : pc'[t] = pc[t]
  BY ClientMoves DEF ClientLabel
<1> QED BY <1>1 DEF MutexHeld, Threads

\* Who is inside a call and past Lock is who owns m_mtxActionQueue.
LEMMA MutexStep == TypeOK /\ MutexHeld /\ [Next]_vars => MutexHeld'
<1> SUFFICES ASSUME TypeOK, MutexHeld, [Next]_vars
             PROVE  MutexHeld'
  OBVIOUS
<1> USE ConstantsAssumption
<1>1. ASSUME NEW c \in Clients, Begin(c)
      PROVE  MutexHeld'
  <2>1. pc[c] = "idle" /\ pc'[c] = "lock" /\ \A t \in Threads \ {c} : pc'[t] = pc[t]
    BY <1>1, ClientMoves DEF Begin, ClientLabel
  <2> QED BY <1>1, <2>1 DEF Begin, MutexHeld, Threads, Locked
<1>2. ASSUME NEW c \in Clients, Client(c)
      PROVE  MutexHeld'
  <2>1. CASE Lock(c)
    <3>1. PICK l \in {"sync", "resync"} : Goto(c, l)
      BY <2>1 DEF Lock
    <3>2. pc'[c] \in Locked /\ \A t \in Threads \ {c} : pc'[t] = pc[t]
      BY <3>1, ClientMoves DEF ClientLabel, Locked
    <3> QED BY <2>1, <3>2 DEF Lock, MutexHeld, Threads
  <2>2. CASE Unlock(c)
    <3>1. /\ pc[c] \in Locked
          /\ pc'[c] = "idle" /\ \A t \in Threads \ {c} : pc'[t] = pc[t]
      BY <2>2, ClientMoves DEF Unlock, ClientLabel, Locked
    <3> QED BY <2>2, <3>1 DEF Unlock, MutexHeld, Threads, Locked
  <2>3. CASE Push(c)
    BY <2>3 DEF Push, MutexHeld
  <2>4. ASSUME NEW test \in Locked, NEW wait \in Locked, NEW reset \in Locked,
               NEW after \in Locked, Sync(c, test, wait, reset, after)
        PROVE  MutexHeld'
    <3>1. /\ \E l \in {test, wait, reset, after} : Goto(c, l)
          /\ pc[c] \in Locked /\ UNCHANGED mutex
      BY <2>4 DEF Sync, SyncTest, SyncWait, SyncReset
    <3> QED BY <3>1, HolderMoves
  <2>5. CASE PushedAll(c) \/ Raise(c) \/ TestRunning(c) \/ Wait(c)
    <3>1. /\ \E l \in Locked : Goto(c, l)
          /\ pc[c] \in Locked /\ UNCHANGED mutex
      BY <2>5 DEF PushedAll, Raise, TestRunning, Wait, Locked
    <3> QED BY <3>1, HolderMoves
  <2>6. CASE Sync(c, "sync", "syncWait", "syncReset", "push")
    BY <2>6, <2>4 DEF Locked
  <2>7. CASE Sync(c, "resync", "resyncWait", "resyncReset", "raise")
    BY <2>7, <2>4 DEF Locked
  <2> QED BY <1>2, <2>1, <2>2, <2>3, <2>5, <2>6, <2>7 DEF Client
<1>3. ASSUME NEW p \in Pausers, PauseSet(p) \/ Pauser(p)
      PROVE  MutexHeld'
  <2>1. UNCHANGED mutex /\ \E l \in PauserLabel : Goto(p, l)
    BY <1>3 DEF PauseSet, Pauser, PauseRaise, PauseWait, PauserLabel
  <2> QED BY <2>1, PauserMoves DEF MutexHeld
<1>4. CASE Audio \/ AudioFails \/ Stop \/ UNCHANGED vars
  <2>1. UNCHANGED <<mutex, pc>>
    BY <1>4 DEF Audio, AudioStart, AudioCheck, AudioRunAction, AudioDrained,
                AudioClearFlag, AudioSignal, AudioBlock, AudioFails, Stop, vars
  <2> QED BY <2>1 DEF MutexHeld
<1> QED BY <1>1, <1>2, <1>3, <1>4 DEF Next

\* The invariant is kept by every step; once the contract is void only its first
\* two conjuncts are left.
LEMMA InvStep == IInv /\ [Next]_vars => IInv'
<1> SUFFICES ASSUME IInv, [Next]_vars
             PROVE  IInv'
  OBVIOUS
<1>1. TypeOK /\ TypeOK' /\ MutexHeld /\ MutexHeld'
  BY TypeStep, MutexStep DEF IInv
<1> DEFINE Good == NoForeignFlag /\ NoStaleSignal /\ QueueIsHolders /\ Progress
<1> SUFFICES ASSUME InForce'
             PROVE  Good'
  BY <1>1 DEF IInv
<1>2. InForce /\ Good /\ UNCHANGED <<running, paused>>
  BY ForceEnds DEF IInv
<1> USE ConstantsAssumption
<1>b. ASSUME NEW c \in Clients, Begin(c)
      PROVE  Good'
  <2>1. /\ pc[c] = "idle" /\ pc'[c] = "lock" /\ mutex # c
        /\ \A t \in Threads \ {c} : pc'[t] = pc[t]
    BY <1>b, <1>1, ClientMoves DEF Begin, ClientLabel, MutexHeld, Locked
  <2>2. /\ pushed'[c] = 0 /\ ran'[c] = 0
        /\ \A d \in Clients \ {c} : /\ size'[d] = size[d]
                                  /\ pushed'[d] = pushed[d]
                                  /\ ran'[d] = ran[d]
    BY <1>b, <1>1 DEF Begin, TypeOK
  <2>3. \A labels : HolderAt(labels)' <=> HolderAt(labels)
    BY <1>b, <1>1, <2>1 DEF Begin, HolderAt, TypeOK, Threads
  <2>4. NoForeignFlag' /\ NoStaleSignal'
    BY <1>b, <1>2, <2>1, <2>3 DEF Begin, NoForeignFlag, NoStaleSignal, Threads
  <2>5. QueueIsHolders'
    BY <1>b, <1>1, <1>2, <2>1, <2>2 DEF Begin, QueueIsHolders, TypeOK
  <2>6. Progress'
    BY <1>b, <1>1, <1>2, <2>1, <2>2 DEF Begin, Progress, Threads
  <2> QED BY <2>4, <2>5, <2>6
<1>l. ASSUME NEW c \in Clients, Lock(c)
      PROVE  Good'
  <2>1. PICK l \in {"sync", "resync"} : Goto(c, l) /\ (l = "resync" => size[c] = 0)
    BY <1>l DEF Lock
  <2>2. pc'[c] = l /\ \A t \in Threads \ {c} : pc'[t] = pc[t]
    BY <1>1, <2>1, ClientMoves DEF ClientLabel, Locked
  <2>3. /\ pc[c] = "lock" /\ mutex = None /\ mutex' = c
        /\ UNCHANGED <<newActions, evt, queue, size, pushed, ran, apc>>
    BY <1>l DEF Lock, callVars
  <2>4. ~newActions /\ apc \notin {"drain", "clear", "signal"}
    BY <1>2, <2>3 DEF NoForeignFlag, HolderAt
  <2>5. NoForeignFlag' /\ NoStaleSignal'
    BY <1>2, <2>1, <2>2, <2>3, <2>4 DEF NoForeignFlag, NoStaleSignal, HolderAt, Threads
  <2>6. queue = <<>> /\ pushed[c] = 0 /\ ran[c] = 0
    <3>1. \A i \in 1..Len(queue) : queue[i] \in Action
      BY <1>1, ElementOfSeq DEF TypeOK
    <3>2. Len(queue) \in Nat /\ (queue # <<>> => 1 \in 1..Len(queue))
      BY <1>1, EmptySeq, LenProperties DEF TypeOK
    <3>3. queue = <<>>
      BY <1>2, <2>3, <3>1, <3>2 DEF QueueIsHolders, Action
    <3> QED BY <1>2, <2>3, <3>3 DEF Progress
  <2>7. QueueIsHolders'
    BY <2>3, <2>6 DEF QueueIsHolders
  <2>8. Progress'
    BY <1>1, <1>2, <2>1, <2>2, <2>3, <2>4, <2>6 DEF Progress, Threads, TypeOK
  <2> QED BY <2>5, <2>7, <2>8
<1>u. ASSUME NEW c \in Clients, Unlock(c)
      PROVE  Good'
  <2>1. /\ pc[c] = "acked" /\ mutex = c /\ mutex' = None
        /\ UNCHANGED <<newActions, evt, queue, size, pushed, ran, apc>>
    BY <1>u, <1>1, <1>2 DEF Unlock, callVars, NoForeignFlag, MutexHeld, Locked
  <2>2. pc'[c] = "idle" /\ \A t \in Threads \ {c} : pc'[t] = pc[t]
    BY <1>u, <1>1, ClientMoves DEF Unlock, ClientLabel
  <2>3. ~newActions /\ apc \notin {"drain", "clear", "signal"}
    BY <1>2, <2>1 DEF NoForeignFlag, HolderAt
  <2>4. NoForeignFlag' /\ NoStaleSignal'
    BY <1>2, <2>1, <2>2, <2>3 DEF NoForeignFlag, NoStaleSignal, HolderAt, Threads
  <2>5. ran[c] = size[c] /\ pushed[c] = size[c]
    BY <1>2, <2>1 DEF Progress
  <2>6. Len(queue) = 0
    BY <1>1, <1>2, <2>1, <2>5, LenProperties DEF QueueIsHolders, TypeOK
  <2>7. QueueIsHolders'
    BY <1>1, <2>1, <2>3, <2>6 DEF QueueIsHolders, TypeOK
  <2>8. Progress'
    BY <1>2, <2>1, <2>2, <2>3, <2>5 DEF Progress, Threads
  <2> QED BY <2>4, <2>7, <2>8
<1>s. ASSUME NEW c \in Clients,
             \/ Sync(c, "sync", "syncWait", "syncReset", "push")
             \/ Sync(c, "resync", "resyncWait", "resyncReset", "raise")
      PROVE  Good'
  <2>1. /\ pc[c] \in Locked /\ mutex = c
        /\ UNCHANGED <<newActions, mutex, queue, size, pushed, ran, apc>>
    BY <1>s, <1>1 DEF Sync, SyncTest, SyncWait, SyncReset, callVars, MutexHeld, Locked
  <2>2. ~newActions /\ apc \notin {"drain", "clear", "signal"}
    BY <1>s, <1>2, <2>1
    DEF Sync, SyncTest, SyncWait, SyncReset, NoForeignFlag, HolderAt
  <2>3. \/ pc[c] = "sync" /\ Goto(c, "syncReset") /\ UNCHANGED evt
        \/ pc[c] = "syncReset" /\ Goto(c, "push")
        \/ pc[c] = "resync" /\ Goto(c, "resyncReset") /\ UNCHANGED evt
        \/ pc[c] = "resyncReset" /\ Goto(c, "raise") /\ ~evt'
    BY <1>s, <1>2, <2>2 DEF Sync, SyncTest, SyncWait, SyncReset, NoForeignFlag
  <2>4. /\ \A t \in Threads \ {c} : pc'[t] = pc[t]
        /\ \/ pc[c] = "sync" /\ pc'[c] = "syncReset" /\ UNCHANGED evt
           \/ pc[c] = "syncReset" /\ pc'[c] = "push"
           \/ pc[c] = "resync" /\ pc'[c] = "resyncReset" /\ UNCHANGED evt
           \/ pc[c] = "resyncReset" /\ pc'[c] = "raise" /\ ~evt'
    BY <1>1, <2>3, ClientMoves DEF ClientLabel, Locked
  <2>5. NoForeignFlag' /\ NoStaleSignal'
    BY <1>2, <2>1, <2>2, <2>4 DEF NoForeignFlag, NoStaleSignal, HolderAt, Threads
  <2>6. QueueIsHolders'
    BY <1>2, <2>1 DEF QueueIsHolders
  <2>7. Progress'
    BY <1>2, <2>1, <2>2, <2>4 DEF Progress, Threads
  <2> QED BY <2>5, <2>6, <2>7
<1>p. ASSUME NEW c \in Clients, Push(c)
      PROVE  Good'
  <2>1. /\ pc[c] = "push" /\ mutex = c
        /\ UNCHANGED <<newActions, evt, mutex, size, ran, pc, apc>>
        /\ pushed[c] < size[c]
        /\ queue' = Append(queue, [client |-> c, index |-> pushed[c] + 1])
    BY <1>p, <1>1 DEF Push, MutexHeld, Locked
  <2>2. /\ pushed'[c] = pushed[c] + 1
        /\ \A d \in Clients \ {c} : pushed'[d] = pushed[d]
    BY <1>p, <1>1 DEF Push, TypeOK
  <2>3. ~newActions /\ apc \notin {"drain", "clear", "signal"}
    BY <1>2, <2>1 DEF NoForeignFlag, HolderAt
  <2>4. NoForeignFlag' /\ NoStaleSignal'
    BY <1>2, <2>1 DEF NoForeignFlag, NoStaleSignal, HolderAt
  <2>5. QueueIsHolders'
    <3>1. [client |-> c, index |-> pushed[c] + 1] \in Action
      BY <1>1, <2>1 DEF Action, TypeOK
    <3>2. /\ Len(queue') = Len(queue) + 1
          /\ \A i \in 1..Len(queue) : queue'[i] = queue[i]
          /\ queue'[Len(queue) + 1] = [client |-> c, index |-> pushed[c] + 1]
      BY <1>1, <2>1, <3>1, AppendProperties DEF TypeOK
    <3>3. \A i \in 1..Len(queue') : queue'[i].client = c
      <4> TAKE i \in 1..Len(queue')
      <4>1. i \in 1..Len(queue) \/ i = Len(queue) + 1
        BY <1>1, <3>2, LenProperties DEF TypeOK
      <4> QED BY <1>2, <2>1, <3>2, <4>1 DEF QueueIsHolders
    <3>4. Len(queue') + ran[c] = pushed'[c]
      BY <1>1, <1>2, <2>1, <2>2, <3>2, LenProperties DEF QueueIsHolders, TypeOK
    <3> QED BY <2>1, <2>3, <3>3, <3>4 DEF QueueIsHolders
  <2>6. Progress'
    BY <1>1, <1>2, <2>1, <2>2 DEF Progress, MutexHeld, Locked
  <2> QED BY <2>4, <2>5, <2>6
<1>a. ASSUME NEW c \in Clients, PushedAll(c)
      PROVE  Good'
  <2>1. /\ pc[c] = "push" /\ mutex = c /\ pushed[c] = size[c]
        /\ UNCHANGED <<newActions, evt, mutex, queue, size, pushed, ran, apc>>
    BY <1>a, <1>1 DEF PushedAll, MutexHeld, Locked, callVars
  <2>2. pc'[c] = "resync" /\ \A t \in Threads \ {c} : pc'[t] = pc[t]
    BY <1>a, <1>1, ClientMoves DEF PushedAll, ClientLabel, Locked
  <2>3. ~newActions /\ apc \notin {"drain", "clear", "signal"}
    BY <1>2, <2>1 DEF NoForeignFlag, HolderAt
  <2>4. NoForeignFlag' /\ NoStaleSignal'
    BY <1>2, <2>1, <2>2, <2>3 DEF NoForeignFlag, NoStaleSignal, HolderAt, Threads
  <2>5. QueueIsHolders'
    BY <1>2, <2>1 DEF QueueIsHolders
  <2>6. Progress'
    BY <1>2, <2>1, <2>2 DEF Progress, Threads
  <2> QED BY <2>4, <2>5, <2>6
<1>r. ASSUME NEW c \in Clients, Raise(c)
      PROVE  Good'
  <2>1. /\ pc[c] = "raise" /\ mutex = c /\ newActions'
        /\ UNCHANGED <<evt, mutex, queue, size, pushed, ran, apc>>
    BY <1>r, <1>1 DEF Raise, MutexHeld, Locked, callVars
  <2>2. pc'[c] = "test" /\ \A t \in Threads \ {c} : pc'[t] = pc[t]
    BY <1>r, <1>1, ClientMoves DEF Raise, ClientLabel, Locked
  <2>3. ~newActions /\ apc \notin {"drain", "clear", "signal"} /\ ~evt
    BY <1>2, <2>1, ConstantsAssumption DEF NoForeignFlag, NoStaleSignal, HolderAt
  <2>4. NoForeignFlag' /\ NoStaleSignal'
    BY <1>2, <2>1, <2>2, <2>3 DEF NoForeignFlag, NoStaleSignal, HolderAt, Threads
  <2>5. QueueIsHolders'
    BY <1>2, <2>1 DEF QueueIsHolders
  <2>6. Progress'
    <3>1. \A d \in Clients \ {c} : pc[d] \notin {"test", "wait"}
      BY <1>1, <2>1 DEF MutexHeld, Locked
    <3> QED BY <1>2, <2>1, <2>2, <3>1 DEF Progress, Threads
  <2> QED BY <2>4, <2>5, <2>6
<1>t. ASSUME NEW c \in Clients, TestRunning(c)
      PROVE  Good'
  <2>1. /\ pc[c] = "test" /\ mutex = c /\ Goto(c, "wait")
        /\ UNCHANGED <<newActions, evt, mutex, queue, size, pushed, ran, apc>>
    BY <1>t, <1>1, <1>2 DEF TestRunning, MutexHeld, Locked, callVars, InForce
  <2>2. pc'[c] = "wait" /\ \A t \in Threads \ {c} : pc'[t] = pc[t]
    BY <1>1, <2>1, ClientMoves DEF ClientLabel, Locked
  <2>3. NoForeignFlag' /\ NoStaleSignal'
    BY <1>2, <2>1, <2>2 DEF NoForeignFlag, NoStaleSignal, HolderAt, Threads
  <2>4. QueueIsHolders'
    BY <1>2, <2>1 DEF QueueIsHolders
  <2>5. Progress'
    BY <1>2, <2>1, <2>2 DEF Progress, Threads
  <2> QED BY <2>3, <2>4, <2>5
<1>w. ASSUME NEW c \in Clients, Wait(c)
      PROVE  Good'
  <2>1. /\ pc[c] = "wait" /\ mutex = c /\ evt
        /\ UNCHANGED <<newActions, mutex, queue, size, pushed, ran, apc>>
    BY <1>w, <1>1 DEF Wait, WaitEvent, MutexHeld, Locked, callVars
  <2>2. pc'[c] = "acked" /\ \A t \in Threads \ {c} : pc'[t] = pc[t]
    BY <1>w, <1>1, ClientMoves DEF Wait, ClientLabel, Locked
  <2>3. ~newActions /\ apc \notin {"drain", "clear", "signal"}
    BY <1>2, <2>1 DEF NoForeignFlag, NoStaleSignal, HolderAt
  <2>4. NoForeignFlag' /\ NoStaleSignal'
    BY <1>2, <2>1, <2>2, <2>3 DEF NoForeignFlag, NoStaleSignal, HolderAt, Threads
  <2>5. QueueIsHolders'
    BY <1>2, <2>1 DEF QueueIsHolders
  <2>6. Progress'
    BY <1>2, <2>1, <2>2, <2>3 DEF Progress, Threads
  <2> QED BY <2>4, <2>5, <2>6
<1>z. ASSUME NEW p \in Pausers, PauseSet(p) \/ Pauser(p)
      PROVE  Good'
  BY <1>z, <1>2 DEF InForce, PauseSet, Pauser, PauseRaise, PauseWait, NoForeignFlag
<1>d. CASE Audio
  <2>1. CASE AudioRunAction
    <3>1. /\ apc = "drain" /\ queue # <<>> /\ queue' = Tail(queue)
          /\ UNCHANGED <<newActions, evt, mutex, size, pushed, pc, apc>>
      BY <2>1 DEF AudioRunAction
    <3>2. newActions /\ mutex \in Clients /\ pc[mutex] \in {"test", "wait"}
      BY <1>1, <1>2, <3>1 DEF NoForeignFlag, HolderAt, TypeOK
    <3>3. /\ Len(queue) \in Nat \ {0}
          /\ Len(queue') = Len(queue) - 1
          /\ \A i \in 1..Len(queue') : queue'[i] = queue[i + 1]
          /\ Head(queue) = queue[1]
      BY <1>1, <3>1, EmptySeq, HeadTailProperties DEF TypeOK
    <3>4. Head(queue).client = mutex
      BY <1>2, <3>3 DEF QueueIsHolders
    <3>5. /\ ran'[mutex] = ran[mutex] + 1
          /\ \A d \in Clients \ {mutex} : ran'[d] = ran[d]
      BY <1>1, <2>1, <3>2, <3>4 DEF AudioRunAction, TypeOK
    <3>6. NoForeignFlag' /\ NoStaleSignal'
      BY <1>2, <3>1 DEF NoForeignFlag, NoStaleSignal, HolderAt
    <3>7. QueueIsHolders'
      <4>1. \A i \in 1..Len(queue') : queue'[i].client = mutex
        BY <1>2, <3>3 DEF QueueIsHolders
      <4>2. Len(queue') + ran'[mutex] = pushed[mutex]
        BY <1>1, <1>2, <3>2, <3>3, <3>5 DEF QueueIsHolders, TypeOK
      <4> QED BY <3>1, <4>1, <4>2 DEF QueueIsHolders
    <3>8. Progress'
      BY <1>2, <3>1, <3>2, <3>5 DEF Progress
    <3> QED BY <3>6, <3>7, <3>8
  <2>2. CASE AudioStart \/ AudioBlock
    <3>1. /\ apc' \in {"start", "check", "ended"} /\ apc \in {"start", "block"}
          /\ UNCHANGED <<newActions, evt, mutex, queue, size, pushed, ran, pc>>
      BY <2>2 DEF AudioStart, AudioBlock, callVars
    <3> QED BY <1>2, <3>1 DEF NoForeignFlag, NoStaleSignal, QueueIsHolders, Progress, HolderAt
  <2>3. CASE AudioCheck
    <3>1. /\ apc = "check" /\ apc' = IF newActions THEN "drain" ELSE "block"
          /\ UNCHANGED <<newActions, evt, mutex, queue, size, pushed, ran, pc>>
      BY <2>3 DEF AudioCheck, callVars
    <3> QED BY <1>2, <3>1 DEF NoForeignFlag, NoStaleSignal, QueueIsHolders, Progress, HolderAt
  <2>4. CASE AudioDrained
    <3>1. /\ apc = "drain" /\ apc' = "clear" /\ queue = <<>>
          /\ UNCHANGED <<newActions, evt, mutex, queue, size, pushed, ran, pc>>
      BY <2>4 DEF AudioDrained, callVars
    <3> QED BY <1>2, <3>1 DEF NoForeignFlag, NoStaleSignal, QueueIsHolders, Progress, HolderAt
  <2>5. CASE AudioClearFlag
    <3>1. /\ apc = "clear" /\ apc' = "signal" /\ ~newActions'
          /\ UNCHANGED <<evt, mutex, queue, size, pushed, ran, pc>>
      BY <2>5 DEF AudioClearFlag, callVars
    <3>2. newActions /\ mutex \in Clients /\ pc[mutex] \in {"test", "wait"} /\ ~evt
      BY <1>1, <1>2, <3>1 DEF NoForeignFlag, NoStaleSignal, HolderAt, TypeOK
    <3>3. ran[mutex] = size[mutex]
      <4>1. queue = <<>> /\ Len(queue) = 0
        BY <1>2, <3>1 DEF QueueIsHolders
      <4> QED BY <1>1, <1>2, <3>2, <4>1 DEF QueueIsHolders, Progress, TypeOK
    <3>4. NoForeignFlag' /\ NoStaleSignal'
      BY <1>2, <3>1, <3>2 DEF NoForeignFlag, NoStaleSignal, HolderAt
    <3>5. QueueIsHolders'
      BY <1>2, <3>1 DEF QueueIsHolders
    <3>6. Progress'
      BY <1>1, <1>2, <3>1, <3>3 DEF Progress, MutexHeld, Locked
    <3> QED BY <3>4, <3>5, <3>6
  <2>6. CASE AudioSignal
    <3>1. /\ apc = "signal" /\ apc' = "block" /\ evt'
          /\ UNCHANGED <<newActions, mutex, queue, size, pushed, ran, pc>>
      BY <2>6 DEF AudioSignal, callVars
    <3>2. ~newActions /\ HolderAt({"test", "wait"})
      BY <1>2, <3>1 DEF NoForeignFlag
    <3> QED BY <1>2, <3>1, <3>2
            DEF NoForeignFlag, NoStaleSignal, QueueIsHolders, Progress, HolderAt
  <2> QED BY <1>d, <2>1, <2>2, <2>3, <2>4, <2>5, <2>6 DEF Audio
<1>f. CASE AudioFails
  <2>1. /\ apc = "start" /\ apc' = "ended"
        /\ UNCHANGED <<newActions, evt, mutex, queue, size, pushed, ran, pc>>
    BY <1>f DEF AudioFails, callVars
  <2> QED BY <1>2, <2>1 DEF NoForeignFlag, NoStaleSignal, QueueIsHolders, Progress, HolderAt
<1>h. CASE Stop
  BY <1>h DEF Stop, InForce
<1>v. CASE UNCHANGED vars
  BY <1>v, <1>2 DEF vars, callVars, NoForeignFlag, NoStaleSignal, QueueIsHolders,
                    Progress, HolderAt
<1>n. ASSUME NEW c \in Clients, Client(c)
      PROVE  Good'
  BY <1>n, <1>l, <1>u, <1>s, <1>p, <1>a, <1>r, <1>t, <1>w DEF Client
<1> QED BY <1>b, <1>n, <1>z, <1>d, <1>f, <1>h, <1>v DEF Next

\* The bookkeeping behind every guarantee of execute(), undo() and
\* muteOthers(): who may raise the flag, when the event is down, whose actions
\* are queued and how far each request has come.
THEOREM InvCorrect == Spec => []IInv
BY InvInit, InvStep, PTL DEF Spec

-----------------------------------------------------------------------------
(* The guarantees *)

\* What the invariant says about the labels that the properties are about.
LEMMA InvSafe ==
    IInv => CommitMeansApplied /\ QueueExclusive /\ NoDanglingAction /\ WholeRequests
<1> SUFFICES ASSUME IInv, InForce
             PROVE  /\ \A c \in Clients : pc[c] = "acked" => ran[c] = size[c]
                    /\ \A c \in Clients : pc[c] = "push" =>
                          apc # "drain" /\ \A d \in Clients \ {c} : pc[d] # "push"
                    /\ \A i \in 1..Len(queue) :
                          pc[queue[i].client] \notin {"idle", "lock"}
                    /\ apc = "block" => \A c \in Clients : ran[c] \in {0, size[c]}
  BY DEF CommitMeansApplied, QueueExclusive, NoDanglingAction, WholeRequests
<1>1. TypeOK /\ MutexHeld /\ NoForeignFlag /\ QueueIsHolders /\ Progress
  BY DEF IInv
<1>2. ASSUME NEW c \in Clients, pc[c] = "acked"
      PROVE  ran[c] = size[c]
  BY <1>1, <1>2 DEF Progress
<1>3. ASSUME NEW c \in Clients, pc[c] = "push"
      PROVE  apc # "drain" /\ \A d \in Clients \ {c} : pc[d] # "push"
  BY <1>1, <1>3 DEF NoForeignFlag, HolderAt, MutexHeld, Locked
<1>4. ASSUME NEW i \in 1..Len(queue)
      PROVE  pc[queue[i].client] \notin {"idle", "lock"}
  <2>1. queue[i] \in Action
    BY <1>1, ElementOfSeq DEF TypeOK
  <2>2. queue[i].client \in Clients
    BY <2>1 DEF Action
  <2>3. queue[i].client = mutex
    BY <1>1 DEF QueueIsHolders
  <2> QED BY <1>1, <2>2, <2>3 DEF MutexHeld, Locked
<1>5. ASSUME apc = "block", NEW c \in Clients
      PROVE  ran[c] \in {0, size[c]}
  BY <1>1, <1>5 DEF Progress, NoForeignFlag, TypeOK, ClientLabel, Locked
<1> QED BY <1>2, <1>3, <1>4, <1>5

\* execute() and undo() do not come back, having waited, before the audio
\* thread has run every action of the request.
THEOREM CommitTheorem == Spec => []CommitMeansApplied
BY InvCorrect, InvSafe, PTL

\* No client pushes while the audio thread drains m_actionQueue or while
\* another client pushes.
THEOREM ExclusionTheorem == Spec => []QueueExclusive
BY InvCorrect, InvSafe, PTL

\* No queued action outlives the call of the Request it points to.
THEOREM LifetimeTheorem == Spec => []NoDanglingAction
BY InvCorrect, InvSafe, PTL

\* No block is processed with half of a request in effect.
THEOREM WholeTheorem == Spec => []WholeRequests
BY InvCorrect, InvSafe, PTL

-----------------------------------------------------------------------------
(* Refinement of AtomicRequests *)

\* No call is open at the start.
LEMMA RefinesInit == Init => Promise!Init
<1> SUFFICES ASSUME Init PROVE Promise!Init
  OBVIOUS
<1>1. \A c \in Clients : pc[c] = "idle"
  BY DEF Init, Threads
<1>2. InForce = TRUE
  BY DEF Init, InForce
<1>3. PhaseOf = [c \in Clients |-> "idle"]
  BY <1>1 DEF PhaseOf, Phase
<1>4. VisibleOf = [c \in Clients |-> 0] /\ size = [c \in Clients |-> 0]
  BY DEF Init, VisibleOf, Visible
<1> QED BY <1>2, <1>3, <1>4 DEF Promise!Init

\* What it takes for a step to be invisible in AtomicRequests.
LEMMA Stutters ==
    ASSUME InForce, InForce', UNCHANGED size,
           \A d \in Clients : Phase(d)' = Phase(d) /\ Visible(d)' = Visible(d)
    PROVE  UNCHANGED Promise!vars
BY DEF Promise!vars, PhaseOf, VisibleOf, InForce

\* What it takes for a step to change one call only.
LEMMA MovesOne ==
    ASSUME NEW c \in Clients,
           \A d \in Clients \ {c} : Phase(d)' = Phase(d) /\ Visible(d)' = Visible(d)
    PROVE  /\ PhaseOf' = [PhaseOf EXCEPT ![c] = Phase(c)']
           /\ VisibleOf' = [VisibleOf EXCEPT ![c] = Visible(c)']
BY DEF PhaseOf, VisibleOf

\* The step that ends the contract changes no call.
LEMMA VoidStep ==
    ASSUME TypeOK, [Next]_vars, ~InForce'
    PROVE  Promise!Void
<1>1. ASSUME InForce
      PROVE  UNCHANGED <<PhaseOf, size, VisibleOf>>
  <2>1. UNCHANGED <<newActions, mutex, apc, ran, size>> /\ \A c \in Clients : pc'[c] = pc[c]
    <3>1. ASSUME UNCHANGED <<running, paused>>
          PROVE  FALSE
      BY <1>1, <3>1 DEF InForce
    <3>2. CASE \E c \in Clients : Begin(c) \/ Client(c)
      BY <3>1, <3>2 DEF Begin, Client, Lock, Sync, SyncTest, SyncWait, SyncReset, Push,
                        PushedAll, Raise, TestRunning, Wait, Unlock
    <3>3. ASSUME NEW p \in Pausers, PauseSet(p)
          PROVE  /\ UNCHANGED <<newActions, mutex, apc, ran, size>>
                 /\ \A c \in Clients : pc'[c] = pc[c]
      BY <3>3, PauserMoves DEF PauseSet, PauserLabel
    <3>4. CASE \E p \in Pausers : Pauser(p)
      BY <3>1, <3>4 DEF Pauser, PauseRaise, PauseWait
    <3>5. CASE Audio \/ AudioFails \/ UNCHANGED vars
      BY <3>1, <3>5 DEF Audio, AudioStart, AudioCheck, AudioRunAction, AudioDrained,
                        AudioClearFlag, AudioSignal, AudioBlock, AudioFails, vars
    <3>6. CASE Stop
      BY <3>6 DEF Stop, callVars
    <3> QED BY <3>2, <3>3, <3>4, <3>5, <3>6 DEF Next
  <2> QED BY <2>1 DEF PhaseOf, Phase, Applied, VisibleOf, Visible
<1>2. InForce' = FALSE
  BY DEF InForce
<1> QED BY <1>1, <1>2 DEF Promise!Void

\* Every step of the hand-over is a step of AtomicRequests, or invisible there.
LEMMA RefinesStep == IInv /\ [Next]_vars => [Promise!Next]_(Promise!vars)
<1> SUFFICES ASSUME IInv, [Next]_vars
             PROVE  Promise!Next \/ UNCHANGED Promise!vars
  OBVIOUS
<1>1. TypeOK /\ TypeOK' /\ MutexHeld /\ IInv'
  BY TypeStep, InvStep DEF IInv
<1>2. CASE ~InForce'
  BY <1>1, <1>2, VoidStep DEF Promise!Next
<1> SUFFICES ASSUME InForce'
             PROVE  Promise!Next \/ UNCHANGED Promise!vars
  BY <1>2
<1>3. /\ InForce /\ UNCHANGED <<running, paused>>
      /\ NoForeignFlag /\ NoStaleSignal /\ QueueIsHolders /\ Progress
      /\ NoForeignFlag' /\ NoStaleSignal' /\ QueueIsHolders' /\ Progress'
  BY <1>1, ForceEnds DEF IInv
<1>4. ASSUME Promise!Serve
      PROVE  Promise!Next
  BY <1>4 DEF Promise!Next
<1>5. InForce = TRUE /\ InForce' = TRUE
  BY <1>3 DEF InForce
<1> USE ConstantsAssumption
<1>b. ASSUME NEW c \in Clients, Begin(c)
      PROVE  Promise!Serve
  <2>1. /\ pc[c] = "idle" /\ pc'[c] = "lock" /\ mutex # c
        /\ \A t \in Threads \ {c} : pc'[t] = pc[t]
        /\ UNCHANGED <<newActions, mutex, apc>>
    BY <1>b, <1>1, ClientMoves DEF Begin, ClientLabel, MutexHeld, Locked
  <2>2. ran'[c] = 0 /\ \A d \in Clients \ {c} : ran'[d] = ran[d]
    BY <1>b, <1>1 DEF Begin, TypeOK
  <2>3. \A d \in Clients \ {c} : Phase(d)' = Phase(d) /\ Visible(d)' = Visible(d)
    BY <2>1, <2>2 DEF Phase, Applied, Visible, Threads
  <2>4. PhaseOf[c] = "idle" /\ Phase(c)' = "called" /\ Visible(c)' = 0
    BY <2>1, <2>2 DEF PhaseOf, Phase, Applied, Visible
  <2>5. Promise!Call(c)
    BY <1>b, <2>3, <2>4, MovesOne DEF Begin, Promise!Call
  <2> QED BY <1>5, <2>5 DEF Promise!Serve
<1>u. ASSUME NEW c \in Clients, Unlock(c)
      PROVE  Promise!Serve
  <2>1. /\ pc[c] = "acked" /\ pc'[c] = "idle" /\ mutex = c /\ mutex' = None
        /\ \A t \in Threads \ {c} : pc'[t] = pc[t]
        /\ UNCHANGED <<newActions, apc, ran, size>>
    BY <1>u, <1>1, <1>3, ClientMoves
    DEF Unlock, callVars, ClientLabel, MutexHeld, Locked, NoForeignFlag
  <2>2. apc \notin {"drain", "clear"}
    BY <1>3, <2>1 DEF NoForeignFlag, HolderAt
  <2>3. \A d \in Clients \ {c} : Phase(d)' = Phase(d) /\ Visible(d)' = Visible(d)
    BY <2>1, <2>2 DEF Phase, Applied, Visible, Threads
  <2>4. PhaseOf[c] = "applied" /\ Phase(c)' = "idle" /\ Visible(c)' = Visible(c)
    BY <2>1, <2>2 DEF PhaseOf, Phase, Applied, Visible
  <2>5. VisibleOf' = VisibleOf
    BY <2>3, <2>4 DEF VisibleOf
  <2>6. Promise!Return(c)
    BY <2>1, <2>3, <2>4, <2>5, MovesOne DEF Promise!Return
  <2> QED BY <1>5, <2>6 DEF Promise!Serve
<1>k. CASE AudioClearFlag
  <2>1. /\ apc = "clear" /\ apc' = "signal" /\ ~newActions'
        /\ UNCHANGED <<mutex, size, ran, pc>>
    BY <1>k DEF AudioClearFlag, callVars
  <2>2. PICK c \in Clients : c = mutex /\ newActions /\ pc[c] \in {"test", "wait"}
    BY <1>1, <1>3, <2>1 DEF NoForeignFlag, HolderAt, TypeOK
  <2>3. \A d \in Clients \ {c} : pc[d] \notin {"test", "wait"} /\ mutex # d
    BY <1>1, <2>2 DEF MutexHeld, Locked
  <2>4. \A d \in Clients \ {c} : Phase(d)' = Phase(d) /\ Visible(d)' = Visible(d)
    BY <2>1, <2>3 DEF Phase, Applied, Visible
  <2>5. ran[c] = size[c]
    BY <1>3, <2>1, <2>2 DEF Progress
  <2>6. PhaseOf[c] = "called" /\ Phase(c)' = "applied" /\ Visible(c)' = size[c]
    BY <2>1, <2>2, <2>5 DEF PhaseOf, Phase, Applied, Visible
  <2>7. \E d \in Clients : Promise!Apply(d)
    BY <2>1, <2>4, <2>6, MovesOne DEF Promise!Apply
  <2> QED BY <1>4, <1>5, <2>7 DEF Promise!Serve
<1>l. ASSUME NEW c \in Clients, Lock(c)
      PROVE  UNCHANGED Promise!vars
  <2>1. PICK l \in {"sync", "resync"} : Goto(c, l)
    BY <1>l DEF Lock
  <2>2. /\ pc[c] = "lock" /\ pc'[c] = l /\ mutex = None
        /\ \A t \in Threads \ {c} : pc'[t] = pc[t]
        /\ UNCHANGED <<newActions, apc, ran, size>>
    BY <1>l, <1>1, <2>1, ClientMoves DEF Lock, callVars, ClientLabel, Locked
  <2>3. apc \notin {"drain", "clear"}
    BY <1>3, <2>2 DEF NoForeignFlag, HolderAt
  <2>4. \A d \in Clients : Phase(d)' = Phase(d) /\ Visible(d)' = Visible(d)
    BY <2>1, <2>2, <2>3 DEF Phase, Applied, Visible, Threads
  <2> QED BY <1>3, <2>2, <2>4, Stutters
<1>p. ASSUME NEW c \in Clients, Push(c)
      PROVE  UNCHANGED Promise!vars
  <2>1. UNCHANGED <<newActions, mutex, apc, ran, size, pc>>
    BY <1>p DEF Push
  <2>2. \A d \in Clients : Phase(d)' = Phase(d) /\ Visible(d)' = Visible(d)
    BY <2>1 DEF Phase, Applied, Visible
  <2> QED BY <1>3, <2>1, <2>2, Stutters
<1>r. ASSUME NEW c \in Clients, Raise(c)
      PROVE  UNCHANGED Promise!vars
  <2>1. /\ pc[c] = "raise" /\ pc'[c] = "test" /\ newActions' /\ mutex = c
        /\ \A t \in Threads \ {c} : pc'[t] = pc[t]
        /\ UNCHANGED <<mutex, apc, ran, size>>
    BY <1>r, <1>1, ClientMoves DEF Raise, callVars, ClientLabel, Locked, MutexHeld
  <2>2. \A d \in Clients \ {c} : pc[d] \notin {"test", "wait"}
    BY <1>1, <2>1 DEF MutexHeld, Locked
  <2>3. \A d \in Clients : Phase(d)' = Phase(d) /\ Visible(d)' = Visible(d)
    BY <2>1, <2>2 DEF Phase, Applied, Visible, Threads
  <2> QED BY <1>3, <2>1, <2>3, Stutters
<1>m. ASSUME NEW c \in Clients, NEW l \in Locked, Goto(c, l),
             pc[c] \in Locked, UNCHANGED <<newActions, mutex, apc, ran, size>>,
             \/ {pc[c], l} \cap {"test", "wait", "acked"} = {}
             \/ pc[c] = "test" /\ l = "wait"
             \/ pc[c] = "wait" /\ l = "acked" /\ ~newActions
      PROVE  UNCHANGED Promise!vars
  <2>1. pc'[c] = l /\ \A t \in Threads \ {c} : pc'[t] = pc[t]
    BY <1>m, <1>1, ClientMoves DEF ClientLabel
  <2>2. \A d \in Clients \ {c} : Phase(d)' = Phase(d)
    BY <1>m, <2>1 DEF Phase, Applied, Threads
  <2>3. Phase(c)' = Phase(c)
    BY <1>m, <2>1 DEF Phase, Applied, Locked
  <2>4. \A d \in Clients : Visible(d)' = Visible(d)
    BY <1>m DEF Visible
  <2> QED BY <1>3, <1>m, <2>2, <2>3, <2>4, Stutters
<1>n. ASSUME NEW c \in Clients, Client(c), ~Unlock(c)
      PROVE  UNCHANGED Promise!vars
  <2>1. CASE Sync(c, "sync", "syncWait", "syncReset", "push")
    <3>1. /\ \E l \in {"syncWait", "sync", "syncReset", "push"} : Goto(c, l)
          /\ pc[c] \in {"syncWait", "sync", "syncReset"}
          /\ UNCHANGED <<newActions, mutex, apc, ran, size>>
      BY <2>1 DEF Sync, SyncTest, SyncWait, SyncReset, callVars
    <3> QED BY <1>m, <3>1 DEF Locked
  <2>2. CASE Sync(c, "resync", "resyncWait", "resyncReset", "raise")
    <3>1. /\ \E l \in {"resyncWait", "resync", "resyncReset", "raise"} : Goto(c, l)
          /\ pc[c] \in {"resyncWait", "resync", "resyncReset"}
          /\ UNCHANGED <<newActions, mutex, apc, ran, size>>
      BY <2>2 DEF Sync, SyncTest, SyncWait, SyncReset, callVars
    <3> QED BY <1>m, <3>1 DEF Locked
  <2>3. CASE PushedAll(c)
    <3>1. /\ Goto(c, "resync") /\ pc[c] = "push"
          /\ UNCHANGED <<newActions, mutex, apc, ran, size>>
      BY <2>3 DEF PushedAll, callVars
    <3> QED BY <1>m, <3>1 DEF Locked
  <2>4. CASE TestRunning(c)
    <3>1. /\ Goto(c, "wait") /\ pc[c] = "test"
          /\ UNCHANGED <<newActions, mutex, apc, ran, size>>
      BY <1>3, <2>4 DEF TestRunning, callVars, InForce
    <3> QED BY <1>m, <3>1 DEF Locked
  <2>5. CASE Wait(c)
    <3>1. /\ Goto(c, "acked") /\ pc[c] = "wait" /\ evt
          /\ UNCHANGED <<newActions, mutex, apc, ran, size>>
      BY <2>5 DEF Wait, WaitEvent, callVars
    <3>2. ~newActions
      BY <1>1, <1>3, <3>1 DEF NoStaleSignal, HolderAt, MutexHeld, Locked
    <3> QED BY <1>m, <3>1, <3>2 DEF Locked
  <2> QED BY <1>n, <1>l, <1>p, <1>r, <2>1, <2>2, <2>3, <2>4, <2>5 DEF Client
<1>z. ASSUME NEW p \in Pausers, PauseSet(p) \/ Pauser(p)
      PROVE  FALSE
  BY <1>z, <1>3 DEF InForce, PauseSet, Pauser, PauseRaise, PauseWait, NoForeignFlag
<1>d. CASE AudioRunAction
  <2>1. /\ apc = "drain" /\ queue # <<>>
        /\ UNCHANGED <<newActions, mutex, size, pc, apc>>
    BY <1>d DEF AudioRunAction
  <2>2. 1 \in 1..Len(queue) /\ Head(queue) = queue[1]
    BY <1>1, <2>1, EmptySeq, HeadTailProperties DEF TypeOK
  <2>3. Head(queue).client = mutex
    BY <1>3, <2>2 DEF QueueIsHolders
  <2>4. \A d \in Clients \ {mutex} : ran'[d] = ran[d]
    BY <1>1, <1>d, <2>3 DEF AudioRunAction, TypeOK
  <2>5. \A d \in Clients : Phase(d)' = Phase(d) /\ Visible(d)' = Visible(d)
    BY <2>1, <2>4 DEF Phase, Applied, Visible
  <2> QED BY <1>3, <2>1, <2>5, Stutters
<1>e. CASE AudioStart \/ AudioCheck \/ AudioDrained \/ AudioSignal \/ AudioBlock
           \/ AudioFails
  <2>1. UNCHANGED <<newActions, mutex, size, ran, pc>>
    BY <1>e DEF AudioStart, AudioCheck, AudioDrained, AudioSignal, AudioBlock,
                AudioFails, callVars
  <2>2. \/ apc' \in {"drain", "clear"} <=> apc \in {"drain", "clear"}
        \/ apc = "check" /\ newActions
    BY <1>e DEF AudioStart, AudioCheck, AudioDrained, AudioSignal, AudioBlock, AudioFails
  <2>3. ASSUME NEW d \in Clients
        PROVE  Visible(d)' = Visible(d)
    <3>1. CASE apc = "check" /\ newActions /\ mutex = d
      <4>1. ran[d] = 0
        BY <1>3, <3>1 DEF NoForeignFlag, HolderAt, Progress
      <4> QED BY <2>1, <3>1, <4>1 DEF Visible
    <3>2. CASE ~(apc = "check" /\ newActions /\ mutex = d)
      BY <2>1, <2>2, <3>2 DEF Visible
    <3> QED BY <3>1, <3>2
  <2>4. \A d \in Clients : Phase(d)' = Phase(d)
    BY <2>1 DEF Phase, Applied
  <2> QED BY <1>3, <2>1, <2>3, <2>4, Stutters
<1>h. ~Stop
  BY DEF InForce, Stop
<1>v. CASE UNCHANGED vars
  <2>1. \A d \in Clients : Phase(d)' = Phase(d) /\ Visible(d)' = Visible(d)
    BY <1>v DEF vars, callVars, Phase, Applied, Visible
  <2> QED BY <1>3, <1>v, <2>1, Stutters DEF vars, callVars
<1> QED
  BY <1>4, <1>b, <1>u, <1>k, <1>n, <1>z, <1>d, <1>e, <1>h, <1>v DEF Next, Audio

\* execute(), undo() and muteOthers() look to their callers as if each request
\* were applied in one step between two blocks, before the call returns.
THEOREM RefinementTheorem == Spec => ImplementsAtomicRequests
<1>1. Init => Promise!Init
  BY RefinesInit
<1>2. IInv /\ [Next]_vars => [Promise!Next]_(Promise!vars)
  BY RefinesStep
<1> QED BY <1>1, <1>2, InvCorrect, PTL DEF Spec, ImplementsAtomicRequests, Promise!Spec

-----------------------------------------------------------------------------
(* No answer is lost *)

\* Only the round that runs the request takes the flag down, and it signals.
LEMMA AnswerStep == IInv /\ NoLostAnswer /\ [Next]_vars => NoLostAnswer'
<1> SUFFICES ASSUME IInv, NoLostAnswer, [Next]_vars, InForce',
                    NEW c \in Clients, pc'[c] \in {"test", "wait"}
             PROVE  (evt \/ apc = "signal" \/ newActions)'
  BY DEF NoLostAnswer
<1>1. /\ TypeOK /\ TypeOK' /\ MutexHeld /\ MutexHeld' /\ NoForeignFlag /\ InForce
  BY TypeStep, MutexStep, ForceEnds DEF IInv
<1>2. mutex' = c
  BY <1>1 DEF MutexHeld, Locked
<1>3. CASE Audio \/ AudioFails \/ Stop \/ UNCHANGED vars
  <2>1. pc[c] \in {"test", "wait"}
    BY <1>3 DEF Audio, AudioStart, AudioCheck, AudioRunAction, AudioDrained,
                AudioClearFlag, AudioSignal, AudioBlock, AudioFails, Stop, vars
  <2>2. evt \/ apc = "signal" \/ newActions
    BY <1>1, <2>1 DEF NoLostAnswer
  <2> QED BY <1>3, <2>2 DEF Audio, AudioStart, AudioCheck, AudioRunAction, AudioDrained,
                AudioClearFlag, AudioSignal, AudioBlock, AudioFails, Stop, vars
<1>4. ASSUME NEW d \in Clients, Begin(d)
      PROVE  (evt \/ apc = "signal" \/ newActions)'
  <2>1. pc'[d] = "lock" /\ \A t \in Threads \ {d} : pc'[t] = pc[t]
    BY <1>1, <1>4, ClientMoves DEF Begin, ClientLabel
  <2>2. pc[c] \in {"test", "wait"}
    BY <2>1 DEF Threads
  <2> QED BY <1>1, <1>4, <2>2 DEF Begin, NoLostAnswer
<1>5. ASSUME NEW d \in Clients, Client(d)
      PROVE  (evt \/ apc = "signal" \/ newActions)'
  <2>1. CASE Raise(d)
    BY <2>1 DEF Raise
  <2>2. CASE TestRunning(d)
    <3>1. pc[d] = "test" /\ mutex = d /\ mutex' = d
      BY <1>1, <2>2 DEF TestRunning, MutexHeld, Locked
    <3> QED BY <1>1, <2>2, <3>1 DEF TestRunning, NoLostAnswer
  <2>3. CASE ~(Raise(d) \/ TestRunning(d))
    <3>1. mutex' \in {d, None}
      BY <1>1, <1>5, <2>3
      DEF Client, Lock, Sync, SyncTest, SyncWait, SyncReset, Push, PushedAll, Wait, Unlock,
          MutexHeld, Locked
    <3>2. c = d
      BY <1>2, <3>1, ConstantsAssumption
    <3>3. \/ \E l \in ClientLabel \ {"test", "wait"} : Goto(d, l)
          \/ pc[d] = "push" /\ UNCHANGED pc
      BY <1>5, <2>3 DEF Client, Lock, Sync, SyncTest, SyncWait, SyncReset, Push, PushedAll,
                        Wait, Unlock, ClientLabel, Locked
    <3>4. pc'[d] \notin {"test", "wait"}
      BY <1>1, <3>3, ClientMoves
    <3> QED BY <3>2, <3>4
  <2> QED BY <2>1, <2>2, <2>3
<1>6. ~\E p \in Pausers : PauseSet(p) \/ Pauser(p)
  <2>1. \A p \in Pausers : ~PauseSet(p)
    BY ForceEnds DEF PauseSet, InForce
  <2> QED BY <1>1, <2>1 DEF NoForeignFlag, Pauser, PauseRaise, PauseWait
<1> QED BY <1>3, <1>4, <1>5, <1>6 DEF Next

\* Whoever raised the flag has it answered: no interleaving of execute() with
\* the audio thread leaves a client waiting for a signal that is already over.
THEOREM AnswerTheorem == Spec => []NoLostAnswer
<1>1. Init => NoLostAnswer
  BY DEF Init, NoLostAnswer, Threads
<1> QED BY <1>1, InvCorrect, AnswerStep, PTL DEF Spec

\* What the audio thread has left to do, while the event is down and the
\* flag up.
LEMMA AudioAnswers ==
    ASSUME TypeOK, running, Audio, ~evt, apc = "signal" \/ newActions
    PROVE  AnswerLeft' < AnswerLeft
<1>1. Len(queue) \in Nat
  BY LenProperties DEF TypeOK
<1>2. CASE AudioStart
  BY <1>1, <1>2 DEF AudioStart, AnswerLeft
<1>3. CASE AudioCheck
  BY <1>1, <1>3 DEF AudioCheck, AnswerLeft
<1>4. CASE AudioRunAction
  <2>1. Len(Tail(queue)) = Len(queue) - 1
    BY <1>4, HeadTailProperties DEF AudioRunAction, TypeOK
  <2> QED BY <1>1, <1>4, <2>1 DEF AudioRunAction, AnswerLeft
<1>5. CASE AudioDrained
  BY <1>1, <1>5 DEF AudioDrained, AnswerLeft
<1>6. CASE AudioClearFlag
  BY <1>1, <1>6 DEF AudioClearFlag, AnswerLeft
<1>7. CASE AudioSignal
  BY <1>1, <1>7 DEF AudioSignal, AnswerLeft
<1>8. CASE AudioBlock
  BY <1>1, <1>8 DEF AudioBlock, AnswerLeft
<1> QED BY <1>2, <1>3, <1>4, <1>5, <1>6, <1>7, <1>8 DEF Audio

\* While a client waits, the other threads can only begin calls, stop the
\* driver or take the audio thread away.
LEMMA OthersKeepAnswer ==
    ASSUME IInv, [Next]_vars, ~Audio, InForce', NEW c \in Clients,
           pc[c] = "wait", pc'[c] = "wait"
    PROVE  apc' = "ended" \/ UNCHANGED <<evt, apc, queue>>
<1>1. TypeOK /\ MutexHeld /\ NoForeignFlag /\ mutex = c
  BY ForceEnds DEF IInv, MutexHeld, Locked
<1>2. CASE AudioFails \/ Stop \/ UNCHANGED vars
  BY <1>2 DEF AudioFails, Stop, vars
<1>3. ASSUME NEW d \in Clients, Begin(d)
      PROVE  UNCHANGED <<evt, apc, queue>>
  BY <1>3 DEF Begin
<1>4. ASSUME NEW d \in Clients, Client(d)
      PROVE  FALSE
  <2>1. CASE c = d
    <3>1. Wait(c)
      BY <1>4, <2>1 DEF Client, Lock, Sync, SyncTest, SyncWait, SyncReset, Push, PushedAll,
                        Raise, TestRunning, Unlock
    <3>2. pc'[c] = "acked"
      BY <1>1, <3>1, ClientMoves DEF Wait, ClientLabel, Locked
    <3> QED BY <3>2
  <2>2. CASE c # d
    <3>1. pc[d] \notin Locked /\ mutex # None
      BY <1>1, <2>2, ConstantsAssumption DEF MutexHeld
    <3> QED BY <1>4, <3>1 DEF Client, Lock, Sync, SyncTest, SyncWait, SyncReset, Push,
                              PushedAll, Raise, TestRunning, Wait, Unlock, Locked
  <2> QED BY <2>1, <2>2
<1>5. ~\E p \in Pausers : PauseSet(p) \/ Pauser(p)
  <2>1. \A p \in Pausers : ~PauseSet(p)
    BY ForceEnds DEF PauseSet, InForce
  <2> QED BY <1>1, <2>1 DEF NoForeignFlag, Pauser, PauseRaise, PauseWait
<1> QED BY <1>2, <1>3, <1>4, <1>5 DEF Next

\* A waiting client depends on the audio thread alone, and the audio thread on
\* nobody: what is left for its answer only ever gets less.
THEOREM NearerTheorem == Spec => AnswerComesNearer
<1>1. ASSUME IInv, NoLostAnswer, [Next]_vars, NEW c \in Clients,
             InForce, InForce', pc[c] = "wait", pc'[c] = "wait"
      PROVE  /\ Audio => IF evt THEN evt' ELSE AnswerLeft' < AnswerLeft
             /\ ~Audio => apc' = "ended" \/ UNCHANGED <<evt, apc, queue>>
  <2>1. evt \/ apc = "signal" \/ newActions
    BY <1>1 DEF NoLostAnswer
  <2>2. TypeOK /\ running
    BY <1>1 DEF IInv, InForce
  <2>3. Audio /\ evt => evt'
    BY DEF Audio, AudioStart, AudioCheck, AudioRunAction, AudioDrained,
           AudioClearFlag, AudioSignal, AudioBlock
  <2> QED BY <1>1, <2>1, <2>2, <2>3, AudioAnswers, OthersKeepAnswer
<1>2. IInv /\ NoLostAnswer /\ [Next]_vars =>
        \A c \in Clients :
            InForce /\ InForce' /\ pc[c] = "wait" /\ pc'[c] = "wait" =>
                /\ Audio => IF evt THEN evt' ELSE AnswerLeft' < AnswerLeft
                /\ ~Audio => apc' = "ended" \/ UNCHANGED <<evt, apc, queue>>
  BY <1>1
<1> QED BY <1>2, InvCorrect, AnswerTheorem, PTL DEF Spec, AnswerComesNearer
=============================================================================
