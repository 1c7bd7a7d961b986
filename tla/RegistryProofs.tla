--------------------------- MODULE RegistryProofs ---------------------------
(***************************************************************************)
(* Proofs about Registry, for any sets of buffers, observers and requests, *)
(* any numbers of channels and any size of the arrays.                     *)
(***************************************************************************)
EXTENDS Registry, FiniteSetTheorems, WellFoundedInduction, TLAPS

-----------------------------------------------------------------------------
(* The inductive invariant *)

\* Actions on signals are about buffers, the others about observers.
Kinds ==
    {a \in Actions : a.op \in {"addSignal", "removeSignal"} <=> a.obj \in Buffers}

Typed ==
    /\ jack \in BOOLEAN
    /\ buffers \in [Slots -> Buffers \cup {None}]
    /\ pool \in [Slots -> Observers \cup {None}]
    /\ DOMAIN cons = AllCells
    /\ acts \in [Requests -> Seq(Kinds)] /\ undos \in [Requests -> Seq(Kinds)]
    /\ queue \in Seq(Kinds)
    /\ age \in [Objects -> Nat] /\ joined \in [Objects -> Nat] /\ blocks \in Nat

\* The part of RowsMatch that is about the ports of registered buffers.
RowPorts ==
    \A i \in Slots : buffers[i] # None =>
        \A c \in Chans(buffers[i]) :
            cons[getBufferPortConnection(i, c)].port = PortOf(buffers[i], c)

\* The rest of it: one direction per buffer, and no ports left in free slots or
\* behind the channels of a buffer.
Directions ==
    \A i \in Slots : buffers[i] # None =>
        \A c \in Chans(buffers[i]) :
            cons[getBufferPortConnection(i, c)].isOutput
                = cons[getBufferPortConnection(i, 0)].isOutput

FreeCells ==
    "evicted" \notin mishaps =>
        \A i \in Slots : \A c \in 0..MaxChannels - 1 :
            (buffers[i] = None \/ c \notin Chans(buffers[i])) =>
                cons[getBufferPortConnection(i, c)].port = None

\* The places in a list of actions where buffer b is added.
Wants(q, b) == {i \in DOMAIN q : q[i].op = "addSignal" /\ q[i].obj = b}
AtMostOne(S) == \A i, j \in S : i = j

\* The ports of a buffer are made for one use of it: they exist for good, and no
\* other addBuffer() gets that far.
PortsOnce ==
    jack => \A b \in Buffers :
        /\ Pending(b) \/ Holds(buffers, b) => PortsOf(b) \subseteq live
        /\ Pending(b) => ~Holds(buffers, b)
        /\ AtMostOne(Wants(queue, b))
        /\ \A r \in Requests :
              /\ AtMostOne(Wants(acts[r], b))
              /\ Wants(acts[r], b) # {} =>
                    /\ Wants(queue, b) = {}
                    /\ \A s \in Requests : Wants(acts[s], b) # {} => r = s

Removals == {"removeSignal", "removeObserver"}
OnlyRemoves(q) == \A i \in DOMAIN q : q[i].op \in Removals
Removes(q, x) == \E i \in DOMAIN q : q[i].op \in Removals /\ q[i].obj = x

\* Whatever a request is going to add, it knows how to undo.
Undoable ==
    /\ \A r \in Requests : OnlyRemoves(undos[r])
    /\ "early undo" \notin mishaps =>
          /\ \A r \in Requests : \A i \in DOMAIN acts[r] :
                acts[r][i].op \notin Removals =>
                    acts[r][i].req = r /\ Removes(undos[r], acts[r][i].obj)
          /\ \A i \in DOMAIN queue :
                queue[i].op \notin Removals =>
                    Removes(undos[queue[i].req], queue[i].obj)

\* What a request has added is there, and the request can still take it back, or
\* is doing so.
Owned ==
    /\ DOMAIN owner = Objects
    /\ mishaps \cap {"evicted", "early undo"} = {} =>
          \A x \in Objects : \A r \in Requests : owner[x] = r =>
              /\ Registered(x)
              /\ Removes(undos[r], x) \/ (Removes(queue, x) /\ OnlyRemoves(queue))

\* Why registered buffers and observers are served once per block and in step,
\* why requests account for them, and why no buffer is added twice with JACK.
IInv ==
    /\ Typed /\ SlotsUnique /\ RowPorts /\ InStep
    /\ Directions /\ FreeCells /\ PortsOnce /\ Undoable /\ Owned

-----------------------------------------------------------------------------
(* Why an observer does not outlive its buffers *)

OnlyAdds(q) == \A i \in DOMAIN q : q[i].op \notin Removals
Adds(q, r, b) == \E i \in DOMAIN q : q[i].op = "addSignal" /\ q[i].obj = b /\ q[i].req = r
AddsObserver(q, o) == \E i \in DOMAIN q : q[i].op = "addObserver" /\ q[i].obj = o

\* A request has the buffers that it is going to add.
Collected ==
    /\ bufs \in [Requests -> SUBSET Buffers] /\ hists \in [Observers -> SUBSET Buffers]
    /\ \A r \in Requests : \A b \in bufs[r] : Adds(acts[r], r, b)

\* As long as clients only add and undo, no list of actions does both.
Unmixed ==
    /\ \A r \in Requests : OnlyAdds(acts[r])
    /\ OnlyAdds(queue) \/ OnlyRemoves(queue)

\* An observer that observes something is not added again.
UsedOnce ==
    \A o \in Observers :
        /\ o \notin used => hists[o] = {}
        /\ o \notin used \/ hists[o] # {} => \A r \in Requests : ~AddsObserver(acts[r], o)

\* A request only takes back what it has added, or is going to.
Backed ==
    \A r \in Requests, b \in Buffers : Removes(undos[r], b) =>
        Adds(acts[r], r, b) \/ Adds(queue, r, b) \/ (owner[b] = r /\ ~Removes(queue, b))

\* An observer comes after its buffers, ...
Coming(o, b) ==
    /\ queue # <<>> /\ OnlyAdds(queue)
    /\ queue[Len(queue)].op = "addObserver" /\ queue[Len(queue)].obj = o
    /\ \E r \in Requests : Removes(undos[r], o) /\ (owner[b] = r \/ Adds(queue, r, b))

\* ... can be removed by whoever removes one of them, ...
Staying(o, b) ==
    \E r \in Requests : owner[b] = r /\ Removes(undos[r], o) /\ ~Removes(queue, b)

\* ... goes in the same request as they do, and does not come again.
Leaving(o) == OnlyRemoves(queue) /\ Removes(queue, o)
Gone(o) == ~Holds(pool, o) /\ ~AddsObserver(queue, o)

Escorted ==
    \A o \in Observers : \A b \in hists[o] :
        Coming(o, b) \/ Staying(o, b) \/ Leaving(o) \/ Gone(o)

\* Why the buffers of an observer that commits are being served.
Tidy ==
    /\ Collected
    /\ mishaps = {} => Unmixed /\ UsedOnce /\ Backed /\ Escorted

-----------------------------------------------------------------------------
(* Guarantees beyond those that the runs check *)

\* What an array of pointers holds.
InUse(array) == {array[i] : i \in Slots} \ {None}

\* No slot gets lost, however often buffers and observers come and go: a pointer
\* is overwritten only when MAX_SIGNAL_BUFFERS of its kind are registered, and
\* m_bufferPortConnections is overrun only when as many buffers are as a buffer
\* may have channels.
CapacityKept ==
    [][ /\ "evicted" \in mishaps' \ mishaps =>
              \/ Cardinality(InUse(buffers)) = MaxSlots
              \/ Cardinality(InUse(pool)) = MaxSlots
        /\ "overrun" \in mishaps' \ mishaps =>
              Cardinality(InUse(buffers)) >= MaxChannels ]_vars

\* The arrays work as sets: what is served after an action is what was served
\* before it, with what it adds or without what it removes, and nothing else
\* comes, goes or stays behind as a copy in another slot.
Admits(array, x) ==
    Cardinality(InUse(array)) = MaxSlots \/ InUse(array)' = InUse(array) \cup {x}

ServesAsSets ==
    [][ \A a \in Actions : Run(a) =>
            /\ a.op = "addSignal" => Admits(buffers, a.obj)
            /\ a.op = "removeSignal" => InUse(buffers)' = InUse(buffers) \ {a.obj}
            /\ a.op = "addObserver" => Admits(pool, a.obj)
            /\ a.op = "removeObserver" => InUse(pool)' = InUse(pool) \ {a.obj}
            /\ a.op \notin {"addSignal", "removeSignal"} => UNCHANGED InUse(buffers)
            /\ a.op \notin {"addObserver", "removeObserver"} => UNCHANGED InUse(pool) ]_vars

-----------------------------------------------------------------------------
(* The search for a slot *)

\* Any slots there are, one of them is the lowest.  (Of the sets of slots up
\* to a member of T one is the smallest.)
LEMMA LowestSlot ==
    ASSUME NEW T \in SUBSET Slots, T # {}
    PROVE  \E i \in T : \A j \in T : i <= j
<1> DEFINE UpTo(i) == {j \in Slots : j <= i}
           Sets == {UpTo(i) : i \in T}
           Less == StrictSubsetOrdering(Slots)
<1>1. Slots \subseteq Int /\ IsFiniteSet(Slots)
  <2>1. MaxSlots - 1 \in Int
    BY ConstantsAssumption
  <2> QED BY <2>1, FS_Interval DEF Slots
<1>2. IsWellFoundedOn(Less, SUBSET Slots)
  BY <1>1, FS_FiniteSubsetsOfFinite, FS_StrictSubsetOrderingWellFounded, Zenon
<1>3. Sets \subseteq SUBSET Slots /\ Sets # {}
  OBVIOUS
<1>4. PICK U \in Sets : \A V \in Sets : <<V, U>> \notin Less
  <2> HIDE DEF Sets, Less
  <2> QED BY <1>2, <1>3, WFMin, Zenon
<1>5. PICK i \in T : U = UpTo(i)
  BY <1>4
<1>6. ASSUME NEW j \in T, ~(i <= j)
      PROVE  FALSE
  <2>1. i \in Slots /\ j \in Slots /\ i \in Int /\ j \in Int /\ j < i
    BY <1>1, <1>6
  <2>2. UpTo(j) \subseteq UpTo(i)
    <3>1. ASSUME NEW k \in Slots, k <= j PROVE k <= i
      <4>1. k \in Int
        BY <1>1
      <4> QED BY <4>1, <2>1, <3>1
    <3> QED BY <3>1
  <2>3. i \in UpTo(i) /\ i \notin UpTo(j)
    BY <2>1
  <2>4. <<UpTo(j), UpTo(i)>> \in Less
    BY <2>2, <2>3 DEF StrictSubsetOrdering
  <2>5. UpTo(j) \in Sets
    BY <1>6
  <2> QED BY <2>4, <2>5, <1>4, <1>5
<1> QED BY <1>6

\* _uniquePtrArrayAdd() answers with a slot, unless the pointer is there.
LEMMA AddIndexSlot ==
    ASSUME NEW array, NEW x, AddIndex(array, x) # -1
    PROVE  AddIndex(array, x) \in Slots /\ ~Holds(array, x)
<1>1. ~Holds(array, x)
  BY DEF AddIndex
<1>2. CASE Empty(array) = {}
  BY <1>1, <1>2, ConstantsAssumption DEF AddIndex, Slots
<1>3. CASE Empty(array) # {}
  <2>1. Empty(array) \in SUBSET Slots
    BY DEF Empty
  <2>2. \E i \in Empty(array) : \A j \in Empty(array) : i <= j
    BY <2>1, <1>3, LowestSlot
  <2>3. AddIndex(array, x) \in Empty(array)
    BY <2>2, <1>1, <1>3 DEF AddIndex
  <2> QED BY <2>1, <2>3, <1>1
<1> QED BY <1>2, <1>3

\* It refuses a pointer that is there, and nothing else.
LEMMA AddIndexFails ==
    ASSUME NEW array, NEW x, AddIndex(array, x) = -1
    PROVE  Holds(array, x)
<1>1. SUFFICES ASSUME ~Holds(array, x) PROVE FALSE
  OBVIOUS
<1>2. -1 \notin Slots
  BY ConstantsAssumption DEF Slots
<1>3. CASE Empty(array) = {}
  BY <1>1, <1>3 DEF AddIndex
<1>4. CASE Empty(array) # {}
  <2>1. Empty(array) \in SUBSET Slots
    BY DEF Empty
  <2>2. \E i \in Empty(array) : \A j \in Empty(array) : i <= j
    BY <2>1, <1>4, LowestSlot
  <2>3. AddIndex(array, x) \in Empty(array)
    BY <2>2, <1>1, <1>4 DEF AddIndex
  <2> QED BY <2>1, <2>3, <1>2
<1> QED BY <1>3, <1>4

\* removeSignal() and removeObserver() find the slot of what is there, which
\* is the only one.
LEMMA IndexOfSlot ==
    ASSUME NEW array, NEW x, IndexOf(array, x) # -1,
           \A i, j \in Slots : array[i] = x /\ array[j] = x => i = j
    PROVE  IndexOf(array, x) \in Slots /\ array[IndexOf(array, x)] = x
<1>1. PICK i \in Slots : array[i] = x
  BY DEF IndexOf, Holds
<1>2. i \in Int
  BY ConstantsAssumption DEF Slots
<1>3. \A j \in Slots : array[j] = x => j <= i
  BY <1>1, <1>2
<1>4. IndexOf(array, x) =
        CHOOSE k \in Slots : array[k] = x /\ \A j \in Slots : array[j] = x => j <= k
  BY <1>1 DEF IndexOf, Holds
<1> QED BY <1>1, <1>3, <1>4

-----------------------------------------------------------------------------
(* The rows of connections *)

\* Every channel has a cell, and no two channels of the array share one: rows
\* are MAX_SIGNAL_BUFFERS apart and no longer than that.
LEMMA RowsApart ==
    ASSUME NEW i \in Slots, NEW j \in Slots,
           NEW c \in 0..MaxChannels - 1, NEW d \in 0..MaxChannels - 1
    PROVE  /\ getBufferPortConnection(i, c) \in AllCells
           /\ getBufferPortConnection(i, c) = getBufferPortConnection(j, d)
                 => i = j /\ c = d
<1>1. /\ MaxSlots \in Nat /\ MaxChannels \in Nat /\ MaxChannels <= MaxSlots
      /\ i \in Nat /\ j \in Nat /\ c \in Nat /\ d \in Nat
      /\ c < MaxSlots /\ d < MaxSlots
  BY ConstantsAssumption DEF Slots
<1>2. ASSUME NEW m \in Nat, NEW n \in Nat, m < n
      PROVE  (MaxSlots * m) + MaxSlots <= MaxSlots * n
  <2> DEFINE k == n - m - 1
  <2>1. k \in Nat /\ n = m + 1 + k
    BY <1>2
  <2>2. MaxSlots * k \in Nat
    BY <1>1, <2>1
  <2>3. MaxSlots * (m + 1 + k) = (MaxSlots * m) + MaxSlots + (MaxSlots * k)
    BY <1>1, <2>1
  <2> HIDE DEF k
  <2>4. MaxSlots * m \in Nat
    BY <1>1
  <2> QED BY <1>1, <2>1, <2>2, <2>3, <2>4
<1>3. MaxSlots * i \in Nat /\ MaxSlots * j \in Nat
  BY <1>1
<1>4. (MaxSlots * i) + c = (MaxSlots * j) + d => i = j /\ c = d
  <2>1. i < j => (MaxSlots * i) + MaxSlots <= MaxSlots * j
    BY <1>2, <1>1
  <2>2. j < i => (MaxSlots * j) + MaxSlots <= MaxSlots * i
    BY <1>2, <1>1
  <2> QED BY <2>1, <2>2, <1>1, <1>3
<1>5. getBufferPortConnection(i, c) \in AllCells
  BY DEF getBufferPortConnection, AllCells
<1> QED BY <1>4, <1>5 DEF getBufferPortConnection, ConnectionAt

\* A buffer has at most as many channels as its row has cells.
LEMMA RowFits ==
    ASSUME NEW b \in Buffers
    PROVE  /\ Chans(b) \subseteq 0..MaxChannels - 1
           /\ NumChannels[b] - 1 \in Chans(b)
<1>1. NumChannels[b] \in 1..MaxChannels /\ MaxChannels \in Nat
  BY ConstantsAssumption
<1> QED BY <1>1 DEF Chans

-----------------------------------------------------------------------------
(* The invariant: the arrays start empty, and the types stay *)

\* Nothing is registered at the start.
LEMMA InvInit == Init => IInv
<1> SUFFICES ASSUME Init PROVE IInv
  OBVIOUS
<1>1. Typed
  <2>1. <<>> \in Seq(Kinds)
    OBVIOUS
  <2>2. buffers \in [Slots -> Buffers \cup {None}] /\ pool \in [Slots -> Observers \cup {None}]
    BY DEF Init
  <2>3. DOMAIN cons = AllCells
    BY DEF Init
  <2>4. acts \in [Requests -> Seq(Kinds)] /\ undos \in [Requests -> Seq(Kinds)]
    BY <2>1 DEF Init
  <2>5. age \in [Objects -> Nat] /\ joined \in [Objects -> Nat] /\ blocks \in Nat
    BY DEF Init, Objects
  <2> QED BY <2>1, <2>2, <2>3, <2>4, <2>5 DEF Init, Typed
<1>2. SlotsUnique
  BY DEF Init, SlotsUnique
<1>3. RowPorts
  BY DEF Init, RowPorts
<1>4. InStep
  BY DEF Init, InStep, Registered, Holds, Objects
<1>5. Directions
  BY DEF Init, Directions
<1>6. FreeCells
  <2>1. \A i \in Slots : \A c \in 0..MaxChannels - 1 :
            cons[getBufferPortConnection(i, c)] = NoConnection
    BY DEF Init, getBufferPortConnection, AllCells
  <2> QED BY <2>1 DEF FreeCells, NoConnection
<1>7. \A b : Wants(<<>>, b) = {} /\ ~Removes(<<>>, b)
  BY DEF Wants, Removes
<1>8. PortsOnce
  <2>1. \A r \in Requests : \A b : Wants(acts[r], b) = {}
    BY <1>7 DEF Init
  <2>2. \A b : ~Pending(b)
    BY DEF Init, Pending
  <2>3. \A b \in Buffers : ~Holds(buffers, b)
    BY ConstantsAssumption DEF Init, Holds
  <2> QED BY <1>7, <2>1, <2>2, <2>3 DEF Init, PortsOnce, AtMostOne
<1>9. Undoable
  BY DEF Init, Undoable, OnlyRemoves
<1>10. Owned
  <2>1. \A r \in Requests : r # None
    BY ConstantsAssumption
  <2> QED BY <2>1 DEF Init, Owned, Objects
<1> QED BY <1>1, <1>2, <1>3, <1>4, <1>5, <1>6, <1>8, <1>9, <1>10 DEF IInv

\* What the audio thread pops is an action, on a buffer or on an observer.
LEMMA Popped ==
    ASSUME Typed, NEW a, Run(a)
    PROVE  /\ a \in Kinds /\ a.obj \in Objects /\ a.obj # None
           /\ a.op \in {"addSignal", "removeSignal"} <=> a.obj \in Buffers
           /\ queue' \in Seq(Kinds) /\ UNCHANGED <<jack, clientVars, blocks>>
<1>1. queue \in Seq(Kinds) /\ queue # <<>> /\ a = Head(queue)
  BY DEF Typed, Run
<1>2. a \in Kinds /\ Tail(queue) \in Seq(Kinds)
  BY <1>1
<1> QED BY <1>2, ConstantsAssumption DEF Run, Kinds, Actions, Objects

\* A client only changes its requests and the queue, and fills them with
\* actions of the right kinds.
LEMMA ClientStep ==
    ASSUME Typed, NEW r \in Requests, Client(r)
    PROVE  /\ UNCHANGED <<jack, audioVars>>
           /\ acts' \in [Requests -> Seq(Kinds)] /\ undos' \in [Requests -> Seq(Kinds)]
           /\ queue' \in Seq(Kinds)
<1> USE DEF Typed
<1>1. ASSUME NEW x \in Objects, NEW out \in BOOLEAN,
             NEW op \in {"addSignal", "addObserver", "removeSignal", "removeObserver"},
             op \in {"addSignal", "removeSignal"} <=> x \in Buffers
      PROVE  Act(op, x, r, out) \in Kinds
  BY <1>1 DEF Act, Kinds, Actions
<1>2. ASSUME NEW a \in Kinds
      PROVE  /\ Append(acts[r], a) \in Seq(Kinds)
             /\ Later(r, a) => acts' \in [Requests -> Seq(Kinds)]
             /\ LaterUndo(r, a) => undos' \in [Requests -> Seq(Kinds)]
  <2>1. Append(acts[r], a) \in Seq(Kinds) /\ Append(undos[r], a) \in Seq(Kinds)
    OBVIOUS
  <2> QED BY <2>1 DEF Later, LaterUndo
<1>3. /\ \A b \in Buffers : b \in Objects /\ b \notin Observers
      /\ \A o \in Observers : o \in Objects /\ o \notin Buffers
  BY ConstantsAssumption DEF Objects
<1>4. ASSUME NEW b \in Buffers, AddBuffer(r, b)
      PROVE  UNCHANGED <<jack, queue, audioVars>>
             /\ acts' \in [Requests -> Seq(Kinds)] /\ undos' \in [Requests -> Seq(Kinds)]
  <2>1. PICK out \in BOOLEAN : Later(r, Act("addSignal", b, r, out))
    BY <1>4 DEF AddBuffer
  <2>2. Act("addSignal", b, r, out) \in Kinds /\ Act("removeSignal", b, r, FALSE) \in Kinds
    BY <1>1, <1>3
  <2> QED BY <2>1, <2>2, <1>2, <1>4 DEF AddBuffer
<1>5. ASSUME NEW o \in Observers, AddObserver(r, o)
      PROVE  UNCHANGED <<jack, queue, audioVars>>
             /\ acts' \in [Requests -> Seq(Kinds)] /\ undos' \in [Requests -> Seq(Kinds)]
  <2>1. /\ Act("addObserver", o, r, FALSE) \in Kinds
        /\ Act("removeObserver", o, r, FALSE) \in Kinds
    BY <1>1, <1>3
  <2> QED BY <2>1, <1>2, <1>5 DEF AddObserver
<1>6. ASSUME NEW x \in Objects, Remove(r, x)
      PROVE  UNCHANGED <<jack, queue, audioVars, undos>> /\ acts' \in [Requests -> Seq(Kinds)]
  <2>1. Act(IF x \in Buffers THEN "removeSignal" ELSE "removeObserver", x, r, FALSE) \in Kinds
    BY <1>1, <1>3
  <2> QED BY <2>1, <1>2, <1>6 DEF Remove
<1>7. ASSUME NEW o \in Observers, ExecuteAndObserve(r, o)
      PROVE  /\ UNCHANGED <<jack, audioVars>> /\ queue' \in Seq(Kinds)
             /\ acts' \in [Requests -> Seq(Kinds)] /\ undos' \in [Requests -> Seq(Kinds)]
  <2>1. /\ Act("addObserver", o, r, FALSE) \in Kinds
        /\ Act("removeObserver", o, r, FALSE) \in Kinds
    BY <1>1, <1>3
  <2>2. Append(acts[r], Act("addObserver", o, r, FALSE)) \in Seq(Kinds)
    BY <2>1, <1>2, Zenon
  <2>3. <<>> \in Seq(Kinds)
    OBVIOUS
  <2> QED BY <2>1, <2>2, <2>3, <1>2, <1>7 DEF ExecuteAndObserve
<1>8. CASE Execute(r) \/ Undo(r)
  <2>1. acts[r] \in Seq(Kinds) /\ undos[r] \in Seq(Kinds) /\ <<>> \in Seq(Kinds)
    OBVIOUS
  <2> QED BY <2>1, <1>8 DEF Execute, Undo
<1>9. ASSUME NEW b \in Buffers, AddBufferThrows(r, b)
      PROVE  UNCHANGED <<jack, queue, audioVars, acts, undos>>
  BY <1>9 DEF AddBufferThrows
<1>10. UNCHANGED <<queue, audioVars, acts, undos>> => queue' \in Seq(Kinds)
  OBVIOUS
<1> QED BY <1>3, <1>4, <1>5, <1>6, <1>7, <1>8, <1>9 DEF Client

\* Every step keeps the types.
LEMMA TypedStep == Typed /\ [Next]_vars => Typed'
<1> SUFFICES ASSUME Typed, [Next]_vars PROVE Typed'
  OBVIOUS
<1>0. ASSUME UNCHANGED <<jack, audioVars>>,
             acts' \in [Requests -> Seq(Kinds)], undos' \in [Requests -> Seq(Kinds)],
             queue' \in Seq(Kinds)
      PROVE  Typed'
  BY <1>0 DEF Typed, audioVars, addVars
<1>1. CASE UNCHANGED vars
  BY <1>1, <1>0 DEF vars, clientVars, Typed
<1>2. ASSUME NEW r \in Requests, Client(r) PROVE Typed'
  BY <1>2, <1>0, ClientStep
<1>3. ASSUME NEW a, Run(a),
             \/ RunAddSignal(a) \/ RunAddSignalThrows(a) \/ RunAddObserver(a)
             \/ RunRemoveSignal(a) \/ RunRemoveObserver(a) \/ RunRemoveThrows(a)
      PROVE  Typed'
  <2>1. /\ a.obj \in Objects
        /\ a.op \in {"addSignal", "removeSignal"} <=> a.obj \in Buffers
        /\ queue' \in Seq(Kinds) /\ UNCHANGED <<jack, acts, undos, blocks>>
    BY <1>3, Popped DEF clientVars
  <2>2. a.op \in {"addObserver", "removeObserver"} => a.obj \in Observers
    BY <2>1 DEF Objects
  <2> USE DEF Typed
  <2>3. CASE RunAddSignal(a)
    BY <2>1, <2>3 DEF RunAddSignal, Joins
  <2>4. CASE RunAddSignalThrows(a) \/ RunRemoveThrows(a)
    BY <2>1, <2>4 DEF RunAddSignalThrows, RunRemoveThrows, addVars
  <2>5. CASE RunAddObserver(a)
    BY <2>1, <2>2, <2>5 DEF RunAddObserver, Joins
  <2>6. CASE RunRemoveSignal(a)
    BY <2>1, <2>6 DEF RunRemoveSignal
  <2>7. CASE RunRemoveObserver(a)
    BY <2>1, <2>7 DEF RunRemoveObserver
  <2> QED BY <1>3, <2>3, <2>4, <2>5, <2>6, <2>7
<1>4. CASE Block
  BY <1>4 DEF Block, Typed, clientVars
<1>5. ASSUME NEW a, RunAddSignal(a) \/ RunAddSignalThrows(a) \/ RunAddObserver(a)
                    \/ RunRemoveSignal(a) \/ RunRemoveObserver(a) \/ RunRemoveThrows(a)
      PROVE  Run(a)
  BY <1>5 DEF RunAddSignal, RunAddSignalThrows, RunAddObserver, RunRemoveSignal,
              RunRemoveObserver, RunRemoveThrows
<1> QED BY <1>1, <1>2, <1>3, <1>4, <1>5 DEF Next, Audio

-----------------------------------------------------------------------------
(* The invariant: arrays, rows and iterators *)

\* What a client, a block and an action that throws leave alone.
LEMMA ArraysKept ==
    ASSUME Typed, [Next]_vars, ~\E a : RunAddSignal(a) \/ RunRemoveSignal(a),
           ~\E a : RunAddObserver(a) \/ RunRemoveObserver(a)
    PROVE  UNCHANGED <<jack, buffers, pool, cons, joined>>
<1>1. ASSUME NEW r \in Requests, Client(r)
      PROVE  UNCHANGED <<jack, buffers, pool, cons, joined>>
  BY <1>1, ClientStep DEF audioVars, addVars
<1>2. ASSUME NEW a, RunAddSignalThrows(a) \/ RunRemoveThrows(a)
      PROVE  UNCHANGED <<jack, buffers, pool, cons, joined>>
  BY <1>2 DEF RunAddSignalThrows, RunRemoveThrows, Run, addVars
<1>3. CASE Block
  BY <1>3 DEF Block
<1>4. CASE UNCHANGED vars
  BY <1>4 DEF vars, audioVars, addVars
<1> QED BY <1>1, <1>2, <1>3, <1>4 DEF Next, Audio

\* An array of pointers without duplicates stays one.
LEMMA UniqueStep == Typed /\ SlotsUnique /\ [Next]_vars => SlotsUnique'
<1> SUFFICES ASSUME Typed, SlotsUnique, [Next]_vars PROVE SlotsUnique'
  OBVIOUS
<1>a. /\ buffers \in [Slots -> Buffers \cup {None}]
      /\ pool \in [Slots -> Observers \cup {None}]
  BY DEF Typed
<1>1. ASSUME NEW a, RunAddSignal(a)
      PROVE  SlotsUnique'
  <2> DEFINE i == AddIndex(buffers, a.obj)
  <2>1. i \in Slots /\ ~Holds(buffers, a.obj)
    BY <1>1, AddIndexSlot DEF RunAddSignal
  <2>2. buffers' = [buffers EXCEPT ![i] = a.obj] /\ UNCHANGED pool
    BY <1>1 DEF RunAddSignal
  <2> HIDE DEF i
  <2> QED BY <1>a, <2>1, <2>2 DEF SlotsUnique, Holds
<1>2. ASSUME NEW a, RunAddObserver(a)
      PROVE  SlotsUnique'
  <2> DEFINE i == AddIndex(pool, a.obj)
  <2>1. CASE i = -1
    BY <1>2, <2>1 DEF RunAddObserver, SlotsUnique
  <2>2. CASE i # -1
    <3>1. i \in Slots /\ ~Holds(pool, a.obj)
      BY <2>2, AddIndexSlot
    <3>2. pool' = [pool EXCEPT ![i] = a.obj] /\ UNCHANGED buffers
      BY <1>2, <2>2 DEF RunAddObserver
    <3> HIDE DEF i
    <3> QED BY <1>a, <3>1, <3>2 DEF SlotsUnique, Holds
  <2> QED BY <2>1, <2>2
<1>3. ASSUME NEW a, RunRemoveSignal(a)
      PROVE  SlotsUnique'
  BY <1>3, <1>a DEF RunRemoveSignal, SlotsUnique
<1>4. ASSUME NEW a, RunRemoveObserver(a)
      PROVE  SlotsUnique'
  BY <1>4, <1>a DEF RunRemoveObserver, SlotsUnique
<1>5. CASE UNCHANGED <<buffers, pool>>
  BY <1>5 DEF SlotsUnique
<1> QED BY <1>1, <1>2, <1>3, <1>4, <1>5, ArraysKept

\* The row of a registered buffer keeps its ports, whatever is written to
\* other rows.
LEMMA RowPortsStep == Typed /\ SlotsUnique /\ RowPorts /\ [Next]_vars => RowPorts'
<1> SUFFICES ASSUME Typed, SlotsUnique, RowPorts, [Next]_vars,
                    NEW j \in Slots, buffers'[j] # None, NEW c \in Chans(buffers'[j])
             PROVE  cons'[getBufferPortConnection(j, c)].port = PortOf(buffers[j], c)'
  BY DEF RowPorts, Chans, getBufferPortConnection, ConnectionAt, Slots
<1> DEFINE cell == getBufferPortConnection(j, c)
<1>a. buffers \in [Slots -> Buffers \cup {None}]
  BY DEF Typed
<1>b. ASSUME UNCHANGED jack, buffers'[j] = buffers[j], cons'[cell] = cons[cell]
      PROVE  cons'[cell].port = PortOf(buffers[j], c)'
  BY <1>b DEF RowPorts, PortOf
<1>c. ASSUME NEW i \in Slots, NEW b \in Buffers, i # j, buffers'[j] = buffers[j]
      PROVE  cell \in AllCells /\ cell \notin Row(i, b)
  <2>1. c \in 0..MaxChannels - 1
    BY <1>c, <1>a, RowFits
  <2> QED BY <1>c, <2>1, RowFits, RowsApart DEF Row
<1>1. ASSUME NEW a, RunAddSignal(a)
      PROVE  cons'[cell].port = PortOf(buffers[j], c)'
  <2> DEFINE i == AddIndex(buffers, a.obj)
  <2>1. i \in Slots /\ a.obj \in Buffers /\ UNCHANGED jack
    BY <1>1, AddIndexSlot, Popped DEF RunAddSignal
  <2>2. /\ buffers' = [buffers EXCEPT ![i] = a.obj]
        /\ cons' = [k \in AllCells |->
                       IF k \in Row(i, a.obj)
                       THEN [port |-> PortOf(a.obj, ChannelAt(i, a.obj, k)),
                             isOutput |-> a.isOutput]
                       ELSE cons[k]]
    BY <1>1 DEF RunAddSignal
  <2> HIDE DEF i
  <2>3. CASE i = j
    <3>1. buffers'[j] = a.obj /\ c \in Chans(a.obj) /\ Chans(a.obj) \subseteq 0..MaxChannels - 1
      BY <2>1, <2>2, <2>3, <1>a, RowFits
    <3>2. cell \in AllCells /\ cell \in Row(i, a.obj)
      BY <3>1, <2>3, RowsApart DEF Row
    <3>3. ChannelAt(i, a.obj, cell) = c
      BY <3>1, <2>1, <2>3, RowsApart DEF ChannelAt
    <3> QED BY <2>1, <2>2, <3>1, <3>2, <3>3 DEF PortOf
  <2>4. CASE i # j
    <3>1. buffers'[j] = buffers[j]
      BY <2>1, <2>2, <2>4, <1>a
    <3>2. cons'[cell] = cons[cell]
      BY <3>1, <2>1, <2>2, <2>4, <1>c
    <3> QED BY <2>1, <3>1, <3>2, <1>b
  <2> QED BY <2>3, <2>4
<1>2. ASSUME NEW a, RunRemoveSignal(a)
      PROVE  cons'[cell].port = PortOf(buffers[j], c)'
  <2> DEFINE i == IndexOf(buffers, a.obj)
  <2>1. a.obj \in Buffers /\ a.obj # None /\ UNCHANGED jack
    BY <1>2, Popped DEF RunRemoveSignal
  <2>2. i \in Slots
    BY <1>2, <2>1, IndexOfSlot DEF RunRemoveSignal, SlotsUnique
  <2>3. /\ buffers' = [buffers EXCEPT ![i] = None]
        /\ cons' = [k \in AllCells |-> IF k \in Row(i, a.obj) THEN NoConnection ELSE cons[k]]
    BY <1>2 DEF RunRemoveSignal
  <2> HIDE DEF i
  <2>4. i # j /\ buffers'[j] = buffers[j]
    BY <2>2, <2>3, <1>a
  <2>5. cons'[cell] = cons[cell]
    BY <2>1, <2>2, <2>3, <2>4, <1>c
  <2> QED BY <2>1, <2>4, <2>5, <1>b
<1>3. ASSUME NEW a, RunAddObserver(a) \/ RunRemoveObserver(a)
      PROVE  UNCHANGED <<jack, buffers, cons>>
  BY <1>3 DEF RunAddObserver, RunRemoveObserver, Run
<1>4. CASE UNCHANGED <<jack, buffers, cons>>
  BY <1>4, <1>b
<1> QED BY <1>1, <1>2, <1>3, <1>4, ArraysKept

\* What is registered is served in every block, and starts anew together with
\* its entry in `joined'.
LEMMA InStepStep == Typed /\ RowPorts /\ InStep /\ [Next]_vars => InStep'
<1> SUFFICES ASSUME Typed, RowPorts, InStep, [Next]_vars,
                    NEW x \in Objects, Registered(x)'
             PROVE  age'[x] = blocks' - joined'[x]
  BY DEF InStep, Objects
<1>a. /\ buffers \in [Slots -> Buffers \cup {None}]
      /\ pool \in [Slots -> Observers \cup {None}]
      /\ age \in [Objects -> Nat] /\ joined \in [Objects -> Nat] /\ blocks \in Nat
      /\ x # None
  BY ConstantsAssumption DEF Typed, Objects
<1>b. Registered(x) => age[x] = blocks - joined[x]
  BY DEF InStep
<1>1. ASSUME NEW a, a.obj \in Objects, UNCHANGED blocks,
             age' = [age EXCEPT ![a.obj] = 0], joined' = [joined EXCEPT ![a.obj] = blocks],
             x # a.obj => Registered(x)
      PROVE  age'[x] = blocks' - joined'[x]
  BY <1>1, <1>a, <1>b
<1>2. ASSUME NEW a, RunAddSignal(a)
      PROVE  age'[x] = blocks' - joined'[x]
  <2>1. /\ a.obj \in Objects /\ UNCHANGED <<blocks, pool>>
        /\ age' = [age EXCEPT ![a.obj] = 0] /\ joined' = [joined EXCEPT ![a.obj] = blocks]
    BY <1>2, Popped DEF RunAddSignal, Joins
  <2>2. x # a.obj => Registered(x)
    BY <1>2, <2>1, <1>a DEF RunAddSignal, Registered, Holds
  <2> QED BY <2>1, <2>2, <1>1
<1>3. ASSUME NEW a, RunAddObserver(a)
      PROVE  age'[x] = blocks' - joined'[x]
  <2>1. /\ a.obj \in Objects /\ UNCHANGED <<blocks, buffers>>
        /\ age' = [age EXCEPT ![a.obj] = 0] /\ joined' = [joined EXCEPT ![a.obj] = blocks]
    BY <1>3, Popped DEF RunAddObserver, Joins
  <2>2. pool' = pool \/ \E i : pool' = [pool EXCEPT ![i] = a.obj]
    BY <1>3 DEF RunAddObserver
  <2>3. x # a.obj => Registered(x)
    BY <2>1, <2>2, <1>a DEF Registered, Holds
  <2> QED BY <2>1, <2>3, <1>1
<1>4. ASSUME NEW a, RunRemoveSignal(a) \/ RunRemoveObserver(a)
      PROVE  age'[x] = blocks' - joined'[x]
  <2>1. UNCHANGED <<age, joined, blocks>>
    BY <1>4 DEF RunRemoveSignal, RunRemoveObserver, Run
  <2>2. \/ UNCHANGED pool /\ \E i : buffers' = [buffers EXCEPT ![i] = None]
        \/ UNCHANGED buffers /\ \E i : pool' = [pool EXCEPT ![i] = None]
    BY <1>4 DEF RunRemoveSignal, RunRemoveObserver
  <2>3. Registered(x)
    BY <2>2, <1>a DEF Registered, Holds
  <2> QED BY <2>1, <2>3, <1>b
<1>5. CASE Block
  <2>1. /\ UNCHANGED <<buffers, pool, joined>> /\ blocks' = blocks + 1
        /\ age' = [y \in DOMAIN age |->
                      IF Served(y) \/ Holds(pool, y) THEN age[y] + 1 ELSE age[y]]
    BY <1>5 DEF Block
  <2>2. Registered(x)
    BY <2>1 DEF Registered, Holds
  <2>3. ASSUME NEW i \in Slots, buffers[i] = x
        PROVE  Served(x)
    <3>1. x \in Buffers
      BY <2>3, <1>a
    <3>2. NumChannels[x] - 1 \in Chans(x)
      BY <3>1, RowFits
    <3>3. cons[getBufferPortConnection(i, NumChannels[x] - 1)].port
            = PortOf(x, NumChannels[x] - 1)
      BY <2>3, <3>2, <1>a DEF RowPorts
    <3>4. jack => PortOf(x, NumChannels[x] - 1) # None
      <4>1. NumChannels[x] - 1 \in Nat
        BY <3>1, ConstantsAssumption
      <4>2. <<x, NumChannels[x] - 1>> \in Buffers \X Nat
        BY <3>1, <4>1
      <4> QED BY <4>2, ConstantsAssumption DEF PortOf
    <3> QED BY <2>3, <3>3, <3>4 DEF Served
  <2>4. Served(x) \/ Holds(pool, x)
    BY <2>2, <2>3 DEF Registered, Holds
  <2>5. age'[x] = age[x] + 1
    BY <2>1, <2>4, <1>a
  <2> QED BY <2>1, <2>2, <2>5, <1>a, <1>b
<1>6. CASE UNCHANGED <<age, joined, blocks, buffers, pool>>
  BY <1>6, <1>b DEF Registered, Holds
<1>7. ASSUME NEW r \in Requests, Client(r)
      PROVE  UNCHANGED <<age, joined, blocks, buffers, pool>>
  BY <1>7, ClientStep DEF audioVars, addVars
<1>8. ASSUME NEW a, RunAddSignalThrows(a) \/ RunRemoveThrows(a)
      PROVE  UNCHANGED <<age, joined, blocks, buffers, pool>>
  BY <1>8 DEF RunAddSignalThrows, RunRemoveThrows, Run, addVars
<1>9. CASE UNCHANGED vars
  BY <1>9, <1>6 DEF vars, audioVars, addVars
<1> QED BY <1>2, <1>3, <1>4, <1>5, <1>6, <1>7, <1>8, <1>9 DEF Next, Audio

-----------------------------------------------------------------------------
(* Lists of actions *)

\* What an action at the end of a list adds to it.
LEMMA AppendFacts ==
    ASSUME NEW q \in Seq(Kinds), NEW a \in Kinds
    PROVE  /\ \A b : (a.op # "addSignal" \/ a.obj # b) => Wants(Append(q, a), b) = Wants(q, b)
           /\ \A b : (a.op = "addSignal" /\ a.obj = b) =>
                         Wants(Append(q, a), b) = Wants(q, b) \cup {Len(q) + 1}
           /\ OnlyRemoves(q) /\ a.op \in Removals => OnlyRemoves(Append(q, a))
           /\ \A x : Removes(q, x) => Removes(Append(q, a), x)
           /\ a.op \in Removals => Removes(Append(q, a), a.obj)
<1> DEFINE p == Append(q, a)
           n == Len(q)
<1>1. /\ n \in Nat /\ DOMAIN q = 1..n /\ DOMAIN p = 1..n + 1
      /\ p[n + 1] = a /\ \A i \in 1..n : p[i] = q[i]
  OBVIOUS
<1> HIDE DEF p, n
<1>2. DOMAIN p = DOMAIN q \cup {n + 1} /\ n + 1 \notin DOMAIN q
  BY <1>1
<1>3. \A i \in DOMAIN q : p[i] = q[i]
  BY <1>1
<1>4. p[n + 1] = a
  BY <1>1
<1> QED BY <1>2, <1>3, <1>4 DEF Wants, OnlyRemoves, Removes, p, n

\* What is left of a list when its first action has been popped.
LEMMA TailFacts ==
    ASSUME NEW q \in Seq(Kinds), q # <<>>
    PROVE  LET a == Head(q)
               t == Tail(q)
               Added(b) == a.op = "addSignal" /\ a.obj = b
           IN  /\ \A b : Wants(t, b) # {} => Wants(q, b) # {}
               /\ \A b : Wants(q, b) # {} => Wants(t, b) # {} \/ Added(b)
               /\ \A b : Added(b) => Wants(q, b) # {}
               /\ \A b : AtMostOne(Wants(q, b)) =>
                             AtMostOne(Wants(t, b)) /\ (Added(b) => Wants(t, b) = {})
               /\ OnlyRemoves(q) => OnlyRemoves(t) /\ a.op \in Removals
               /\ \A x : Removes(q, x) =>
                             Removes(t, x) \/ (a.op \in Removals /\ a.obj = x)
               /\ \A i \in DOMAIN t : \E j \in DOMAIN q : t[i] = q[j]
               /\ 1 \in DOMAIN q /\ q[1] = a
<1> DEFINE a == Head(q)
           t == Tail(q)
           n == Len(q)
<1>1. /\ n \in Nat \ {0} /\ DOMAIN q = 1..n /\ DOMAIN t = 1..n - 1
      /\ a = q[1] /\ \A i \in 1..n - 1 : t[i] = q[i + 1]
  OBVIOUS
<1> HIDE DEF a, t, n
<1>2. \A i \in DOMAIN t : i + 1 \in DOMAIN q /\ i + 1 # 1 /\ t[i] = q[i + 1] /\ i \in Int
  BY <1>1
<1>3. \A j \in DOMAIN q : j = 1 \/ (j - 1 \in DOMAIN t /\ t[j - 1] = q[j] /\ j \in Int)
  BY <1>1
<1>4. 1 \in DOMAIN q /\ q[1] = a
  BY <1>1
<1>5. \A b : \A i \in Wants(t, b) : i + 1 \in Wants(q, b) /\ i + 1 # 1 /\ i \in Int
  BY <1>2 DEF Wants
<1>6. \A b : \A j \in Wants(q, b) : j = 1 \/ j - 1 \in Wants(t, b)
  BY <1>3 DEF Wants
<1>7. \A b : a.op = "addSignal" /\ a.obj = b <=> 1 \in Wants(q, b)
  BY <1>4 DEF Wants
<1>8. ASSUME NEW b, AtMostOne(Wants(q, b))
      PROVE  AtMostOne(Wants(t, b)) /\ (1 \in Wants(q, b) => Wants(t, b) = {})
  <2>1. \A i, j \in Wants(t, b) : i = j
    <3>1. SUFFICES ASSUME NEW i \in Wants(t, b), NEW j \in Wants(t, b) PROVE i = j
      OBVIOUS
    <3>2. i + 1 = j + 1 /\ i \in Int /\ j \in Int
      BY <1>5, <1>8 DEF AtMostOne
    <3> QED BY <3>2
  <2>2. 1 \in Wants(q, b) => Wants(t, b) = {}
    BY <1>5, <1>8 DEF AtMostOne
  <2> QED BY <2>1, <2>2 DEF AtMostOne
<1>9. OnlyRemoves(q) => OnlyRemoves(t) /\ a.op \in Removals
  BY <1>2, <1>4 DEF OnlyRemoves
<1>10. \A x : Removes(q, x) => Removes(t, x) \/ (a.op \in Removals /\ a.obj = x)
  BY <1>3, <1>4 DEF Removes
<1>11. \A b : Wants(t, b) # {} => Wants(q, b) # {}
  BY <1>5
<1>12. \A b : Wants(q, b) # {} => Wants(t, b) # {} \/ 1 \in Wants(q, b)
  BY <1>6
<1>13. \A i \in DOMAIN t : \E j \in DOMAIN q : t[i] = q[j]
  BY <1>2
<1>14. \A b : AtMostOne(Wants(q, b)) =>
                  /\ AtMostOne(Wants(t, b))
                  /\ a.op = "addSignal" /\ a.obj = b => Wants(t, b) = {}
  BY <1>7, <1>8
<1>15. \A b : a.op = "addSignal" /\ a.obj = b => Wants(q, b) # {}
  BY <1>7
<1>16. \A b : Wants(q, b) # {} => Wants(t, b) # {} \/ (a.op = "addSignal" /\ a.obj = b)
  BY <1>7, <1>12
<1> QED BY <1>4, <1>9, <1>10, <1>11, <1>13, <1>14, <1>15, <1>16 DEF a, t

\* A buffer is pending when some list wants it.
LEMMA PendingWants ==
    ASSUME NEW b
    PROVE  Pending(b) <=> Wants(queue, b) # {} \/ \E r \in Requests : Wants(acts[r], b) # {}
BY DEF Pending, Wants

-----------------------------------------------------------------------------
(* What clients do to ports and lists *)

\* A client adds a buffer whose ports it could make.
AddsBuffer(r, b) ==
    /\ jack => PortsOf(b) \cap live = {} /\ live' = live \cup PortsOf(b)
    /\ queue' = queue /\ mishaps' = mishaps
    /\ Wants(acts'[r], b) = Wants(acts[r], b) \cup {Len(acts[r]) + 1}
    /\ \A d \in Buffers : d # b => Wants(acts'[r], d) = Wants(acts[r], d)
    /\ \A s \in Requests : s # r => acts'[s] = acts[s]

\* It adds something else, or nothing.
AddsNoBuffer ==
    /\ queue' = queue
    /\ \A s \in Requests : \A b \in Buffers : Wants(acts'[s], b) = Wants(acts[s], b)
    /\ live \subseteq live'

\* It hands over what a request is to do, or to undo.
HandsOver(r) ==
    /\ queue = <<>> /\ live' = live
    /\ \A b \in Buffers : Wants(queue', b) = Wants(acts[r], b) /\ Wants(acts'[r], b) = {}
    /\ \A s \in Requests : s # r => acts'[s] = acts[s]

HandsBack ==
    /\ queue = <<>> /\ live' = live /\ acts' = acts
    /\ \A b \in Buffers : Wants(queue', b) = {}

\* Every call of a client is one of these.
LEMMA ClientCases ==
    ASSUME Typed, Undoable, NEW r \in Requests, Client(r)
    PROVE  /\ UNCHANGED <<jack, buffers, pool, cons, owner>>
           /\ mishaps \subseteq mishaps'
           /\ \/ \E b \in Buffers : AddsBuffer(r, b)
              \/ AddsNoBuffer
              \/ HandsOver(r)
              \/ HandsBack
<1>1. UNCHANGED <<jack, buffers, pool, cons, owner>>
  BY ClientStep DEF audioVars, addVars
<1>2. /\ acts \in [Requests -> Seq(Kinds)] /\ undos \in [Requests -> Seq(Kinds)]
  BY DEF Typed
<1>3. ASSUME NEW x \in Objects, NEW out \in BOOLEAN,
             NEW op \in {"addSignal", "addObserver", "removeSignal", "removeObserver"},
             op \in {"addSignal", "removeSignal"} <=> x \in Buffers
      PROVE  Act(op, x, r, out) \in Kinds
  BY <1>3 DEF Act, Kinds, Actions
<1>4. /\ \A b \in Buffers : b \in Objects /\ b \notin Observers
      /\ \A o \in Observers : o \in Objects /\ o \notin Buffers
  BY ConstantsAssumption DEF Objects
<1>5. ASSUME NEW a \in Kinds, Later(r, a)
      PROVE  /\ acts'[r] = Append(acts[r], a)
             /\ \A s \in Requests : s # r => acts'[s] = acts[s]
  BY <1>2, <1>5 DEF Later
<1>6. ASSUME NEW a \in Kinds, Later(r, a), a.op # "addSignal"
      PROVE  \A s \in Requests : \A b \in Buffers : Wants(acts'[s], b) = Wants(acts[s], b)
  <2>1. acts[r] \in Seq(Kinds)
    BY <1>2
  <2>2. \A b : Wants(Append(acts[r], a), b) = Wants(acts[r], b)
    BY <1>6, <2>1, AppendFacts
  <2> QED BY <1>5, <1>6, <2>2
<1>7. ASSUME NEW b \in Buffers, AddBuffer(r, b)
      PROVE  AddsBuffer(r, b) /\ mishaps \subseteq mishaps'
  <2>1. PICK out \in BOOLEAN : Later(r, Act("addSignal", b, r, out))
    BY <1>7 DEF AddBuffer
  <2> DEFINE a == Act("addSignal", b, r, out)
  <2>2. a \in Kinds /\ a.op = "addSignal" /\ a.obj = b /\ acts[r] \in Seq(Kinds)
    BY <1>2, <1>3, <1>4 DEF Act
  <2> HIDE DEF a
  <2>3. /\ Wants(Append(acts[r], a), b) = Wants(acts[r], b) \cup {Len(acts[r]) + 1}
        /\ \A d : d # b => Wants(Append(acts[r], a), d) = Wants(acts[r], d)
    BY <2>2, AppendFacts
  <2>4. acts'[r] = Append(acts[r], a) /\ \A s \in Requests : s # r => acts'[s] = acts[s]
    BY <1>5, <2>1, <2>2 DEF a
  <2> QED BY <1>7, <2>3, <2>4 DEF AddBuffer, AddsBuffer
<1>8. ASSUME NEW b \in Buffers, AddBufferThrows(r, b)
      PROVE  AddsNoBuffer /\ mishaps \subseteq mishaps'
  BY <1>8 DEF AddBufferThrows, AddsNoBuffer
<1>9. ASSUME NEW o \in Observers, AddObserver(r, o)
      PROVE  AddsNoBuffer /\ mishaps \subseteq mishaps'
  <2> DEFINE a == Act("addObserver", o, r, FALSE)
  <2>1. a \in Kinds /\ a.op # "addSignal"
    BY <1>3, <1>4 DEF Act
  <2>2. Later(r, a) /\ queue' = queue /\ live' = live /\ mishaps \subseteq mishaps'
    BY <1>9 DEF AddObserver, Use
  <2> HIDE DEF a
  <2> QED BY <1>6, <2>1, <2>2 DEF AddsNoBuffer
<1>10. ASSUME NEW x \in Objects, Remove(r, x)
       PROVE  AddsNoBuffer /\ mishaps \subseteq mishaps'
  <2> DEFINE a == Act(IF x \in Buffers THEN "removeSignal" ELSE "removeObserver", x, r, FALSE)
  <2>1. a \in Kinds /\ a.op # "addSignal"
    BY <1>3, <1>4 DEF Act
  <2>2. Later(r, a) /\ queue' = queue /\ live' = live /\ mishaps \subseteq mishaps'
    BY <1>10 DEF Remove
  <2> HIDE DEF a
  <2> QED BY <1>6, <2>1, <2>2 DEF AddsNoBuffer
<1>11. \A b : Wants(<<>>, b) = {}
  BY DEF Wants
<1>12. ASSUME Execute(r)
       PROVE  HandsOver(r) /\ mishaps \subseteq mishaps'
  <2>1. /\ queue = <<>> /\ live' = live /\ queue' = acts[r] /\ mishaps' = mishaps
        /\ acts' = [acts EXCEPT ![r] = <<>>]
    BY <1>12 DEF Execute
  <2>2. acts'[r] = <<>> /\ \A s \in Requests : s # r => acts'[s] = acts[s]
    BY <1>2, <2>1
  <2> QED BY <1>11, <2>1, <2>2, Zenon DEF HandsOver
<1>13. ASSUME NEW o \in Observers, ExecuteAndObserve(r, o)
       PROVE  HandsOver(r) /\ mishaps \subseteq mishaps'
  <2> DEFINE a == Act("addObserver", o, r, FALSE)
  <2>1. a \in Kinds /\ a.op # "addSignal" /\ acts[r] \in Seq(Kinds)
    BY <1>2, <1>3, <1>4 DEF Act
  <2>2. /\ queue = <<>> /\ live' = live /\ queue' = Append(acts[r], a)
        /\ mishaps \subseteq mishaps' /\ acts' = [acts EXCEPT ![r] = <<>>]
    BY <1>13 DEF ExecuteAndObserve, Use
  <2> HIDE DEF a
  <2>3. \A b : Wants(Append(acts[r], a), b) = Wants(acts[r], b)
    BY <2>1, AppendFacts
  <2>4. acts'[r] = <<>> /\ \A s \in Requests : s # r => acts'[s] = acts[s]
    BY <1>2, <2>2
  <2> QED BY <1>11, <2>2, <2>3, <2>4, Zenon DEF HandsOver
<1>14. ASSUME Undo(r)
       PROVE  HandsBack /\ mishaps \subseteq mishaps'
  <2>1. /\ queue = <<>> /\ live' = live /\ queue' = undos[r] /\ mishaps \subseteq mishaps'
        /\ acts' = acts
    BY <1>14, Zenon DEF Undo
  <2>2. \A b : Wants(undos[r], b) = {}
    BY DEF Undoable, OnlyRemoves, Removals, Wants
  <2> QED BY <2>1, <2>2 DEF HandsBack
<1>15. CASE \E b \in Buffers : AddBuffer(r, b) \/ AddBufferThrows(r, b) \/ Remove(r, b)
  BY <1>1, <1>4, <1>7, <1>8, <1>10, <1>15
<1>16. CASE \E o \in Observers : AddObserver(r, o) \/ Remove(r, o) \/ ExecuteAndObserve(r, o)
  BY <1>1, <1>4, <1>9, <1>10, <1>13, <1>16
<1> QED BY <1>1, <1>12, <1>14, <1>15, <1>16 DEF Client

-----------------------------------------------------------------------------
(* What the audio thread does to rows *)

\* An action has been popped.
Pops(a) ==
    /\ queue # <<>> /\ a = Head(queue) /\ queue' = Tail(queue)
    /\ UNCHANGED <<jack, acts, undos>>

\* A buffer got slot i and its row.
RowAdded(a, i) ==
    /\ a.op = "addSignal" /\ a.obj \in Buffers
    /\ buffers'[i] = a.obj
    /\ \A j \in Slots : j # i => buffers'[j] = buffers[j]
    /\ \A c \in Chans(a.obj) :
          cons'[getBufferPortConnection(i, c)]
              = [port |-> PortOf(a.obj, c), isOutput |-> a.isOutput]
    /\ \A j \in Slots : \A c \in 0..MaxChannels - 1 : (j # i \/ c \notin Chans(a.obj)) =>
          cons'[getBufferPortConnection(j, c)] = cons[getBufferPortConnection(j, c)]
    /\ mishaps \subseteq mishaps'
    /\ "evicted" \notin mishaps' => buffers[i] = None
    /\ owner' = [owner EXCEPT ![a.obj] = a.req]
    /\ UNCHANGED <<pool, live>>

\* A buffer left slot i, and nobody destroys its ports.
RowCleared(a, i) ==
    /\ a.op = "removeSignal" /\ a.obj \in Buffers
    /\ buffers'[i] = None
    /\ \A j \in Slots : buffers[j] = a.obj <=> j = i
    /\ \A j \in Slots : j # i => buffers'[j] = buffers[j]
    /\ \A c \in Chans(a.obj) : cons'[getBufferPortConnection(i, c)] = NoConnection
    /\ \A j \in Slots : \A c \in 0..MaxChannels - 1 : (j # i \/ c \notin Chans(a.obj)) =>
          cons'[getBufferPortConnection(j, c)] = cons[getBufferPortConnection(j, c)]
    /\ owner' = [owner EXCEPT ![a.obj] = None]
    /\ UNCHANGED <<pool, live, mishaps>>

\* All rows stay: the buffer is there already, the action is about an observer,
\* or what it is about is not there.
RowsKept(a) ==
    /\ a.op = "addSignal" => Holds(buffers, a.obj)
    /\ mishaps \subseteq mishaps'
    /\ UNCHANGED <<buffers, cons, live>>

Idle == UNCHANGED <<jack, buffers, pool, cons, live, acts, undos, queue, owner, mishaps>>

\* The cells of a row are those of its channels, and other cells are in other
\* rows or behind them.
LEMMA RowCells ==
    ASSUME NEW i \in Slots, NEW b \in Buffers
    PROVE  /\ \A c \in Chans(b) :
                  LET cell == getBufferPortConnection(i, c)
                  IN  cell \in AllCells /\ cell \in Row(i, b) /\ ChannelAt(i, b, cell) = c
           /\ \A j \in Slots : \A c \in 0..MaxChannels - 1 : (j # i \/ c \notin Chans(b)) =>
                  /\ getBufferPortConnection(j, c) \in AllCells
                  /\ getBufferPortConnection(j, c) \notin Row(i, b)
<1>1. Chans(b) \subseteq 0..MaxChannels - 1
  BY RowFits
<1>2. ASSUME NEW c \in Chans(b)
      PROVE  LET cell == getBufferPortConnection(i, c)
             IN  cell \in AllCells /\ cell \in Row(i, b) /\ ChannelAt(i, b, cell) = c
  <2>1. getBufferPortConnection(i, c) \in AllCells /\ getBufferPortConnection(i, c) \in Row(i, b)
    BY <1>1, RowsApart DEF Row
  <2>2. \A d \in Chans(b) :
            getBufferPortConnection(i, d) = getBufferPortConnection(i, c) => d = c
    BY <1>1, RowsApart
  <2>3. ChannelAt(i, b, getBufferPortConnection(i, c)) = c
    BY <2>2 DEF ChannelAt
  <2> QED BY <2>1, <2>3
<1>3. ASSUME NEW j \in Slots, NEW c \in 0..MaxChannels - 1, j # i \/ c \notin Chans(b)
      PROVE  /\ getBufferPortConnection(j, c) \in AllCells
             /\ getBufferPortConnection(j, c) \notin Row(i, b)
  BY <1>1, <1>3, RowsApart DEF Row
<1> QED BY <1>2, <1>3

\* addSignal() writes one row.
LEMMA AddedRow ==
    ASSUME Typed, NEW a, RunAddSignal(a)
    PROVE  Pops(a) /\ \E i \in Slots : RowAdded(a, i)
<1> DEFINE i == AddIndex(buffers, a.obj)
<1>1. /\ i \in Slots /\ a.obj \in Buffers /\ a.op = "addSignal"
      /\ buffers \in [Slots -> Buffers \cup {None}]
  BY AddIndexSlot, Popped DEF RunAddSignal, Typed
<1>2. /\ buffers' = [buffers EXCEPT ![i] = a.obj]
      /\ cons' = [k \in AllCells |->
                     IF k \in Row(i, a.obj)
                     THEN [port |-> PortOf(a.obj, ChannelAt(i, a.obj, k)),
                           isOutput |-> a.isOutput]
                     ELSE cons[k]]
      /\ mishaps' = mishaps \cup Eviction(buffers, i) \cup Overrun(i, a.obj)
      /\ owner' = [owner EXCEPT ![a.obj] = a.req]
      /\ UNCHANGED <<pool, live>>
  BY DEF RunAddSignal, Joins
<1>3. Pops(a)
  BY DEF RunAddSignal, Run, Pops, clientVars
<1> HIDE DEF i
<1>4. buffers'[i] = a.obj /\ \A j \in Slots : j # i => buffers'[j] = buffers[j]
  BY <1>1, <1>2
<1>5. \A c \in Chans(a.obj) :
          cons'[getBufferPortConnection(i, c)]
              = [port |-> PortOf(a.obj, c), isOutput |-> a.isOutput]
  BY <1>1, <1>2, RowCells
<1>6. \A j \in Slots : \A c \in 0..MaxChannels - 1 : (j # i \/ c \notin Chans(a.obj)) =>
          cons'[getBufferPortConnection(j, c)] = cons[getBufferPortConnection(j, c)]
  BY <1>1, <1>2, RowCells
<1>7. /\ mishaps \subseteq mishaps'
      /\ "evicted" \notin mishaps' => buffers[i] = None
  BY <1>2 DEF Eviction
<1>8. RowAdded(a, i)
  BY <1>1, <1>2, <1>4, <1>5, <1>6, <1>7 DEF RowAdded
<1> QED BY <1>1, <1>3, <1>8

\* removeSignal() clears one row.
LEMMA ClearedRow ==
    ASSUME Typed, SlotsUnique, RowPorts, NEW a, RunRemoveSignal(a)
    PROVE  Pops(a) /\ \E i \in Slots : RowCleared(a, i)
<1> DEFINE i == IndexOf(buffers, a.obj)
           b == a.obj
<1>1. /\ b \in Buffers /\ b # None /\ a.op = "removeSignal"
      /\ buffers \in [Slots -> Buffers \cup {None}]
  BY Popped DEF RunRemoveSignal, Typed
<1>2. \A j, k \in Slots : buffers[j] = b /\ buffers[k] = b => j = k
  BY <1>1 DEF SlotsUnique
<1>3. i \in Slots /\ buffers[i] = b
  BY <1>2, IndexOfSlot DEF RunRemoveSignal
<1>4. /\ buffers' = [buffers EXCEPT ![i] = None]
      /\ cons' = [k \in AllCells |-> IF k \in Row(i, b) THEN NoConnection ELSE cons[k]]
      /\ owner' = [owner EXCEPT ![b] = None]
      /\ UNCHANGED <<pool, live, mishaps>>
  BY DEF RunRemoveSignal
<1>5. Pops(a)
  BY DEF RunRemoveSignal, Run, Pops, clientVars
<1> HIDE DEF i
<1>6. buffers'[i] = None /\ \A j \in Slots : j # i => buffers'[j] = buffers[j]
  BY <1>1, <1>3, <1>4
<1>7. \A c \in Chans(b) : cons'[getBufferPortConnection(i, c)] = NoConnection
  BY <1>1, <1>3, <1>4, RowCells
<1>8. \A j \in Slots : \A c \in 0..MaxChannels - 1 : (j # i \/ c \notin Chans(b)) =>
          cons'[getBufferPortConnection(j, c)] = cons[getBufferPortConnection(j, c)]
  BY <1>1, <1>3, <1>4, RowCells
<1>9. \A j \in Slots : buffers[j] = b <=> j = i
  BY <1>2, <1>3
<1>10. RowCleared(a, i)
  BY <1>1, <1>4, <1>6, <1>7, <1>8, <1>9 DEF RowCleared
<1> QED BY <1>3, <1>5, <1>10

\* The six actions of the audio thread do no more than that to rows and ports.
LEMMA AudioCases ==
    ASSUME Typed, SlotsUnique, RowPorts, NEW a,
           \/ RunAddSignal(a) \/ RunAddSignalThrows(a) \/ RunAddObserver(a)
           \/ RunRemoveSignal(a) \/ RunRemoveObserver(a) \/ RunRemoveThrows(a)
    PROVE  /\ Pops(a)
           /\ \/ \E i \in Slots : RowAdded(a, i)
              \/ \E i \in Slots : RowCleared(a, i)
              \/ RowsKept(a)
<1>1. CASE RunAddSignal(a)
  BY <1>1, AddedRow
<1>2. CASE RunRemoveSignal(a)
  BY <1>2, ClearedRow
<1>3. CASE RunAddSignalThrows(a)
  <2>1. Holds(buffers, a.obj)
    BY <1>3, AddIndexFails DEF RunAddSignalThrows
  <2>2. UNCHANGED <<buffers, cons, live>> /\ mishaps \subseteq mishaps' /\ Pops(a)
    BY <1>3 DEF RunAddSignalThrows, Run, Pops, clientVars
  <2> QED BY <2>1, <2>2 DEF RowsKept
<1>4. CASE RunAddObserver(a)
  <2>1. a.op # "addSignal" /\ UNCHANGED <<buffers, cons, live>> /\ Pops(a)
    BY <1>4 DEF RunAddObserver, Run, Pops, clientVars
  <2>2. mishaps \subseteq mishaps'
    BY <1>4 DEF RunAddObserver
  <2> QED BY <2>1, <2>2 DEF RowsKept
<1>5. CASE RunRemoveObserver(a) \/ RunRemoveThrows(a)
  <2>1. a.op # "addSignal" /\ UNCHANGED <<buffers, cons, live, mishaps>> /\ Pops(a)
    BY <1>5 DEF RunRemoveObserver, RunRemoveThrows, Run, Pops, clientVars
  <2> QED BY <2>1 DEF RowsKept
<1> QED BY <1>1, <1>2, <1>3, <1>4, <1>5

\* A step is one of a client, one of these, or no concern of rows and ports.
LEMMA StepCases ==
    ASSUME Typed, SlotsUnique, RowPorts, [Next]_vars
    PROVE  \/ \E r \in Requests : Client(r)
           \/ \E a : /\ Pops(a)
                    /\ \/ \E i \in Slots : RowAdded(a, i)
                       \/ \E i \in Slots : RowCleared(a, i)
                       \/ RowsKept(a)
           \/ Idle
<1>1. CASE UNCHANGED vars
  BY <1>1 DEF vars, clientVars, audioVars, addVars, Idle
<1>2. CASE Block
  BY <1>2 DEF Block, clientVars, Idle
<1> QED BY <1>1, <1>2, AudioCases DEF Next, Audio

-----------------------------------------------------------------------------
(* The invariant: directions, free rows, and ports *)

\* Whoever writes to a row writes one direction to all of its channels.
LEMMA DirectionsStep ==
    Typed /\ SlotsUnique /\ RowPorts /\ Undoable /\ Directions /\ [Next]_vars => Directions'
<1> SUFFICES ASSUME Typed, SlotsUnique, RowPorts, Undoable, Directions, [Next]_vars,
                    NEW j \in Slots, buffers'[j] # None, NEW c \in Chans(buffers'[j])
             PROVE  cons'[getBufferPortConnection(j, c)].isOutput
                        = cons'[getBufferPortConnection(j, 0)].isOutput
  BY DEF Directions, Chans, getBufferPortConnection, ConnectionAt, Slots
<1>a. buffers' \in [Slots -> Buffers \cup {None}]
  <2>1. Typed'
    BY TypedStep
  <2> QED BY <2>1 DEF Typed
<1>b. 0 \in Chans(buffers'[j]) /\ Chans(buffers'[j]) \subseteq 0..MaxChannels - 1
  <2>1. buffers'[j] \in Buffers
    BY <1>a
  <2>2. NumChannels[buffers'[j]] \in 1..MaxChannels /\ MaxChannels \in Nat
    BY <2>1, ConstantsAssumption
  <2> QED BY <2>2 DEF Chans
<1>c. ASSUME buffers'[j] = buffers[j],
             \A d \in Chans(buffers'[j]) :
                cons'[getBufferPortConnection(j, d)] = cons[getBufferPortConnection(j, d)]
      PROVE  cons'[getBufferPortConnection(j, c)].isOutput
                 = cons'[getBufferPortConnection(j, 0)].isOutput
  BY <1>c, <1>b DEF Directions
<1>1. ASSUME NEW a, NEW i \in Slots, RowAdded(a, i)
      PROVE  cons'[getBufferPortConnection(j, c)].isOutput
                 = cons'[getBufferPortConnection(j, 0)].isOutput
  <2>1. CASE i = j
    <3>1. buffers'[j] = a.obj
      BY <1>1, <2>1 DEF RowAdded
    <3>2. c \in Chans(a.obj) /\ 0 \in Chans(a.obj)
      BY <1>b, <3>1
    <3>3. \A d \in Chans(a.obj) :
              cons'[getBufferPortConnection(j, d)]
                  = [port |-> PortOf(a.obj, d), isOutput |-> a.isOutput]
      BY <1>1, <2>1 DEF RowAdded
    <3>4. ASSUME NEW d \in Chans(a.obj)
          PROVE  cons'[getBufferPortConnection(j, d)].isOutput = a.isOutput
      <4> DEFINE con == cons'[getBufferPortConnection(j, d)]
      <4>1. con = [port |-> PortOf(a.obj, d), isOutput |-> a.isOutput]
        BY <3>3
      <4> HIDE DEF con
      <4>2. con.isOutput = a.isOutput
        BY <4>1
      <4> QED BY <4>2 DEF con
    <3> QED BY <3>2, <3>4, Zenon
  <2>2. CASE i # j
    BY <1>1, <1>b, <1>c, <2>2 DEF RowAdded
  <2> QED BY <2>1, <2>2
<1>2. ASSUME NEW a, NEW i \in Slots, RowCleared(a, i)
      PROVE  cons'[getBufferPortConnection(j, c)].isOutput
                 = cons'[getBufferPortConnection(j, 0)].isOutput
  <2>1. i # j
    BY <1>2 DEF RowCleared
  <2> QED BY <1>2, <1>b, <1>c, <2>1 DEF RowCleared
<1>3. ASSUME UNCHANGED <<buffers, cons>>
      PROVE  cons'[getBufferPortConnection(j, c)].isOutput
                 = cons'[getBufferPortConnection(j, 0)].isOutput
  BY <1>3, <1>c
<1>4. ASSUME NEW r \in Requests, Client(r)
      PROVE  UNCHANGED <<buffers, cons>>
  BY <1>4, ClientCases
<1> QED BY <1>1, <1>2, <1>3, <1>4, StepCases DEF RowsKept, Idle

\* What removeSignal() leaves behind is an empty row.
LEMMA FreeCellsStep ==
    Typed /\ SlotsUnique /\ RowPorts /\ Undoable /\ FreeCells /\ [Next]_vars => FreeCells'
<1> SUFFICES ASSUME Typed, SlotsUnique, RowPorts, Undoable, FreeCells, [Next]_vars,
                    "evicted" \notin mishaps',
                    NEW j \in Slots, NEW c \in 0..MaxChannels - 1,
                    buffers'[j] = None \/ c \notin Chans(buffers'[j])
             PROVE  cons'[getBufferPortConnection(j, c)].port = None
  BY DEF FreeCells, Chans, getBufferPortConnection, ConnectionAt, Slots
<1>a. ASSUME mishaps \subseteq mishaps', buffers[j] = None \/ c \notin Chans(buffers[j]),
             cons'[getBufferPortConnection(j, c)] = cons[getBufferPortConnection(j, c)]
      PROVE  cons'[getBufferPortConnection(j, c)].port = None
  BY <1>a DEF FreeCells
<1>1. ASSUME NEW a, NEW i \in Slots, RowAdded(a, i)
      PROVE  cons'[getBufferPortConnection(j, c)].port = None
  <2>1. CASE i = j
    <3>1. a.obj # None
      BY <1>1, ConstantsAssumption DEF RowAdded
    <3> QED BY <1>1, <1>a, <2>1, <3>1 DEF RowAdded
  <2>2. CASE i # j
    BY <1>1, <1>a, <2>2 DEF RowAdded
  <2> QED BY <2>1, <2>2
<1>2. ASSUME NEW a, NEW i \in Slots, RowCleared(a, i)
      PROVE  cons'[getBufferPortConnection(j, c)].port = None
  <2>1. CASE i = j /\ c \in Chans(a.obj)
    BY <1>2, <2>1 DEF RowCleared, NoConnection
  <2>2. CASE i = j /\ c \notin Chans(a.obj)
    BY <1>2, <1>a, <2>2 DEF RowCleared
  <2>3. CASE i # j
    BY <1>2, <1>a, <2>3 DEF RowCleared
  <2> QED BY <2>1, <2>2, <2>3
<1>3. ASSUME UNCHANGED <<buffers, cons>>, mishaps \subseteq mishaps'
      PROVE  cons'[getBufferPortConnection(j, c)].port = None
  BY <1>3, <1>a
<1>4. ASSUME NEW r \in Requests, Client(r)
      PROVE  UNCHANGED <<buffers, cons>> /\ mishaps \subseteq mishaps'
  BY <1>4, ClientCases
<1> QED BY <1>1, <1>2, <1>3, <1>4, StepCases DEF RowsKept, Idle

\* A list that an action is popped from wants no more than before.
LEMMA PoppedWants ==
    ASSUME Typed, NEW a, Pops(a), NEW b \in Buffers
    PROVE  /\ Wants(queue', b) # {} => Wants(queue, b) # {}
           /\ Wants(queue, b) # {} =>
                 Wants(queue', b) # {} \/ (a.op = "addSignal" /\ a.obj = b)
           /\ a.op = "addSignal" /\ a.obj = b => Wants(queue, b) # {}
           /\ AtMostOne(Wants(queue, b)) =>
                 /\ AtMostOne(Wants(queue', b))
                 /\ a.op = "addSignal" /\ a.obj = b => Wants(queue', b) = {}
           /\ acts' = acts
           /\ Pending(b) <=>
                 Wants(queue, b) # {} \/ \E r \in Requests : Wants(acts[r], b) # {}
           /\ Pending(b)' <=>
                 Wants(queue', b) # {} \/ \E r \in Requests : Wants(acts[r], b) # {}
<1>1. queue \in Seq(Kinds) /\ queue # <<>> /\ a = Head(queue) /\ queue' = Tail(queue)
      /\ acts' = acts
  BY DEF Typed, Pops
<1>2. /\ Wants(Tail(queue), b) # {} => Wants(queue, b) # {}
      /\ Wants(queue, b) # {} =>
            Wants(Tail(queue), b) # {} \/ (Head(queue).op = "addSignal" /\ Head(queue).obj = b)
      /\ Head(queue).op = "addSignal" /\ Head(queue).obj = b => Wants(queue, b) # {}
      /\ AtMostOne(Wants(queue, b)) =>
            /\ AtMostOne(Wants(Tail(queue), b))
            /\ Head(queue).op = "addSignal" /\ Head(queue).obj = b => Wants(Tail(queue), b) = {}
  BY <1>1, TailFacts
<1>3. Pending(b) <=>
          Wants(queue, b) # {} \/ \E r \in Requests : Wants(acts[r], b) # {}
  BY PendingWants
<1>4. Pending(b)' <=>
          Wants(queue', b) # {} \/ \E r \in Requests : Wants(acts[r], b) # {}
  BY <1>1 DEF Pending, Wants
<1> QED BY <1>1, <1>2, <1>3, <1>4

\* Ports are made for one use of a buffer: they exist for good and no other
\* addBuffer() gets that far, so that the buffer is either in one list of
\* actions, once, or in a slot.
LEMMA PortsOnceStep ==
    Typed /\ SlotsUnique /\ RowPorts /\ Undoable /\ PortsOnce /\ [Next]_vars => PortsOnce'
<1> SUFFICES ASSUME Typed, SlotsUnique, RowPorts, Undoable, PortsOnce, [Next]_vars, jack',
                    NEW b \in Buffers
             PROVE  /\ Pending(b)' \/ Holds(buffers', b) => PortsOf(b) \subseteq live'
                    /\ Pending(b)' => ~Holds(buffers', b)
                    /\ AtMostOne(Wants(queue', b))
                    /\ \A r \in Requests :
                          /\ AtMostOne(Wants(acts'[r], b))
                          /\ Wants(acts'[r], b) # {} =>
                                /\ Wants(queue', b) = {}
                                /\ \A s \in Requests : Wants(acts'[s], b) # {} => r = s
  BY DEF PortsOnce, PortsOf, Chans, Holds, Slots, Wants, AtMostOne
<1> DEFINE Goal ==
        /\ Pending(b)' \/ Holds(buffers', b) => PortsOf(b) \subseteq live'
        /\ Pending(b)' => ~Holds(buffers', b)
        /\ AtMostOne(Wants(queue', b))
        /\ \A r \in Requests :
              /\ AtMostOne(Wants(acts'[r], b))
              /\ Wants(acts'[r], b) # {} =>
                    /\ Wants(queue', b) = {}
                    /\ \A s \in Requests : Wants(acts'[s], b) # {} => r = s
<1>a. jack
  BY StepCases, ClientCases DEF Pops, Idle
<1>b. /\ Pending(b) \/ Holds(buffers, b) => PortsOf(b) \subseteq live
      /\ Pending(b) => ~Holds(buffers, b)
      /\ AtMostOne(Wants(queue, b))
      /\ \A r \in Requests :
            /\ AtMostOne(Wants(acts[r], b))
            /\ Wants(acts[r], b) # {} =>
                  /\ Wants(queue, b) = {}
                  /\ \A s \in Requests : Wants(acts[s], b) # {} => r = s
  BY <1>a DEF PortsOnce
<1>c. Pending(b) <=> Wants(queue, b) # {} \/ \E r \in Requests : Wants(acts[r], b) # {}
  BY PendingWants
<1>d. Pending(b)' <=> Wants(queue', b) # {} \/ \E r \in Requests : Wants(acts'[r], b) # {}
  BY DEF Pending, Wants
<1>e. PortsOf(b) # {}
  BY RowFits DEF PortsOf
<1>f. Wants(<<>>, b) = {} /\ AtMostOne({})
  BY DEF Wants, AtMostOne
<1>1. ASSUME NEW r \in Requests, NEW d \in Buffers, AddsBuffer(r, d), UNCHANGED buffers
      PROVE  Goal
  <2>1. CASE d = b
    <3>1. ~Pending(b) /\ ~Holds(buffers, b) /\ PortsOf(b) \subseteq live'
      BY <1>1, <1>a, <1>b, <1>e, <2>1 DEF AddsBuffer
    <3>2. Wants(queue, b) = {} /\ \A s \in Requests : Wants(acts[s], b) = {}
      BY <1>c, <3>1
    <3>3. /\ Wants(queue', b) = {} /\ Wants(acts'[r], b) = {Len(acts[r]) + 1}
          /\ \A s \in Requests : s # r => Wants(acts'[s], b) = {}
      BY <1>1, <2>1, <3>2 DEF AddsBuffer
    <3>4. AtMostOne({Len(acts[r]) + 1})
      BY DEF AtMostOne
    <3> QED BY <1>1, <1>f, <3>1, <3>3, <3>4
  <2>2. CASE d # b
    <3>1. /\ Wants(queue', b) = Wants(queue, b) /\ live \subseteq live'
          /\ \A s \in Requests : Wants(acts'[s], b) = Wants(acts[s], b)
      BY <1>1, <1>a, <2>2 DEF AddsBuffer
    <3> QED BY <1>1, <1>b, <1>c, <1>d, <3>1
  <2> QED BY <2>1, <2>2
<1>2. ASSUME AddsNoBuffer, UNCHANGED buffers
      PROVE  Goal
  <2>1. /\ Wants(queue', b) = Wants(queue, b) /\ live \subseteq live'
        /\ \A s \in Requests : Wants(acts'[s], b) = Wants(acts[s], b)
    BY <1>2 DEF AddsNoBuffer
  <2> QED BY <1>2, <1>b, <1>c, <1>d, <2>1
<1>3. ASSUME NEW r \in Requests, HandsOver(r), UNCHANGED buffers
      PROVE  Goal
  <2>1. /\ Wants(queue, b) = {} /\ live' = live
        /\ Wants(queue', b) = Wants(acts[r], b) /\ Wants(acts'[r], b) = {}
        /\ \A s \in Requests : s # r => Wants(acts'[s], b) = Wants(acts[s], b)
    BY <1>3, <1>f DEF HandsOver
  <2>2. Pending(b)' <=> Pending(b)
    BY <1>c, <1>d, <2>1
  <2> QED BY <1>3, <1>b, <1>f, <2>1, <2>2
<1>4. ASSUME HandsBack, UNCHANGED buffers
      PROVE  Goal
  <2>1. Wants(queue, b) = {} /\ Wants(queue', b) = {} /\ live' = live /\ acts' = acts
    BY <1>4, <1>f DEF HandsBack
  <2> QED BY <1>4, <1>b, <1>c, <1>d, <2>1
<1>5. ASSUME NEW a, Pops(a), NEW i \in Slots, RowAdded(a, i)
      PROVE  Goal
  <2>1. UNCHANGED live /\ a.op = "addSignal"
    BY <1>5 DEF RowAdded
  <2>2. CASE a.obj = b
    <3>1. Wants(queue, b) # {} /\ Wants(queue', b) = {} /\ acts' = acts
      BY <1>5, <1>b, <2>1, <2>2, PoppedWants
    <3>2. \A r \in Requests : Wants(acts[r], b) = {}
      BY <1>b, <3>1
    <3> QED BY <1>b, <1>c, <1>d, <1>f, <2>1, <3>1, <3>2
  <2>3. CASE a.obj # b
    <3>1. Holds(buffers', b) => Holds(buffers, b)
      BY <1>5, <2>3 DEF RowAdded, Holds
    <3>2. Pending(b)' => Pending(b)
      BY <1>5, PoppedWants
    <3>3. /\ Wants(queue', b) # {} => Wants(queue, b) # {}
          /\ AtMostOne(Wants(queue', b)) /\ acts' = acts
      BY <1>5, <1>b, PoppedWants
    <3> QED BY <1>b, <2>1, <3>1, <3>2, <3>3
  <2> QED BY <2>2, <2>3
<1>6. ASSUME NEW a, Pops(a), NEW i \in Slots, RowCleared(a, i)
      PROVE  Goal
  <2>1. Pending(b)' => Pending(b)
    BY <1>6, PoppedWants
  <2>2. /\ Wants(queue', b) # {} => Wants(queue, b) # {}
        /\ AtMostOne(Wants(queue', b)) /\ acts' = acts
    BY <1>6, <1>b, PoppedWants
  <2>3. b # None
    BY ConstantsAssumption
  <2>4. CASE a.obj = b
    <3>1. ~Holds(buffers', b) /\ Holds(buffers, b)
      BY <1>6, <2>3, <2>4 DEF RowCleared, Holds
    <3> QED BY <1>b, <2>1, <2>2, <3>1
  <2>5. CASE a.obj # b
    <3>1. Holds(buffers', b) => Holds(buffers, b)
      BY <1>6, <2>3 DEF RowCleared, Holds
    <3>2. UNCHANGED live
      BY <1>6 DEF RowCleared
    <3> QED BY <1>b, <2>1, <2>2, <3>1, <3>2
  <2> QED BY <2>4, <2>5
<1>7. ASSUME NEW a, Pops(a), RowsKept(a)
      PROVE  Goal
  <2>1. Pending(b)' => Pending(b)
    BY <1>7, PoppedWants
  <2>2. /\ Wants(queue', b) # {} => Wants(queue, b) # {}
        /\ AtMostOne(Wants(queue', b)) /\ acts' = acts
    BY <1>7, <1>b, PoppedWants
  <2>3. UNCHANGED <<buffers, live>>
    BY <1>7 DEF RowsKept
  <2> QED BY <1>b, <2>1, <2>2, <2>3
<1>8. ASSUME Idle
      PROVE  Goal
  <2>1. UNCHANGED <<buffers, live, acts, queue>>
    BY <1>8 DEF Idle
  <2> QED BY <1>b, <1>c, <1>d, <2>1
<1>9. ASSUME NEW r \in Requests, Client(r)
      PROVE  Goal
  <2>1. /\ UNCHANGED buffers
        /\ \/ \E d \in Buffers : AddsBuffer(r, d)
           \/ AddsNoBuffer
           \/ HandsOver(r)
           \/ HandsBack
    BY <1>9, ClientCases
  <2> HIDE DEF Goal
  <2> QED BY <2>1, <1>1, <1>2, <1>3, <1>4
<1>10. Goal
  <2> HIDE DEF Goal
  <2> QED BY <1>5, <1>6, <1>7, <1>8, <1>9, StepCases
<1> QED BY <1>10

\* Clients make a new buffer pending and move it to the queue, the audio thread
\* takes it from there to a slot, and from a slot it leaves: its ports, which
\* are still there, keep it from becoming pending again.
LEMMA PassesStep ==
    ASSUME Typed, SlotsUnique, RowPorts, Undoable, PortsOnce, [Next]_vars, jack,
           NEW b \in Buffers
    PROVE  Stage(b)' = Stage(b) \/ <<Stage(b), Stage(b)'>> \in Ways
<1> DEFINE In == Holds(buffers, b)
           Out == Holds(buffers', b)
           New == PortsOf(b) \cap live = {}
           Moves == /\ In => Out \/ ~Pending(b)'
                    /\ ~In /\ Pending(b) => Out \/ Pending(b)'
                    /\ ~In /\ ~Pending(b) => ~Out /\ (Pending(b)' => New)
                    /\ live \subseteq live'
<1>a. /\ Pending(b) \/ In => PortsOf(b) \subseteq live
      /\ Pending(b) => ~In
      /\ AtMostOne(Wants(queue, b))
  BY DEF PortsOnce
<1>b. b # None /\ b \notin Observers
  BY ConstantsAssumption
<1>c. (Registered(b) <=> In) /\ (Registered(b)' <=> Out)
  <2>1. Typed'
    BY TypedStep
  <2>2. ~Holds(pool, b) /\ ~Holds(pool', b)
    BY <1>b, <2>1 DEF Typed, Holds
  <2> QED BY <2>2 DEF Registered, Holds
<1>d. Pending(b) <=> Wants(queue, b) # {} \/ \E r \in Requests : Wants(acts[r], b) # {}
  BY PendingWants
<1>e. Pending(b)' <=> Wants(queue', b) # {} \/ \E r \in Requests : Wants(acts'[r], b) # {}
  BY DEF Pending, Wants
<1>f. Wants(<<>>, b) = {} /\ PortsOf(b) # {}
  <2>1. Wants(<<>>, b) = {}
    BY DEF Wants
  <2>2. PortsOf(b) # {}
    BY RowFits DEF PortsOf
  <2> QED BY <2>1, <2>2
<1>1. ASSUME NEW r \in Requests, NEW d \in Buffers, AddsBuffer(r, d), UNCHANGED buffers
      PROVE  Moves
  <2>1. live \subseteq live' /\ (Out <=> In)
    BY <1>1 DEF AddsBuffer
  <2>2. CASE d = b
    <3>1. Pending(b)' /\ New
      BY <1>1, <1>e, <2>2 DEF AddsBuffer
    <3>2. ~Pending(b) /\ ~In
      BY <1>a, <1>f, <3>1
    <3> QED BY <2>1, <3>1, <3>2
  <2>3. CASE d # b
    <3>1. queue' = queue /\ \A s \in Requests : Wants(acts'[s], b) = Wants(acts[s], b)
      BY <1>1, <2>3 DEF AddsBuffer
    <3>2. Pending(b)' <=> Pending(b)
      BY <1>d, <1>e, <3>1
    <3> QED BY <1>a, <2>1, <3>2
  <2> QED BY <2>2, <2>3
<1>2. ASSUME AddsNoBuffer, UNCHANGED buffers
      PROVE  Moves
  <2>1. /\ queue' = queue /\ live \subseteq live'
        /\ \A s \in Requests : Wants(acts'[s], b) = Wants(acts[s], b)
    BY <1>2 DEF AddsNoBuffer
  <2>2. Pending(b)' <=> Pending(b)
    BY <1>d, <1>e, <2>1
  <2> QED BY <1>2, <1>a, <2>1, <2>2
<1>3. ASSUME NEW r \in Requests, HandsOver(r) \/ HandsBack, UNCHANGED buffers
      PROVE  Moves
  <2>1. Wants(queue, b) = {} /\ live' = live
    BY <1>3, <1>f DEF HandsOver, HandsBack
  <2>2. Pending(b)' <=> Pending(b)
    BY <1>3, <1>d, <1>e, <2>1 DEF HandsOver, HandsBack
  <2> QED BY <1>3, <1>a, <2>1, <2>2
<1>4. ASSUME NEW a, Pops(a), NEW i \in Slots, RowAdded(a, i)
      PROVE  Moves
  <2>1. /\ UNCHANGED live /\ a.op = "addSignal" /\ buffers'[i] = a.obj
        /\ \A j \in Slots : j # i => buffers'[j] = buffers[j]
    BY <1>4 DEF RowAdded
  <2>2. Pending(b)' => Pending(b)
    BY <1>4, PoppedWants
  <2>3. CASE a.obj = b
    <3>1. Out /\ Pending(b)
      BY <1>4, <2>1, <2>3, PoppedWants DEF Holds
    <3> QED BY <1>a, <2>1, <3>1
  <2>4. CASE a.obj # b
    <3>1. Pending(b) => Pending(b)'
      BY <1>4, <2>4, PoppedWants
    <3>2. Out => In
      BY <2>1, <2>4 DEF Holds
    <3> QED BY <1>a, <2>1, <2>2, <3>1, <3>2
  <2> QED BY <2>3, <2>4
<1>5. ASSUME NEW a, Pops(a), NEW i \in Slots, RowCleared(a, i)
      PROVE  Moves
  <2>1. /\ UNCHANGED live /\ a.op = "removeSignal" /\ buffers'[i] = None
        /\ \A j \in Slots : j # i => buffers'[j] = buffers[j]
    BY <1>5 DEF RowCleared
  <2>2. Pending(b)' <=> Pending(b)
    BY <1>5, <2>1, PoppedWants
  <2>3. Out => In
    BY <2>1, <1>b DEF Holds
  <2> QED BY <1>a, <2>1, <2>2, <2>3
<1>6. ASSUME NEW a, Pops(a), RowsKept(a)
      PROVE  Moves
  <2>1. UNCHANGED <<buffers, live>> /\ (a.op = "addSignal" => Holds(buffers, a.obj))
    BY <1>6 DEF RowsKept
  <2>2. Pending(b) => Pending(b)' \/ In
    BY <1>6, <2>1, PoppedWants
  <2>3. Pending(b)' => Pending(b)
    BY <1>6, PoppedWants
  <2> QED BY <1>a, <2>1, <2>2, <2>3
<1>7. ASSUME Idle
      PROVE  Moves
  <2>1. UNCHANGED <<buffers, live, acts, queue>>
    BY <1>7 DEF Idle
  <2>2. Pending(b)' <=> Pending(b)
    BY <1>d, <1>e, <2>1
  <2> QED BY <1>a, <2>1, <2>2
<1>8. ASSUME NEW r \in Requests, Client(r)
      PROVE  Moves
  <2>1. /\ UNCHANGED buffers
        /\ \/ \E d \in Buffers : AddsBuffer(r, d)
           \/ AddsNoBuffer
           \/ HandsOver(r)
           \/ HandsBack
    BY <1>8, ClientCases
  <2> HIDE DEF Moves
  <2> QED BY <2>1, <1>1, <1>2, <1>3
<1>9. Moves
  <2> HIDE DEF Moves
  <2> QED BY <1>4, <1>5, <1>6, <1>7, <1>8, StepCases
<1>10. Stage(b) = IF In THEN "registered" ELSE IF Pending(b) THEN "pending"
                  ELSE IF ~New THEN "left" ELSE "new"
  BY <1>c DEF Stage
<1>11. Stage(b)' = IF Out THEN "registered" ELSE IF Pending(b)' THEN "pending"
                   ELSE IF PortsOf(b) \cap live' # {} THEN "left" ELSE "new"
  BY <1>c DEF Stage, PortsOf, Chans
<1> HIDE DEF In, Out
<1>12. New \/ PortsOf(b) \cap live' # {}
  BY <1>9
<1>13. CASE In
  BY <1>13, <1>9, <1>10, <1>11, <1>12, <1>a, <1>f DEF Ways
<1>14. CASE ~In /\ Pending(b)
  BY <1>14, <1>9, <1>10, <1>11 DEF Ways
<1>15. CASE ~In /\ ~Pending(b)
  BY <1>15, <1>9, <1>10, <1>11, <1>12 DEF Ways
<1> QED BY <1>13, <1>14, <1>15

-----------------------------------------------------------------------------
(* The invariant: requests *)

\* Each action of list q that adds something belongs to request r, and the list
\* of undo actions u takes it back.
Promised(q, r, u) ==
    \A i \in DOMAIN q :
        q[i].op \notin Removals => q[i].req = r /\ Removes(u, q[i].obj)

\* Promises are kept when the action that is promised for comes with its undo
\* action, when actions are removals, and when more undo actions come.
LEMMA PromisedAppend ==
    ASSUME NEW q \in Seq(Kinds), NEW a \in Kinds, NEW r, NEW u, NEW v, Promised(q, r, u),
           \A x : Removes(u, x) => Removes(v, x),
           a.op \notin Removals => a.req = r /\ Removes(v, a.obj)
    PROVE  Promised(Append(q, a), r, v)
<1> DEFINE p == Append(q, a)
           n == Len(q)
<1>1. /\ n \in Nat /\ DOMAIN q = 1..n /\ DOMAIN p = 1..n + 1
      /\ p[n + 1] = a /\ \A i \in 1..n : p[i] = q[i]
  OBVIOUS
<1> HIDE DEF p, n
<1>2. \A i \in DOMAIN p : i \in DOMAIN q \/ i = n + 1
  BY <1>1
<1>3. \A i \in DOMAIN q : p[i] = q[i]
  BY <1>1
<1>4. p[n + 1] = a
  BY <1>1
<1>5. Promised(p, r, v)
  BY <1>2, <1>3, <1>4 DEF Promised
<1> QED BY <1>5 DEF p

\* Whatever a request is going to add, it knows how to undo.
LEMMA UndoableStep == Typed /\ Undoable /\ [Next]_vars => Undoable'
<1> SUFFICES ASSUME Typed, Undoable, [Next]_vars
             PROVE  Undoable'
  OBVIOUS
<1>a. /\ acts \in [Requests -> Seq(Kinds)] /\ undos \in [Requests -> Seq(Kinds)]
      /\ queue \in Seq(Kinds)
  BY DEF Typed
<1>b. /\ \A s \in Requests : OnlyRemoves(undos[s])
      /\ "early undo" \notin mishaps =>
            /\ \A s \in Requests : Promised(acts[s], s, undos[s])
            /\ \A i \in DOMAIN queue :
                  queue[i].op \notin Removals => Removes(undos[queue[i].req], queue[i].obj)
  BY DEF Undoable, Promised
<1>c. ASSUME \A s \in Requests : OnlyRemoves(undos'[s]),
             "early undo" \notin mishaps' =>
                /\ \A s \in Requests : Promised(acts'[s], s, undos'[s])
                /\ \A i \in DOMAIN queue' :
                      queue'[i].op \notin Removals =>
                          Removes(undos'[queue'[i].req], queue'[i].obj)
      PROVE  Undoable'
  BY <1>c DEF Undoable, Promised, OnlyRemoves, Removes
<1>d. ASSUME NEW x \in Objects, NEW r \in Requests, NEW out \in BOOLEAN,
             NEW op \in {"addSignal", "addObserver", "removeSignal", "removeObserver"},
             op \in {"addSignal", "removeSignal"} <=> x \in Buffers
      PROVE  Act(op, x, r, out) \in Kinds
  BY <1>d DEF Act, Kinds, Actions
<1>e. /\ \A b \in Buffers : b \in Objects /\ b \notin Observers
      /\ \A o \in Observers : o \in Objects /\ o \notin Buffers
  BY ConstantsAssumption DEF Objects
\* A call that lengthens both lists of a request.
<1>f. ASSUME NEW r \in Requests, NEW a \in Kinds, NEW v \in Kinds,
             Later(r, a), LaterUndo(r, v), queue' = queue, mishaps \subseteq mishaps',
             a.req = r, v.op \in Removals, v.obj = a.obj
      PROVE  Undoable'
  <2>1. acts[r] \in Seq(Kinds) /\ undos[r] \in Seq(Kinds)
    BY <1>a
  <2>2. /\ acts'[r] = Append(acts[r], a) /\ undos'[r] = Append(undos[r], v)
        /\ \A s \in Requests : s # r => acts'[s] = acts[s] /\ undos'[s] = undos[s]
    BY <1>a, <1>f DEF Later, LaterUndo
  <2>3. /\ OnlyRemoves(undos'[r]) /\ Removes(undos'[r], a.obj)
        /\ \A x : Removes(undos[r], x) => Removes(undos'[r], x)
    <3>1. OnlyRemoves(undos[r])
      BY <1>b
    <3>2. /\ OnlyRemoves(Append(undos[r], v)) /\ Removes(Append(undos[r], v), v.obj)
          /\ \A x : Removes(undos[r], x) => Removes(Append(undos[r], v), x)
      BY <1>f, <2>1, <3>1, AppendFacts
    <3> QED BY <1>f, <2>2, <3>2
  <2>4. "early undo" \notin mishaps' => Promised(acts'[r], r, undos'[r])
    <3>1. SUFFICES ASSUME "early undo" \notin mishaps' PROVE Promised(acts'[r], r, undos'[r])
      OBVIOUS
    <3>2. Promised(acts[r], r, undos[r])
      BY <1>b, <1>f, <3>1
    <3>3. Promised(Append(acts[r], a), r, undos'[r])
      BY <1>f, <2>1, <2>3, <3>2, PromisedAppend
    <3> QED BY <2>2, <3>3
  <2>5. \A s \in Requests : \A x : Removes(undos[s], x) => Removes(undos'[s], x)
    BY <2>2, <2>3
  <2>6. "early undo" \notin mishaps' =>
            \A i \in DOMAIN queue' : queue'[i].op \notin Removals =>
                Removes(undos'[queue'[i].req], queue'[i].obj)
    <3>1. \A i \in DOMAIN queue : queue[i].req \in Requests
      BY <1>a DEF Kinds, Actions
    <3> QED BY <1>b, <1>f, <2>5, <3>1
  <2>7. \A s \in Requests : OnlyRemoves(undos'[s])
    BY <1>b, <2>2, <2>3
  <2>8. "early undo" \notin mishaps' => \A s \in Requests : Promised(acts'[s], s, undos'[s])
    BY <1>b, <1>f, <2>2, <2>4
  <2> QED BY <1>c, <2>6, <2>7, <2>8
<1>1. ASSUME NEW r \in Requests, NEW b \in Buffers, AddBuffer(r, b)
      PROVE  Undoable'
  <2>1. PICK out \in BOOLEAN : Later(r, Act("addSignal", b, r, out))
    BY <1>1 DEF AddBuffer
  <2>2. LaterUndo(r, Act("removeSignal", b, r, FALSE)) /\ queue' = queue /\ mishaps' = mishaps
    BY <1>1 DEF AddBuffer
  <2> DEFINE a == Act("addSignal", b, r, out)
             v == Act("removeSignal", b, r, FALSE)
  <2>3. /\ a \in Kinds /\ a.obj = b /\ a.req = r
        /\ v \in Kinds /\ v.op \in Removals /\ v.obj = b
    <3>1. a \in Kinds /\ v \in Kinds
      BY <1>d, <1>e
    <3> QED BY <3>1 DEF Act, Removals
  <2>4. Later(r, a) /\ LaterUndo(r, v)
    BY <2>1, <2>2
  <2> HIDE DEF a, v
  <2> QED BY <1>f, <2>2, <2>3, <2>4
<1>2. ASSUME NEW r \in Requests, NEW o \in Observers, AddObserver(r, o)
      PROVE  Undoable'
  <2> DEFINE a == Act("addObserver", o, r, FALSE)
             v == Act("removeObserver", o, r, FALSE)
  <2>1. /\ a \in Kinds /\ a.obj = o /\ a.req = r
        /\ v \in Kinds /\ v.op \in Removals /\ v.obj = o
    <3>1. a \in Kinds /\ v \in Kinds
      BY <1>d, <1>e
    <3> QED BY <3>1 DEF Act, Removals
  <2>2. Later(r, a) /\ LaterUndo(r, v) /\ queue' = queue /\ mishaps \subseteq mishaps'
    BY <1>2 DEF AddObserver, Use
  <2> HIDE DEF a, v
  <2> QED BY <1>f, <2>1, <2>2
<1>3. ASSUME NEW r \in Requests, NEW x \in Objects, Remove(r, x)
      PROVE  Undoable'
  <2> DEFINE a == Act(IF x \in Buffers THEN "removeSignal" ELSE "removeObserver", x, r, FALSE)
  <2>1. a \in Kinds /\ a.op \in Removals
    <3>1. a \in Kinds
      BY <1>d, <1>e
    <3> QED BY <3>1 DEF Act, Removals
  <2>2. Later(r, a) /\ queue' = queue /\ mishaps \subseteq mishaps' /\ undos' = undos
    BY <1>3 DEF Remove
  <2> HIDE DEF a
  <2>3. acts'[r] = Append(acts[r], a) /\ \A s \in Requests : s # r => acts'[s] = acts[s]
    BY <1>a, <2>2 DEF Later
  <2>4. acts[r] \in Seq(Kinds)
    BY <1>a
  <2>5. Promised(acts[r], r, undos[r]) => Promised(acts'[r], r, undos'[r])
    BY <2>1, <2>2, <2>3, <2>4, PromisedAppend
  <2> QED BY <1>b, <1>c, <2>2, <2>3, <2>5
<1>4. ASSUME NEW r \in Requests, NEW b \in Buffers, AddBufferThrows(r, b)
      PROVE  Undoable'
  BY <1>4, <1>b, <1>c DEF AddBufferThrows
<1>g. \A r, u : Promised(<<>>, r, u)
  BY DEF Promised
<1>5. ASSUME NEW r \in Requests, Execute(r)
      PROVE  Undoable'
  <2>1. /\ queue' = acts[r] /\ acts' = [acts EXCEPT ![r] = <<>>]
        /\ undos' = undos /\ mishaps' = mishaps
    BY <1>5 DEF Execute
  <2>2. acts'[r] = <<>> /\ \A s \in Requests : s # r => acts'[s] = acts[s]
    BY <1>a, <2>1
  <2>3. Promised(acts[r], r, undos[r]) =>
            \A i \in DOMAIN queue' : queue'[i].op \notin Removals =>
                Removes(undos'[queue'[i].req], queue'[i].obj)
    BY <2>1 DEF Promised
  <2>4. \A s \in Requests : Promised(acts[s], s, undos[s]) => Promised(acts'[s], s, undos'[s])
    BY <1>g, <2>1, <2>2
  <2> QED BY <1>b, <1>c, <2>1, <2>3, <2>4
<1>6. ASSUME NEW r \in Requests, NEW o \in Observers, ExecuteAndObserve(r, o)
      PROVE  Undoable'
  <2> DEFINE a == Act("addObserver", o, r, FALSE)
             v == Act("removeObserver", o, r, FALSE)
  <2>1. /\ a \in Kinds /\ a.obj = o /\ a.req = r
        /\ v \in Kinds /\ v.op \in Removals /\ v.obj = o
    <3>1. a \in Kinds /\ v \in Kinds
      BY <1>d, <1>e
    <3> QED BY <3>1 DEF Act, Removals
  <2>2. /\ queue' = Append(acts[r], a) /\ acts' = [acts EXCEPT ![r] = <<>>]
        /\ LaterUndo(r, v) /\ mishaps \subseteq mishaps'
    BY <1>6 DEF ExecuteAndObserve, Use
  <2> HIDE DEF a, v
  <2>3. acts[r] \in Seq(Kinds) /\ undos[r] \in Seq(Kinds)
    BY <1>a
  <2>4. /\ acts'[r] = <<>> /\ undos'[r] = Append(undos[r], v)
        /\ \A s \in Requests : s # r => acts'[s] = acts[s] /\ undos'[s] = undos[s]
    BY <1>a, <2>2 DEF LaterUndo
  <2>5. /\ OnlyRemoves(undos'[r]) /\ Removes(undos'[r], o)
        /\ \A x : Removes(undos[r], x) => Removes(undos'[r], x)
    <3>1. OnlyRemoves(undos[r])
      BY <1>b
    <3>2. /\ OnlyRemoves(Append(undos[r], v)) /\ Removes(Append(undos[r], v), v.obj)
          /\ \A x : Removes(undos[r], x) => Removes(Append(undos[r], v), x)
      BY <2>1, <2>3, <3>1, AppendFacts
    <3> QED BY <2>1, <2>4, <3>2
  <2>6. Promised(acts[r], r, undos[r]) => Promised(queue', r, undos'[r])
    BY <2>1, <2>2, <2>3, <2>5, PromisedAppend
  <2>7. Promised(acts[r], r, undos[r]) =>
            \A i \in DOMAIN queue' : queue'[i].op \notin Removals =>
                Removes(undos'[queue'[i].req], queue'[i].obj)
    BY <2>6 DEF Promised
  <2>8. \A s \in Requests : Promised(acts[s], s, undos[s]) => Promised(acts'[s], s, undos'[s])
    BY <1>g, <2>4
  <2>9. \A s \in Requests : OnlyRemoves(undos'[s])
    BY <1>b, <2>4, <2>5
  <2> QED BY <1>b, <1>c, <2>2, <2>7, <2>8, <2>9
<1>7. ASSUME NEW r \in Requests, Undo(r)
      PROVE  Undoable'
  <2>1. /\ queue' = undos[r] /\ undos' = [undos EXCEPT ![r] = <<>>] /\ acts' = acts
        /\ mishaps' = mishaps \cup (IF acts[r] = <<>> THEN {} ELSE {"early undo"})
    BY <1>7, Zenon DEF Undo
  <2>2. undos'[r] = <<>> /\ \A s \in Requests : s # r => undos'[s] = undos[s]
    BY <1>a, <2>1
  <2>3. OnlyRemoves(<<>>)
    BY DEF OnlyRemoves
  <2>4. \A s \in Requests : OnlyRemoves(undos'[s])
    BY <1>b, <2>2, <2>3
  <2>5. \A i \in DOMAIN queue' : queue'[i].op \in Removals
    BY <1>b, <2>1 DEF OnlyRemoves
  <2>6. "early undo" \notin mishaps' => "early undo" \notin mishaps /\ acts'[r] = <<>>
    BY <2>1
  <2>7. "early undo" \notin mishaps' => \A s \in Requests : Promised(acts'[s], s, undos'[s])
    BY <1>b, <1>g, <2>1, <2>2, <2>6
  <2> QED BY <1>c, <2>4, <2>5, <2>7
<1>8. ASSUME NEW a, Run(a), mishaps \subseteq mishaps'
      PROVE  Undoable'
  <2>1. acts' = acts /\ undos' = undos /\ queue # <<>> /\ queue' = Tail(queue)
    BY <1>8 DEF Run, clientVars
  <2>2. \A i \in DOMAIN queue' : \E j \in DOMAIN queue : queue'[i] = queue[j]
    BY <1>a, <2>1, TailFacts
  <2> QED BY <1>8, <1>b, <1>c, <2>1, <2>2
<1>9. ASSUME UNCHANGED <<acts, undos, queue, mishaps>>
      PROVE  Undoable'
  BY <1>9, <1>b, <1>c
<1>10. ASSUME NEW a, \/ RunAddSignal(a) \/ RunAddSignalThrows(a) \/ RunAddObserver(a)
                     \/ RunRemoveSignal(a) \/ RunRemoveObserver(a) \/ RunRemoveThrows(a)
       PROVE  Run(a) /\ mishaps \subseteq mishaps'
  <2>1. RunAddObserver(a) => mishaps \subseteq mishaps'
    BY DEF RunAddObserver
  <2>2. RunAddSignal(a) => mishaps \subseteq mishaps'
    BY DEF RunAddSignal
  <2> QED BY <1>10, <2>1, <2>2 DEF RunAddSignal, RunAddSignalThrows, RunAddObserver,
                RunRemoveSignal, RunRemoveObserver, RunRemoveThrows
<1>11. ASSUME NEW r \in Requests, Client(r)
       PROVE  Undoable'
  BY <1>11, <1>1, <1>2, <1>3, <1>4, <1>5, <1>6, <1>7, <1>e DEF Client
<1>12. Block \/ UNCHANGED vars => UNCHANGED <<acts, undos, queue, mishaps>>
  BY DEF Block, vars, clientVars
<1> QED BY <1>8, <1>9, <1>10, <1>11, <1>12 DEF Next, Audio

\* removeSignal() and removeObserver() only throw for what is not there.
LEMMA IndexOfFails ==
    ASSUME NEW array, NEW x, IndexOf(array, x) = -1,
           \A i, j \in Slots : array[i] = x /\ array[j] = x => i = j
    PROVE  ~Holds(array, x)
<1>1. SUFFICES ASSUME Holds(array, x) PROVE FALSE
  OBVIOUS
<1>2. PICK i \in Slots : array[i] = x
  BY <1>1 DEF Holds
<1>3. i \in Int /\ -1 \notin Slots
  BY ConstantsAssumption DEF Slots
<1>4. \A j \in Slots : array[j] = x => j <= i
  BY <1>2, <1>3
<1>5. IndexOf(array, x) =
        CHOOSE k \in Slots : array[k] = x /\ \A j \in Slots : array[j] = x => j <= k
  BY <1>1 DEF IndexOf
<1>6. IndexOf(array, x) \in Slots
  BY <1>2, <1>4, <1>5
<1> QED BY <1>3, <1>6

\* What a request has added stays until a removal of it is run, and before that
\* it is in the request's undo list or, once undo() was called, in the queue.
LEMMA OwnedStep == Typed /\ SlotsUnique /\ Undoable /\ Owned /\ [Next]_vars => Owned'
<1> SUFFICES ASSUME Typed, SlotsUnique, Undoable, Owned, [Next]_vars
             PROVE  Owned'
  OBVIOUS
<1>a. /\ undos \in [Requests -> Seq(Kinds)] /\ queue \in Seq(Kinds)
      /\ buffers \in [Slots -> Buffers \cup {None}]
      /\ pool \in [Slots -> Observers \cup {None}]
  BY DEF Typed
<1>b. DOMAIN owner = Objects
  BY DEF Owned
\* What is there now, for an object that is not touched by the step.
<1> DEFINE Kept(x, r) ==
        /\ Registered(x)
        /\ Removes(undos[r], x) \/ (Removes(queue, x) /\ OnlyRemoves(queue))
<1>c. "evicted" \notin mishaps /\ "early undo" \notin mishaps =>
          \A x \in Objects : \A r \in Requests : owner[x] = r => Kept(x, r)
  BY DEF Owned
<1>d. ASSUME DOMAIN owner' = Objects,
             ASSUME "evicted" \notin mishaps', "early undo" \notin mishaps',
                    NEW x \in Objects, NEW r \in Requests, owner'[x] = r
             PROVE  /\ Holds(buffers', x) \/ Holds(pool', x)
                    /\ Removes(undos'[r], x) \/ (Removes(queue', x) /\ OnlyRemoves(queue'))
      PROVE  Owned'
  BY <1>d DEF Owned, Registered, Holds, Slots, Objects, Removes, OnlyRemoves
<1>e. ~\E x : Removes(<<>>, x)
  BY DEF Removes
<1>f. /\ \A x \in Objects : x # None
      /\ \A r \in Requests : r # None
  BY ConstantsAssumption DEF Objects
\* A client leaves arrays and owners alone, and keeps undo lists or runs them.
<1>1. ASSUME UNCHANGED <<buffers, pool, owner>>, mishaps \subseteq mishaps',
             queue = <<>> \/ queue' = queue,
             \A r \in Requests : \A x \in Objects : Removes(undos[r], x) =>
                 Removes(undos'[r], x) \/ (Removes(queue', x) /\ OnlyRemoves(queue'))
      PROVE  Owned'
  <2>1. ASSUME "evicted" \notin mishaps', "early undo" \notin mishaps',
               NEW x \in Objects, NEW r \in Requests, owner'[x] = r
        PROVE  /\ Holds(buffers', x) \/ Holds(pool', x)
               /\ Removes(undos'[r], x) \/ (Removes(queue', x) /\ OnlyRemoves(queue'))
    <3>1. Kept(x, r)
      BY <1>1, <1>c, <2>1
    <3>2. Holds(buffers', x) \/ Holds(pool', x)
      BY <1>1, <3>1 DEF Registered
    <3> QED BY <1>1, <1>e, <3>1, <3>2
  <2> QED BY <1>1, <1>b, <1>d, <2>1
<1>2. ASSUME NEW r \in Requests, NEW a \in Kinds, LaterUndo(r, a)
      PROVE  \A s \in Requests : \A x : Removes(undos[s], x) => Removes(undos'[s], x)
  <2>1. /\ undos'[r] = Append(undos[r], a) /\ undos[r] \in Seq(Kinds)
        /\ \A s \in Requests : s # r => undos'[s] = undos[s]
    BY <1>2, <1>a DEF LaterUndo
  <2>2. \A x : Removes(undos[r], x) => Removes(Append(undos[r], a), x)
    BY <2>1, AppendFacts
  <2> QED BY <2>1, <2>2
<1>3. ASSUME NEW r \in Requests, Client(r)
      PROVE  Owned'
  <2>1. UNCHANGED <<buffers, pool, owner>> /\ mishaps \subseteq mishaps'
    BY <1>3, ClientCases
  <2>2. ASSUME NEW x \in Objects,
               NEW op \in {"addSignal", "addObserver", "removeSignal", "removeObserver"},
               op \in {"addSignal", "removeSignal"} <=> x \in Buffers
        PROVE  Act(op, x, r, FALSE) \in Kinds
    BY <2>2 DEF Act, Kinds, Actions
  <2>3. /\ \A b \in Buffers : b \in Objects
        /\ \A o \in Observers : o \in Objects /\ o \notin Buffers
    BY ConstantsAssumption DEF Objects
  <2>4. ASSUME NEW b \in Buffers, AddBuffer(r, b)
        PROVE  Owned'
    <3>1. LaterUndo(r, Act("removeSignal", b, r, FALSE)) /\ queue' = queue
      BY <2>4 DEF AddBuffer
    <3>2. Act("removeSignal", b, r, FALSE) \in Kinds
      BY <2>2, <2>3
    <3> QED BY <1>1, <1>2, <2>1, <3>1, <3>2
  <2>5. ASSUME NEW o \in Observers, AddObserver(r, o) \/ ExecuteAndObserve(r, o)
        PROVE  Owned'
    <3>1. LaterUndo(r, Act("removeObserver", o, r, FALSE)) /\ (queue = <<>> \/ queue' = queue)
      BY <2>5 DEF AddObserver, ExecuteAndObserve
    <3>2. Act("removeObserver", o, r, FALSE) \in Kinds
      BY <2>2, <2>3
    <3> QED BY <1>1, <1>2, <2>1, <3>1, <3>2
  <2>6. ASSUME UNCHANGED undos, queue = <<>> \/ queue' = queue
        PROVE  Owned'
    BY <1>1, <2>1, <2>6
  <2>7. ASSUME NEW x, AddBufferThrows(r, x) \/ Remove(r, x) \/ Execute(r)
        PROVE  UNCHANGED undos /\ (queue = <<>> \/ queue' = queue)
    BY <2>7 DEF AddBufferThrows, Remove, Execute
  <2>8. ASSUME Undo(r)
        PROVE  Owned'
    <3>1. /\ queue = <<>> /\ queue' = undos[r] /\ undos' = [undos EXCEPT ![r] = <<>>]
      BY <2>8, Zenon DEF Undo
    <3>2. \A s \in Requests : s # r => undos'[s] = undos[s]
      BY <1>a, <3>1
    <3>3. OnlyRemoves(queue')
      BY <3>1 DEF Undoable
    <3>4. \A s \in Requests : \A x \in Objects : Removes(undos[s], x) =>
              Removes(undos'[s], x) \/ (Removes(queue', x) /\ OnlyRemoves(queue'))
      BY <3>1, <3>2, <3>3
    <3> QED BY <1>1, <2>1, <3>1, <3>4
  <2> QED BY <1>3, <2>4, <2>5, <2>6, <2>7, <2>8 DEF Client
\* The audio thread: every object but that of the action stays as it was.
<1>4. ASSUME NEW a, Run(a)
      PROVE  /\ a \in Kinds /\ a.obj \in Objects /\ undos' = undos /\ queue' = Tail(queue)
             /\ OnlyRemoves(queue) => OnlyRemoves(queue') /\ a.op \in Removals
             /\ \A x : Removes(queue, x) =>
                          Removes(queue', x) \/ (a.op \in Removals /\ a.obj = x)
             /\ "early undo" \notin mishaps /\ a.op \notin Removals =>
                    Removes(undos[a.req], a.obj)
  <2>1. a \in Kinds /\ a.obj \in Objects /\ undos' = undos /\ queue' = Tail(queue)
    BY <1>4, Popped DEF Run, clientVars
  <2>2. queue # <<>> /\ a = Head(queue)
    BY <1>4 DEF Run
  <2>3. /\ OnlyRemoves(queue) => OnlyRemoves(Tail(queue)) /\ a.op \in Removals
        /\ \A x : Removes(queue, x) =>
                     Removes(Tail(queue), x) \/ (a.op \in Removals /\ a.obj = x)
        /\ 1 \in DOMAIN queue /\ queue[1] = a
    BY <1>a, <2>2, TailFacts
  <2>4. "early undo" \notin mishaps /\ a.op \notin Removals => Removes(undos[a.req], a.obj)
    BY <2>3 DEF Undoable
  <2> QED BY <2>1, <2>3, <2>4
<1>5. ASSUME NEW a, Run(a), a.op \notin Removals, mishaps \subseteq mishaps',
             Holds(buffers', a.obj) \/ Holds(pool', a.obj),
             "evicted" \notin mishaps' => \A x \in Objects : Registered(x) =>
                 Holds(buffers', x) \/ Holds(pool', x),
             owner' = [owner EXCEPT ![a.obj] = a.req]
      PROVE  Owned'
  <2>1. ASSUME "evicted" \notin mishaps', "early undo" \notin mishaps',
               NEW x \in Objects, NEW r \in Requests, owner'[x] = r
        PROVE  /\ Holds(buffers', x) \/ Holds(pool', x)
               /\ Removes(undos'[r], x) \/ (Removes(queue', x) /\ OnlyRemoves(queue'))
    <3>1. CASE x = a.obj
      <4>1. a.req = r
        BY <1>5, <1>b, <2>1, <3>1
      <4>2. Removes(undos'[r], x)
        BY <1>4, <1>5, <2>1, <3>1, <4>1
      <4> QED BY <1>5, <3>1, <4>2
    <3>2. CASE x # a.obj
      <4>1. owner[x] = r
        BY <1>5, <1>b, <2>1, <3>2
      <4>2. Kept(x, r)
        BY <1>5, <1>c, <2>1, <4>1
      <4>3. Removes(undos'[r], x)
        BY <1>4, <1>5, <4>2
      <4> QED BY <1>5, <2>1, <4>2, <4>3
    <3> QED BY <3>1, <3>2
  <2>2. DOMAIN owner' = Objects
    BY <1>5, <1>b
  <2> QED BY <1>d, <2>1, <2>2
<1>6. ASSUME NEW a, Run(a), a.op \in Removals, mishaps \subseteq mishaps',
             \A x \in Objects : Registered(x) /\ x # a.obj =>
                 Holds(buffers', x) \/ Holds(pool', x),
             \/ owner' = [owner EXCEPT ![a.obj] = None]
             \/ owner' = owner /\ ~Registered(a.obj)
      PROVE  Owned'
  <2>1. ASSUME "evicted" \notin mishaps', "early undo" \notin mishaps',
               NEW x \in Objects, NEW r \in Requests, owner'[x] = r
        PROVE  /\ Holds(buffers', x) \/ Holds(pool', x)
               /\ Removes(undos'[r], x) \/ (Removes(queue', x) /\ OnlyRemoves(queue'))
    <3>1. owner[x] = r
      BY <1>6, <1>b, <1>f, <2>1
    <3>2. Kept(x, r)
      BY <1>6, <1>c, <2>1, <3>1
    <3>3. x # a.obj
      BY <1>6, <1>b, <1>f, <2>1, <3>2
    <3>4. Removes(undos'[r], x) \/ (Removes(queue', x) /\ OnlyRemoves(queue'))
      BY <1>4, <1>6, <3>2, <3>3
    <3> QED BY <1>6, <3>2, <3>3, <3>4
  <2>2. DOMAIN owner' = Objects
    BY <1>6, <1>b
  <2> QED BY <1>d, <2>1, <2>2
<1>7. ASSUME NEW a, RunAddSignal(a)
      PROVE  Owned'
  <2>1. PICK i \in Slots : RowAdded(a, i)
    BY <1>7, AddedRow
  <2>2. Run(a) /\ a.op \notin Removals /\ mishaps \subseteq mishaps'
    BY <1>7, <2>1 DEF RunAddSignal, RowAdded, Removals
  <2>3. Holds(buffers', a.obj) /\ owner' = [owner EXCEPT ![a.obj] = a.req]
    BY <2>1 DEF RowAdded, Holds
  <2>4. "evicted" \notin mishaps' => \A x \in Objects : Registered(x) =>
            Holds(buffers', x) \/ Holds(pool', x)
    BY <1>f, <2>1 DEF RowAdded, Registered, Holds
  <2> QED BY <1>5, <2>2, <2>3, <2>4
<1>8. ASSUME NEW a, RunAddObserver(a)
      PROVE  Owned'
  <2> DEFINE i == AddIndex(pool, a.obj)
  <2>1. /\ Run(a) /\ a.op = "addObserver" /\ UNCHANGED buffers
        /\ owner' = [owner EXCEPT ![a.obj] = a.req]
        /\ IF i = -1 THEN UNCHANGED <<pool, mishaps>>
           ELSE /\ pool' = [pool EXCEPT ![i] = a.obj]
                /\ mishaps' = mishaps \cup Eviction(pool, i)
    BY <1>8 DEF RunAddObserver, Joins
  <2>2. a.op \notin Removals
    BY <2>1 DEF Removals
  <2>3. CASE i = -1
    <3>1. Holds(pool, a.obj)
      BY <2>3, AddIndexFails
    <3>2. UNCHANGED <<pool, mishaps>>
      BY <2>1, <2>3
    <3>3. \A x \in Objects : Registered(x) => Holds(buffers', x) \/ Holds(pool', x)
      BY <2>1, <3>2 DEF Registered
    <3>4. Holds(pool', a.obj) /\ mishaps \subseteq mishaps'
      BY <3>1, <3>2
    <3> QED BY <1>5, <2>1, <2>2, <3>3, <3>4
  <2>4. CASE i # -1
    <3>1. i \in Slots /\ pool' = [pool EXCEPT ![i] = a.obj]
      BY <2>1, <2>4, AddIndexSlot
    <3>2. mishaps' = mishaps \cup Eviction(pool, i)
      BY <2>1, <2>4
    <3> HIDE DEF i
    <3>3. pool'[i] = a.obj /\ \A j \in Slots : j # i => pool'[j] = pool[j]
      BY <1>a, <3>1
    <3>4. mishaps \subseteq mishaps' /\ ("evicted" \notin mishaps' => pool[i] = None)
      BY <3>2 DEF Eviction
    <3>5. "evicted" \notin mishaps' => \A x \in Objects : Registered(x) =>
              Holds(buffers', x) \/ Holds(pool', x)
      BY <1>f, <2>1, <3>1, <3>3, <3>4 DEF Registered, Holds
    <3>6. Holds(pool', a.obj)
      BY <3>1, <3>3 DEF Holds
    <3> QED BY <1>5, <2>1, <2>2, <3>4, <3>5, <3>6
  <2> QED BY <2>3, <2>4
<1>9. ASSUME NEW a, RunAddSignalThrows(a)
      PROVE  Owned'
  <2>1. /\ Run(a) /\ a.op = "addSignal" /\ UNCHANGED <<buffers, pool, owner>>
        /\ mishaps \subseteq mishaps'
    BY <1>9 DEF RunAddSignalThrows, addVars
  <2>2. a.op \notin Removals
    BY <2>1 DEF Removals
  <2>3. ASSUME "evicted" \notin mishaps', "early undo" \notin mishaps',
               NEW x \in Objects, NEW r \in Requests, owner'[x] = r
        PROVE  /\ Holds(buffers', x) \/ Holds(pool', x)
               /\ Removes(undos'[r], x) \/ (Removes(queue', x) /\ OnlyRemoves(queue'))
    <3>1. Kept(x, r)
      BY <1>c, <2>1, <2>3
    <3>2. Removes(undos'[r], x)
      BY <1>4, <2>1, <2>2, <3>1
    <3>3. Holds(buffers', x) \/ Holds(pool', x)
      BY <2>1, <3>1 DEF Registered
    <3> QED BY <3>2, <3>3
  <2> QED BY <1>b, <1>d, <2>1, <2>3
<1>10. ASSUME NEW a, RunRemoveSignal(a)
       PROVE  Owned'
  <2> DEFINE i == IndexOf(buffers, a.obj)
  <2>1. /\ Run(a) /\ a.op = "removeSignal" /\ UNCHANGED <<pool, mishaps>> /\ i # -1
        /\ buffers' = [buffers EXCEPT ![i] = None]
        /\ owner' = [owner EXCEPT ![a.obj] = None]
    BY <1>10 DEF RunRemoveSignal
  <2>2. a.obj # None /\ a.op \in Removals
    BY <1>4, <1>f, <2>1 DEF Removals
  <2>3. i \in Slots /\ buffers[i] = a.obj
    BY <2>1, <2>2, IndexOfSlot DEF SlotsUnique
  <2> HIDE DEF i
  <2>4. \A j \in Slots : j # i => buffers'[j] = buffers[j]
    BY <1>a, <2>1
  <2>5. \A x \in Objects : Registered(x) /\ x # a.obj => Holds(buffers', x) \/ Holds(pool', x)
    BY <2>1, <2>3, <2>4 DEF Registered, Holds
  <2> QED BY <1>6, <2>1, <2>2, <2>5
<1>11. ASSUME NEW a, RunRemoveObserver(a)
       PROVE  Owned'
  <2> DEFINE i == IndexOf(pool, a.obj)
  <2>1. /\ Run(a) /\ a.op = "removeObserver" /\ UNCHANGED <<buffers, mishaps>> /\ i # -1
        /\ pool' = [pool EXCEPT ![i] = None]
        /\ owner' = [owner EXCEPT ![a.obj] = None]
    BY <1>11 DEF RunRemoveObserver
  <2>2. a.obj # None /\ a.op \in Removals
    BY <1>4, <1>f, <2>1 DEF Removals
  <2>3. i \in Slots /\ pool[i] = a.obj
    BY <2>1, <2>2, IndexOfSlot DEF SlotsUnique
  <2> HIDE DEF i
  <2>4. \A j \in Slots : j # i => pool'[j] = pool[j]
    BY <1>a, <2>1
  <2>5. \A x \in Objects : Registered(x) /\ x # a.obj => Holds(buffers', x) \/ Holds(pool', x)
    BY <2>1, <2>3, <2>4 DEF Registered, Holds
  <2> QED BY <1>6, <2>1, <2>2, <2>5
<1>12. ASSUME NEW a, RunRemoveThrows(a)
       PROVE  Owned'
  <2>1. Run(a) /\ UNCHANGED <<buffers, pool, owner, mishaps>>
    BY <1>12 DEF RunRemoveThrows, addVars
  <2>2. a.obj # None /\ a \in Kinds
    BY <1>4, <1>f, <2>1
  <2>3. CASE a.op = "removeSignal" /\ IndexOf(buffers, a.obj) = -1
    <3>1. ~Holds(buffers, a.obj)
      BY <2>2, <2>3, IndexOfFails DEF SlotsUnique
    <3>2. a.obj \notin Observers
      BY <2>2, <2>3, ConstantsAssumption DEF Kinds
    <3>3. ~Holds(pool, a.obj)
      BY <1>a, <2>2, <3>2 DEF Holds
    <3>4. a.op \in Removals
      BY <2>3 DEF Removals
    <3>5. ~Registered(a.obj)
      BY <3>1, <3>3 DEF Registered
    <3>6. \A x \in Objects : Registered(x) => Holds(buffers', x) \/ Holds(pool', x)
      BY <2>1 DEF Registered
    <3> QED BY <1>6, <2>1, <3>4, <3>5, <3>6
  <2>4. CASE a.op = "removeObserver" /\ IndexOf(pool, a.obj) = -1
    <3>1. ~Holds(pool, a.obj)
      BY <2>2, <2>4, IndexOfFails DEF SlotsUnique
    <3>2. a.obj \notin Buffers
      BY <2>2, <2>4 DEF Kinds
    <3>3. ~Holds(buffers, a.obj)
      BY <1>a, <2>2, <3>2 DEF Holds
    <3>4. a.op \in Removals
      BY <2>4 DEF Removals
    <3>5. ~Registered(a.obj)
      BY <3>1, <3>3 DEF Registered
    <3>6. \A x \in Objects : Registered(x) => Holds(buffers', x) \/ Holds(pool', x)
      BY <2>1 DEF Registered
    <3> QED BY <1>6, <2>1, <3>4, <3>5, <3>6
  <2> QED BY <1>12, <2>3, <2>4 DEF RunRemoveThrows
<1>13. ASSUME Block \/ UNCHANGED vars
       PROVE  Owned'
  <2>1. UNCHANGED <<buffers, pool, owner, undos, queue, mishaps>>
    BY <1>13 DEF Block, vars, clientVars, audioVars, addVars
  <2> QED BY <1>1, <2>1
<1> QED BY <1>3, <1>7, <1>8, <1>9, <1>10, <1>11, <1>12, <1>13 DEF Next, Audio

-----------------------------------------------------------------------------
(* Observers and their buffers *)

\* What an action at the end of a list adds to it.
LEMMA AddsAppend ==
    ASSUME NEW q \in Seq(Kinds), NEW a \in Kinds
    PROVE  /\ \A r, b : Adds(q, r, b) => Adds(Append(q, a), r, b)
           /\ a.op = "addSignal" => Adds(Append(q, a), a.req, a.obj)
           /\ OnlyAdds(q) /\ a.op \notin Removals => OnlyAdds(Append(q, a))
           /\ \A o : AddsObserver(Append(q, a), o) =>
                         AddsObserver(q, o) \/ (a.op = "addObserver" /\ a.obj = o)
           /\ \A x : Removes(Append(q, a), x) => Removes(q, x) \/ a.obj = x
           /\ Append(q, a) # <<>> /\ Append(q, a)[Len(Append(q, a))] = a
<1> DEFINE p == Append(q, a)
           n == Len(q)
<1>1. /\ n \in Nat /\ DOMAIN q = 1..n /\ DOMAIN p = 1..n + 1 /\ Len(p) = n + 1 /\ p # <<>>
      /\ p[n + 1] = a /\ \A i \in 1..n : p[i] = q[i]
  OBVIOUS
<1> HIDE DEF p, n
<1>2. DOMAIN p = DOMAIN q \cup {n + 1} /\ \A i \in DOMAIN q : p[i] = q[i]
  BY <1>1
<1>3. p[n + 1] = a /\ p[Len(p)] = a /\ p # <<>>
  BY <1>1
<1> QED BY <1>2, <1>3 DEF Adds, OnlyAdds, AddsObserver, Removes, p, n

\* What is left of a list when its first action has been popped.
LEMMA AddsTail ==
    ASSUME NEW q \in Seq(Kinds), q # <<>>
    PROVE  LET a == Head(q)
               t == Tail(q)
           IN  /\ \A r, b : Adds(q, r, b) =>
                         Adds(t, r, b) \/ (a.op = "addSignal" /\ a.obj = b /\ a.req = r)
               /\ OnlyAdds(q) => OnlyAdds(t) /\ a.op \notin Removals
               /\ \A o : AddsObserver(t, o) => AddsObserver(q, o)
               /\ a.op = "addObserver" => AddsObserver(q, a.obj)
               /\ \A x : Removes(t, x) => Removes(q, x)
               /\ a.op \in Removals => Removes(q, a.obj)
               /\ t # <<>> => t[Len(t)] = q[Len(q)]
               /\ t = <<>> => a = q[Len(q)]
<1> DEFINE a == Head(q)
           t == Tail(q)
           n == Len(q)
<1>1. /\ n \in Nat \ {0} /\ DOMAIN q = 1..n /\ DOMAIN t = 1..n - 1 /\ Len(t) = n - 1
      /\ t \in Seq(Kinds)
      /\ a = q[1] /\ \A i \in 1..n - 1 : t[i] = q[i + 1]
  OBVIOUS
<1>e. t = <<>> <=> Len(t) = 0
  BY <1>1
<1> HIDE DEF a, t, n
<1>2. \A i \in DOMAIN t : i + 1 \in DOMAIN q /\ t[i] = q[i + 1]
  BY <1>1
<1>3. \A j \in DOMAIN q : j = 1 \/ (j - 1 \in DOMAIN t /\ t[j - 1] = q[j])
  BY <1>1
<1>4. 1 \in DOMAIN q /\ q[1] = a
  BY <1>1
<1>5. t # <<>> => t[Len(t)] = q[n]
  BY <1>1, <1>e
<1>6. t = <<>> => a = q[n]
  BY <1>1, <1>e
<1>7. \A r, b : Adds(q, r, b) => Adds(t, r, b) \/ (a.op = "addSignal" /\ a.obj = b /\ a.req = r)
  BY <1>3, <1>4 DEF Adds
<1>8. OnlyAdds(q) => OnlyAdds(t) /\ a.op \notin Removals
  BY <1>2, <1>4 DEF OnlyAdds
<1>9. /\ \A o : AddsObserver(t, o) => AddsObserver(q, o)
      /\ a.op = "addObserver" => AddsObserver(q, a.obj)
  BY <1>2, <1>4 DEF AddsObserver
<1>10. /\ \A x : Removes(t, x) => Removes(q, x)
       /\ a.op \in Removals => Removes(q, a.obj)
  BY <1>2, <1>4 DEF Removes
<1> QED BY <1>5, <1>6, <1>7, <1>8, <1>9, <1>10 DEF a, t, n

\* An empty list does nothing, and one that only adds does not remove.
LEMMA ListKinds ==
    /\ \A r, b : ~Adds(<<>>, r, b)
    /\ \A x : ~Removes(<<>>, x) /\ ~AddsObserver(<<>>, x)
    /\ OnlyAdds(<<>>) /\ OnlyRemoves(<<>>)
    /\ \A q : OnlyAdds(q) => \A x : ~Removes(q, x)
    /\ \A q : OnlyRemoves(q) => \A o : ~AddsObserver(q, o)
BY DEF Adds, Removes, AddsObserver, OnlyAdds, OnlyRemoves, Removals

\* The actions that clients build.
LEMMA BuiltKinds ==
    ASSUME NEW r \in Requests
    PROVE  /\ \A b \in Buffers : \A out \in BOOLEAN : Act("addSignal", b, r, out) \in Kinds
           /\ \A b \in Buffers : Act("removeSignal", b, r, FALSE) \in Kinds
           /\ \A o \in Observers : /\ Act("addObserver", o, r, FALSE) \in Kinds
                                   /\ Act("removeObserver", o, r, FALSE) \in Kinds
           /\ Buffers \cap Observers = {}
BY ConstantsAssumption DEF Act, Kinds, Actions, Objects

\* The audio thread does not touch what clients have built.
LEMMA AudioKeepsClient ==
    ASSUME Audio \/ UNCHANGED vars
    PROVE  UNCHANGED clientVars
BY DEF Audio, RunAddSignal, RunAddSignalThrows, RunAddObserver, RunRemoveSignal,
       RunRemoveObserver, RunRemoveThrows, Run, Block, vars

\* Buffers are collected when their actions are, and forgotten with them.
LEMMA CollectedStep == Typed /\ Collected /\ [Next]_vars => Collected'
<1> SUFFICES ASSUME Typed, Collected, [Next]_vars PROVE Collected'
  OBVIOUS
<1>a. acts \in [Requests -> Seq(Kinds)]
  BY DEF Typed
<1>1. ASSUME UNCHANGED <<acts, bufs, hists>>
      PROVE  Collected'
  BY <1>1 DEF Collected
<1>2. CASE Audio \/ UNCHANGED vars
  BY <1>1, <1>2, AudioKeepsClient DEF clientVars
<1>3. ASSUME NEW r \in Requests, NEW a \in Kinds, Later(r, a), UNCHANGED hists,
             \/ bufs' = bufs
             \/ /\ bufs' = [bufs EXCEPT ![r] = @ \cup {a.obj}] /\ a.obj \in Buffers
                /\ a.op = "addSignal" /\ a.req = r
      PROVE  Collected'
  <2>1. /\ acts'[r] = Append(acts[r], a) /\ acts[r] \in Seq(Kinds)
        /\ \A s \in Requests : s # r => acts'[s] = acts[s]
    BY <1>a, <1>3 DEF Later
  <2>2. \A s \in Requests : \A b : Adds(acts[s], s, b) => Adds(acts'[s], s, b)
    <3>1. \A b : Adds(acts[r], r, b) => Adds(acts'[r], r, b)
      BY <2>1, AddsAppend
    <3> QED BY <2>1, <3>1
  <2>3. a.op = "addSignal" => Adds(acts'[r], a.req, a.obj)
    BY <2>1, AddsAppend
  <2>4. bufs' \in [Requests -> SUBSET Buffers]
    BY <1>3 DEF Collected
  <2>5. ASSUME NEW s \in Requests, NEW b \in bufs'[s]
        PROVE  Adds(acts'[s], s, b)
    <3>1. b \in bufs[s] \/ (s = r /\ b = a.obj /\ a.op = "addSignal" /\ a.req = r)
      BY <1>3, <2>5 DEF Collected
    <3> QED BY <2>2, <2>3, <3>1 DEF Collected
  <2> QED BY <1>3, <2>4, <2>5 DEF Collected
<1>4. ASSUME NEW r \in Requests, bufs' = [bufs EXCEPT ![r] = {}],
             hists' \in [Observers -> SUBSET Buffers],
             \A s \in Requests : s # r => acts'[s] = acts[s]
      PROVE  Collected'
  <2>1. bufs' \in [Requests -> SUBSET Buffers] /\ bufs'[r] = {}
    BY <1>4 DEF Collected
  <2>2. \A s \in Requests : s # r => bufs'[s] = bufs[s]
    BY <1>4 DEF Collected
  <2> QED BY <1>4, <2>1, <2>2 DEF Collected
<1>5. ASSUME NEW r \in Requests, NEW b \in Buffers, AddBuffer(r, b)
      PROVE  Collected'
  <2>1. PICK out \in BOOLEAN : Later(r, Act("addSignal", b, r, out))
    BY <1>5 DEF AddBuffer
  <2> DEFINE a == Act("addSignal", b, r, out)
  <2>2. a \in Kinds /\ a.obj = b /\ a.req = r /\ a.op = "addSignal"
    BY BuiltKinds DEF Act
  <2>3. Later(r, a) /\ hists' = hists /\ bufs' = [bufs EXCEPT ![r] = @ \cup {b}]
    BY <1>5, <2>1 DEF AddBuffer
  <2> HIDE DEF a
  <2> QED BY <1>3, <2>2, <2>3
<1>6. ASSUME NEW r \in Requests, NEW o \in Observers, AddObserver(r, o)
      PROVE  Collected'
  <2>1. Later(r, Act("addObserver", o, r, FALSE)) /\ UNCHANGED <<bufs, hists>>
    BY <1>6 DEF AddObserver
  <2> QED BY <1>3, <2>1, BuiltKinds
<1>7. ASSUME NEW r \in Requests, NEW x \in Objects, Remove(r, x)
      PROVE  Collected'
  <2> DEFINE a == Act(IF x \in Buffers THEN "removeSignal" ELSE "removeObserver", x, r, FALSE)
  <2>1. Later(r, a) /\ UNCHANGED <<bufs, hists>>
    BY <1>7 DEF Remove
  <2>2. a \in Kinds
    BY BuiltKinds DEF Objects
  <2> HIDE DEF a
  <2> QED BY <1>3, <2>1, <2>2
<1>8. ASSUME NEW r \in Requests, Execute(r) \/ Undo(r)
      PROVE  Collected'
  <2>1. \A s \in Requests : s # r => acts'[s] = acts[s]
    BY <1>a, <1>8 DEF Execute, Undo
  <2>2. bufs' = [bufs EXCEPT ![r] = {}] /\ hists' \in [Observers -> SUBSET Buffers]
    BY <1>8 DEF Execute, Undo, Collected
  <2> QED BY <1>4, <2>1, <2>2
<1>9. ASSUME NEW r \in Requests, NEW o \in Observers, ExecuteAndObserve(r, o)
      PROVE  Collected'
  <2>1. \A s \in Requests : s # r => acts'[s] = acts[s]
    BY <1>a, <1>9 DEF ExecuteAndObserve
  <2>2. bufs' = [bufs EXCEPT ![r] = {}] /\ hists' \in [Observers -> SUBSET Buffers]
    BY <1>9 DEF ExecuteAndObserve, Collected
  <2> QED BY <1>4, <2>1, <2>2
<1>10. ASSUME NEW r \in Requests, NEW b \in Buffers, AddBufferThrows(r, b)
       PROVE  Collected'
  BY <1>1, <1>10 DEF AddBufferThrows
<1>11. ASSUME NEW r \in Requests, Client(r)
       PROVE  Collected'
  BY <1>5, <1>6, <1>7, <1>8, <1>9, <1>10, <1>11 DEF Client, Objects
<1> QED BY <1>2, <1>11 DEF Next

\* What holds as long as clients only add and undo.
Paired == Unmixed /\ UsedOnce /\ Backed /\ Escorted

\* A request that grows: what it is going to add, it can take back.
LEMMA GrowPaired ==
    ASSUME Typed, Paired, NEW r \in Requests, NEW a \in Kinds, NEW u \in Kinds,
           Later(r, a), LaterUndo(r, u), UNCHANGED <<queue, owner, pool, hists>>,
           a.op \notin Removals,
           u.obj \in Buffers => a.op = "addSignal" /\ a.obj = u.obj /\ a.req = r,
           used \subseteq used',
           a.op = "addObserver" => a.obj \notin used /\ a.obj \in used'
    PROVE  Paired'
<1>1. acts \in [Requests -> Seq(Kinds)] /\ undos \in [Requests -> Seq(Kinds)]
  BY DEF Typed
<1>2. /\ acts'[r] = Append(acts[r], a) /\ undos'[r] = Append(undos[r], u)
      /\ acts[r] \in Seq(Kinds) /\ undos[r] \in Seq(Kinds)
      /\ \A s \in Requests : s # r => acts'[s] = acts[s] /\ undos'[s] = undos[s]
  BY <1>1 DEF Later, LaterUndo
<1>a. /\ OnlyAdds(acts[r]) => OnlyAdds(acts'[r])
      /\ \A b : Adds(acts[r], r, b) => Adds(acts'[r], r, b)
      /\ \A o : AddsObserver(acts'[r], o) =>
                    AddsObserver(acts[r], o) \/ (a.op = "addObserver" /\ a.obj = o)
  BY <1>2, AddsAppend
<1>u. /\ \A x : Removes(undos[r], x) => Removes(undos'[r], x)
      /\ \A x : Removes(undos'[r], x) => Removes(undos[r], x) \/ u.obj = x
  BY <1>2, AddsAppend, AppendFacts
<1>3. \A s \in Requests : OnlyAdds(acts[s]) => OnlyAdds(acts'[s])
  BY <1>2, <1>a
<1>4. \A s \in Requests : \A b : Adds(acts[s], s, b) => Adds(acts'[s], s, b)
  BY <1>2, <1>a
<1>5. \A s \in Requests : \A o : AddsObserver(acts'[s], o) =>
          AddsObserver(acts[s], o) \/ (a.op = "addObserver" /\ a.obj = o)
  BY <1>2, <1>a
<1>6. \A s \in Requests : \A x :
          /\ Removes(undos[s], x) => Removes(undos'[s], x)
          /\ Removes(undos'[s], x) => Removes(undos[s], x) \/ (s = r /\ u.obj = x)
  BY <1>2, <1>u
<1>7. Unmixed'
  BY <1>3 DEF Paired, Unmixed
<1>8. UsedOnce'
  BY <1>5 DEF Paired, UsedOnce
<1>9. Backed'
  <2> SUFFICES ASSUME NEW s \in Requests, NEW b \in Buffers, Removes(undos'[s], b)
               PROVE  \/ Adds(acts'[s], s, b) \/ Adds(queue, s, b)
                      \/ owner[b] = s /\ ~Removes(queue, b)
    BY DEF Backed
  <2>1. CASE Removes(undos[s], b)
    BY <1>4, <2>1 DEF Paired, Backed
  <2>2. CASE s = r /\ u.obj = b
    <3>1. Adds(Append(acts[r], a), a.req, a.obj) /\ a.req = r /\ a.obj = b
      BY <1>2, <2>2, AddsAppend
    <3> QED BY <1>2, <2>2, <3>1
  <2> QED BY <1>6, <2>1, <2>2
<1>10. Escorted'
  <2> SUFFICES ASSUME NEW o \in Observers, NEW b \in hists[o]
               PROVE  (Coming(o, b) \/ Staying(o, b) \/ Leaving(o) \/ Gone(o))'
    BY DEF Escorted
  <2>1. Coming(o, b) \/ Staying(o, b) \/ Leaving(o) \/ Gone(o)
    BY DEF Paired, Escorted
  <2>2. Coming(o, b) => Coming(o, b)'
    BY <1>6 DEF Coming
  <2>3. Staying(o, b) => Staying(o, b)'
    BY <1>6 DEF Staying
  <2>4. (Leaving(o) => Leaving(o)') /\ (Gone(o) => Gone(o)')
    BY DEF Leaving, Gone, Holds
  <2> QED BY <2>1, <2>2, <2>3, <2>4
<1> QED BY <1>7, <1>8, <1>9, <1>10 DEF Paired

\* A request that is handed over, on its own or with an observer of its buffers.
LEMMA ExecutePaired ==
    ASSUME Typed, Collected, Paired, mishaps' = {}, NEW r \in Requests,
           Execute(r) \/ \E o \in Observers : ExecuteAndObserve(r, o)
    PROVE  Paired'
<1>1. acts \in [Requests -> Seq(Kinds)] /\ undos \in [Requests -> Seq(Kinds)]
      /\ acts[r] \in Seq(Kinds) /\ undos[r] \in Seq(Kinds)
  BY DEF Typed
<1> DEFINE Observed(os) ==
        /\ \A o \in os : o \notin used
        /\ used' = used \cup os
        /\ hists' = [o \in Observers |-> IF o \in os THEN hists[o] \cup bufs[r] ELSE hists[o]]
        /\ \A o \in os : /\ Removes(undos'[r], o)
                          /\ queue' # <<>> /\ queue'[Len(queue')].op = "addObserver"
                          /\ queue'[Len(queue')].obj = o
        /\ \A x : Removes(undos'[r], x) => Removes(undos[r], x) \/ x \in os
        /\ \A x : Removes(undos[r], x) => Removes(undos'[r], x)
        /\ \A s \in Requests : s # r => undos'[s] = undos[s]
        /\ \A o : AddsObserver(queue', o) => AddsObserver(acts[r], o) \/ o \in os
        /\ \A s, b : Adds(acts[r], s, b) => Adds(queue', s, b)
        /\ OnlyAdds(acts[r]) => OnlyAdds(queue')
<1>2. PICK observed \in SUBSET Observers : Observed(observed)
  <2>1. CASE Execute(r)
    <3>1. UNCHANGED <<used, hists, undos>> /\ queue' = acts[r]
      BY <2>1 DEF Execute
    <3>2. hists' = [o \in Observers |-> IF o \in {} THEN hists[o] \cup bufs[r] ELSE hists[o]]
      BY <3>1 DEF Collected
    <3>3. /\ used' = used \cup {} /\ undos' = undos
          /\ \A o : AddsObserver(queue', o) => AddsObserver(acts[r], o)
          /\ \A s, b : Adds(acts[r], s, b) => Adds(queue', s, b)
          /\ OnlyAdds(acts[r]) => OnlyAdds(queue')
      BY <3>1, Zenon
    <3>4. Observed({})
      BY <3>2, <3>3, Zenon
    <3> HIDE DEF Observed
    <3> QED BY <3>4
  <2>2. ASSUME NEW o \in Observers, ExecuteAndObserve(r, o)
        PROVE  Observed({o})
    <3> DEFINE a == Act("addObserver", o, r, FALSE)
               u == Act("removeObserver", o, r, FALSE)
    <3>1. /\ a \in Kinds /\ a.op = "addObserver" /\ a.obj = o /\ a.op \notin Removals
          /\ u \in Kinds /\ u.op \in Removals /\ u.obj = o
      BY BuiltKinds DEF Act, Removals
    <3>2. /\ queue' = Append(acts[r], a)
          /\ undos' = [undos EXCEPT ![r] = Append(@, u)]
          /\ used' = used \cup {o} /\ hists' = [hists EXCEPT ![o] = @ \cup bufs[r]]
      BY <2>2 DEF ExecuteAndObserve, Use, LaterUndo
    <3> HIDE DEF a, u
    <3>3. o \notin used
      BY <2>2 DEF ExecuteAndObserve, Use
    <3>4. hists' = [d \in Observers |-> IF d \in {o} THEN hists[d] \cup bufs[r] ELSE hists[d]]
      BY <3>2 DEF Collected
    <3>5. undos'[r] = Append(undos[r], u) /\ \A s \in Requests : s # r => undos'[s] = undos[s]
      BY <1>1, <3>2
    <3>6. /\ Removes(undos'[r], o)
          /\ \A x : Removes(undos'[r], x) => Removes(undos[r], x) \/ x \in {o}
          /\ \A x : Removes(undos[r], x) => Removes(undos'[r], x)
      BY <1>1, <3>1, <3>5, AddsAppend, AppendFacts
    <3>7. /\ \A d : AddsObserver(queue', d) => AddsObserver(acts[r], d) \/ d \in {o}
          /\ \A s, b : Adds(acts[r], s, b) => Adds(queue', s, b)
          /\ OnlyAdds(acts[r]) => OnlyAdds(queue')
          /\ queue' # <<>> /\ queue'[Len(queue')] = a
      BY <1>1, <3>1, <3>2, AddsAppend
    <3>8. \A d \in {o} : /\ Removes(undos'[r], d)
                         /\ queue' # <<>> /\ queue'[Len(queue')].op = "addObserver"
                         /\ queue'[Len(queue')].obj = d
      BY <3>1, <3>6, <3>7
    <3>9. \A d \in {o} : d \notin used
      BY <3>3
    <3>10. Observed({o})
      BY <3>2, <3>4, <3>5, <3>6, <3>7, <3>8, <3>9, Zenon
    <3> QED BY <3>10
  <2> HIDE DEF Observed
  <2> QED BY <2>1, <2>2
<1>3. /\ queue = <<>> /\ acts' = [acts EXCEPT ![r] = <<>>] /\ UNCHANGED <<owner, pool>>
  BY DEF Execute, ExecuteAndObserve, audioVars, addVars
<1>4. acts'[r] = <<>> /\ \A s \in Requests : s # r => acts'[s] = acts[s]
  BY <1>1, <1>3
<1>5. OnlyAdds(queue') /\ \A x : ~Removes(queue', x)
  BY <1>2, ListKinds DEF Paired, Unmixed
<1>6. Unmixed'
  BY <1>4, <1>5, ListKinds DEF Paired, Unmixed
<1>7. UsedOnce'
  <2> SUFFICES ASSUME NEW o \in Observers
               PROVE  /\ o \notin used' => hists'[o] = {}
                      /\ o \notin used' \/ hists'[o] # {} =>
                            \A s \in Requests : ~AddsObserver(acts'[s], o)
    BY DEF UsedOnce
  <2>1. \A s \in Requests : AddsObserver(acts'[s], o) => AddsObserver(acts[s], o)
    BY <1>4, ListKinds
  <2>2. CASE o \in observed
    BY <1>2, <2>1, <2>2 DEF Paired, UsedOnce
  <2>3. CASE o \notin observed
    BY <1>2, <2>1, <2>3 DEF Paired, UsedOnce
  <2> QED BY <2>2, <2>3
<1>8. Backed'
  <2> SUFFICES ASSUME NEW s \in Requests, NEW b \in Buffers, Removes(undos'[s], b)
               PROVE  \/ Adds(acts'[s], s, b) \/ Adds(queue', s, b)
                      \/ owner[b] = s /\ ~Removes(queue', b)
    BY <1>3 DEF Backed
  <2>1. Removes(undos[s], b)
    <3>1. b \notin observed
      BY <1>2, ConstantsAssumption
    <3> QED BY <1>2, <3>1
  <2>2. Adds(acts[s], s, b) \/ owner[b] = s
    BY <1>3, <2>1, ListKinds DEF Paired, Backed
  <2> QED BY <1>2, <1>4, <1>5, <2>2
<1>9. Escorted'
  <2> SUFFICES ASSUME NEW o \in Observers, NEW b \in hists'[o]
               PROVE  (Coming(o, b) \/ Staying(o, b) \/ Leaving(o) \/ Gone(o))'
    BY DEF Escorted
  <2>1. CASE o \in observed
    <3>1. hists[o] = {} /\ b \in bufs[r]
      BY <1>2, <2>1 DEF Paired, UsedOnce
    <3>2. Adds(queue', r, b)
      BY <1>2, <3>1 DEF Collected
    <3> QED BY <1>2, <1>5, <2>1, <3>2 DEF Coming
  <2>2. CASE o \notin observed
    <3>1. b \in hists[o]
      BY <1>2, <2>2
    <3>2. Staying(o, b) \/ Gone(o)
      BY <1>3, <3>1, ListKinds DEF Paired, Escorted, Coming, Leaving
    <3>3. ~AddsObserver(queue', o)
      BY <1>2, <2>2, <3>1 DEF Paired, UsedOnce
    <3>4. \A s \in Requests : Removes(undos[s], o) => Removes(undos'[s], o)
      BY <1>2
    <3>5. Staying(o, b) => Staying(o, b)'
      BY <1>3, <1>5, <3>4 DEF Staying
    <3>6. Gone(o) => Gone(o)'
      BY <1>3, <3>3 DEF Gone, Holds
    <3> QED BY <3>2, <3>5, <3>6
  <2> QED BY <2>1, <2>2
<1> QED BY <1>6, <1>7, <1>8, <1>9 DEF Paired

\* A request that is undone takes the observer of a buffer back with the buffer.
LEMMA UndoPaired ==
    ASSUME Typed, Collected, Undoable, Paired, mishaps' = {}, NEW r \in Requests, Undo(r)
    PROVE  Paired'
<1>1. /\ queue = <<>> /\ queue' = undos[r] /\ undos' = [undos EXCEPT ![r] = <<>>]
      /\ UNCHANGED <<acts, owner, pool, hists, used>>
  BY DEF Undo, audioVars, addVars
<1>2. acts[r] = <<>>
  BY DEF Undo
<1>3. undos'[r] = <<>> /\ \A s \in Requests : s # r => undos'[s] = undos[s]
  BY <1>1 DEF Typed
<1>4. OnlyRemoves(queue')
  BY <1>1 DEF Undoable
<1>5. \A b \in Buffers : Removes(undos[r], b) => owner[b] = r
  BY <1>1, <1>2, ListKinds DEF Paired, Backed
<1>6. Unmixed' /\ UsedOnce'
  BY <1>1, <1>4 DEF Paired, Unmixed, UsedOnce
<1>7. Backed'
  <2> SUFFICES ASSUME NEW s \in Requests, NEW b \in Buffers, Removes(undos'[s], b)
               PROVE  \/ Adds(acts'[s], s, b) \/ Adds(queue', s, b)
                      \/ owner'[b] = s /\ ~Removes(queue', b)
    BY DEF Backed
  <2>1. s # r /\ Removes(undos[s], b)
    BY <1>3, ListKinds
  <2>2. Adds(acts[s], s, b) \/ owner[b] = s
    BY <1>1, <2>1, ListKinds DEF Paired, Backed
  <2> QED BY <1>1, <1>5, <2>1, <2>2
<1>8. Escorted'
  <2> SUFFICES ASSUME NEW o \in Observers, NEW b \in hists[o], b \in Buffers
               PROVE  (Coming(o, b) \/ Staying(o, b) \/ Leaving(o) \/ Gone(o))'
    BY <1>1 DEF Escorted, Collected
  <2>1. Staying(o, b) \/ Gone(o)
    BY <1>1, ListKinds DEF Paired, Escorted, Coming, Leaving
  <2>2. CASE Gone(o)
    BY <1>1, <1>4, <2>2, ListKinds DEF Gone, Holds
  <2>3. CASE Staying(o, b)
    <3>1. PICK s \in Requests : owner[b] = s /\ Removes(undos[s], o)
      BY <2>3 DEF Staying
    <3>2. CASE s = r
      BY <1>1, <1>4, <3>1, <3>2 DEF Leaving
    <3>3. CASE s # r
      <4>1. ~Removes(queue', b) /\ undos'[s] = undos[s] /\ owner'[b] = s
        BY <1>1, <1>3, <1>5, <3>1, <3>3
      <4> QED BY <3>1, <4>1 DEF Staying
    <3> QED BY <3>2, <3>3
  <2> QED BY <2>1, <2>2, <2>3
<1> QED BY <1>6, <1>7, <1>8 DEF Paired

\* Whatever a client does but to remove, to fail or to undo early.
LEMMA ClientPaired ==
    ASSUME Typed, Collected, Undoable, Paired, mishaps' = {}, NEW r \in Requests, Client(r)
    PROVE  Paired'
<1>1. ASSUME NEW b \in Buffers, AddBuffer(r, b)
      PROVE  Paired'
  <2>1. PICK out \in BOOLEAN : Later(r, Act("addSignal", b, r, out))
    BY <1>1 DEF AddBuffer
  <2> DEFINE a == Act("addSignal", b, r, out)
             u == Act("removeSignal", b, r, FALSE)
  <2>2. /\ a \in Kinds /\ u \in Kinds /\ a.op = "addSignal" /\ a.obj = b /\ a.req = r
        /\ u.obj = b /\ a.op \notin Removals
    BY BuiltKinds DEF Act, Removals
  <2>3. /\ Later(r, a) /\ LaterUndo(r, u) /\ UNCHANGED <<queue, owner, pool, hists, used>>
    BY <1>1, <2>1 DEF AddBuffer, audioVars, addVars
  <2> HIDE DEF a, u
  <2> QED BY <2>2, <2>3, GrowPaired
<1>2. ASSUME NEW o \in Observers, AddObserver(r, o)
      PROVE  Paired'
  <2> DEFINE a == Act("addObserver", o, r, FALSE)
             u == Act("removeObserver", o, r, FALSE)
  <2>1. /\ a \in Kinds /\ u \in Kinds /\ a.op = "addObserver" /\ a.obj = o
        /\ u.obj = o /\ a.op \notin Removals /\ o \notin Buffers
    BY BuiltKinds DEF Act, Removals
  <2>2. /\ Later(r, a) /\ LaterUndo(r, u) /\ UNCHANGED <<queue, owner, pool, hists>>
        /\ used' = used \cup {o} /\ o \notin used
    BY <1>2 DEF AddObserver, Use, audioVars, addVars
  <2> HIDE DEF a, u
  <2> QED BY <2>1, <2>2, GrowPaired
<1>3. ~\E b \in Buffers : AddBufferThrows(r, b)
  BY DEF AddBufferThrows
<1>4. ~\E x : Remove(r, x)
  BY DEF Remove
<1> QED BY <1>1, <1>2, <1>3, <1>4, ExecutePaired, UndoPaired DEF Client

\* What every action of the audio thread does to the lists.
LEMMA PopPaired ==
    ASSUME Typed, Paired, NEW a, Run(a)
    PROVE  /\ \/ OnlyAdds(queue) /\ OnlyAdds(queue') /\ a.op \notin Removals
              \/ OnlyRemoves(queue) /\ OnlyRemoves(queue') /\ a.op \in Removals
           /\ \A s, b : Adds(queue, s, b) =>
                  Adds(queue', s, b) \/ (a.op = "addSignal" /\ a.obj = b /\ a.req = s)
           /\ \A o : AddsObserver(queue', o) => AddsObserver(queue, o)
           /\ a.op = "addObserver" => AddsObserver(queue, a.obj)
           /\ \A x : Removes(queue', x) => Removes(queue, x)
           /\ \A x : Removes(queue, x) => Removes(queue', x) \/ a.obj = x
           /\ a.op \in Removals => Removes(queue, a.obj)
           /\ queue' # <<>> => queue'[Len(queue')] = queue[Len(queue)]
           /\ queue' = <<>> => a = queue[Len(queue)]
           /\ Unmixed' /\ UsedOnce' /\ UNCHANGED <<acts, undos, hists>>
<1>1. queue \in Seq(Kinds) /\ queue # <<>> /\ a = Head(queue) /\ queue' = Tail(queue)
      /\ UNCHANGED <<acts, undos, hists, used>>
  BY DEF Typed, Run, clientVars
<1>2. /\ OnlyAdds(queue) => OnlyAdds(queue') /\ a.op \notin Removals
      /\ OnlyRemoves(queue) => OnlyRemoves(queue') /\ a.op \in Removals
  BY <1>1, AddsTail, TailFacts
<1>3. Unmixed' /\ UsedOnce'
  BY <1>1, <1>2 DEF Paired, Unmixed, UsedOnce
<1>4. /\ \A s, b : Adds(queue, s, b) =>
             Adds(queue', s, b) \/ (a.op = "addSignal" /\ a.obj = b /\ a.req = s)
      /\ \A o : AddsObserver(queue', o) => AddsObserver(queue, o)
      /\ a.op = "addObserver" => AddsObserver(queue, a.obj)
      /\ \A x : Removes(queue', x) => Removes(queue, x)
      /\ a.op \in Removals => Removes(queue, a.obj)
      /\ queue' # <<>> => queue'[Len(queue')] = queue[Len(queue)]
      /\ queue' = <<>> => a = queue[Len(queue)]
  BY <1>1, AddsTail
<1>5. \A x : Removes(queue, x) => Removes(queue', x) \/ a.obj = x
  BY <1>1, TailFacts
<1>6. (OnlyAdds(queue) \/ OnlyRemoves(queue))
  BY DEF Paired, Unmixed
<1>7. \/ OnlyAdds(queue) /\ OnlyAdds(queue') /\ a.op \notin Removals
      \/ OnlyRemoves(queue) /\ OnlyRemoves(queue') /\ a.op \in Removals
  BY <1>2, <1>6, Zenon
<1>8. UNCHANGED <<acts, undos, hists>>
  BY <1>1
<1> QED BY <1>3, <1>4, <1>5, <1>7, <1>8, Zenon

\* A buffer that is added has no owner yet, and gets the request that adds it.
LEMMA AddSignalPaired ==
    ASSUME Typed, Owned, Collected, Paired, mishaps = {}, NEW a, RunAddSignal(a)
    PROVE  Paired'
<1>1. Run(a) /\ a.op = "addSignal" /\ a.obj \in Buffers /\ ~Holds(buffers, a.obj)
  BY Popped, AddIndexSlot DEF RunAddSignal, Kinds
<1>2. pool' = pool /\ owner' = [owner EXCEPT ![a.obj] = a.req] /\ DOMAIN owner = Objects
  BY DEF RunAddSignal, Joins, Owned
<1>3. \A b \in Buffers : owner'[b] = IF b = a.obj THEN a.req ELSE owner[b]
  BY <1>2 DEF Objects
<1>4. \A s \in Requests : owner[a.obj] # s
  <2>1. ~Holds(pool, a.obj)
    BY <1>1, ConstantsAssumption DEF Holds, Typed
  <2>2. ~Registered(a.obj)
    BY <1>1, <2>1 DEF Registered
  <2> QED BY <1>1, <2>2 DEF Owned, Objects
<1>5. OnlyAdds(queue') /\ ~OnlyRemoves(queue) /\ \A x : ~Removes(queue', x)
  <2>1. a.op \notin Removals
    BY <1>1 DEF Removals
  <2>2. OnlyAdds(queue')
    BY <1>1, <2>1, PopPaired, Zenon
  <2>3. ~OnlyRemoves(queue)
    BY <1>1, <2>1, TailFacts DEF Run, Typed
  <2> QED BY <2>2, <2>3, ListKinds, Zenon
<1>6. Backed'
  <2> SUFFICES ASSUME NEW s \in Requests, NEW b \in Buffers, Removes(undos'[s], b)
               PROVE  \/ Adds(acts'[s], s, b) \/ Adds(queue', s, b)
                      \/ owner'[b] = s /\ ~Removes(queue', b)
    BY DEF Backed
  <2>1. Adds(acts[s], s, b) \/ Adds(queue, s, b) \/ owner[b] = s
    BY <1>1, PopPaired DEF Paired, Backed
  <2>2. Adds(queue, s, b) => Adds(queue', s, b) \/ owner'[b] = s
    BY <1>1, <1>3, PopPaired
  <2> QED BY <1>1, <1>3, <1>4, <1>5, <2>1, <2>2, PopPaired
<1>7. Escorted'
  <2> SUFFICES ASSUME NEW o \in Observers, NEW b \in hists[o], b \in Buffers
               PROVE  (Coming(o, b) \/ Staying(o, b) \/ Leaving(o) \/ Gone(o))'
    BY <1>1, PopPaired DEF Escorted, Collected
  <2>1. Coming(o, b) \/ Staying(o, b) \/ Gone(o)
    BY <1>5 DEF Paired, Escorted, Leaving
  <2>2. CASE Coming(o, b)
    <3>1. PICK r \in Requests : Removes(undos[r], o) /\ (owner[b] = r \/ Adds(queue, r, b))
      BY <2>2 DEF Coming
    <3>2. owner'[b] = r \/ Adds(queue', r, b)
      BY <1>1, <1>3, <1>4, <3>1, PopPaired
    <3>3. queue' # <<>> /\ queue'[Len(queue')] = queue[Len(queue)]
      BY <1>1, <2>2, PopPaired DEF Coming
    <3>4. Removes(undos'[r], o)
      BY <1>1, <3>1, PopPaired
    <3> QED BY <1>5, <2>2, <3>2, <3>3, <3>4 DEF Coming
  <2>3. CASE Staying(o, b)
    <3>1. PICK r \in Requests : owner[b] = r /\ Removes(undos[r], o)
      BY <2>3 DEF Staying
    <3>2. owner'[b] = r /\ Removes(undos'[r], o)
      BY <1>1, <1>3, <1>4, <3>1, PopPaired
    <3> QED BY <1>5, <3>2 DEF Staying
  <2>4. CASE Gone(o)
    BY <1>1, <1>2, <2>4, PopPaired DEF Gone, Holds
  <2> QED BY <2>1, <2>2, <2>3, <2>4
<1> QED BY <1>1, <1>6, <1>7, PopPaired DEF Paired

\* Actions on observers, and removals that find nothing, leave the owners of
\* buffers alone.
LEMMA ObserverPaired ==
    ASSUME Typed, SlotsUnique, Collected, Paired, mishaps' = {}, NEW a,
           RunAddObserver(a) \/ RunRemoveObserver(a) \/ RunRemoveThrows(a) \/ RunRemoveSignal(a),
           DOMAIN owner = Objects
    PROVE  Paired'
<1>0. Run(a) /\ a \in Kinds /\ a.obj \in Objects /\ a.obj # None
      /\ (a.op \in {"addSignal", "removeSignal"} <=> a.obj \in Buffers)
      /\ a.op # "addSignal"
  BY Popped DEF RunAddObserver, RunRemoveObserver, RunRemoveThrows, RunRemoveSignal
<1>1. /\ pool \in [Slots -> Observers \cup {None}]
      /\ \A o \in Observers : o \notin Buffers /\ o # None
  BY ConstantsAssumption DEF Typed
<1>2. \A b \in Buffers : ~Removes(queue, b) => owner'[b] = owner[b]
  <2>1. CASE RunRemoveSignal(a)
    <3>1. owner' = [owner EXCEPT ![a.obj] = None] /\ Removes(queue, a.obj)
      BY <1>0, <2>1, PopPaired DEF RunRemoveSignal, Removals
    <3> QED BY <3>1 DEF Objects
  <2>2. CASE RunRemoveThrows(a)
    BY <2>2 DEF RunRemoveThrows, addVars
  <2>3. CASE RunAddObserver(a)
    BY <1>0, <2>3 DEF RunAddObserver, Joins, Objects
  <2>4. CASE RunRemoveObserver(a)
    BY <1>0, <2>4 DEF RunRemoveObserver, Objects
  <2> QED BY <2>1, <2>2, <2>3, <2>4
<1>3. ASSUME NEW o \in Observers, ~Holds(pool, o), a.op = "addObserver" => a.obj # o
      PROVE  ~Holds(pool', o)
  <2>1. CASE RunAddObserver(a)
    BY <1>0, <1>1, <1>3, <2>1 DEF RunAddObserver, Holds
  <2>2. CASE RunRemoveObserver(a)
    BY <1>1, <1>3, <2>2 DEF RunRemoveObserver, Holds
  <2>3. CASE RunRemoveThrows(a) \/ RunRemoveSignal(a)
    BY <1>3, <2>3 DEF RunRemoveThrows, RunRemoveSignal, Holds
  <2> QED BY <2>1, <2>2, <2>3
<1>4. ASSUME NEW o \in Observers, a.op \in Removals, a.obj = o
      PROVE  ~Holds(pool', o)
  <2>u. \A i, j \in Slots : pool[i] = o /\ pool[j] = o => i = j
    BY <1>1 DEF SlotsUnique
  <2>1. a.op = "removeObserver"
    BY <1>0, <1>1, <1>4 DEF Removals
  <2>2. CASE RunRemoveObserver(a)
    <3> DEFINE i == IndexOf(pool, o)
    <3>1. i # -1 /\ pool' = [pool EXCEPT ![i] = None]
      BY <1>4, <2>2 DEF RunRemoveObserver
    <3>2. i \in Slots /\ pool[i] = o
      BY <2>u, <3>1, IndexOfSlot
    <3> HIDE DEF i
    <3>3. \A j \in Slots : pool'[j] # o
      BY <1>1, <2>u, <3>1, <3>2
    <3> QED BY <3>3 DEF Holds
  <2>3. CASE RunRemoveThrows(a)
    <3>1. IndexOf(pool, o) = -1 /\ pool' = pool
      BY <1>4, <2>1, <2>3 DEF RunRemoveThrows
    <3>2. ~Holds(pool, o)
      BY <2>u, <3>1, IndexOfFails
    <3> QED BY <3>1, <3>2 DEF Holds
  <2>4. ~RunAddObserver(a) /\ ~RunRemoveSignal(a)
    BY <2>1 DEF RunAddObserver, RunRemoveSignal
  <2> QED BY <2>2, <2>3, <2>4
<1>5. \A s, b : Adds(queue, s, b) => Adds(queue', s, b)
  BY <1>0, PopPaired
<1>6. UNCHANGED <<acts, undos, hists>> /\ \A x : Removes(queue', x) => Removes(queue, x)
  BY <1>0, PopPaired
<1>7. Backed'
  BY <1>2, <1>5, <1>6 DEF Paired, Backed
<1>8. Escorted'
  <2> SUFFICES ASSUME NEW o \in Observers, NEW b \in hists[o], b \in Buffers
               PROVE  (Coming(o, b) \/ Staying(o, b) \/ Leaving(o) \/ Gone(o))'
    BY <1>6 DEF Escorted, Collected
  <2>1. Coming(o, b) \/ Staying(o, b) \/ Leaving(o) \/ Gone(o)
    BY DEF Paired, Escorted
  <2>2. CASE Coming(o, b)
    <3>1. PICK r \in Requests : Removes(undos[r], o) /\ (owner[b] = r \/ Adds(queue, r, b))
      BY <2>2 DEF Coming
    <3>2. OnlyAdds(queue) /\ OnlyAdds(queue') /\ \A x : ~Removes(queue, x) /\ ~Removes(queue', x)
      BY <1>0, <2>2, PopPaired, ListKinds DEF Coming, OnlyAdds
    <3>3. owner'[b] = r \/ Adds(queue', r, b)
      BY <1>2, <1>5, <3>1, <3>2
    <3>4. Removes(undos'[r], o)
      BY <1>6, <3>1
    <3>5. CASE queue' # <<>>
      <4>1. queue'[Len(queue')] = queue[Len(queue)]
        BY <1>0, <3>5, PopPaired
      <4> QED BY <2>2, <3>2, <3>3, <3>4, <3>5, <4>1 DEF Coming
    <3>6. CASE queue' = <<>>
      <4>1. owner'[b] = r
        BY <3>3, <3>6, ListKinds
      <4> QED BY <3>2, <3>4, <4>1 DEF Staying
    <3> QED BY <3>5, <3>6
  <2>3. CASE Staying(o, b)
    BY <1>2, <1>6, <2>3 DEF Staying
  <2>4. CASE Leaving(o)
    <3>1. OnlyRemoves(queue') /\ a.op \in Removals /\ (Removes(queue', o) \/ a.obj = o)
      BY <1>0, <2>4, PopPaired, ListKinds DEF Leaving
    <3>2. CASE Removes(queue', o)
      BY <3>1, <3>2 DEF Leaving
    <3>3. CASE a.obj = o
      BY <1>4, <3>1, <3>3, ListKinds DEF Gone, Holds
    <3> QED BY <3>1, <3>2, <3>3
  <2>5. CASE Gone(o)
    <3>1. ~Holds(pool', o)
      BY <1>0, <1>3, <2>5, PopPaired DEF Gone
    <3>2. ~AddsObserver(queue', o)
      BY <1>0, <2>5, PopPaired DEF Gone
    <3> QED BY <3>1, <3>2 DEF Gone, Holds
  <2> QED BY <2>1, <2>2, <2>3, <2>4, <2>5
<1> QED BY <1>0, <1>7, <1>8, PopPaired DEF Paired

\* Every step keeps observers with their buffers, as long as nothing goes wrong.
LEMMA TidyStep == IInv /\ Tidy /\ [Next]_vars => Tidy'
<1> SUFFICES ASSUME IInv, Tidy, [Next]_vars PROVE Tidy'
  OBVIOUS
<1>1. Typed /\ SlotsUnique /\ RowPorts /\ Undoable /\ Owned /\ Collected
  BY DEF IInv, Tidy
<1>2. Collected'
  BY <1>1, CollectedStep
<1> SUFFICES ASSUME mishaps' = {} PROVE Paired'
  BY <1>2 DEF Tidy, Paired
<1>3. mishaps = {}
  BY <1>1, StepCases, ClientCases DEF RowAdded, RowCleared, RowsKept, Idle
<1>4. Paired
  BY <1>3 DEF Tidy, Paired
<1>5. ASSUME NEW r \in Requests, Client(r)
      PROVE  Paired'
  BY <1>1, <1>4, <1>5, ClientPaired
<1>6. ASSUME NEW a, RunAddSignal(a)
      PROVE  Paired'
  BY <1>1, <1>3, <1>4, <1>6, AddSignalPaired
<1>7. ASSUME NEW a, \/ RunAddObserver(a) \/ RunRemoveObserver(a)
                    \/ RunRemoveThrows(a) \/ RunRemoveSignal(a)
      PROVE  Paired'
  BY <1>1, <1>4, <1>7, ObserverPaired DEF Owned
<1>8. ~\E a : RunAddSignalThrows(a)
  BY DEF RunAddSignalThrows
<1>9. CASE Block \/ UNCHANGED vars
  <2>1. UNCHANGED <<acts, undos, queue, hists, used, owner, pool>>
    BY <1>9 DEF Block, vars, clientVars, audioVars, addVars
  <2>2. Unmixed' /\ UsedOnce' /\ Backed'
    BY <1>4, <2>1 DEF Paired, Unmixed, UsedOnce, Backed
  <2>3. Escorted'
    BY <1>4, <2>1 DEF Paired, Escorted, Coming, Staying, Leaving, Gone, Holds
  <2> QED BY <2>2, <2>3 DEF Paired
<1> QED BY <1>5, <1>6, <1>7, <1>8, <1>9 DEF Next, Audio


-----------------------------------------------------------------------------
(* The guarantees *)

\* What is registered stays without duplicates, connected and in step,
\* whatever requests are built, executed and undone, in any order.
THEOREM InvCorrect == Spec => []IInv
<1>1. IInv /\ [Next]_vars => IInv'
  <2> SUFFICES ASSUME IInv, [Next]_vars PROVE IInv'
    OBVIOUS
  <2>1. /\ Typed /\ SlotsUnique /\ RowPorts /\ InStep
        /\ Directions /\ FreeCells /\ PortsOnce /\ Undoable /\ Owned
    BY DEF IInv
  <2>2. Typed' /\ SlotsUnique' /\ RowPorts' /\ InStep'
    BY <2>1, TypedStep, UniqueStep, RowPortsStep, InStepStep
  <2>3. Directions' /\ FreeCells'
    BY <2>1, DirectionsStep, FreeCellsStep
  <2>4. PortsOnce'
    BY <2>1, PortsOnceStep
  <2>5. Undoable' /\ Owned'
    BY <2>1, UndoableStep, OwnedStep
  <2> QED BY <2>2, <2>3, <2>4, <2>5 DEF IInv
<1> QED BY InvInit, <1>1, PTL DEF Spec

\* No buffer and no observer is in two slots of m_buffers or m_bufferPool.
THEOREM UniqueTheorem == Spec => []SlotsUnique
<1>1. IInv => SlotsUnique
  BY DEF IInv
<1> QED BY InvCorrect, <1>1, PTL

\* Every registered buffer and observer counts every block since the one
\* before which it was added.
THEOREM InStepTheorem == Spec => []InStep
<1>1. IInv => InStep
  BY DEF IInv
<1> QED BY InvCorrect, <1>1, PTL

\* The connections of a slot are those of the buffer in it, all of them of one
\* direction and with JACK to ports that exist, and free slots have none.
THEOREM RowsTheorem == Spec => []RowsMatch
<1>1. IInv => RowsMatch
  <2> SUFFICES ASSUME IInv, NEW i \in Slots
               PROVE  /\ buffers[i] # None =>
                            \A c \in Chans(buffers[i]) :
                               LET con == cons[getBufferPortConnection(i, c)]
                               IN  /\ con.port = PortOf(buffers[i], c)
                                   /\ con.port # None => con.port \in live
                                   /\ con.isOutput
                                        = cons[getBufferPortConnection(i, 0)].isOutput
                      /\ buffers[i] = None /\ "evicted" \notin mishaps =>
                            \A c \in 0..MaxChannels - 1 :
                               cons[getBufferPortConnection(i, c)].port = None
    BY DEF RowsMatch
  <2>1. buffers \in [Slots -> Buffers \cup {None}] /\ RowPorts /\ Directions /\ FreeCells
        /\ PortsOnce
    BY DEF IInv, Typed
  <2>2. ASSUME buffers[i] # None, NEW c \in Chans(buffers[i])
        PROVE  /\ cons[getBufferPortConnection(i, c)].port = PortOf(buffers[i], c)
               /\ PortOf(buffers[i], c) # None => PortOf(buffers[i], c) \in live
               /\ cons[getBufferPortConnection(i, c)].isOutput
                    = cons[getBufferPortConnection(i, 0)].isOutput
    <3>1. cons[getBufferPortConnection(i, c)].port = PortOf(buffers[i], c)
      BY <2>1, <2>2 DEF RowPorts
    <3>2. cons[getBufferPortConnection(i, c)].isOutput
            = cons[getBufferPortConnection(i, 0)].isOutput
      BY <2>1, <2>2 DEF Directions
    <3>3. buffers[i] \in Buffers /\ Holds(buffers, buffers[i])
      BY <2>1, <2>2 DEF Holds
    <3>4. jack => PortsOf(buffers[i]) \subseteq live
      BY <2>1, <3>3 DEF PortsOnce
    <3>5. PortOf(buffers[i], c) # None => PortOf(buffers[i], c) \in live
      BY <2>2, <3>4 DEF PortOf, PortsOf
    <3> QED BY <3>1, <3>2, <3>5
  <2>3. buffers[i] = None /\ "evicted" \notin mishaps =>
            \A c \in 0..MaxChannels - 1 : cons[getBufferPortConnection(i, c)].port = None
    BY <2>1 DEF FreeCells
  <2> QED BY <2>2, <2>3
<1> QED BY InvCorrect, <1>1, PTL

\* With JACK a buffer is new, pending, registered and gone, in this order and
\* once: whatever clients build, execute and undo, what it was given ports for
\* gets its slot, is never found there already, and never comes back.
THEOREM PassesTheorem == Spec => PassesOnce
<1>1. IInv /\ [Next]_vars =>
        [jack => \A b \in Buffers :
            Stage(b)' = Stage(b) \/ <<Stage(b), Stage(b)'>> \in Ways]_vars
  BY PassesStep DEF IInv
<1> QED BY InvCorrect, <1>1, PTL DEF Spec, PassesOnce

\* undo() takes back all that its request has added, unless it was called
\* before execute() or a slot was overwritten.
THEOREM UndoTheorem == Spec => []UndoIsComplete
<1>1. IInv => UndoIsComplete
  <2>1. \A x : ~Removes(<<>>, x)
    BY DEF Removes
  <2> QED BY <2>1 DEF IInv, Owned, UndoIsComplete
<1> QED BY InvCorrect, <1>1, PTL

\* Whatever an observer commits is being served: as long as clients only add and
\* undo, and nothing fails, no buffer is taken from under an observer, and no
\* observer comes before its buffers.
THEOREM ServedTheorem == Spec => []ObservedAreServed
<1>1. Init => Tidy
  <2> SUFFICES ASSUME Init PROVE Tidy
    OBVIOUS
  <2>1. /\ \A r \in Requests : acts[r] = <<>> /\ undos[r] = <<>> /\ bufs[r] = {}
        /\ \A o \in Observers : hists[o] = {}
        /\ queue = <<>>
        /\ bufs \in [Requests -> SUBSET Buffers] /\ hists \in [Observers -> SUBSET Buffers]
    BY DEF Init
  <2>2. Collected /\ Escorted
    BY <2>1 DEF Collected, Escorted
  <2>3. Unmixed /\ UsedOnce /\ Backed
    BY <2>1, ListKinds DEF Unmixed, UsedOnce, Backed
  <2> QED BY <2>2, <2>3 DEF Tidy
<1>2. IInv /\ Tidy => ObservedAreServed
  <2> SUFFICES ASSUME IInv, Tidy, queue = <<>>, mishaps = {},
                      NEW o \in Observers, Holds(pool, o), NEW b \in hists[o]
               PROVE  Served(b)
    BY DEF ObservedAreServed
  <2>1. b \in Buffers
    BY DEF Tidy, Collected
  <2>2. Staying(o, b)
    BY ListKinds DEF Tidy, Escorted, Coming, Leaving, Gone
  <2>3. Registered(b)
    BY <2>1, <2>2 DEF Staying, IInv, Owned, Objects
  <2>4. ~Holds(pool, b)
    BY <2>1, ConstantsAssumption DEF Holds, IInv, Typed
  <2>5. PICK i \in Slots : buffers[i] = b
    BY <2>3, <2>4 DEF Registered, Holds
  <2>6. b # None /\ NumChannels[b] - 1 \in Chans(b)
    BY <2>1, RowFits, ConstantsAssumption
  <2>7. cons[getBufferPortConnection(i, NumChannels[b] - 1)].port = PortOf(b, NumChannels[b] - 1)
    BY <2>5, <2>6 DEF IInv, RowPorts
  <2>8. jack => PortOf(b, NumChannels[b] - 1) # None
    <3>1. NumChannels[b] \in 1..MaxChannels /\ MaxChannels \in Nat
      BY <2>1, ConstantsAssumption
    <3>2. NumChannels[b] - 1 \in Nat
      BY <3>1
    <3>3. <<b, NumChannels[b] - 1>> \in Buffers \X Nat
      BY <2>1, <3>2
    <3> QED BY <3>3, ConstantsAssumption DEF PortOf
  <2> QED BY <2>5, <2>7, <2>8 DEF Served
<1>3. IInv /\ Tidy /\ IInv' /\ [Next]_vars => Tidy'
  BY TidyStep
<1> QED BY <1>1, <1>2, <1>3, InvCorrect, PTL DEF Spec

-----------------------------------------------------------------------------
(* The arrays as sets, and what they have room for *)

\* An array of pointers without duplicates.
Distinct(array) == \A i, j \in Slots : array[i] # None /\ array[i] = array[j] => i = j

\* Such an array holds as many pointers as slots are taken.
LEMMA SlotsTaken ==
    ASSUME NEW array, Distinct(array), NEW k \in Nat, k <= MaxSlots,
           \A i \in 0..k - 1 : array[i] # None
    PROVE  /\ Cardinality(InUse(array)) >= k
           /\ k = MaxSlots => Cardinality(InUse(array)) = MaxSlots
<1> DEFINE Taken == {i \in Slots : array[i] # None}
           f == [i \in Taken |-> array[i]]
<1>1. /\ MaxSlots \in Nat /\ MaxSlots - 1 \in Int /\ k - 1 \in Int /\ 0 \in Int
      /\ 0..k - 1 \subseteq Slots
  BY ConstantsAssumption DEF Slots
<1>2. IsFiniteSet(Slots) /\ Cardinality(Slots) = MaxSlots
  <2>1. /\ IsFiniteSet(0..MaxSlots - 1)
        /\ Cardinality(0..MaxSlots - 1) = IF 0 > MaxSlots - 1 THEN 0 ELSE MaxSlots - 1 - 0 + 1
    BY <1>1, FS_Interval
  <2> QED BY <2>1, ConstantsAssumption DEF Slots
<1>3. IsFiniteSet(0..k - 1) /\ Cardinality(0..k - 1) = k
  BY <1>1, FS_Interval
<1>4. Taken \in SUBSET Slots /\ 0..k - 1 \in SUBSET Taken
  BY <1>1
<1>5. IsFiniteSet(Taken) /\ Cardinality(Taken) <= MaxSlots /\ Cardinality(Taken) \in Nat
  BY <1>2, <1>4, FS_Subset, FS_CardinalityType
<1>6. k <= Cardinality(Taken)
  BY <1>3, <1>4, <1>5, FS_Subset
<1>7. f \in Bijection(Taken, InUse(array))
  <2>1. f \in [Taken -> InUse(array)]
    BY DEF InUse
  <2>2. \A i, j \in Taken : f[i] = f[j] => i = j
    BY DEF Distinct
  <2>3. \A x \in InUse(array) : \E i \in Taken : f[i] = x
    BY DEF InUse
  <2> QED BY <2>1, <2>2, <2>3 DEF Bijection, Injection, Surjection, IsInjective
<1>8. Cardinality(InUse(array)) = Cardinality(Taken)
  <2>1. ExistsBijection(Taken, InUse(array))
    BY <1>7 DEF ExistsBijection
  <2> HIDE DEF Taken
  <2> QED BY <1>5, <2>1, FS_Bijection
<1> QED BY <1>1, <1>5, <1>6, <1>8

\* Slots are taken from below.
LEMMA LowerSlotsTaken ==
    ASSUME NEW array, NEW x, AddIndex(array, x) # -1
    PROVE  /\ \A j \in Slots : j < AddIndex(array, x) => array[j] # None
           /\ array[AddIndex(array, x)] # None => \A j \in Slots : array[j] # None
<1> DEFINE i == AddIndex(array, x)
<1>1. ~Holds(array, x) /\ i \in Slots
  BY AddIndexSlot
<1>2. CASE Empty(array) = {}
  BY <1>2 DEF Empty
<1>3. CASE Empty(array) # {}
  <2>1. Empty(array) \in SUBSET Slots
    BY DEF Empty
  <2>2. \E j \in Empty(array) : \A k \in Empty(array) : j <= k
    BY <2>1, <1>3, LowestSlot
  <2>3. i \in Empty(array) /\ \A k \in Empty(array) : i <= k
    BY <2>2, <1>1, <1>3 DEF AddIndex
  <2>4. \A j \in Slots : j < i => ~(i <= j)
    BY <1>1, ConstantsAssumption DEF Slots
  <2> QED BY <2>3, <2>4 DEF Empty
<1> QED BY <1>2, <1>3

\* The rows of the first MAX_CHANNELS_PER_BUFFER slots end within the array.
LEMMA RowInside ==
    ASSUME NEW i \in Slots, NEW b \in Buffers, i < MaxChannels
    PROVE  Row(i, b) \subseteq ArrayCells
<1>1. /\ MaxSlots \in Nat /\ MaxChannels \in Nat /\ MaxChannels <= MaxSlots
      /\ i \in Nat /\ i + 1 <= MaxChannels
  BY ConstantsAssumption DEF Slots
<1>2. (MaxSlots * i) + MaxSlots <= MaxSlots * MaxChannels
  <2>1. PICK k \in Nat : MaxChannels = i + 1 + k
    <3>1. MaxChannels - i - 1 \in Nat
      BY <1>1
    <3> QED BY <3>1, <1>1
  <2>2. MaxSlots * (i + 1 + k) = (MaxSlots * i) + MaxSlots + (MaxSlots * k)
    BY <1>1
  <2>3. MaxSlots * k \in Nat /\ MaxSlots * i \in Nat
    BY <1>1
  <2> QED BY <1>1, <2>1, <2>2, <2>3
<1>3. MaxSlots * i \in Nat /\ MaxSlots * MaxChannels \in Nat
  BY <1>1
<1>4. ASSUME NEW c \in Chans(b)
      PROVE  getBufferPortConnection(i, c) \in ArrayCells
  <2>1. c \in Nat /\ c < MaxSlots
    BY <1>1, RowFits
  <2>2. (MaxSlots * i) + c \in 0..(MaxSlots * MaxChannels) - 1
    BY <1>1, <1>2, <1>3, <2>1
  <2> QED BY <2>2 DEF getBufferPortConnection, ConnectionAt, ArrayCells
<1> QED BY <1>4 DEF Row

\* Adding a pointer pushes out another only when all slots are taken.
LEMMA EvictsWhenFull ==
    ASSUME NEW array, Distinct(array), NEW x, AddIndex(array, x) # -1,
           "evicted" \in Eviction(array, AddIndex(array, x))
    PROVE  Cardinality(InUse(array)) = MaxSlots
<1>1. array[AddIndex(array, x)] # None
  BY DEF Eviction
<1>2. \A j \in Slots : array[j] # None
  BY <1>1, LowerSlotsTaken
<1>3. MaxSlots \in Nat
  BY ConstantsAssumption
<1> QED BY <1>2, <1>3, SlotsTaken DEF Slots

\* A row runs over the end only in a slot from MAX_CHANNELS_PER_BUFFER on.
LEMMA OverrunsBehind ==
    ASSUME NEW array, Distinct(array), NEW b \in Buffers, AddIndex(array, b) # -1,
           "overrun" \in Overrun(AddIndex(array, b), b)
    PROVE  Cardinality(InUse(array)) >= MaxChannels
<1> DEFINE i == AddIndex(array, b)
<1>1. i \in Slots
  BY AddIndexSlot
<1>2. /\ MaxChannels \in Nat /\ MaxChannels <= MaxSlots /\ MaxSlots \in Nat
      /\ i \in Nat /\ i <= MaxSlots - 1
  BY <1>1, ConstantsAssumption DEF Slots
<1>3. ~(Row(i, b) \subseteq ArrayCells)
  BY DEF Overrun
<1>4. MaxChannels <= i
  BY <1>1, <1>2, <1>3, RowInside
<1>5. \A j \in Slots : j < i => array[j] # None
  BY LowerSlotsTaken
<1> HIDE DEF i
<1>6. \A j \in 0..MaxChannels - 1 : j \in Slots /\ j < i
  BY <1>2, <1>4 DEF Slots
<1> QED BY <1>2, <1>5, <1>6, SlotsTaken

\* What uniqueness means for each of the two arrays.
LEMMA BothDistinct == SlotsUnique => Distinct(buffers) /\ Distinct(pool)
BY DEF SlotsUnique, Distinct

\* MAX_SIGNAL_BUFFERS buffers and observers can be registered at a time, and
\* MAX_CHANNELS_PER_BUFFER buffers of any numbers of channels are safe: removing
\* and undoing, in any order, gives back what adding has taken.
THEOREM CapacityTheorem == Spec => CapacityKept
<1>1. Typed /\ SlotsUnique /\ [Next]_vars =>
        /\ "evicted" \in mishaps' \ mishaps =>
              \/ Cardinality(InUse(buffers)) = MaxSlots
              \/ Cardinality(InUse(pool)) = MaxSlots
        /\ "overrun" \in mishaps' \ mishaps => Cardinality(InUse(buffers)) >= MaxChannels
  <2> SUFFICES ASSUME Typed, SlotsUnique, [Next]_vars
               PROVE  /\ "evicted" \in mishaps' \ mishaps =>
                            \/ Cardinality(InUse(buffers)) = MaxSlots
                            \/ Cardinality(InUse(pool)) = MaxSlots
                      /\ "overrun" \in mishaps' \ mishaps =>
                            Cardinality(InUse(buffers)) >= MaxChannels
    OBVIOUS
  <2> DEFINE Harmless == "evicted" \notin mishaps' \ mishaps /\ "overrun" \notin mishaps' \ mishaps
  <2>d. Distinct(buffers) /\ Distinct(pool)
    BY BothDistinct
  <2>1. ASSUME NEW r \in Requests, Client(r)
        PROVE  Harmless
    BY <2>1 DEF Client, AddBuffer, AddBufferThrows, AddObserver, Remove, Execute,
                ExecuteAndObserve, Undo, Use
  <2>2. ASSUME NEW a, \/ RunAddSignalThrows(a) \/ RunRemoveSignal(a)
                      \/ RunRemoveObserver(a) \/ RunRemoveThrows(a)
        PROVE  Harmless
    BY <2>2 DEF RunAddSignalThrows, RunRemoveSignal, RunRemoveObserver, RunRemoveThrows
  <2>3. CASE Block \/ UNCHANGED vars
    BY <2>3 DEF Block, vars
  <2>4. ASSUME NEW a, RunAddSignal(a)
        PROVE  /\ "evicted" \in mishaps' \ mishaps => Cardinality(InUse(buffers)) = MaxSlots
               /\ "overrun" \in mishaps' \ mishaps => Cardinality(InUse(buffers)) >= MaxChannels
    <3>1. a.obj \in Buffers
      BY <2>4, Popped DEF RunAddSignal
    <3>2. /\ AddIndex(buffers, a.obj) # -1
          /\ mishaps' = mishaps \cup Eviction(buffers, AddIndex(buffers, a.obj))
                                \cup Overrun(AddIndex(buffers, a.obj), a.obj)
      BY <2>4 DEF RunAddSignal
    <3>3. /\ "overrun" \notin Eviction(buffers, AddIndex(buffers, a.obj))
          /\ "evicted" \notin Overrun(AddIndex(buffers, a.obj), a.obj)
      BY DEF Eviction, Overrun
    <3> QED BY <2>d, <3>1, <3>2, <3>3, EvictsWhenFull, OverrunsBehind
  <2>5. ASSUME NEW a, RunAddObserver(a)
        PROVE  /\ "evicted" \in mishaps' \ mishaps => Cardinality(InUse(pool)) = MaxSlots
               /\ "overrun" \notin mishaps' \ mishaps
    <3>1. \/ UNCHANGED mishaps
          \/ /\ AddIndex(pool, a.obj) # -1
             /\ mishaps' = mishaps \cup Eviction(pool, AddIndex(pool, a.obj))
      BY <2>5 DEF RunAddObserver
    <3>2. "overrun" \notin Eviction(pool, AddIndex(pool, a.obj))
      BY DEF Eviction
    <3> QED BY <2>d, <3>1, <3>2, EvictsWhenFull
  <2> QED BY <2>1, <2>2, <2>3, <2>4, <2>5 DEF Next, Audio
<1>2. IInv => Typed /\ SlotsUnique
  BY DEF IInv
<1> QED BY <1>1, <1>2, InvCorrect, PTL DEF Spec, CapacityKept

\* Filling the slot found for a pointer adds it and nothing else, unless all are
\* taken.
LEMMA SlotFilled ==
    ASSUME NEW X, NEW array \in [Slots -> X], NEW x, x # None, AddIndex(array, x) # -1,
           Distinct(array)
    PROVE  \/ Cardinality(InUse(array)) = MaxSlots
           \/ InUse([array EXCEPT ![AddIndex(array, x)] = x]) = InUse(array) \cup {x}
<1> DEFINE i == AddIndex(array, x)
<1>1. i \in Slots
  BY AddIndexSlot
<1>2. CASE array[i] # None
  <2>1. \A j \in Slots : array[j] # None
    BY <1>2, LowerSlotsTaken
  <2>2. MaxSlots \in Nat
    BY ConstantsAssumption
  <2> QED BY <2>1, <2>2, SlotsTaken DEF Slots
<1>3. CASE array[i] = None
  <2> HIDE DEF i
  <2>1. InUse([array EXCEPT ![i] = x]) = InUse(array) \cup {x}
    BY <1>1, <1>3 DEF InUse
  <2> QED BY <2>1 DEF i
<1> QED BY <1>2, <1>3

\* Clearing the slot of a pointer takes it away for good.
LEMMA SlotCleared ==
    ASSUME NEW X, NEW array \in [Slots -> X], NEW x, x # None, IndexOf(array, x) # -1,
           Distinct(array)
    PROVE  InUse([array EXCEPT ![IndexOf(array, x)] = None]) = InUse(array) \ {x}
<1> DEFINE i == IndexOf(array, x)
<1>1. i \in Slots /\ array[i] = x
  BY IndexOfSlot DEF Distinct
<1> HIDE DEF i
<1>2. \A j \in Slots : array[j] = x => j = i
  BY <1>1 DEF Distinct
<1>3. InUse([array EXCEPT ![i] = None]) = InUse(array) \ {x}
  BY <1>1, <1>2 DEF InUse
<1> QED BY <1>3 DEF i

\* What is there already, or is not there, makes no difference.
LEMMA SlotsKept ==
    ASSUME NEW array, NEW x, x # None
    PROVE  /\ AddIndex(array, x) = -1 => InUse(array) = InUse(array) \cup {x}
           /\ IndexOf(array, x) = -1 /\ Distinct(array) => InUse(array) = InUse(array) \ {x}
<1>1. ASSUME AddIndex(array, x) = -1
      PROVE  InUse(array) = InUse(array) \cup {x}
  <2>1. \E i \in Slots : array[i] = x
    BY <1>1, AddIndexFails DEF Holds
  <2> QED BY <2>1 DEF InUse
<1>2. ASSUME IndexOf(array, x) = -1, Distinct(array)
      PROVE  InUse(array) = InUse(array) \ {x}
  <2>1. \A i \in Slots : array[i] # x
    BY <1>2, IndexOfFails DEF Distinct, Holds
  <2> QED BY <2>1 DEF InUse
<1> QED BY <1>1, <1>2

\* The audio thread serves what the actions it has run so far add up to: no slot
\* is forgotten, and no pointer stays behind in a second slot.
THEOREM SetTheorem == Spec => ServesAsSets
<1> DEFINE AsSets(a) ==
              /\ a.op = "addSignal" => Admits(buffers, a.obj)
              /\ a.op = "removeSignal" => InUse(buffers)' = InUse(buffers) \ {a.obj}
              /\ a.op = "addObserver" => Admits(pool, a.obj)
              /\ a.op = "removeObserver" => InUse(pool)' = InUse(pool) \ {a.obj}
              /\ a.op \notin {"addSignal", "removeSignal"} => UNCHANGED InUse(buffers)
              /\ a.op \notin {"addObserver", "removeObserver"} => UNCHANGED InUse(pool)
<1>1. ASSUME Typed, SlotsUnique, [Next]_vars, NEW a \in Actions, Run(a)
      PROVE  AsSets(a)
  <2>1. /\ a.obj # None /\ a = Head(queue) /\ queue # <<>>
        /\ a.op \in {"addSignal", "addObserver", "removeSignal", "removeObserver"}
    BY <1>1, Popped DEF Run, Actions
  <2>2. /\ buffers \in [Slots -> Buffers \cup {None}] /\ Distinct(buffers)
        /\ pool \in [Slots -> Observers \cup {None}] /\ Distinct(pool)
    BY <1>1, BothDistinct DEF Typed
  <2>3. CASE RunAddSignal(a)
    <3>1. /\ a.op = "addSignal" /\ UNCHANGED pool /\ AddIndex(buffers, a.obj) # -1
          /\ buffers' = [buffers EXCEPT ![AddIndex(buffers, a.obj)] = a.obj]
      BY <2>3 DEF RunAddSignal
    <3>2. Admits(buffers, a.obj)
      BY <2>1, <2>2, <3>1, SlotFilled DEF Admits
    <3>3. InUse(pool)' = InUse(pool)
      BY <3>1 DEF InUse
    <3> QED BY <3>1, <3>2, <3>3
  <2>4. CASE RunAddObserver(a)
    <3>1. a.op = "addObserver" /\ UNCHANGED buffers
      BY <2>4 DEF RunAddObserver
    <3>2. CASE AddIndex(pool, a.obj) = -1
      <4>1. UNCHANGED pool
        BY <2>4, <3>2 DEF RunAddObserver
      <4>2. InUse(pool)' = InUse(pool)
        BY <4>1 DEF InUse
      <4>3. InUse(buffers)' = InUse(buffers)
        BY <3>1 DEF InUse
      <4>4. InUse(pool) = InUse(pool) \cup {a.obj}
        BY <2>1, <3>2, SlotsKept
      <4>5. Admits(pool, a.obj)
        BY <4>2, <4>4 DEF Admits
      <4> QED BY <3>1, <4>3, <4>5
    <3>3. CASE AddIndex(pool, a.obj) # -1
      <4>1. pool' = [pool EXCEPT ![AddIndex(pool, a.obj)] = a.obj]
        BY <2>4, <3>3 DEF RunAddObserver
      <4>2. Admits(pool, a.obj)
        BY <2>1, <2>2, <3>3, <4>1, SlotFilled DEF Admits
      <4>3. InUse(buffers)' = InUse(buffers)
        BY <3>1 DEF InUse
      <4> QED BY <3>1, <4>2, <4>3
    <3> QED BY <3>2, <3>3
  <2>5. CASE RunRemoveSignal(a)
    <3>1. /\ a.op = "removeSignal" /\ UNCHANGED pool /\ IndexOf(buffers, a.obj) # -1
          /\ buffers' = [buffers EXCEPT ![IndexOf(buffers, a.obj)] = None]
      BY <2>5 DEF RunRemoveSignal
    <3>2. InUse(buffers)' = InUse(buffers) \ {a.obj}
      BY <2>1, <2>2, <3>1, SlotCleared
    <3>3. InUse(pool)' = InUse(pool)
      BY <3>1 DEF InUse
    <3> QED BY <3>1, <3>2, <3>3
  <2>6. CASE RunRemoveObserver(a)
    <3>1. /\ a.op = "removeObserver" /\ UNCHANGED buffers /\ IndexOf(pool, a.obj) # -1
          /\ pool' = [pool EXCEPT ![IndexOf(pool, a.obj)] = None]
      BY <2>6 DEF RunRemoveObserver
    <3>2. InUse(pool)' = InUse(pool) \ {a.obj}
      BY <2>1, <2>2, <3>1, SlotCleared
    <3>3. InUse(buffers)' = InUse(buffers)
      BY <3>1 DEF InUse
    <3> QED BY <3>1, <3>2, <3>3
  <2>7. CASE RunAddSignalThrows(a) \/ RunRemoveThrows(a)
    <3>1. /\ UNCHANGED <<buffers, pool>>
          /\ \/ a.op = "addSignal" /\ AddIndex(buffers, a.obj) = -1
             \/ a.op = "removeSignal" /\ IndexOf(buffers, a.obj) = -1
             \/ a.op = "removeObserver" /\ IndexOf(pool, a.obj) = -1
      BY <2>7 DEF RunAddSignalThrows, RunRemoveThrows
    <3>2. InUse(buffers)' = InUse(buffers) /\ InUse(pool)' = InUse(pool)
      BY <3>1 DEF InUse
    <3> QED BY <2>1, <2>2, <3>1, <3>2, SlotsKept DEF Admits
  <2>8. \/ RunAddSignal(a) \/ RunAddSignalThrows(a) \/ RunAddObserver(a)
        \/ RunRemoveSignal(a) \/ RunRemoveObserver(a) \/ RunRemoveThrows(a)
    <3>1. queue' = Tail(queue) /\ queue' # queue /\ UNCHANGED clientVars
      <4>1. queue \in Seq(Kinds) /\ Len(Tail(queue)) = Len(queue) - 1 /\ Len(queue) \in Nat
        BY <1>1, <2>1 DEF Typed
      <4>2. Tail(queue) # queue
        BY <4>1
      <4> QED BY <1>1, <4>2 DEF Run
    <3>2. ~Block /\ ~UNCHANGED vars
      BY <3>1 DEF Block, vars
    <3>3. \A r \in Requests : ~Client(r)
      BY <2>1, <3>1
      DEF Client, AddBuffer, AddBufferThrows, AddObserver, Remove, Execute,
          ExecuteAndObserve, Undo, Call, clientVars
    <3>4. \A b : (\/ RunAddSignal(b) \/ RunAddSignalThrows(b) \/ RunAddObserver(b)
                  \/ RunRemoveSignal(b) \/ RunRemoveObserver(b) \/ RunRemoveThrows(b)) => a = b
      BY <2>1 DEF RunAddSignal, RunAddSignalThrows, RunAddObserver, RunRemoveSignal,
                  RunRemoveObserver, RunRemoveThrows, Run
    <3> QED BY <1>1, <3>2, <3>3, <3>4 DEF Next, Audio
  <2> QED BY <2>3, <2>4, <2>5, <2>6, <2>7, <2>8
<1>2. IInv /\ [Next]_vars => \A a \in Actions : Run(a) => AsSets(a)
  BY <1>1 DEF IInv
<1> QED BY <1>2, InvCorrect, PTL DEF Spec, ServesAsSets
=============================================================================
