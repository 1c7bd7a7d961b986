------------------------------ MODULE Registry ------------------------------
(***************************************************************************)
(* Which buffers and observers a driver serves: the bare arrays m_buffers, *)
(* m_bufferPool and m_bufferPortConnections of AudioDriverBase, the        *)
(* Requests that clients build, and what their actions do to the arrays    *)
(* when the audio thread runs them before a block.                         *)
(*                                                                         *)
(* How the actions of a request reach the audio thread is the subject of   *)
(* ActionQueue: what it implements, AtomicRequests, is what is used here.  *)
(* One request is handed over at a time, and no block is processed before  *)
(* the queue is empty again.  When an observer commits is the subject of   *)
(* ObserverCommit.                                                         *)
(*                                                                         *)
(* With JACK every channel has a port, made by addBuffer() in the client   *)
(* thread under a name that must not be in use.  removeSignal() calls      *)
(* signalPortDestroy() for it, an empty virtual that no driver overrides:  *)
(* the port exists, and its name is in use, until the client is closed.    *)
(* With ALSA signalPortNew() returns a null pointer.                       *)
(* All buffers have the same size, so that SignalBufferObserver::add()     *)
(* only refuses an empty vector.                                           *)
(***************************************************************************)
EXTENDS Integers, Sequences

CONSTANTS Buffers,       \* SignalBuffers
          Observers,     \* SignalBufferObservers
          Requests,      \* Request objects
          None,          \* a null pointer
          NumChannels,   \* NumChannels[b]: channels of buffer b
          MaxSlots,      \* MAX_SIGNAL_BUFFERS
          MaxChannels,   \* MAX_CHANNELS_PER_BUFFER
          MaxCalls,      \* bound: calls that add to a Request
          MaxBlocks      \* bound: blocks processed

ASSUME ConstantsAssumption ==
    /\ Buffers \cap Observers = {}
    /\ None \notin Buffers \cup Observers \cup Requests \cup (Buffers \X Nat)
    /\ MaxSlots \in Nat \ {0} /\ MaxChannels \in 1..MaxSlots
    /\ NumChannels \in [Buffers -> 1..MaxChannels]
    /\ MaxCalls \in Nat /\ MaxBlocks \in Nat

VARIABLES jack,     \* the driver is JACK's, not ALSA's
          buffers,  \* m_buffers
          pool,     \* m_bufferPool
          cons,     \* m_bufferPortConnections
          live,     \* the ports that have been made; none is ever destroyed
          acts,     \* acts[r]: actions of Request r
          undos,    \* undos[r]: undoActions of Request r
          bufs,     \* bufs[r]: buffers of Request r
          hists,    \* hists[o]: m_hists of observer o, as a set
          used,     \* observers that have been added to a Request
          calls,    \* calls that have added to a Request
          queue,    \* m_actionQueue
          age,      \* blocks that moved the iterator of a buffer since its
                    \* reset, blocks that an observer saw since it was added
          owner,    \* owner[x]: the Request that added x, None if x was removed
          joined,   \* joined[x]: blocks that were processed before that
          blocks,   \* blocks processed
          mishaps   \* what has gone wrong so far (history)

clientVars == <<acts, undos, bufs, hists, used, calls>>
addVars == <<age, owner, joined>>
audioVars == <<buffers, pool, cons, addVars, blocks>>
vars == <<jack, clientVars, live, queue, audioVars, mishaps>>

Slots == 0..MaxSlots - 1
Chans(b) == 0..NumChannels[b] - 1

\* &m_bufferPortConnections[MAX_SIGNAL_BUFFERS * bufferId + channel]
ConnectionAt(i, c) == (MaxSlots * i) + c

\* Faulty variant: rows one entry apart.
ConnectionPacked(i, c) == i + c

getBufferPortConnection(i, c) == ConnectionAt(i, c)

ArrayCells == 0..(MaxSlots * MaxChannels) - 1
AllCells == {ConnectionAt(i, c) : i \in Slots, c \in 0..MaxChannels - 1} \cup ArrayCells

NoConnection == [port |-> None, isOutput |-> FALSE]

\* JACK names a port after its buffer and channel.
PortOf(b, c) == IF jack THEN <<b, c>> ELSE None
PortsOf(b) == {<<b, c>> : c \in Chans(b)}

Init ==
    /\ jack \in BOOLEAN
    /\ buffers = [i \in Slots |-> None]
    /\ pool = [i \in Slots |-> None]
    /\ cons = [i \in AllCells |-> NoConnection]
    /\ live = {}
    /\ acts = [r \in Requests |-> <<>>]
    /\ undos = [r \in Requests |-> <<>>]
    /\ bufs = [r \in Requests |-> {}]
    /\ hists = [o \in Observers |-> {}]
    /\ used = {}
    /\ calls = 0
    /\ queue = <<>>
    /\ age = [x \in Buffers \cup Observers |-> 0]
    /\ owner = [x \in Buffers \cup Observers |-> None]
    /\ joined = [x \in Buffers \cup Observers |-> 0]
    /\ blocks = 0
    /\ mishaps = {}

-----------------------------------------------------------------------------
(* Building a Request *)

Act(op, x, r, out) == [op |-> op, obj |-> x, req |-> r, isOutput |-> out]

Call ==
    /\ calls < MaxCalls
    /\ calls' = calls + 1

Later(r, a) == acts' = [acts EXCEPT ![r] = Append(@, a)]
LaterUndo(r, a) == undos' = [undos EXCEPT ![r] = Append(@, a)]

\* Faulty variant: the request forgets how to undo this.
AddBufferNoUndo(r, b) ==
    /\ Call
    /\ jack => PortsOf(b) \cap live = {}
    /\ live' = IF jack THEN live \cup PortsOf(b) ELSE live
    /\ \E out \in BOOLEAN : Later(r, Act("addSignal", b, r, out))
    /\ bufs' = [bufs EXCEPT ![r] = @ \cup {b}]
    /\ UNCHANGED <<jack, undos, hists, used, queue, audioVars, mishaps>>

\* Faulty variant: a port that could not be made is not missed.
AddBufferAnyway(r, b) ==
    /\ Call
    /\ live' = IF jack THEN live \cup PortsOf(b) ELSE live
    /\ \E out \in BOOLEAN : Later(r, Act("addSignal", b, r, out))
    /\ LaterUndo(r, Act("removeSignal", b, r, FALSE))
    /\ bufs' = [bufs EXCEPT ![r] = @ \cup {b}]
    /\ UNCHANGED <<jack, hists, used, queue, audioVars, mishaps>>

\* addBuffer(): the ports are made at once, the rest is for later.
AddBuffer(r, b) ==
    /\ Call
    /\ jack => PortsOf(b) \cap live = {}
    /\ live' = IF jack THEN live \cup PortsOf(b) ELSE live
    /\ \E out \in BOOLEAN : Later(r, Act("addSignal", b, r, out))
    /\ LaterUndo(r, Act("removeSignal", b, r, FALSE))
    /\ bufs' = [bufs EXCEPT ![r] = @ \cup {b}]
    /\ UNCHANGED <<jack, hists, used, queue, audioVars, mishaps>>

\* signalPortNew() throws for channel c: the name is in use, or the port was
\* made and cannot be connected.
AddBufferThrows(r, b) ==
    /\ jack
    /\ Call
    /\ \E c \in Chans(b) :
          /\ \A k \in Chans(b) : k < c => <<b, k>> \notin live
          /\ live' = live \cup {<<b, k>> : k \in 0..c}
          /\ mishaps' = mishaps \cup {"failed"}
    /\ UNCHANGED <<jack, acts, undos, bufs, hists, used, queue, audioVars>>

\* An observer that is used again keeps the buffers it has.
Use(o) ==
    /\ used' = used \cup {o}
    /\ mishaps' = mishaps \cup (IF o \in used THEN {"reobserved"} ELSE {})

AddObserver(r, o) ==
    /\ Call
    /\ Later(r, Act("addObserver", o, r, FALSE))
    /\ LaterUndo(r, Act("removeObserver", o, r, FALSE))
    /\ Use(o)
    /\ UNCHANGED <<jack, bufs, hists, live, queue, audioVars>>

Remove(r, x) ==
    /\ Call
    /\ Later(r, Act(IF x \in Buffers THEN "removeSignal" ELSE "removeObserver", x, r, FALSE))
    /\ mishaps' = mishaps \cup {"removed"}
    /\ UNCHANGED <<jack, undos, bufs, hists, used, live, queue, audioVars>>

-----------------------------------------------------------------------------
(* Handing it over *)

Execute(r) ==
    /\ queue = <<>> /\ acts[r] # <<>>
    /\ queue' = acts[r]
    /\ acts' = [acts EXCEPT ![r] = <<>>]
    /\ bufs' = [bufs EXCEPT ![r] = {}]
    /\ UNCHANGED <<jack, undos, hists, used, calls, live, audioVars, mishaps>>

\* executeAndObserve(): observer->add(buffers), which throws if there are none,
\* addObserver(), execute().
ExecuteAndObserve(r, o) ==
    /\ queue = <<>> /\ bufs[r] # {}
    /\ Call
    /\ hists' = [hists EXCEPT ![o] = @ \cup bufs[r]]
    /\ queue' = Append(acts[r], Act("addObserver", o, r, FALSE))
    /\ acts' = [acts EXCEPT ![r] = <<>>]
    /\ LaterUndo(r, Act("removeObserver", o, r, FALSE))
    /\ bufs' = [bufs EXCEPT ![r] = {}]
    /\ Use(o)
    /\ UNCHANGED <<jack, live, audioVars>>

Undo(r) ==
    /\ queue = <<>> /\ undos[r] # <<>>
    /\ queue' = undos[r]
    /\ undos' = [undos EXCEPT ![r] = <<>>]
    /\ bufs' = [bufs EXCEPT ![r] = {}]
    /\ mishaps' = mishaps \cup (IF acts[r] = <<>> THEN {} ELSE {"early undo"})
    /\ UNCHANGED <<jack, acts, hists, used, calls, live, audioVars>>

-----------------------------------------------------------------------------
(* The arrays *)

Holds(array, x) == \E i \in Slots : array[i] = x
Empty(array) == {i \in Slots : array[i] = None}

\* Faulty variant: a pointer may be added twice.
AddIndexAnyway(array, x) ==
    IF Empty(array) = {} THEN 0
    ELSE CHOOSE i \in Empty(array) : \A j \in Empty(array) : i <= j

\* _uniquePtrArrayAdd(): the lowest empty slot, slot 0 if there is none, -1 if
\* the pointer is there already.
AddIndex(array, x) ==
    IF Holds(array, x) THEN -1
    ELSE IF Empty(array) = {} THEN 0
    ELSE CHOOSE i \in Empty(array) : \A j \in Empty(array) : i <= j

\* _uniquePtrArrayIndexOf()
IndexOf(array, x) ==
    IF ~Holds(array, x) THEN -1
    ELSE CHOOSE i \in Slots : array[i] = x /\ \A j \in Slots : array[j] = x => j <= i

Row(i, b) == {getBufferPortConnection(i, c) : c \in Chans(b)}

\* What overwriting slot i of an array costs.
Eviction(array, i) == IF array[i] = None THEN {} ELSE {"evicted"}
Overrun(i, b) == IF Row(i, b) \subseteq ArrayCells THEN {} ELSE {"overrun"}

\* The channel whose connection is at a cell of row i.
ChannelAt(i, b, cell) == CHOOSE c \in Chans(b) : getBufferPortConnection(i, c) = cell

-----------------------------------------------------------------------------
(* The audio thread *)

\* The action a runs and is popped, whether or not it throws.
Run(a) ==
    /\ queue # <<>> /\ a = Head(queue)
    /\ queue' = Tail(queue)
    /\ UNCHANGED <<jack, clientVars, blocks>>

Joins(a) ==
    /\ owner' = [owner EXCEPT ![a.obj] = a.req]
    /\ joined' = [joined EXCEPT ![a.obj] = blocks]

\* Faulty variant: the iterator stays where an earlier use has left it.
RunAddSignalNoReset(a) ==
    /\ Run(a) /\ a.op = "addSignal"
    /\ LET i == AddIndex(buffers, a.obj)
       IN  /\ i # -1
           /\ buffers' = [buffers EXCEPT ![i] = a.obj]
           /\ cons' = [cell \in AllCells |->
                          IF cell \in Row(i, a.obj)
                          THEN [port |-> PortOf(a.obj, ChannelAt(i, a.obj, cell)),
                                isOutput |-> a.isOutput]
                          ELSE cons[cell]]
           /\ Joins(a)
           /\ mishaps' = mishaps \cup Eviction(buffers, i) \cup Overrun(i, a.obj)
    /\ UNCHANGED <<pool, live, age>>

\* addSignal()
RunAddSignal(a) ==
    /\ Run(a) /\ a.op = "addSignal"
    /\ LET i == AddIndex(buffers, a.obj)
       IN  /\ i # -1
           /\ buffers' = [buffers EXCEPT ![i] = a.obj]
           /\ cons' = [cell \in AllCells |->
                          IF cell \in Row(i, a.obj)
                          THEN [port |-> PortOf(a.obj, ChannelAt(i, a.obj, cell)),
                                isOutput |-> a.isOutput]
                          ELSE cons[cell]]
           /\ Joins(a)
           /\ age' = [age EXCEPT ![a.obj] = 0]
           /\ mishaps' = mishaps \cup Eviction(buffers, i) \cup Overrun(i, a.obj)
    /\ UNCHANGED <<pool, live>>

\* "Signal buffer already added!"
RunAddSignalThrows(a) ==
    /\ Run(a) /\ a.op = "addSignal"
    /\ AddIndex(buffers, a.obj) = -1
    /\ mishaps' = mishaps \cup {"duplicate"}
    /\ UNCHANGED <<buffers, pool, cons, addVars, live>>

\* addObserver(): an observer that is there already only gets its lastUpdate
\* reset.
RunAddObserver(a) ==
    /\ Run(a) /\ a.op = "addObserver"
    /\ LET i == AddIndex(pool, a.obj)
       IN  IF i = -1 THEN UNCHANGED <<pool, mishaps>>
           ELSE /\ pool' = [pool EXCEPT ![i] = a.obj]
                /\ mishaps' = mishaps \cup Eviction(pool, i)
    /\ age' = [age EXCEPT ![a.obj] = 0]
    /\ Joins(a)
    /\ UNCHANGED <<buffers, cons, live>>

\* Faulty variant: the connections of the slot are not cleared.
RunRemoveSignalKeepsPorts(a) ==
    /\ Run(a) /\ a.op = "removeSignal"
    /\ LET i == IndexOf(buffers, a.obj)
       IN  /\ i # -1
           /\ buffers' = [buffers EXCEPT ![i] = None]
    /\ owner' = [owner EXCEPT ![a.obj] = None]
    /\ UNCHANGED <<pool, cons, live, age, joined, mishaps>>

\* removeSignal(): the row forgets its ports, and nobody destroys them.
RunRemoveSignal(a) ==
    /\ Run(a) /\ a.op = "removeSignal"
    /\ LET i == IndexOf(buffers, a.obj)
       IN  /\ i # -1
           /\ buffers' = [buffers EXCEPT ![i] = None]
           /\ cons' = [cell \in AllCells |->
                          IF cell \in Row(i, a.obj) THEN NoConnection ELSE cons[cell]]
    /\ owner' = [owner EXCEPT ![a.obj] = None]
    /\ UNCHANGED <<pool, live, age, joined, mishaps>>

\* removeObserver()
RunRemoveObserver(a) ==
    /\ Run(a) /\ a.op = "removeObserver"
    /\ LET i == IndexOf(pool, a.obj)
       IN  /\ i # -1
           /\ pool' = [pool EXCEPT ![i] = None]
    /\ owner' = [owner EXCEPT ![a.obj] = None]
    /\ UNCHANGED <<buffers, cons, live, age, joined, mishaps>>

\* "Tried to remove unknown SignalBuffer", "... SignalBufferObserver"
RunRemoveThrows(a) ==
    /\ Run(a)
    /\ \/ a.op = "removeSignal" /\ IndexOf(buffers, a.obj) = -1
       \/ a.op = "removeObserver" /\ IndexOf(pool, a.obj) = -1
    /\ UNCHANGED <<buffers, pool, cons, addVars, live, mishaps>>

\* A block moves the iterator of a buffer when its last channel is served; JACK
\* leaves out a channel without a port.
Served(b) ==
    \E i \in Slots :
        /\ buffers[i] = b
        /\ jack => cons[getBufferPortConnection(i, NumChannels[b] - 1)].port # None

Block ==
    /\ queue = <<>>
    /\ blocks < MaxBlocks
    /\ blocks' = blocks + 1
    /\ age' = [x \in DOMAIN age |->
                  IF Served(x) \/ Holds(pool, x) THEN age[x] + 1 ELSE age[x]]
    /\ UNCHANGED <<jack, clientVars, live, queue, buffers, pool, cons, owner, joined, mishaps>>

Client(r) ==
    \/ \E b \in Buffers : AddBuffer(r, b) \/ AddBufferThrows(r, b) \/ Remove(r, b)
    \/ \E o \in Observers : AddObserver(r, o) \/ Remove(r, o) \/ ExecuteAndObserve(r, o)
    \/ Execute(r)
    \/ Undo(r)

Audio ==
    \/ \E a \in {queue[i] : i \in DOMAIN queue} :
          \/ RunAddSignal(a)
          \/ RunAddSignalThrows(a)
          \/ RunAddObserver(a)
          \/ RunRemoveSignal(a)
          \/ RunRemoveObserver(a)
          \/ RunRemoveThrows(a)
    \/ Block

\* Past the end of m_bufferPortConnections the program is undefined.
Next == "overrun" \notin mishaps /\ (Audio \/ \E r \in Requests : Client(r))

Spec == Init /\ [][Next]_vars

-----------------------------------------------------------------------------
(* Properties *)

Objects == Buffers \cup Observers
Registered(x) == Holds(buffers, x) \/ Holds(pool, x)

Actions ==
    [op : {"addSignal", "addObserver", "removeSignal", "removeObserver"},
     obj : Objects, req : Requests, isOutput : BOOLEAN]

\* Every variable keeps its type.
TypeOK ==
    /\ jack \in BOOLEAN
    /\ buffers \in [Slots -> Buffers \cup {None}]
    /\ pool \in [Slots -> Observers \cup {None}]
    /\ cons \in [AllCells -> [port : {None} \cup UNION {PortsOf(b) : b \in Buffers},
                              isOutput : BOOLEAN]]
    /\ live \subseteq UNION {PortsOf(b) : b \in Buffers}
    /\ \A r \in Requests : acts[r] \in Seq(Actions) /\ undos[r] \in Seq(Actions)
    /\ bufs \in [Requests -> SUBSET Buffers]
    /\ hists \in [Observers -> SUBSET Buffers]
    /\ used \subseteq Observers
    /\ calls \in 0..MaxCalls
    /\ queue \in Seq(Actions)
    /\ age \in [Objects -> 0..MaxBlocks]
    /\ owner \in [Objects -> Requests \cup {None}]
    /\ joined \in [Objects -> 0..MaxBlocks]
    /\ blocks \in 0..MaxBlocks

\* A buffer is processed once per block and an observer commits once: no
\* pointer is in two slots, however often it is added, removed and undone.
SlotsUnique ==
    \A i, j \in Slots : i # j =>
        /\ buffers[i] # None => buffers[i] # buffers[j]
        /\ pool[i] # None => pool[i] # pool[j]

\* The row of connections of a registered buffer holds the ports made for that
\* buffer, all of one direction and, with JACK, all in existence; the rows of
\* free slots hold none.
RowsMatch ==
    \A i \in Slots :
        /\ buffers[i] # None =>
              \A c \in Chans(buffers[i]) :
                 LET con == cons[getBufferPortConnection(i, c)]
                 IN  /\ con.port = PortOf(buffers[i], c)
                     /\ con.port # None => con.port \in live
                     /\ con.isOutput = cons[getBufferPortConnection(i, 0)].isOutput
        /\ buffers[i] = None /\ "evicted" \notin mishaps =>
              \A c \in 0..MaxChannels - 1 :
                 cons[getBufferPortConnection(i, c)].port = None

\* What is added before the same block runs in step ("deterministic timing
\* mechanism", README.md:9): the iterator of a registered buffer has moved in
\* every block since then and started from 0, and an observer counts from there.
InStep == \A x \in Objects : Registered(x) => age[x] = blocks - joined[x]

\* undo() takes back all that its Request has added: nothing is left, unless
\* it was called before execute() or a slot was overwritten.
UndoIsComplete ==
    queue = <<>> /\ mishaps \cap {"evicted", "early undo"} = {} =>
        \A r \in Requests : undos[r] = <<>> => \A x \in Objects : owner[x] # r

Pending(b) ==
    \/ \E i \in DOMAIN queue : queue[i].op = "addSignal" /\ queue[i].obj = b
    \/ \E r \in Requests : \E i \in DOMAIN acts[r] :
          acts[r][i].op = "addSignal" /\ acts[r][i].obj = b

\* How far a buffer is on its way through the driver.
Stage(b) ==
    IF Registered(b) THEN "registered"
    ELSE IF Pending(b) THEN "pending"
    ELSE IF PortsOf(b) \cap live # {} THEN "left" ELSE "new"

Ways == { <<"new", "pending">>,         \* addBuffer()
          <<"new", "left">>,            \* addBuffer() that threw half-way
          <<"pending", "registered">>,
          <<"registered", "left">> }    \* removed, undone or pushed out

\* With JACK a buffer passes through the driver once.  What addBuffer() made
\* ports for gets registered, whatever is undone meanwhile and however full the
\* array is, and is never found there already; and what has left never comes
\* back, as its ports are still there and their names are in use.
PassesOnce ==
    [][jack => \A b \in Buffers :
          Stage(b)' = Stage(b) \/ <<Stage(b), Stage(b)'>> \in Ways]_vars

\* The buffers that an observer commits are being served, unless one was
\* removed by itself, an addBuffer() failed, or the observer was used before.
ObservedAreServed ==
    queue = <<>> /\ mishaps = {} =>
        \A o \in Observers : Holds(pool, o) => \A b \in hists[o] : Served(b)

=============================================================================
