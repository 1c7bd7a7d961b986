----------------------------- MODULE JackPorts -----------------------------
(***************************************************************************)
(* What AudioDriverJack does with the connections of JACK's ports:         *)
(* muteOthers() takes everything off the physical playback ports, remembers *)
(* it in m_mutedPorts and puts it back later; signalPortNew() connects a   *)
(* port of this program, and hooks in where somebody else is playing.      *)
(*                                                                         *)
(* muteOthers() holds m_mtxActionQueue; signalPortNew() runs without it.   *)
(* Other programs connect, disconnect, come and go at any time: each call  *)
(* of JACK's is a step.  How commit() waits for the audio thread is the    *)
(* subject of ActionQueue.                                                 *)
(*                                                                         *)
(* A port that signalPortNew() has made stays, with its links, until the   *)
(* client is closed: removeSignal() calls signalPortDestroy() for it, an   *)
(* empty virtual that AudioDriverJack does not override.  A call whose     *)
(* jack_port_register() fails throws before anything has changed, and is   *)
(* no step of this module.                                                 *)
(*                                                                         *)
(* JACK is external.  It refuses to disconnect what is not connected, and  *)
(* to connect what is connected or does not exist any more; then the call  *)
(* throws.  A capture port may refuse anyhow: m_portsCapture lists ports   *)
(* of any type.  Whatever a list of connections holds comes in any order.  *)
(* Others connect to playback ports only, never to the inputs made here.   *)
(***************************************************************************)
EXTENDS Integers, Sequences

CONSTANTS Others,       \* output ports of other programs
          Own,          \* the ports that this program may make
          NumPlayback,  \* m_portsPlaybacleNum
          None,         \* no port
          Capture,      \* a physical capture port
          MaxCalls,     \* bound: calls of muteOthers()
          MaxMoves      \* bound: what others do to connections

\* Connect; any other value makes an input that is connected to nothing.
Roles == {"ToCapture", "ToPlaybackSource", "ToPlayback", "invalid"}

ASSUME ConstantsAssumption ==
    /\ NumPlayback \in Nat \ {0} /\ MaxCalls \in Nat /\ MaxMoves \in Nat
    /\ Others \cap Own = {}
    /\ {None, Capture} \cap (Others \cup Own) = {} /\ None # Capture
    /\ None \notin Roles

Playbacks == 0..NumPlayback - 1
Sources == Others \cup Own

VARIABLES running,  \* ports of other programs that exist
          role,     \* role[o]: what signalPortNew() made of o, None if it does not exist
          channel,  \* channel[o]: the channel it was made for
          hook,     \* hook[o]: the source that o listens to, if it is an input
          links,    \* who plays to which playback port
          muted,    \* m_mutedPorts
          mute,     \* the argument of muteOthers()
          ci, todo, k,  \* its loops: channel, sources to disconnect, place in m_mutedPorts
          pc,       \* where muteOthers() is
          adding,   \* the port that signalPortNew() is working on
          found,    \* the source that it has found
          moves,    \* what others have done so far
          calls,    \* calls of muteOthers()
          broken,   \* links that muteOthers() broke and nobody made again (history)
          late,     \* links made in this call after it had listed the port (history)
          excused,  \* inputs whose source others took off the playback port (history)
          causes    \* what may make muteOthers() throw (history)

ports == <<running, role, channel, hook>>
muteVars == <<muted, mute, ci, todo, k, pc, calls>>
addVars == <<adding, found, moves>>
history == <<broken, late, excused, causes>>
vars == <<ports, links, muteVars, addVars, history>>

Exists(s) == s \in running \/ (s \in Own /\ role[s] = "ToPlayback")
Feeding(p) == {s \in Sources : <<s, p>> \in links}
Remembers(p, s) == \E n \in DOMAIN muted[p] : muted[p][n] = s

Init ==
    /\ running = Others
    /\ role = [o \in Own |-> None]
    /\ channel = [o \in Own |-> 0]
    /\ hook = [o \in Own |-> None]
    /\ links \in SUBSET (Others \X Playbacks)
    /\ muted = [p \in Playbacks |-> <<>>]
    /\ mute = FALSE /\ ci = 0 /\ todo = {} /\ k = 1
    /\ pc = "idle"
    /\ adding = None /\ found = None
    /\ calls = 0 /\ moves = 0
    /\ broken = {} /\ late = {} /\ excused = {} /\ causes = {}

-----------------------------------------------------------------------------
(* Links and what the history remembers of them *)

\* A link that comes up: it is nothing any more that muteOthers() owes, and a
\* remembered link that is up will not be made twice.
Linked(s, p) ==
    /\ links' = links \cup {<<s, p>>}
    /\ broken' = broken \ {<<s, p>>}
    /\ late' = IF mute THEN late \cup {<<s, p>>} ELSE late
    /\ causes' = IF Remembers(p, s) THEN causes \cup {"remade"} ELSE causes

\* Input o listens, or is about to, to the source of this link for being there.
Relies(o, l) ==
    /\ hook[o] = l[1] \/ (adding = o /\ found = l[1])
    /\ channel[o] = l[2]

\* Links that others take down; muteOthers() may be about to do so itself.
Lost(gone) ==
    /\ links' = links \ gone
    /\ late' = late \ gone
    /\ excused' = excused \cup {o \in Own : \E l \in gone : Relies(o, l)}
    /\ causes' = causes \cup
          (IF \E s \in todo : <<s, ci>> \in gone THEN {"vanished"} ELSE {})

-----------------------------------------------------------------------------
(* muteOthers() *)

Outside == pc \in {"idle", "returned", "thrown"}

\* What earlier calls and others leave for the next call to trip over.
CausesSoFar ==
    (causes \ {"vanished"}) \cup (IF "restored" \in causes THEN {"again"} ELSE {})

\* Faulty variant: the list is emptied whenever others are muted.
MuteCallForgets ==
    /\ Outside /\ calls < MaxCalls
    /\ mute' \in BOOLEAN
    /\ muted' = IF mute' THEN [p \in Playbacks |-> <<>>] ELSE muted
    /\ calls' = calls + 1
    /\ ci' = 0
    /\ pc' = "channel"
    /\ late' = {}
    /\ causes' = CausesSoFar
    /\ UNCHANGED <<ports, links, todo, k, addVars, broken, excused>>

MuteCall ==
    /\ Outside /\ calls < MaxCalls
    /\ mute' \in BOOLEAN
    /\ calls' = calls + 1
    /\ ci' = 0
    /\ pc' = "channel"
    /\ late' = {}
    /\ causes' = CausesSoFar
    /\ UNCHANGED <<ports, links, muted, todo, k, addVars, broken, excused>>

\* Faulty variant: only the first connection, as in signalPortNew().
ListedFirst(p) ==
    IF Feeding(p) = {} THEN {} ELSE {CHOOSE s \in Feeding(p) : TRUE}

Listed(p) == Feeding(p)

\* jack_port_get_all_connections()
List ==
    /\ pc = "channel" /\ ci < NumPlayback /\ mute
    /\ todo' = Listed(ci)
    /\ late' = late \ {<<s, ci>> : s \in todo'}
    /\ pc' = "disconnect"
    /\ UNCHANGED <<ports, links, muted, mute, ci, k, calls, addVars, broken, excused, causes>>

\* The link is gone and remembered.
Disconnect ==
    /\ pc = "disconnect"
    /\ \E s \in todo :
          /\ <<s, ci>> \in links
          /\ links' = links \ {<<s, ci>>}
          /\ late' = late \ {<<s, ci>>}
          /\ muted' = [muted EXCEPT ![ci] = Append(@, s)]
          /\ broken' = broken \cup {<<s, ci>>}
          /\ todo' = todo \ {s}
    /\ UNCHANGED <<ports, mute, ci, k, pc, calls, addVars, excused, causes>>

Leave(how) ==
    /\ pc' = how
    /\ ci' = 0 /\ todo' = {} /\ k' = 1
    /\ UNCHANGED <<ports, links, muted, mute, calls, addVars, history>>

Throw == Leave("thrown")

\* "Cannot disconnect playback source from playback port!"
DisconnectFails ==
    /\ pc = "disconnect"
    /\ \E s \in todo : <<s, ci>> \notin links
    /\ Throw

Disconnected ==
    /\ pc = "disconnect" /\ todo = {}
    /\ ci' = ci + 1
    /\ pc' = "channel"
    /\ UNCHANGED <<ports, links, muted, mute, todo, k, calls, addVars, history>>

Take ==
    /\ pc = "channel" /\ ci < NumPlayback /\ ~mute
    /\ k' = 1
    /\ pc' = "connect"
    /\ UNCHANGED <<ports, links, muted, mute, ci, todo, calls, addVars, history>>

\* Faulty variant: the first channel's list for all channels.
RememberedFirst(p) == muted[0]

Remembered(p) == muted[p]

Candidate == Remembered(ci)[k]
CanConnect(s, p) == Exists(s) /\ <<s, p>> \notin links

\* The link is back.  From now on the list holds one that is up: another call
\* will find it connected.
Reconnect ==
    /\ pc = "connect" /\ k <= Len(Remembered(ci))
    /\ CanConnect(Candidate, ci)
    /\ links' = links \cup {<<Candidate, ci>>}
    /\ broken' = broken \ {<<Candidate, ci>>}
    /\ k' = k + 1
    /\ causes' = causes \cup {"restored"}
    /\ UNCHANGED <<ports, muted, mute, ci, todo, pc, calls, addVars, late, excused>>

\* Faulty variant: tries until the connection can be made.
ReconnectRetries ==
    /\ FALSE
    /\ Throw

\* "Cannot re-connect playback source to playback port!"
ReconnectFails ==
    /\ pc = "connect" /\ k <= Len(Remembered(ci))
    /\ ~CanConnect(Candidate, ci)
    /\ Throw

Reconnected ==
    /\ pc = "connect" /\ k > Len(Remembered(ci))
    /\ ci' = ci + 1
    /\ pc' = "channel"
    /\ UNCHANGED <<ports, links, muted, mute, todo, k, calls, addVars, history>>

\* All channels are done; commit(), then the lock is released.
Finish ==
    /\ pc = "channel" /\ ci = NumPlayback
    /\ Leave("returned")

-----------------------------------------------------------------------------
(* signalPortNew() *)

\* jack_port_register(); the channel may be one behind the last physical port,
\* where the array ends with a null pointer.
Register ==
    /\ adding = None
    /\ \E o \in Own, c \in 0..NumPlayback :
          /\ role[o] = None
          /\ \E r \in Roles :
                role' = [role EXCEPT ![o] = r]
          /\ channel' = [channel EXCEPT ![o] = c]
          /\ adding' = o
    /\ found' = None
    /\ UNCHANGED <<running, hook, links, muteVars, moves, history>>

IsNew(r) == adding # None /\ role[adding] = r
HasPhysical == adding # None /\ channel[adding] < NumPlayback

\* The call returns the port.
Got == adding' = None /\ found' = None /\ UNCHANGED moves

\* The port stays registered, but nobody knows it.
AddThrows ==
    /\ adding' = None /\ found' = None
    /\ UNCHANGED <<ports, links, muteVars, moves, history>>

\* "Invalid port connection type."
InvalidConnection == IsNew("invalid") /\ AddThrows

Unconnected ==
    /\ adding # None /\ role[adding] # "invalid" /\ ~HasPhysical
    /\ Got
    /\ UNCHANGED <<running, role, channel, hook, links, muteVars, history>>

ConnectCapture ==
    /\ IsNew("ToCapture") /\ HasPhysical
    /\ hook' = [hook EXCEPT ![adding] = Capture]
    /\ Got
    /\ UNCHANGED <<running, role, channel, links, muteVars, history>>

\* "Cannot connect input port ... to capture"
ConnectCaptureFails ==
    /\ IsNew("ToCapture") /\ HasPhysical
    /\ AddThrows

ConnectPlayback ==
    /\ IsNew("ToPlayback") /\ HasPhysical
    /\ <<adding, channel[adding]>> \notin links
    /\ Linked(adding, channel[adding])
    /\ Got
    /\ UNCHANGED <<running, role, channel, hook, muteVars, excused>>

\* "Cannot connect to playback port!"
ConnectPlaybackFails ==
    /\ IsNew("ToPlayback") /\ HasPhysical
    /\ <<adding, channel[adding]>> \in links
    /\ AddThrows

\* Faulty variant: whoever plays on the first channel.
FindFirstChannel ==
    /\ IsNew("ToPlaybackSource") /\ HasPhysical /\ found = None
    /\ found' \in Feeding(0)
    /\ UNCHANGED <<ports, links, muteVars, adding, moves, history>>

\* "find ports connected to physical playback ports"
Find ==
    /\ IsNew("ToPlaybackSource") /\ HasPhysical /\ found = None
    /\ found' \in Feeding(channel[adding])
    /\ UNCHANGED <<ports, links, muteVars, adding, moves, history>>

\* "... does not have any source."
FindFails ==
    /\ IsNew("ToPlaybackSource") /\ HasPhysical /\ found = None
    /\ Feeding(channel[adding]) = {}
    /\ AddThrows

HookIn ==
    /\ found # None /\ Exists(found)
    /\ hook' = [hook EXCEPT ![adding] = found]
    /\ Got
    /\ UNCHANGED <<running, role, channel, links, muteVars, history>>

\* "Cannot connect input port to playback source!"
HookInFails ==
    /\ found # None /\ ~Exists(found)
    /\ AddThrows

-----------------------------------------------------------------------------
(* Other programs *)

Move == moves < MaxMoves /\ moves' = moves + 1

OtherConnects ==
    /\ Move
    /\ \E s \in Sources, p \in Playbacks : CanConnect(s, p) /\ Linked(s, p)
    /\ UNCHANGED <<ports, muteVars, adding, found, excused>>

OtherDisconnects ==
    /\ Move
    /\ \E l \in links : Lost({l})
    /\ UNCHANGED <<ports, muteVars, adding, found, broken>>

GoneFor(s) == IF \E p \in Playbacks : Remembers(p, s) THEN {"gone"} ELSE {}

OtherQuits ==
    /\ Move
    /\ \E s \in running :
          /\ running' = running \ {s}
          /\ links' = {l \in links : l[1] # s}
          /\ late' = {l \in late : l[1] # s}
          /\ excused' = (excused \ {o \in Own : hook[o] = s})
                \cup (IF found = s THEN {adding} ELSE {})
          /\ causes' = causes \cup GoneFor(s) \cup
                (IF s \in todo THEN {"vanished"} ELSE {})
          /\ hook' = [o \in Own |-> IF hook[o] = s THEN None ELSE hook[o]]
          /\ broken' = {l \in broken : l[1] # s}
    /\ UNCHANGED <<role, channel, muteVars, adding, found>>

OtherStarts ==
    /\ Move
    /\ \E s \in Others \ running : running' = running \cup {s}
    /\ UNCHANGED <<role, channel, hook, links, muteVars, adding, found, history>>

-----------------------------------------------------------------------------
Mutes ==
    \/ List \/ Disconnect \/ DisconnectFails \/ Disconnected
    \/ Take \/ Reconnect \/ ReconnectFails \/ Reconnected \/ Finish
AddFails ==
    \/ InvalidConnection \/ ConnectCaptureFails \/ ConnectPlaybackFails
    \/ FindFails \/ HookInFails
Adds == Unconnected \/ ConnectCapture \/ ConnectPlayback \/ Find \/ HookIn \/ AddFails
Interferes == OtherConnects \/ OtherDisconnects \/ OtherQuits \/ OtherStarts

Next == MuteCall \/ Mutes \/ Register \/ Adds \/ Interferes

\* A call of muteOthers() that has begun goes on; nobody has to begin one.
Spec == Init /\ [][Next]_vars /\ WF_vars(Mutes)

-----------------------------------------------------------------------------
(* Properties *)

\* Every variable keeps its type.
TypeOK ==
    /\ running \subseteq Others
    /\ role \in [Own -> Roles \cup {None}]
    /\ channel \in [Own -> 0..NumPlayback]
    /\ hook \in [Own -> Sources \cup {None, Capture}]
    /\ links \subseteq Sources \X Playbacks
    /\ muted \in [Playbacks -> Seq(Sources)]
    /\ mute \in BOOLEAN
    /\ ci \in 0..NumPlayback /\ todo \subseteq Sources /\ k \in Nat \ {0}
    /\ pc \in {"idle", "channel", "disconnect", "connect", "returned", "thrown"}
    /\ adding \in Own \cup {None} /\ found \in Sources \cup {None}
    /\ calls \in 0..MaxCalls /\ moves \in 0..MaxMoves
    /\ broken \subseteq Sources \X Playbacks /\ late \subseteq Sources \X Playbacks
    /\ excused \subseteq Own
    /\ causes \subseteq {"vanished", "remade", "gone", "restored", "again"}

\* When muteOthers(false) returns, every link that any muteOthers(true) has
\* broken, also one that threw half-way, is up again or has been since, unless
\* its source is gone: m_mutedPorts forgets none.
UnmuteRestores == pc = "returned" /\ ~mute => broken = {}

\* When muteOthers(true) returns nothing plays on a physical port but what was
\* connected while it ran, after it had listed that port's connections.
MutedIsSilent == pc = "returned" /\ mute => links \subseteq late

\* muteOthers() throws for others' doing only: a listed link that they took
\* down before it could, or a remembered one that they made again or whose
\* source is gone -- until the first restoration: m_mutedPorts is never
\* emptied, and from then on the program's own calls are enough.
ThrowsForCause ==
    pc = "thrown" =>
        IF mute THEN "vanished" \in causes
                ELSE causes \cap {"remade", "gone", "again"} # {}

\* An input that was hooked in behind a playback port listens to somebody who
\* plays there, or will when unmuted, unless others have taken that down, even
\* if muteOthers() runs between finding the source and connecting to it.
HookFollowsPlayback ==
    \A o \in Own : hook[o] \in Sources =>
        \/ <<hook[o], channel[o]>> \in links
        \/ Remembers(channel[o], hook[o])
        \/ o \in excused

\* However much others connect and disconnect meanwhile, muteOthers() works on
\* what it has listed and comes to an end.
MuteEnds == ~Outside ~> Outside

=============================================================================
