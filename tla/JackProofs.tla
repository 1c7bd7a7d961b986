----------------------------- MODULE JackProofs -----------------------------
(***************************************************************************)
(* Proofs about JackPorts, for any number of ports, programs and calls.    *)
(***************************************************************************)
EXTENDS JackPorts, TLAPS

-----------------------------------------------------------------------------
(* The inductive invariant *)

\* Where muteOthers() can be with which argument.
Loops ==
    /\ pc \in {"disconnect", "connect"} => ci < NumPlayback
    /\ pc = "disconnect" => mute
    /\ pc = "connect" => ~mute
    /\ pc # "disconnect" => todo = {}

\* What a port is while signalPortNew() works on it, and before and after.
Ports ==
    /\ adding # None => role[adding] # None
    /\ found # None => adding # None /\ channel[adding] \in Playbacks
    /\ \A o \in Own : hook[o] \in Sources =>
          role[o] # None /\ channel[o] \in Playbacks /\ o # adding

\* Who is linked exists.
LinkedExist == \A s \in Sources, p \in Playbacks : <<s, p>> \in links => Exists(s)

\* What is owed is remembered, and what is behind the loops of muteOthers(false)
\* is owed no more.
Owed ==
    \A s \in Sources, p \in Playbacks : <<s, p>> \in broken =>
        /\ Remembers(p, s)
        /\ ~mute => /\ pc \in {"channel", "connect"} => p >= ci
                    /\ pc = "connect" /\ p = ci =>
                          \E n \in DOMAIN muted[p] : n >= k /\ muted[p][n] = s
                    /\ pc # "returned"

\* What is linked behind the loops of muteOthers(true) was linked late.
Silenced ==
    mute => \A s \in Sources, p \in Playbacks : <<s, p>> \in links =>
        \/ <<s, p>> \in late
        \/ pc \in {"channel", "disconnect"} /\ p > ci
        \/ pc = "channel" /\ p = ci
        \/ pc = "disconnect" /\ p = ci /\ s \in todo
        \/ pc \in {"idle", "thrown"}

\* What is to be disconnected is connected, unless others were faster.
ListIsFresh ==
    /\ \A s \in todo : <<s, ci>> \in links \/ "vanished" \in causes
    /\ pc = "thrown" /\ mute => "vanished" \in causes

\* The place in m_mutedPorts has not been passed by muteOthers(false).
Ahead(p, n) ==
    \/ "restored" \notin causes
    \/ pc \in {"channel", "connect"} /\ p > ci
    \/ pc = "channel" /\ p = ci
    \/ pc = "connect" /\ p = ci /\ n >= k

\* Without cause the list is without duplicates, its sources exist and those
\* not passed yet are not linked.
ListIsTrue ==
    causes \cap {"remade", "gone", "again"} = {} =>
        /\ \A p \in Playbacks : \A n \in DOMAIN muted[p] :
              /\ Exists(muted[p][n])
              /\ Ahead(p, n) => <<muted[p][n], p>> \notin links
              /\ \A m \in DOMAIN muted[p] : muted[p][m] = muted[p][n] => m = n
        /\ "restored" \in causes => ~mute
        /\ pc = "thrown" => mute

\* The source that signalPortNew() has found is no worse than one hooked to.
FoundFollowsPlayback ==
    found # None =>
        \/ <<found, channel[adding]>> \in links
        \/ Remembers(channel[adding], found)
        \/ adding \in excused

\* Why muteOthers() keeps its promises.
IInv ==
    /\ TypeOK /\ Loops /\ Ports /\ LinkedExist /\ Owed /\ Silenced
    /\ ListIsFresh /\ ListIsTrue /\ HookFollowsPlayback /\ FoundFollowsPlayback

-----------------------------------------------------------------------------
(* Guarantees beyond those that the runs check *)

\* Nothing is up that is still owed.
OwedAreDown == links \cap broken = {}

\* Without cause, what muteOthers(false) has not passed yet in its lists is
\* exactly what it owes.
ListIsOwed ==
    causes \cap {"remade", "gone", "again"} = {} =>
        \A p \in Playbacks : \A n \in DOMAIN muted[p] :
            Ahead(p, n) => <<muted[p][n], p>> \in broken

\* muteOthers() only moves links between those that are up and those that it
\* owes: it never drops one without owing it, and without cause it never makes
\* one that it has not broken itself.
MovesLinksOnly ==
    [][Mutes => /\ (links \cup broken) \subseteq (links \cup broken)'
                /\ causes \cap {"remade", "gone", "again"} = {} =>
                      (links \cup broken)' = links \cup broken]_vars

\* A step towards the end of muteOthers(): out, to the next channel, into the
\* loop over a channel's connections, or on in the loop: less to disconnect, or
\* a place further in a list that does not grow.
Nearer ==
    \/ Outside'
    \/ ci' = ci + 1 /\ ci' <= NumPlayback /\ pc' = "channel"
    \/ ci' = ci /\ pc = "channel" /\ pc' \in {"disconnect", "connect"}
    \/ ci' = ci /\ pc = "disconnect" /\ pc' = pc /\ todo' \subseteq todo /\ todo' # todo
    \/ ci' = ci /\ pc = "connect" /\ pc' = pc /\ muted' = muted
          /\ k <= Len(muted[ci]) /\ k' = k + 1

\* However much others connect and disconnect, all that happens inside of
\* muteOthers() is its own and brings its end nearer.
EndComesNearer == [][~Outside => Nearer \/ (~Mutes /\ UNCHANGED muteVars)]_vars

-----------------------------------------------------------------------------
(* Types *)

\* The initial state is typed, and nothing is remembered or owed.
LEMMA InvInit == Init => IInv
<1> SUFFICES ASSUME Init PROVE IInv
  OBVIOUS
<1> USE ConstantsAssumption DEF Init
<1>1. TypeOK
  <2>1. <<>> \in Seq(Sources)
    OBVIOUS
  <2>2. links \subseteq Sources \X Playbacks
    BY DEF Sources
  <2>3. /\ hook \in [Own -> Sources \cup {None, Capture}]
        /\ muted \in [Playbacks -> Seq(Sources)]
        /\ channel \in [Own -> 0..NumPlayback]
        /\ role \in [Own -> Roles \cup {None}]
    BY <2>1
  <2>4. /\ running \subseteq Others /\ mute = FALSE
        /\ ci \in 0..NumPlayback /\ todo = {} /\ k \in Nat \ {0}
        /\ pc = "idle" /\ adding = None /\ found = None
        /\ broken = {} /\ late = {} /\ excused = {} /\ causes = {}
    OBVIOUS
  <2>5. calls \in 0..MaxCalls /\ moves \in 0..MaxMoves
    OBVIOUS
  <2> HIDE DEF Init
  <2> QED BY <2>2, <2>3, <2>4, <2>5 DEF TypeOK
<1>2. Loops /\ Owed /\ Silenced /\ ListIsFresh /\ FoundFollowsPlayback
  BY DEF Loops, Owed, Silenced, ListIsFresh, FoundFollowsPlayback
<1>6. Ports
  BY DEF Ports, Sources
<1>3. LinkedExist
  BY DEF LinkedExist, Exists
<1>4. ListIsTrue
  BY DEF ListIsTrue
<1>5. HookFollowsPlayback
  BY DEF HookFollowsPlayback, Sources
<1> QED BY <1>1, <1>2, <1>3, <1>4, <1>5, <1>6 DEF IInv

\* Every way in which signalPortNew() fails is a throw.
LEMMA FailsThrow == AddFails => AddThrows
BY DEF AddFails, InvalidConnection, ConnectCaptureFails, ConnectPlaybackFails, FindFails,
       HookInFails

\* Every step keeps the types.
LEMMA TypeStep == TypeOK /\ Loops /\ Ports /\ [Next]_vars => TypeOK'
<1> SUFFICES ASSUME TypeOK, Loops, Ports, [Next]_vars PROVE TypeOK'
  OBVIOUS
<1> USE ConstantsAssumption DEF TypeOK, Loops, Ports, ports, muteVars, addVars, history
<1>1. CASE UNCHANGED vars
  BY <1>1 DEF vars
<1>2. CASE MuteCall
  BY <1>2 DEF MuteCall, CausesSoFar
<1>3. CASE List
  BY <1>3 DEF List, Listed, Feeding
<1>4. CASE Disconnect
  <2>1. PICK s \in todo : /\ <<s, ci>> \in links
                          /\ links' = links \ {<<s, ci>>}
                          /\ late' = late \ {<<s, ci>>}
                          /\ muted' = [muted EXCEPT ![ci] = Append(@, s)]
                          /\ broken' = broken \cup {<<s, ci>>}
                          /\ todo' = todo \ {s}
    BY <1>4 DEF Disconnect
  <2>2. ci \in Playbacks /\ s \in Sources
    BY <1>4, <2>1 DEF Disconnect, Playbacks
  <2>3. Append(muted[ci], s) \in Seq(Sources)
    BY <2>2
  <2>4. muted' \in [Playbacks -> Seq(Sources)]
    BY <2>1, <2>3
  <2> QED BY <1>4, <2>1, <2>2, <2>4 DEF Disconnect
<1>5. CASE DisconnectFails \/ ReconnectFails \/ Finish
  <2>1. PICK how \in {"thrown", "returned"} : Leave(how)
    BY <1>5 DEF DisconnectFails, ReconnectFails, Finish, Throw
  <2> QED BY <2>1 DEF Leave
<1>6. CASE Disconnected \/ Reconnected
  <2>1. ci < NumPlayback /\ ci' = ci + 1 /\ pc' = "channel"
        /\ UNCHANGED <<ports, links, muted, mute, todo, k, calls, addVars, history>>
    BY <1>6 DEF Disconnected, Reconnected
  <2>2. ci' \in 0..NumPlayback
    BY <2>1
  <2> QED BY <2>1, <2>2
<1>7. CASE Take
  BY <1>7 DEF Take
<1>8. CASE Reconnect
  <2>1. ci \in Playbacks /\ Candidate \in Sources
    BY <1>8 DEF Reconnect, Candidate, Remembered, Playbacks
  <2> QED BY <1>8, <2>1 DEF Reconnect
<1>9. CASE Register
  BY <1>9 DEF Register
<1>10. CASE Unconnected
  BY <1>10 DEF Unconnected, Got
<1>11. CASE ConnectCapture
  BY <1>11 DEF ConnectCapture, Got, IsNew
<1>12. CASE ConnectPlayback
  <2>1. <<adding, channel[adding]>> \in Sources \X Playbacks
    BY <1>12 DEF ConnectPlayback, IsNew, HasPhysical, Sources, Playbacks
  <2> QED BY <1>12, <2>1 DEF ConnectPlayback, Linked, Got, IsNew
<1>13. CASE AddFails
  BY <1>13, FailsThrow DEF AddThrows
<1>14. CASE Find
  BY <1>14 DEF Find, Feeding
<1>15. CASE HookIn
  BY <1>15 DEF HookIn, Got
<1>16. CASE OtherConnects
  BY <1>16 DEF OtherConnects, Linked, Move
<1>17. CASE OtherDisconnects
  BY <1>17 DEF OtherDisconnects, Lost, Move
<1>18. CASE OtherQuits
  BY <1>18 DEF OtherQuits, GoneFor, Move
<1>19. CASE OtherStarts
  BY <1>19 DEF OtherStarts, Move
<1> QED BY <1>1, <1>2, <1>3, <1>4, <1>5, <1>6, <1>7, <1>8, <1>9, <1>10, <1>11, <1>12,
           <1>13, <1>14, <1>15, <1>16, <1>17, <1>18, <1>19
        DEF Next, Mutes, Adds, Interferes

\* Every step keeps the loops of muteOthers() in order.
LEMMA LoopsStep == TypeOK /\ Loops /\ [Next]_vars => Loops'
<1> SUFFICES ASSUME TypeOK, Loops, [Next]_vars PROVE Loops'
  OBVIOUS
<1> USE ConstantsAssumption DEF TypeOK, Loops, ports, muteVars, addVars, history
<1>1. CASE UNCHANGED vars
  BY <1>1 DEF vars
<1>2. CASE MuteCall \/ List \/ Disconnected \/ Take \/ Reconnect \/ Reconnected
  BY <1>2 DEF MuteCall, List, Disconnected, Take, Reconnect, Reconnected, Outside
<1>3. CASE Disconnect
  BY <1>3 DEF Disconnect
<1>4. CASE DisconnectFails \/ ReconnectFails \/ Finish
  BY <1>4 DEF DisconnectFails, ReconnectFails, Finish, Throw, Leave
<1>5. CASE Register \/ Adds
  BY <1>5, FailsThrow DEF Register, Adds, Unconnected, ConnectCapture, ConnectPlayback,
              Find, HookIn, AddThrows
<1>6. CASE Interferes
  BY <1>6 DEF Interferes, OtherConnects, OtherDisconnects, OtherQuits,
              OtherStarts
<1> QED BY <1>1, <1>2, <1>3, <1>4, <1>5, <1>6 DEF Next, Mutes

\* Every step keeps what signalPortNew() knows of its port.
LEMMA PortsStep == TypeOK /\ Ports /\ [Next]_vars => Ports'
<1> SUFFICES ASSUME TypeOK, Ports, [Next]_vars PROVE Ports'
  OBVIOUS
<1> USE ConstantsAssumption DEF ports, addVars
<1>1. CASE UNCHANGED vars \/ MuteCall \/ Mutes
  <2>1. UNCHANGED <<ports, addVars>>
    BY <1>1 DEF vars, MuteCall, Mutes, List, Disconnect, DisconnectFails, Disconnected,
                Take, Reconnect, ReconnectFails, Reconnected, Finish, Throw, Leave
  <2> QED BY <2>1 DEF Ports
<1>2. CASE Register
  <2>1. PICK o \in Own, c \in 0..NumPlayback, r \in Roles :
              /\ role[o] = None
              /\ role' = [role EXCEPT ![o] = r]
              /\ channel' = [channel EXCEPT ![o] = c]
              /\ adding' = o
    BY <1>2 DEF Register
  <2>2. /\ role'[o] # None /\ hook[o] \notin Sources
        /\ \A h \in Own \ {o} : role'[h] = role[h] /\ channel'[h] = channel[h]
    BY <2>1 DEF TypeOK, Ports
  <2> QED BY <1>2, <2>1, <2>2 DEF TypeOK, Ports, Register
<1>3. CASE Unconnected \/ ConnectCapture \/ ConnectPlayback \/ HookIn
  <2>1. adding # None /\ Got /\ UNCHANGED <<role, channel>>
    BY <1>3 DEF Unconnected, ConnectCapture, ConnectPlayback, HookIn, IsNew, Ports
  <2>2. \/ UNCHANGED hook
        \/ hook' = [hook EXCEPT ![adding] = Capture]
        \/ hook' = [hook EXCEPT ![adding] = found] /\ found # None
    BY <1>3 DEF Unconnected, ConnectCapture, ConnectPlayback, HookIn
  <2>3. Capture \notin Sources /\ adding \in Own /\ None \notin Own
    BY <2>1 DEF TypeOK, Sources
  <2>4. \A h \in Own :
           hook'[h] \in Sources => role'[h] # None /\ channel'[h] \in Playbacks
    <3>1. CASE UNCHANGED hook
      BY <3>1, <2>1 DEF Ports
    <3>2. CASE hook' = [hook EXCEPT ![adding] = Capture]
      BY <3>2, <2>1, <2>3 DEF TypeOK, Ports
    <3>3. CASE hook' = [hook EXCEPT ![adding] = found] /\ found # None
      BY <3>3, <2>1, <2>3 DEF TypeOK, Ports
    <3> QED BY <2>2, <3>1, <3>2, <3>3
  <2> QED BY <2>1, <2>3, <2>4 DEF Got, Ports
<1>4. CASE AddFails
  BY <1>4, FailsThrow DEF AddThrows, TypeOK, Ports
<1>5. CASE Find
  BY <1>5 DEF Find, IsNew, HasPhysical, TypeOK, Ports, Playbacks
<1>6. CASE OtherConnects \/ OtherDisconnects \/ OtherStarts
  <2>1. UNCHANGED <<role, channel, hook, adding, found>>
    BY <1>6 DEF OtherConnects, OtherDisconnects, OtherStarts
  <2> QED BY <2>1 DEF Ports
<1>7. CASE OtherQuits
  <2>1. PICK s \in running : hook' = [o \in Own |-> IF hook[o] = s THEN None ELSE hook[o]]
    BY <1>7 DEF OtherQuits
  <2>2. None \notin Sources /\ UNCHANGED <<role, channel, adding, found>>
    BY <1>7 DEF OtherQuits, Sources
  <2> QED BY <2>1, <2>2 DEF Ports
<1> QED BY <1>1, <1>2, <1>3, <1>4, <1>5, <1>6, <1>7
        DEF Next, Adds, Interferes

-----------------------------------------------------------------------------
(* The invariant, part by part *)

\* Nobody is linked who does not exist.
LEMMA LinkedExistStep == TypeOK /\ Ports /\ LinkedExist /\ [Next]_vars => LinkedExist'
<1> SUFFICES ASSUME TypeOK, Ports, LinkedExist, [Next]_vars PROVE LinkedExist'
  OBVIOUS
<1> USE ConstantsAssumption
    DEF TypeOK, Ports, LinkedExist, Exists, ports, muteVars, addVars, history
<1>1. CASE UNCHANGED vars
  BY <1>1 DEF vars
<1>2. CASE MuteCall \/ List \/ Disconnected \/ Take \/ Reconnected
  BY <1>2 DEF MuteCall, List, Disconnected, Take, Reconnected
<1>3. CASE Disconnect
  BY <1>3 DEF Disconnect
<1>4. CASE DisconnectFails \/ ReconnectFails \/ Finish
  BY <1>4 DEF DisconnectFails, ReconnectFails, Finish, Throw, Leave
<1>5. CASE Reconnect
  BY <1>5 DEF Reconnect, CanConnect
<1>6. CASE Register
  BY <1>6 DEF Register, Roles
<1>7. CASE Unconnected \/ ConnectCapture \/ HookIn
  BY <1>7 DEF Unconnected, ConnectCapture, HookIn
<1>8. CASE ConnectPlayback
  BY <1>8 DEF ConnectPlayback, IsNew, Linked
<1>9. CASE AddFails \/ Find
  BY <1>9, FailsThrow DEF AddThrows, Find
<1>10. CASE OtherConnects
  BY <1>10 DEF OtherConnects, CanConnect, Linked
<1>11. CASE OtherDisconnects
  BY <1>11 DEF OtherDisconnects, Lost
<1>12. CASE OtherQuits
  BY <1>12 DEF OtherQuits
<1>13. CASE OtherStarts
  BY <1>13 DEF OtherStarts
<1> QED BY <1>1, <1>2, <1>3, <1>4, <1>5, <1>6, <1>7, <1>8, <1>9, <1>10, <1>11,
           <1>12, <1>13
        DEF Next, Mutes, Adds, Interferes

\* What is broken is remembered until it is made again.
LEMMA OwedStep == TypeOK /\ Loops /\ Owed /\ [Next]_vars => Owed'
<1> SUFFICES ASSUME TypeOK, Loops, Owed, [Next]_vars,
                    NEW s \in Sources, NEW p \in Playbacks, <<s, p>> \in broken'
             PROVE  /\ Remembers(p, s)'
                    /\ ~mute' => /\ pc' \in {"channel", "connect"} => p >= ci'
                                 /\ pc' = "connect" /\ p = ci' =>
                                       \E n \in DOMAIN muted'[p] :
                                          n >= k' /\ muted'[p][n] = s
                                 /\ pc' # "returned"
  BY DEF Owed
<1> USE ConstantsAssumption
    DEF TypeOK, Loops, Owed, Remembers, ports, muteVars, addVars, history
<1>p. p \in Nat /\ p < NumPlayback /\ DOMAIN muted[p] = 1..Len(muted[p])
  BY DEF Playbacks
<1>1. CASE UNCHANGED vars
  BY <1>1 DEF vars
<1>2. CASE MuteCall
  BY <1>2, <1>p DEF MuteCall
<1>3. CASE List
  BY <1>3 DEF List
<1>4. CASE Disconnect
  <2>1. PICK t \in todo : /\ muted' = [muted EXCEPT ![ci] = Append(@, t)]
                          /\ broken' = broken \cup {<<t, ci>>}
    BY <1>4 DEF Disconnect
  <2>2. mute' /\ ci \in Playbacks
    BY <1>4 DEF Disconnect, Playbacks
  <2>3. CASE <<s, p>> \in broken
    <3>1. PICK n \in DOMAIN muted[p] : muted[p][n] = s
      BY <2>3
    <3>2. n \in DOMAIN muted'[p] /\ muted'[p][n] = s
      BY <3>1, <2>1, <2>2, <1>p
    <3> QED BY <3>2, <2>2
  <2>4. CASE <<s, p>> = <<t, ci>>
    <3>1. muted'[p] = Append(muted[p], s)
      BY <2>4, <2>1, <2>2
    <3>2. Len(muted[p]) + 1 \in DOMAIN muted'[p] /\ muted'[p][Len(muted[p]) + 1] = s
      BY <3>1
    <3> QED BY <3>2, <2>2
  <2> QED BY <2>1, <2>3, <2>4
<1>5. CASE DisconnectFails \/ ReconnectFails
  BY <1>5 DEF DisconnectFails, ReconnectFails, Throw, Leave
<1>6. CASE Finish
  <2>1. pc = "channel" /\ ci = NumPlayback /\ UNCHANGED <<muted, mute, broken>>
    BY <1>6 DEF Finish, Leave
  <2>2. ~(p >= ci)
    BY <2>1, <1>p
  <2>3. mute /\ Remembers(p, s)
    BY <2>1, <2>2
  <2> QED BY <2>1, <2>3
<1>7. CASE Disconnected
  <2>1. mute /\ UNCHANGED <<muted, mute, broken>>
    BY <1>7 DEF Disconnected
  <2> QED BY <2>1
<1>8. CASE Take
  <2>1. /\ p >= ci /\ Remembers(p, s) /\ pc' = "connect" /\ k' = 1
        /\ UNCHANGED <<muted, ci>>
    BY <1>8 DEF Take
  <2>2. \E n \in DOMAIN muted[p] : n >= 1 /\ muted[p][n] = s
    BY <2>1, <1>p
  <2> QED BY <2>1, <2>2
<1>9. CASE Reconnect
  <2>1. /\ <<s, p>> \in broken /\ <<s, p>> # <<muted[ci][k], ci>>
        /\ k' = k + 1 /\ UNCHANGED <<muted, mute, ci, pc>> /\ pc = "connect"
    BY <1>9 DEF Reconnect, Candidate, Remembered
  <2>2. ASSUME p = ci PROVE \E n \in DOMAIN muted[p] : n >= k + 1 /\ muted[p][n] = s
    <3>1. PICK n \in DOMAIN muted[p] : n >= k /\ muted[p][n] = s
      BY <2>1, <2>2
    <3>2. n # k
      BY <3>1, <2>1, <2>2
    <3> QED BY <3>1, <3>2, <1>p
  <2> QED BY <2>1, <2>2
<1>10. CASE Reconnected
  <2>1. p # ci
    BY <1>10, <1>p DEF Reconnected, Remembered
  <2>2. p >= ci + 1
    BY <1>10, <2>1, <1>p DEF Reconnected
  <2> QED BY <1>10, <2>2 DEF Reconnected
<1>11. CASE Register \/ Unconnected \/ ConnectCapture \/ HookIn \/ Find \/ OtherStarts
  BY <1>11 DEF Register, Unconnected, ConnectCapture, HookIn, Find, OtherStarts
<1>12. CASE AddFails
  BY <1>12, FailsThrow DEF AddThrows
<1>13. CASE ConnectPlayback \/ OtherConnects
  BY <1>13 DEF ConnectPlayback, OtherConnects, Linked
<1>14. CASE OtherQuits
  BY <1>14 DEF OtherQuits
<1>15. CASE OtherDisconnects
  BY <1>15 DEF OtherDisconnects
<1> QED BY <1>1, <1>2, <1>3, <1>4, <1>5, <1>6, <1>7, <1>8, <1>9, <1>10, <1>11, <1>12,
           <1>13, <1>14, <1>15
        DEF Next, Mutes, Adds, Interferes

\* What muteOthers(true) has passed is silent.
LEMMA SilencedStep == TypeOK /\ Loops /\ Silenced /\ [Next]_vars => Silenced'
<1> SUFFICES ASSUME TypeOK, Loops, Silenced, [Next]_vars, mute',
                    NEW s \in Sources, NEW p \in Playbacks, <<s, p>> \in links'
             PROVE  \/ <<s, p>> \in late'
                    \/ pc' \in {"channel", "disconnect"} /\ p > ci'
                    \/ pc' = "channel" /\ p = ci'
                    \/ pc' = "disconnect" /\ p = ci' /\ s \in todo'
                    \/ pc' \in {"idle", "thrown"}
  BY DEF Silenced
<1> USE ConstantsAssumption DEF TypeOK, Loops, Silenced, ports, muteVars, addVars, history
<1>p. p \in Nat /\ p < NumPlayback
  BY DEF Playbacks
<1>1. CASE UNCHANGED vars
  BY <1>1 DEF vars
<1>2. CASE MuteCall
  BY <1>2, <1>p DEF MuteCall
<1>3. CASE List
  BY <1>3, <1>p DEF List, Listed, Feeding
<1>4. CASE Disconnect
  BY <1>4, <1>p DEF Disconnect
<1>5. CASE DisconnectFails \/ ReconnectFails
  BY <1>5 DEF DisconnectFails, ReconnectFails, Throw, Leave
<1>6. CASE Finish
  <2>1. pc = "channel" /\ ci = NumPlayback /\ UNCHANGED <<links, mute, late>>
    BY <1>6 DEF Finish, Leave
  <2> QED BY <2>1, <1>p
<1>7. CASE Disconnected
  BY <1>7, <1>p DEF Disconnected
<1>8. CASE Take \/ Reconnect \/ Reconnected
  <2>1. ~mute /\ mute' = mute
    BY <1>8 DEF Take, Reconnect, Reconnected
  <2> QED BY <2>1
<1>9. CASE Register \/ Unconnected \/ ConnectCapture \/ HookIn \/ Find \/ OtherStarts
  <2>1. UNCHANGED <<links, late, muteVars>>
    BY <1>9 DEF Register, Unconnected, ConnectCapture, HookIn, Find, OtherStarts
  <2> QED BY <2>1
<1>10. CASE AddFails
  <2>1. UNCHANGED <<links, late, causes, muteVars>>
    BY <1>10, FailsThrow DEF AddThrows
  <2> QED BY <2>1
<1>11. CASE ConnectPlayback \/ OtherConnects
  <2>1. PICK t, q : Linked(t, q) /\ UNCHANGED muteVars
    BY <1>11 DEF ConnectPlayback, OtherConnects
  <2> QED BY <2>1 DEF Linked
<1>12. CASE OtherQuits
  BY <1>12 DEF OtherQuits
<1>13. CASE OtherDisconnects
  <2>1. PICK l \in links : Lost({l}) /\ UNCHANGED muteVars
    BY <1>13 DEF OtherDisconnects
  <2> QED BY <2>1 DEF Lost
<1> QED BY <1>1, <1>2, <1>3, <1>4, <1>5, <1>6, <1>7, <1>8, <1>9, <1>10, <1>11, <1>12, <1>13
        DEF Next, Mutes, Adds, Interferes

\* Only what others took down is missed.
LEMMA ListIsFreshStep == TypeOK /\ Loops /\ ListIsFresh /\ [Next]_vars => ListIsFresh'
<1> SUFFICES ASSUME TypeOK, Loops, ListIsFresh, [Next]_vars PROVE ListIsFresh'
  OBVIOUS
<1> USE ConstantsAssumption
    DEF TypeOK, Loops, ListIsFresh, ports, muteVars, addVars, history
<1>1. CASE UNCHANGED vars
  BY <1>1 DEF vars
<1>2. CASE MuteCall
  BY <1>2 DEF MuteCall, Outside
<1>3. CASE List
  BY <1>3 DEF List, Listed, Feeding
<1>4. CASE Disconnect
  BY <1>4 DEF Disconnect
<1>5. CASE DisconnectFails
  BY <1>5 DEF DisconnectFails, Throw, Leave
<1>6. CASE ReconnectFails
  BY <1>6 DEF ReconnectFails, Throw, Leave
<1>7. CASE Finish
  BY <1>7 DEF Finish, Leave
<1>8. CASE Disconnected \/ Take \/ Reconnect \/ Reconnected
  BY <1>8 DEF Disconnected, Take, Reconnect, Reconnected
<1>9. CASE Register \/ Unconnected \/ ConnectCapture \/ HookIn \/ Find \/ OtherStarts
  BY <1>9 DEF Register, Unconnected, ConnectCapture, HookIn, Find, OtherStarts
<1>10. CASE AddFails
  <2>1. UNCHANGED <<links, late, causes, muteVars>>
    BY <1>10, FailsThrow DEF AddThrows
  <2> QED BY <2>1
<1>11. CASE ConnectPlayback \/ OtherConnects
  <2>1. PICK t, q : Linked(t, q) /\ UNCHANGED muteVars
    BY <1>11 DEF ConnectPlayback, OtherConnects
  <2> QED BY <2>1 DEF Linked
<1>12. CASE OtherQuits
  <2>1. PICK s \in running : /\ links' = {l \in links : l[1] # s}
                             /\ causes' = causes \cup GoneFor(s) \cup
                                   (IF s \in todo THEN {"vanished"} ELSE {})
    BY <1>12 DEF OtherQuits
  <2> QED BY <1>12, <2>1 DEF OtherQuits
<1>13. CASE OtherDisconnects
  <2>1. PICK l \in links : Lost({l}) /\ UNCHANGED muteVars
    BY <1>13 DEF OtherDisconnects
  <2> QED BY <2>1 DEF Lost
<1> QED BY <1>1, <1>2, <1>3, <1>4, <1>5, <1>6, <1>7, <1>8, <1>9, <1>10, <1>11, <1>12, <1>13
        DEF Next, Mutes, Adds, Interferes

\* Without a cause the list is as it should be: what Disconnect adds was linked
\* and is new to it, what Reconnect takes can be connected.
LEMMA ListIsTrueStep ==
    TypeOK /\ Loops /\ Ports /\ LinkedExist /\ ListIsTrue /\ [Next]_vars => ListIsTrue'
<1> SUFFICES ASSUME TypeOK, Loops, Ports, LinkedExist, ListIsTrue, [Next]_vars,
                    causes' \cap {"remade", "gone", "again"} = {}
             PROVE  /\ \A p \in Playbacks : \A n \in DOMAIN muted'[p] :
                          /\ Exists(muted[p][n])'
                          /\ Ahead(p, n)' => <<muted'[p][n], p>> \notin links'
                          /\ \A m \in DOMAIN muted'[p] :
                                muted'[p][m] = muted'[p][n] => m = n
                    /\ "restored" \in causes' => ~mute'
                    /\ pc' = "thrown" => mute'
  BY DEF ListIsTrue
<1> USE ConstantsAssumption DEF ports, muteVars, addVars, history
<1>p. \A p \in Playbacks : /\ p \in Nat /\ DOMAIN muted[p] = 1..Len(muted[p])
                            /\ \A n \in DOMAIN muted[p] : muted[p][n] \in Sources
  BY DEF Playbacks, TypeOK
<1>c. ASSUME causes \cap {"remade", "gone", "again"} = {}
      PROVE  /\ \A p \in Playbacks : \A n \in DOMAIN muted[p] :
                   /\ Exists(muted[p][n])
                   /\ Ahead(p, n) => <<muted[p][n], p>> \notin links
                   /\ \A m \in DOMAIN muted[p] : muted[p][m] = muted[p][n] => m = n
             /\ "restored" \in causes => ~mute
             /\ pc = "thrown" => mute
  BY <1>c DEF ListIsTrue
<1>s. ASSUME causes \subseteq causes' PROVE causes \cap {"remade", "gone", "again"} = {}
  BY <1>s
<1>1. CASE UNCHANGED vars
  BY <1>1, <1>c, <1>s DEF vars, Exists, Ahead
<1>2. CASE MuteCall
  <2>1. /\ causes \cap {"remade", "gone", "again"} = {}
        /\ "restored" \notin causes /\ "restored" \notin causes'
        /\ UNCHANGED <<ports, links, muted>> /\ pc' = "channel"
    BY <1>2 DEF MuteCall, CausesSoFar
  <2> QED BY <2>1, <1>c DEF Exists, Ahead
<1>3. CASE List
  <2>1. /\ pc = "channel" /\ pc' = "disconnect" /\ mute
        /\ UNCHANGED <<ports, links, muted, mute, ci, k, causes>>
    BY <1>3 DEF List
  <2>2. \A p \in Playbacks : \A n : Ahead(p, n)' => Ahead(p, n)
    BY <2>1, <1>c, <1>s DEF Ahead
  <2> QED BY <2>1, <2>2, <1>c, <1>s DEF Exists
<1>4. CASE Disconnect
  <2>1. PICK s \in todo : /\ <<s, ci>> \in links
                          /\ links' = links \ {<<s, ci>>}
                          /\ muted' = [muted EXCEPT ![ci] = Append(@, s)]
    BY <1>4 DEF Disconnect
  <2>2. /\ pc = "disconnect" /\ pc' = pc /\ mute /\ ci \in Playbacks
        /\ UNCHANGED <<ports, mute, ci, k, causes>>
    BY <1>4 DEF Disconnect, Loops, TypeOK, Playbacks
  <2>3. "restored" \notin causes
    BY <2>2, <1>c, <1>s
  <2>4. s \in Sources /\ Exists(s)
    BY <2>1, <2>2 DEF TypeOK, LinkedExist
  <2>5. \A n \in DOMAIN muted[ci] : muted[ci][n] # s
    BY <2>1, <2>2, <2>3, <1>c, <1>s DEF Ahead
  <2>6. /\ \A p \in Playbacks \ {ci} : muted'[p] = muted[p]
        /\ muted'[ci] = Append(muted[ci], s)
        /\ muted[ci] \in Seq(Sources)
    BY <2>1, <2>2 DEF TypeOK
  <2>7. /\ DOMAIN muted'[ci] = 1..Len(muted[ci]) + 1
        /\ \A n \in DOMAIN muted[ci] : muted'[ci][n] = muted[ci][n]
        /\ muted'[ci][Len(muted[ci]) + 1] = s
    BY <2>4, <2>6
  <2>8. ASSUME NEW p \in Playbacks, NEW n \in DOMAIN muted'[p]
        PROVE  /\ Exists(muted[p][n])'
               /\ <<muted'[p][n], p>> \notin links'
               /\ \A m \in DOMAIN muted'[p] : muted'[p][m] = muted'[p][n] => m = n
    <3>1. CASE p # ci
      <4>1. /\ causes \cap {"remade", "gone", "again"} = {}
            /\ muted'[p] = muted[p] /\ n \in DOMAIN muted[p]
        BY <3>1, <2>2, <2>6, <1>s
      <4>2. Exists(muted[p][n]) /\ <<muted[p][n], p>> \notin links
        BY <4>1, <2>3, <1>c DEF Ahead
      <4>3. \A m \in DOMAIN muted[p] : muted[p][m] = muted[p][n] => m = n
        BY <4>1, <1>c
      <4> QED BY <4>1, <4>2, <4>3, <2>1, <2>2 DEF Exists
    <3>2. CASE p = ci
      <4>1. n \in DOMAIN muted[ci] \/ n = Len(muted[ci]) + 1
        BY <3>2, <2>7, <1>p
      <4>2. Exists(muted[p][n])'
        BY <4>1, <3>2, <2>2, <2>4, <2>7, <1>c, <1>s DEF Exists
      <4>3. <<muted'[p][n], p>> \notin links'
        BY <4>1, <3>2, <2>1, <2>2, <2>3, <2>7, <1>c, <1>s DEF Ahead
      <4>4. \A m \in DOMAIN muted'[p] : m \in DOMAIN muted[ci] \/ m = Len(muted[ci]) + 1
        BY <3>2, <2>7, <1>p, <2>2
      <4>5. \A m \in DOMAIN muted'[p] : muted'[p][m] = muted'[p][n] => m = n
        BY <4>1, <4>4, <3>2, <2>2, <2>5, <2>7, <1>c, <1>s
      <4> QED BY <4>2, <4>3, <4>5
    <3> QED BY <3>1, <3>2
  <2> QED BY <2>2, <2>3, <2>8
<1>5. CASE DisconnectFails
  <2>1. /\ pc = "disconnect" /\ mute /\ mute' = mute
        /\ UNCHANGED <<ports, links, muted, causes>>
    BY <1>5 DEF DisconnectFails, Throw, Leave, Loops
  <2>2. "restored" \notin causes
    BY <2>1, <1>c, <1>s
  <2> QED BY <2>1, <2>2, <1>c, <1>s DEF Exists, Ahead
<1>6. CASE ReconnectFails
  <2>1. /\ pc = "connect" /\ k \in DOMAIN muted[ci] /\ ci \in Playbacks
        /\ ~CanConnect(muted[ci][k], ci) /\ causes' = causes
    <3>1. /\ pc = "connect" /\ k <= Len(muted[ci])
          /\ ~CanConnect(muted[ci][k], ci) /\ causes' = causes
      BY <1>6 DEF ReconnectFails, Throw, Leave, Candidate, Remembered
    <3>2. ci \in Playbacks /\ k \in Nat \ {0}
      BY <3>1 DEF Loops, TypeOK, Playbacks
    <3> QED BY <3>1, <3>2, <1>p
  <2>2. Ahead(ci, k)
    BY <2>1, <1>p DEF Ahead, TypeOK
  <2> QED BY <2>1, <2>2, <1>c, <1>s DEF CanConnect
<1>7. CASE Finish
  <2>1. pc' = "returned" /\ UNCHANGED <<ports, links, muted, mute, causes>>
    BY <1>7 DEF Finish, Leave
  <2> QED BY <2>1, <1>c, <1>s DEF Exists, Ahead
<1>8. CASE Disconnected \/ Reconnected
  <2>1. /\ pc \in {"connect", "disconnect"} /\ pc' = "channel" /\ ci' = ci + 1
        /\ UNCHANGED <<ports, links, muted, mute, causes>>
        /\ pc = "disconnect" => mute
    BY <1>8 DEF Disconnected, Reconnected, Loops
  <2>2. pc = "disconnect" => "restored" \notin causes
    BY <2>1, <1>c, <1>s
  <2>3. \A p \in Playbacks : \A n : Ahead(p, n)' => Ahead(p, n)
    BY <2>1, <2>2, <1>p DEF Ahead, TypeOK
  <2> QED BY <2>1, <2>3, <1>c, <1>s DEF Exists
<1>9. CASE Take
  <2>1. /\ pc = "channel" /\ pc' = "connect"
        /\ UNCHANGED <<ports, links, muted, mute, ci, causes>>
    BY <1>9 DEF Take
  <2>2. \A p \in Playbacks : \A n : Ahead(p, n)' => Ahead(p, n)
    BY <2>1 DEF Ahead
  <2> QED BY <2>1, <2>2, <1>c, <1>s DEF Exists
<1>10. CASE Reconnect
  <2>1. /\ pc = "connect" /\ k \in DOMAIN muted[ci] /\ ci \in Playbacks /\ ~mute
        /\ links' = links \cup {<<muted[ci][k], ci>>}
        /\ k' = k + 1 /\ causes' = causes \cup {"restored"}
        /\ UNCHANGED <<ports, muted, mute, ci, pc>>
    BY <1>10, <1>p DEF Reconnect, Candidate, Remembered, Loops, TypeOK, Playbacks
  <2>2. \A p \in Playbacks : \A n \in DOMAIN muted[p] :
           Ahead(p, n)' => Ahead(p, n) /\ (p = ci => n # k)
    BY <2>1, <1>p DEF Ahead, TypeOK
  <2>3. \A p \in Playbacks : \A n \in DOMAIN muted[p] :
           Ahead(p, n)' => <<muted[p][n], p>> \notin links'
    BY <2>1, <2>2, <1>c, <1>s
  <2> QED BY <2>1, <2>3, <1>c, <1>s DEF Exists
<1>11. CASE Register
  <2>1. /\ \A s : Exists(s) => Exists(s)'
        /\ UNCHANGED <<running, links, muteVars, causes>>
    BY <1>11 DEF Register, Exists, TypeOK, Roles
  <2> QED BY <2>1, <1>c, <1>s DEF Ahead
<1>12. CASE Unconnected \/ ConnectCapture \/ AddFails \/ Find \/ HookIn
  <2>1. UNCHANGED <<running, role, links, muteVars, causes>>
    BY <1>12, FailsThrow DEF Unconnected, ConnectCapture, Find, HookIn, AddThrows
  <2> QED BY <2>1, <1>c, <1>s DEF Exists, Ahead
<1>13. CASE ConnectPlayback \/ OtherConnects
  <2>1. PICK t, q : Linked(t, q) /\ UNCHANGED <<running, role, muteVars>>
    BY <1>13 DEF ConnectPlayback, OtherConnects
  <2>2. /\ ~Remembers(q, t) /\ causes' = causes /\ links' = links \cup {<<t, q>>}
        /\ UNCHANGED <<running, role, muteVars>>
    BY <2>1 DEF Linked
  <2> QED BY <2>2, <1>c, <1>s DEF Exists, Ahead, Remembers
<1>14. CASE OtherQuits
  <2>1. PICK s \in running : /\ running' = running \ {s}
                             /\ links' = {l \in links : l[1] # s}
                             /\ causes' = causes \cup GoneFor(s) \cup
                                   (IF s \in todo THEN {"vanished"} ELSE {})
    BY <1>14 DEF OtherQuits
  <2>2. \A p \in Playbacks : \A n \in DOMAIN muted[p] : muted[p][n] # s
    BY <2>1 DEF GoneFor, Remembers
  <2>3. /\ causes \subseteq causes' /\ UNCHANGED <<role, muteVars>>
        /\ "restored" \in causes' => "restored" \in causes
    BY <1>14, <2>1 DEF OtherQuits, GoneFor
  <2>4. \A t : Exists(t) /\ t # s => Exists(t)'
    BY <2>1, <2>3 DEF Exists
  <2> QED BY <2>1, <2>2, <2>3, <2>4, <1>c, <1>s DEF Ahead
<1>15. CASE OtherDisconnects
  <2>1. PICK l \in links : Lost({l}) /\ UNCHANGED <<ports, muteVars>>
    BY <1>15 DEF OtherDisconnects
  <2>2. /\ links' \subseteq links /\ causes \subseteq causes'
        /\ "restored" \in causes' => "restored" \in causes
    BY <2>1 DEF Lost
  <2> QED BY <2>1, <2>2, <1>c, <1>s DEF Exists, Ahead
<1>16. CASE OtherStarts
  <2>1. UNCHANGED <<role, links, muteVars, causes>> /\ running \subseteq running'
    BY <1>16 DEF OtherStarts
  <2> QED BY <2>1, <1>c, <1>s DEF Exists, Ahead
<1> QED BY <1>1, <1>2, <1>3, <1>4, <1>5, <1>6, <1>7, <1>8, <1>9, <1>10, <1>11, <1>12,
           <1>13, <1>14, <1>15, <1>16
        DEF Next, Mutes, Adds, Interferes

\* Who listens to a source behind a playback port has an excuse when it is not
\* there: this part is about inputs that are connected.
LEMMA HookStep ==
    TypeOK /\ Loops /\ Ports /\ HookFollowsPlayback /\ FoundFollowsPlayback
      /\ [Next]_vars => HookFollowsPlayback'
<1> SUFFICES ASSUME TypeOK, Loops, Ports, HookFollowsPlayback, FoundFollowsPlayback,
                    [Next]_vars, NEW o \in Own, hook'[o] \in Sources
             PROVE  \/ <<hook'[o], channel'[o]>> \in links'
                    \/ Remembers(channel[o], hook[o])'
                    \/ o \in excused'
  BY DEF HookFollowsPlayback
<1> USE ConstantsAssumption DEF ports, muteVars, addVars, history
<1>n. None \notin Sources /\ Capture \notin Sources
  BY DEF Sources
<1>h. ASSUME hook[o] \in Sources
      PROVE  /\ o # adding /\ role[o] # None /\ channel[o] \in Playbacks
             /\ \/ <<hook[o], channel[o]>> \in links
                \/ Remembers(channel[o], hook[o])
                \/ o \in excused
  BY <1>h DEF Ports, HookFollowsPlayback
<1>1. CASE UNCHANGED vars
  BY <1>1, <1>h DEF vars, Remembers
<1>2. CASE \/ MuteCall \/ List \/ Disconnected \/ Take \/ Reconnect \/ Reconnected
           \/ DisconnectFails \/ ReconnectFails \/ Finish
  <2>1. UNCHANGED <<channel, hook, muted, excused>> /\ links \subseteq links'
    BY <1>2 DEF MuteCall, List, Disconnected, Take, Reconnect, Reconnected,
                DisconnectFails, ReconnectFails, Finish, Throw, Leave
  <2> QED BY <2>1, <1>h DEF Remembers
<1>3. CASE Disconnect
  <2>1. PICK s \in todo : /\ links' = links \ {<<s, ci>>}
                          /\ muted' = [muted EXCEPT ![ci] = Append(@, s)]
    BY <1>3 DEF Disconnect
  <2>2. UNCHANGED <<channel, hook, excused>> /\ ci \in Playbacks /\ s \in Sources
    BY <1>3, <2>1 DEF Disconnect, Loops, TypeOK, Playbacks
  <2>3. channel[o] \in Playbacks
    BY <2>2, <1>h
  <2>4. muted[ci] \in Seq(Sources) /\ muted[channel[o]] \in Seq(Sources)
    BY <2>2, <2>3 DEF TypeOK
  <2>5. muted'[ci] = Append(muted[ci], s)
    BY <2>1, <2>2 DEF TypeOK
  <2>6. \E n \in DOMAIN muted'[ci] : muted'[ci][n] = s
    <3>1. Len(muted[ci]) + 1 \in DOMAIN muted'[ci] /\ muted'[ci][Len(muted[ci]) + 1] = s
      BY <2>2, <2>4, <2>5
    <3> QED BY <3>1
  <2>7. ASSUME Remembers(channel[o], hook[o]) PROVE Remembers(channel[o], hook[o])'
    <3>1. PICK n \in DOMAIN muted[channel[o]] : muted[channel[o]][n] = hook[o]
      BY <2>7 DEF Remembers
    <3>2. CASE channel[o] = ci
      <4>1. n \in DOMAIN muted'[ci] /\ muted'[ci][n] = hook[o]
        BY <3>1, <3>2, <2>2, <2>4, <2>5
      <4> QED BY <4>1, <3>2, <2>2 DEF Remembers
    <3>3. CASE channel[o] # ci
      <4>1. muted'[channel[o]] = muted[channel[o]]
        BY <3>3, <2>1, <2>3 DEF TypeOK
      <4> QED BY <4>1, <3>1, <2>2 DEF Remembers
    <3> QED BY <3>2, <3>3
  <2>8. CASE <<hook[o], channel[o]>> = <<s, ci>>
    BY <2>8, <2>6, <2>2 DEF Remembers
  <2>9. CASE <<hook[o], channel[o]>> # <<s, ci>>
    BY <2>9, <2>1, <2>2, <2>7, <1>h
  <2> QED BY <2>8, <2>9
<1>4. CASE Register
  <2>1. PICK new \in Own, c \in 0..NumPlayback :
              role[new] = None /\ channel' = [channel EXCEPT ![new] = c]
    BY <1>4 DEF Register
  <2>2. UNCHANGED <<hook, links, muted, excused>>
    BY <1>4 DEF Register
  <2>3. channel'[o] = channel[o]
    BY <2>1, <2>2, <1>h DEF TypeOK
  <2> QED BY <2>2, <2>3, <1>h DEF Remembers
<1>5. CASE Unconnected \/ ConnectPlayback \/ OtherConnects
  <2>1. UNCHANGED <<channel, hook, muted, excused>> /\ links \subseteq links'
    BY <1>5 DEF Unconnected, ConnectPlayback, OtherConnects, Linked
  <2> QED BY <2>1, <1>h DEF Remembers
<1>6. CASE ConnectCapture
  <2>1. hook' = [hook EXCEPT ![adding] = Capture]
        /\ UNCHANGED <<channel, links, muted, excused>>
    BY <1>6 DEF ConnectCapture
  <2>2. hook'[o] = hook[o]
    BY <2>1, <1>n DEF TypeOK
  <2> QED BY <2>1, <2>2, <1>h DEF Remembers
<1>7. CASE HookIn
  <2>1. /\ found # None /\ Exists(found)
        /\ hook' = [hook EXCEPT ![adding] = found]
        /\ UNCHANGED <<running, role, channel, links, muted, excused>>
    BY <1>7 DEF HookIn
  <2>2. CASE o = adding
    <3>1. hook'[o] = found
      BY <2>1, <2>2 DEF TypeOK
    <3> QED BY <3>1, <2>1, <2>2 DEF FoundFollowsPlayback, Remembers
  <2>3. CASE o # adding
    <3>1. hook'[o] = hook[o]
      BY <2>1, <2>3 DEF TypeOK
    <3> QED BY <3>1, <2>1, <1>h DEF Remembers
  <2> QED BY <2>2, <2>3
<1>8. CASE AddFails \/ Find \/ OtherStarts
  <2>1. UNCHANGED <<channel, hook, links, muted, excused>>
    BY <1>8, FailsThrow DEF Find, AddThrows, OtherStarts
  <2> QED BY <2>1, <1>h DEF Remembers
<1>9. CASE OtherDisconnects
  <2>1. PICK l \in links : Lost({l}) /\ UNCHANGED <<channel, hook, muted>>
    BY <1>9 DEF OtherDisconnects
  <2>2. CASE l = <<hook[o], channel[o]>>
    BY <2>1, <2>2 DEF Lost, Relies
  <2>3. CASE l # <<hook[o], channel[o]>>
    BY <2>1, <2>3, <1>h DEF Lost, Remembers
  <2> QED BY <2>2, <2>3
<1>10. CASE OtherQuits
  <2>1. PICK s \in running :
              /\ links' = {l \in links : l[1] # s}
              /\ excused' = (excused \ {h \in Own : hook[h] = s})
                    \cup (IF found = s THEN {adding} ELSE {})
              /\ hook' = [h \in Own |-> IF hook[h] = s THEN None ELSE hook[h]]
    BY <1>10 DEF OtherQuits
  <2>2. hook[o] # s /\ hook'[o] = hook[o] /\ UNCHANGED <<channel, muted>>
    BY <1>10, <2>1, <1>n DEF OtherQuits
  <2> QED BY <2>1, <2>2, <1>h DEF Remembers
<1> QED BY <1>1, <1>2, <1>3, <1>4, <1>5, <1>6, <1>7, <1>8, <1>9, <1>10
        DEF Next, Mutes, Adds, Interferes

\* The same of an input that is about to be connected.
LEMMA FoundStep ==
    TypeOK /\ Loops /\ Ports /\ FoundFollowsPlayback /\ [Next]_vars
      => FoundFollowsPlayback'
<1> SUFFICES ASSUME TypeOK, Loops, Ports, FoundFollowsPlayback, [Next]_vars,
                    found' # None
             PROVE  \/ <<found', channel'[adding']>> \in links'
                    \/ Remembers(channel[adding], found)'
                    \/ adding' \in excused'
  BY DEF FoundFollowsPlayback
<1> USE ConstantsAssumption DEF ports, muteVars, addVars, history
<1>f. ASSUME found # None
      PROVE  /\ adding \in Own /\ adding # None
             /\ channel[adding] \in Playbacks /\ hook[adding] \notin Sources
             /\ \/ <<found, channel[adding]>> \in links
                \/ Remembers(channel[adding], found)
                \/ adding \in excused
  BY <1>f DEF TypeOK, Ports, FoundFollowsPlayback
<1>1. CASE UNCHANGED vars
  BY <1>1, <1>f DEF vars, Remembers
<1>2. CASE \/ MuteCall \/ List \/ Disconnected \/ Take \/ Reconnect \/ Reconnected
           \/ DisconnectFails \/ ReconnectFails \/ Finish
  <2>1. /\ UNCHANGED <<role, channel, adding, found, muted, excused>>
        /\ links \subseteq links'
    BY <1>2 DEF MuteCall, List, Disconnected, Take, Reconnect, Reconnected,
                DisconnectFails, ReconnectFails, Finish, Throw, Leave
  <2> QED BY <2>1, <1>f DEF Remembers
<1>3. CASE Disconnect
  <2>1. PICK s \in todo : /\ links' = links \ {<<s, ci>>}
                          /\ muted' = [muted EXCEPT ![ci] = Append(@, s)]
    BY <1>3 DEF Disconnect
  <2>2. /\ UNCHANGED <<role, channel, adding, found, excused>>
        /\ ci \in Playbacks /\ s \in Sources
    BY <1>3, <2>1 DEF Disconnect, Loops, TypeOK, Playbacks
  <2> PICK c : c = channel[adding]
    OBVIOUS
  <2>3. c \in Playbacks /\ c = channel'[adding']
    BY <2>2, <1>f
  <2>4. muted[ci] \in Seq(Sources) /\ muted[c] \in Seq(Sources)
    BY <2>2, <2>3 DEF TypeOK
  <2>5. muted'[ci] = Append(muted[ci], s)
    BY <2>1, <2>2 DEF TypeOK
  <2>6. \E n \in DOMAIN muted'[ci] : muted'[ci][n] = s
    <3>1. Len(muted[ci]) + 1 \in DOMAIN muted'[ci] /\ muted'[ci][Len(muted[ci]) + 1] = s
      BY <2>2, <2>4, <2>5
    <3> QED BY <3>1
  <2>7. ASSUME Remembers(c, found) PROVE \E n \in DOMAIN muted'[c] : muted'[c][n] = found
    <3>1. PICK n \in DOMAIN muted[c] : muted[c][n] = found
      BY <2>7 DEF Remembers
    <3>2. CASE c = ci
      <4>1. n \in DOMAIN muted'[ci] /\ muted'[ci][n] = found
        BY <3>1, <3>2, <2>2, <2>4, <2>5
      <4> QED BY <4>1, <3>2
    <3>3. CASE c # ci
      <4>1. muted'[c] = muted[c]
        BY <3>3, <2>1, <2>3 DEF TypeOK
      <4> QED BY <4>1, <3>1
    <3> QED BY <3>2, <3>3
  <2>8. \/ <<found, c>> \in links \/ Remembers(c, found) \/ adding \in excused
    <3>1. found # None
      BY <2>2
    <3> QED BY <3>1, <1>f
  <2>9. CASE <<found, c>> = <<s, ci>>
    BY <2>9, <2>6, <2>2, <2>3 DEF Remembers
  <2>10. CASE <<found, c>> # <<s, ci>>
    BY <2>10, <2>1, <2>2, <2>3, <2>7, <2>8 DEF Remembers
  <2> QED BY <2>9, <2>10
<1>4. CASE \/ Register \/ Unconnected \/ ConnectCapture \/ ConnectPlayback \/ HookIn
           \/ AddFails
  BY <1>4, FailsThrow DEF Register, Unconnected, ConnectCapture, ConnectPlayback, HookIn, Got,
              AddThrows
<1>5. CASE Find
  <2>1. <<found', channel[adding]>> \in links /\ UNCHANGED <<channel, adding, links>>
    BY <1>5 DEF Find, Feeding
  <2> QED BY <2>1
<1>6. CASE OtherConnects
  <2>1. /\ UNCHANGED <<role, channel, adding, found, muted, excused>>
        /\ links \subseteq links'
    BY <1>6 DEF OtherConnects, Linked
  <2> QED BY <2>1, <1>f DEF Remembers
<1>7. CASE OtherDisconnects
  <2>1. PICK l \in links : Lost({l}) /\ UNCHANGED <<role, channel, adding, found, muted>>
    BY <1>7 DEF OtherDisconnects
  <2>2. CASE l = <<found, channel[adding]>>
    BY <2>1, <2>2, <1>f DEF Lost, Relies
  <2>3. CASE l # <<found, channel[adding]>>
    BY <2>1, <2>3, <1>f DEF Lost, Remembers
  <2> QED BY <2>2, <2>3
<1>8. CASE OtherQuits
  <2>1. PICK s \in running :
              /\ links' = {l \in links : l[1] # s}
              /\ excused' = (excused \ {h \in Own : hook[h] = s})
                    \cup (IF found = s THEN {adding} ELSE {})
    BY <1>8 DEF OtherQuits
  <2>2. UNCHANGED <<role, channel, adding, found, muted>> /\ s \in Sources
    BY <1>8, <2>1 DEF OtherQuits, TypeOK, Sources
  <2>3. hook[adding] # s
    BY <2>2, <1>f
  <2> QED BY <2>1, <2>2, <2>3, <1>f DEF Remembers
<1>9. CASE OtherStarts
  <2>1. UNCHANGED <<role, channel, adding, found, muted, links, excused>>
    BY <1>9 DEF OtherStarts
  <2> QED BY <2>1, <1>f DEF Remembers
<1> QED BY <1>1, <1>2, <1>3, <1>4, <1>5, <1>6, <1>7, <1>8, <1>9
        DEF Next, Mutes, Adds, Interferes

-----------------------------------------------------------------------------
(* What muteOthers() and signalPortNew() promise *)

\* The invariant is inductive.
LEMMA InvStep == IInv /\ [Next]_vars => IInv'
BY TypeStep, LoopsStep, PortsStep, LinkedExistStep, OwedStep, SilencedStep,
   ListIsFreshStep, ListIsTrueStep, HookStep, FoundStep DEF IInv

\* Every reachable state of muteOthers(), signalPortNew() and others satisfies it.
THEOREM InvCorrect == Spec => []IInv
BY InvInit, InvStep, PTL DEF Spec

\* muteOthers(false) that returns has restored whatever any call has broken.
THEOREM RestoreTheorem == Spec => []UnmuteRestores
<1>1. IInv => UnmuteRestores
  BY DEF IInv, TypeOK, Owed, UnmuteRestores
<1> QED BY <1>1, InvCorrect, PTL

\* muteOthers(true) that returns leaves nothing on the physical ports but what
\* was connected behind its back.
THEOREM SilenceTheorem == Spec => []MutedIsSilent
<1>1. IInv => MutedIsSilent
  BY DEF IInv, TypeOK, Silenced, MutedIsSilent
<1> QED BY <1>1, InvCorrect, PTL

\* muteOthers() throws for others' doing, or after it has restored once.
THEOREM CauseTheorem == Spec => []ThrowsForCause
<1>1. IInv => ThrowsForCause
  BY DEF IInv, TypeOK, ListIsFresh, ListIsTrue, ThrowsForCause
<1> QED BY <1>1, InvCorrect, PTL

\* Who hooks in behind a playback port keeps the right source, also when
\* muteOthers() takes it down in between.
THEOREM HookTheorem == Spec => []HookFollowsPlayback
<1>1. IInv => HookFollowsPlayback
  BY DEF IInv
<1> QED BY <1>1, InvCorrect, PTL

-----------------------------------------------------------------------------
(* What is owed, exactly *)

\* Nobody makes a link without paying for it, or breaks one twice.
LEMMA OwedAreDownStep == TypeOK /\ Loops /\ OwedAreDown /\ [Next]_vars => OwedAreDown'
<1> SUFFICES ASSUME TypeOK, Loops, OwedAreDown, [Next]_vars PROVE OwedAreDown'
  OBVIOUS
<1> USE DEF OwedAreDown, ports, muteVars, addVars, history
<1>1. CASE UNCHANGED vars
  BY <1>1 DEF vars
<1>2. CASE \/ MuteCall \/ List \/ DisconnectFails \/ Disconnected \/ Take \/ ReconnectFails
           \/ Reconnected \/ Finish
  BY <1>2 DEF MuteCall, List, DisconnectFails, Disconnected, Take, ReconnectFails,
              Reconnected, Finish, Throw, Leave
<1>3. CASE Disconnect
  BY <1>3 DEF Disconnect
<1>4. CASE Reconnect
  BY <1>4 DEF Reconnect
<1>5. CASE Register \/ Unconnected \/ ConnectCapture \/ AddFails \/ Find \/ HookIn
  BY <1>5, FailsThrow DEF Register, Unconnected, ConnectCapture, Find, HookIn, AddThrows
<1>6. CASE ConnectPlayback \/ OtherConnects
  BY <1>6 DEF ConnectPlayback, OtherConnects, Linked
<1>7. CASE OtherDisconnects \/ OtherQuits \/ OtherStarts
  BY <1>7 DEF OtherDisconnects, Lost, OtherQuits, OtherStarts
<1> QED BY <1>1, <1>2, <1>3, <1>4, <1>5, <1>6, <1>7 DEF Next, Mutes, Adds, Interferes

\* What Disconnect remembers it owes, and what Reconnect pays it passes; as the
\* lists have no duplicates it pays for nothing else.
LEMMA ListIsOwedStep ==
    TypeOK /\ Loops /\ ListIsTrue /\ ListIsOwed /\ [Next]_vars => ListIsOwed'
<1> SUFFICES ASSUME TypeOK, Loops, ListIsTrue, ListIsOwed, [Next]_vars,
                    causes' \cap {"remade", "gone", "again"} = {}
             PROVE  \A p \in Playbacks : \A n \in DOMAIN muted'[p] :
                          Ahead(p, n)' => <<muted'[p][n], p>> \in broken'
  BY DEF ListIsOwed
<1> USE ConstantsAssumption DEF ports, muteVars, addVars, history
<1>p. \A p \in Playbacks : /\ p \in Nat /\ DOMAIN muted[p] = 1..Len(muted[p])
                            /\ \A n \in DOMAIN muted[p] : muted[p][n] \in Sources
  BY DEF Playbacks, TypeOK
<1>c. ASSUME causes \cap {"remade", "gone", "again"} = {}
      PROVE  /\ \A p \in Playbacks : \A n \in DOMAIN muted[p] :
                   /\ Ahead(p, n) => <<muted[p][n], p>> \in broken
                   /\ \A m \in DOMAIN muted[p] : muted[p][m] = muted[p][n] => m = n
             /\ "restored" \in causes => ~mute
  BY <1>c DEF ListIsTrue, ListIsOwed
<1>s. ASSUME causes \subseteq causes' PROVE causes \cap {"remade", "gone", "again"} = {}
  BY <1>s
<1>1. CASE UNCHANGED vars
  BY <1>1, <1>c, <1>s DEF vars, Ahead
<1>2. CASE MuteCall
  <2>1. /\ causes \cap {"remade", "gone", "again"} = {} /\ "restored" \notin causes
        /\ UNCHANGED <<broken, muted>>
    BY <1>2 DEF MuteCall, CausesSoFar
  <2> QED BY <2>1, <1>c DEF Ahead
<1>3. CASE List \/ Take
  <2>1. /\ pc = "channel" /\ pc' \in {"disconnect", "connect"} /\ (pc' = "disconnect" => mute)
        /\ UNCHANGED <<broken, muted, ci, causes>>
    BY <1>3 DEF List, Take
  <2>2. \A p \in Playbacks : \A n : Ahead(p, n)' => Ahead(p, n)
    BY <2>1 DEF Ahead
  <2> QED BY <2>1, <2>2, <1>c, <1>s
<1>4. CASE Disconnect
  <2>1. PICK s \in todo : /\ muted' = [muted EXCEPT ![ci] = Append(@, s)]
                          /\ broken' = broken \cup {<<s, ci>>}
    BY <1>4 DEF Disconnect
  <2>2. /\ s \in Sources /\ ci \in Playbacks /\ mute /\ causes' = causes
    BY <1>4, <2>1 DEF Disconnect, Loops, TypeOK, Playbacks
  <2>3. /\ \A p \in Playbacks \ {ci} : muted'[p] = muted[p]
        /\ muted'[ci] = Append(muted[ci], s)
        /\ muted[ci] \in Seq(Sources)
    BY <2>1, <2>2 DEF TypeOK
  <2>4. /\ DOMAIN muted'[ci] = 1..Len(muted[ci]) + 1
        /\ \A n \in DOMAIN muted[ci] : muted'[ci][n] = muted[ci][n]
        /\ muted'[ci][Len(muted[ci]) + 1] = s
    BY <2>2, <2>3
  <2>5. \A p \in Playbacks : \A n \in DOMAIN muted[p] : <<muted[p][n], p>> \in broken
    BY <2>2, <1>c, <1>s DEF Ahead
  <2>6. ASSUME NEW p \in Playbacks, NEW n \in DOMAIN muted'[p]
        PROVE  <<muted'[p][n], p>> \in broken'
    <3>1. CASE p # ci
      <4>1. muted'[p] = muted[p]
        BY <3>1, <2>3
      <4>2. n \in DOMAIN muted[p]
        BY <4>1
      <4>3. <<muted[p][n], p>> \in broken
        BY <4>2, <2>5
      <4> QED BY <4>1, <4>3, <2>1
    <3>2. CASE p = ci
      <4>1. n \in DOMAIN muted[ci] \/ n = Len(muted[ci]) + 1
        BY <3>2, <2>4, <1>p
      <4>2. CASE n \in DOMAIN muted[ci]
        <5>1. muted'[ci][n] = muted[ci][n] /\ <<muted[ci][n], ci>> \in broken
          BY <4>2, <2>2, <2>4, <2>5
        <5> QED BY <5>1, <3>2, <2>1
      <4>3. CASE n = Len(muted[ci]) + 1
        BY <4>3, <3>2, <2>1, <2>4
      <4> QED BY <4>1, <4>2, <4>3
    <3> QED BY <3>1, <3>2
  <2> QED BY <2>6
<1>5. CASE DisconnectFails \/ ReconnectFails \/ Finish
  <2>1. pc' \in {"thrown", "returned"} /\ UNCHANGED <<broken, muted, causes>>
    BY <1>5 DEF DisconnectFails, ReconnectFails, Finish, Throw, Leave
  <2> QED BY <2>1, <1>c, <1>s DEF Ahead
<1>6. CASE Disconnected \/ Reconnected
  <2>1. /\ pc \in {"connect", "disconnect"} /\ pc' = "channel" /\ ci' = ci + 1
        /\ UNCHANGED <<broken, muted, causes>>
        /\ pc = "disconnect" => mute
    BY <1>6 DEF Disconnected, Reconnected, Loops
  <2>2. pc = "disconnect" => "restored" \notin causes
    BY <2>1, <1>c, <1>s
  <2>3. \A p \in Playbacks : \A n : Ahead(p, n)' => Ahead(p, n)
    BY <2>1, <2>2, <1>p DEF Ahead, TypeOK
  <2> QED BY <2>1, <2>3, <1>c, <1>s
<1>7. CASE Reconnect
  <2>1. /\ pc = "connect" /\ k \in DOMAIN muted[ci] /\ ci \in Playbacks
        /\ broken' = broken \ {<<muted[ci][k], ci>>}
        /\ k' = k + 1 /\ causes' = causes \cup {"restored"}
        /\ UNCHANGED <<muted, ci, pc>>
    BY <1>7, <1>p DEF Reconnect, Candidate, Remembered, Loops, TypeOK, Playbacks
  <2>2. \A p \in Playbacks : \A n \in DOMAIN muted[p] :
           Ahead(p, n)' => Ahead(p, n) /\ (p = ci => n # k)
    BY <2>1, <1>p DEF Ahead, TypeOK
  <2> QED BY <2>1, <2>2, <1>c, <1>s
<1>8. CASE \/ Register \/ Unconnected \/ ConnectCapture \/ AddFails
           \/ Find \/ HookIn \/ OtherStarts
  <2>1. UNCHANGED <<muteVars, broken, causes>>
    BY <1>8, FailsThrow DEF Register, Unconnected, ConnectCapture, Find, HookIn, AddThrows,
                            OtherStarts
  <2> QED BY <2>1, <1>c, <1>s DEF Ahead
<1>9. CASE ConnectPlayback \/ OtherConnects
  <2>1. PICK t, q : Linked(t, q) /\ UNCHANGED muteVars
    BY <1>9 DEF ConnectPlayback, OtherConnects
  <2>2. /\ ~Remembers(q, t) /\ causes' = causes /\ broken' = broken \ {<<t, q>>}
    BY <2>1 DEF Linked
  <2> QED BY <2>1, <2>2, <1>c, <1>s DEF Ahead, Remembers
<1>10. CASE OtherQuits
  <2>1. PICK s \in running : /\ broken' = {l \in broken : l[1] # s}
                             /\ causes' = causes \cup GoneFor(s) \cup
                                   (IF s \in todo THEN {"vanished"} ELSE {})
    BY <1>10 DEF OtherQuits
  <2>2. \A p \in Playbacks : \A n \in DOMAIN muted[p] : muted[p][n] # s
    BY <2>1 DEF GoneFor, Remembers
  <2>3. /\ causes \subseteq causes' /\ UNCHANGED muteVars
        /\ "restored" \in causes' => "restored" \in causes
    BY <1>10, <2>1 DEF OtherQuits, GoneFor
  <2> QED BY <2>1, <2>2, <2>3, <1>c, <1>s DEF Ahead
<1>11. CASE OtherDisconnects
  <2>1. /\ causes \subseteq causes' /\ UNCHANGED <<muteVars, broken>>
        /\ "restored" \in causes' => "restored" \in causes
    BY <1>11 DEF OtherDisconnects, Lost
  <2> QED BY <2>1, <1>c, <1>s DEF Ahead
<1> QED BY <1>1, <1>2, <1>3, <1>4, <1>5, <1>6, <1>7, <1>8, <1>9, <1>10, <1>11
        DEF Next, Mutes, Adds, Interferes

\* Both hold in every reachable state.
LEMMA OwedCorrect == Spec => [](OwedAreDown /\ ListIsOwed)
<1>1. Init => OwedAreDown /\ ListIsOwed
  BY DEF Init, OwedAreDown, ListIsOwed
<1>2. IInv /\ OwedAreDown /\ ListIsOwed /\ [Next]_vars => (OwedAreDown /\ ListIsOwed)'
  BY OwedAreDownStep, ListIsOwedStep DEF IInv
<1> QED BY <1>1, <1>2, InvCorrect, PTL DEF Spec

\* What muteOthers() has taken down it brings back, and without cause nothing
\* else, whoever connects and disconnects meanwhile.
THEOREM OwedTheorem == Spec => []OwedAreDown /\ MovesLinksOnly
<1>1. ASSUME IInv, ListIsOwed, Mutes
      PROVE  /\ (links \cup broken) \subseteq (links \cup broken)'
             /\ causes \cap {"remade", "gone", "again"} = {} =>
                   (links \cup broken)' = links \cup broken
  <2> USE <1>1 DEF history
  <2>1. CASE \/ List \/ DisconnectFails \/ Disconnected \/ Take \/ ReconnectFails
             \/ Reconnected \/ Finish
    BY <2>1 DEF List, DisconnectFails, Disconnected, Take, ReconnectFails, Reconnected,
                Finish, Throw, Leave
  <2>2. CASE Disconnect
    BY <2>2 DEF Disconnect
  <2>3. CASE Reconnect
    <3>1. /\ pc = "connect" /\ k <= Len(muted[ci])
          /\ links' = links \cup {<<muted[ci][k], ci>>}
          /\ broken' = broken \ {<<muted[ci][k], ci>>}
      BY <2>3 DEF Reconnect, Candidate, Remembered
    <3>2. ci \in Playbacks /\ k \in Nat \ {0}
      <4>1. ci \in 0..NumPlayback /\ k \in Nat \ {0} /\ Loops
        BY DEF IInv, TypeOK
      <4> QED BY <3>1, <4>1, ConstantsAssumption DEF Loops, Playbacks
    <3>3. k \in DOMAIN muted[ci]
      BY <3>1, <3>2 DEF IInv, TypeOK
    <3>4. Ahead(ci, k)
      BY <3>1, <3>2 DEF Ahead, Playbacks
    <3> QED BY <3>1, <3>2, <3>3, <3>4 DEF ListIsOwed
  <2> QED BY <2>1, <2>2, <2>3 DEF Mutes
<1>2. IInv /\ ListIsOwed /\ [Next]_vars =>
         [Mutes => /\ (links \cup broken) \subseteq (links \cup broken)'
                   /\ causes \cap {"remade", "gone", "again"} = {} =>
                         (links \cup broken)' = links \cup broken]_vars
  BY <1>1
<1> QED BY <1>2, OwedCorrect, InvCorrect, PTL DEF Spec, MovesLinksOnly

\* Each step of muteOthers() brings its end nearer, and nobody else touches its
\* loops.  That its steps are taken is the fairness of Spec.
THEOREM EndTheorem == Spec => EndComesNearer
<1>1. ASSUME IInv, [Next]_vars, ~Outside
      PROVE  Nearer \/ (~Mutes /\ UNCHANGED muteVars)
  <2> USE <1>1, ConstantsAssumption DEF muteVars
  <2>1. ci \in 0..NumPlayback /\ k \in Nat \ {0} /\ Loops
    BY DEF IInv, TypeOK
  <2>2. CASE Mutes
    <3>1. CASE List \/ Take
      BY <3>1 DEF List, Take, Nearer
    <3>2. CASE Disconnect
      <4>1. PICK s \in todo : todo' = todo \ {s}
        BY <3>2 DEF Disconnect
      <4>2. ci' = ci /\ pc = "disconnect" /\ pc' = pc
        BY <3>2 DEF Disconnect
      <4>3. todo' \subseteq todo /\ todo' # todo
        BY <4>1
      <4> QED BY <4>2, <4>3 DEF Nearer
    <3>3. CASE DisconnectFails \/ ReconnectFails \/ Finish
      BY <3>3 DEF DisconnectFails, ReconnectFails, Finish, Throw, Leave, Nearer, Outside
    <3>4. CASE Disconnected \/ Reconnected
      <4>1. ci' = ci + 1 /\ pc' = "channel" /\ ci < NumPlayback
        BY <3>4, <2>1 DEF Disconnected, Reconnected, Loops
      <4>2. ci + 1 <= NumPlayback
        BY <4>1, <2>1
      <4> QED BY <4>1, <4>2 DEF Nearer
    <3>5. CASE Reconnect
      BY <3>5 DEF Reconnect, Remembered, Nearer
    <3> QED BY <2>2, <3>1, <3>2, <3>3, <3>4, <3>5 DEF Mutes
  <2>3. CASE UNCHANGED vars
    BY <2>3, <2>2 DEF vars
  <2>4. CASE Register \/ Adds \/ Interferes
    <3>1. UNCHANGED muteVars
      BY <2>4, FailsThrow DEF Register, Adds, Unconnected, ConnectCapture, ConnectPlayback,
                  Find, HookIn, AddThrows,
                  Interferes, OtherConnects, OtherDisconnects, OtherQuits, OtherStarts
    <3> QED BY <3>1, <2>2
  <2>5. CASE MuteCall
    BY <2>5 DEF MuteCall
  <2> QED BY <2>2, <2>3, <2>4, <2>5 DEF Next
<1>2. IInv /\ [Next]_vars => [~Outside => Nearer \/ (~Mutes /\ UNCHANGED muteVars)]_vars
  BY <1>1
<1> QED BY <1>2, InvCorrect, PTL DEF Spec, EndComesNearer
=============================================================================
