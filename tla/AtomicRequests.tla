--------------------------- MODULE AtomicRequests ---------------------------
(***************************************************************************)
(* What AudioDriverBase::Request promises to the threads that use it.      *)
(*                                                                         *)
(* A thread calls execute() (or undo(), or JACK's muteOthers()) with a     *)
(* number of actions.  The audio thread sees none of them or all of them:  *)
(* the request is applied in one indivisible step, and the call does not   *)
(* return before that step.  Nothing is promised any more once the         *)
(* contract is void (`open' is FALSE): the driver was stopped, or          *)
(* pauseAudioProcessing() has been called.                                 *)
(*                                                                         *)
(* ActionQueue refines this specification.                                 *)
(***************************************************************************)
EXTENDS Naturals

CONSTANTS Clients,     \* threads that issue requests
          MaxActions   \* bound on the number of actions of a request

VARIABLES open,     \* the contract is in force
          phase,    \* phase[c]: where the call of c is
          size,     \* size[c]: number of actions in c's latest request
          visible   \* visible[c]: how many of them the audio blocks see

vars == <<open, phase, size, visible>>

Init == /\ open = TRUE
        /\ phase = [c \in Clients |-> "idle"]
        /\ size = [c \in Clients |-> 0]
        /\ visible = [c \in Clients |-> 0]

\* c enters execute() with a new request of n actions.
Call(c) == /\ phase[c] = "idle"
           /\ phase' = [phase EXCEPT ![c] = "called"]
           /\ \E n \in 0..MaxActions : size' = [size EXCEPT ![c] = n]
           /\ visible' = [visible EXCEPT ![c] = 0]

\* Between two audio blocks, the whole request takes effect.
Apply(c) == /\ phase[c] = "called"
            /\ phase' = [phase EXCEPT ![c] = "applied"]
            /\ visible' = [visible EXCEPT ![c] = size[c]]
            /\ UNCHANGED size

\* The call returns, which tells c that its request is in effect.
Return(c) == /\ phase[c] = "applied"
             /\ phase' = [phase EXCEPT ![c] = "idle"]
             /\ UNCHANGED <<size, visible>>

Serve == /\ open
         /\ open' = TRUE
         /\ \E c \in Clients : Call(c) \/ Apply(c) \/ Return(c)

\* The contract ends; from the next step on the other variables may do anything.
Void == /\ open' = FALSE
        /\ open => UNCHANGED <<phase, size, visible>>

Next == Serve \/ Void

Spec == Init /\ [][Next]_vars
=============================================================================
