---------------------------- MODULE ThumbService ----------------------------
(***************************************************************************)
(* What the client library promises of a call, whatever becomes of the     *)
(* server: it has one outcome, which never changes once it has it.  A call *)
(* that blocks its caller always comes to it.                              *)
(***************************************************************************)
CONSTANTS Calls, NoResult, Results

VARIABLES
    phase,    \* each call: "new", "pending" or "done"
    blocking, \* whether it blocks its caller
    outcome   \* NoResult until it is done

vars == <<phase, blocking, outcome>>

Init ==
    /\ phase = [c \in Calls |-> "new"]
    /\ blocking = [c \in Calls |-> TRUE]
    /\ outcome = [c \in Calls |-> NoResult]

\* The call is made; the kind of call is known from here on.
Begin(c) ==
    /\ phase[c] = "new"
    /\ phase' = [phase EXCEPT ![c] = "pending"]
    /\ \E b \in BOOLEAN : blocking' = [blocking EXCEPT ![c] = b]
    /\ UNCHANGED outcome

\* It is refused on the spot.
Refuse(c, result) ==
    /\ phase[c] = "new"
    /\ phase' = [phase EXCEPT ![c] = "done"]
    /\ \E b \in BOOLEAN : blocking' = [blocking EXCEPT ![c] = b]
    /\ outcome' = [outcome EXCEPT ![c] = result]

End(c, result) ==
    /\ phase[c] = "pending"
    /\ phase' = [phase EXCEPT ![c] = "done"]
    /\ outcome' = [outcome EXCEPT ![c] = result]
    /\ UNCHANGED blocking

Ends(c) == \E result \in Results : End(c, result)

Next ==
    \E c \in Calls :
       Begin(c) \/ Ends(c) \/ \E result \in Results : Refuse(c, result)

Spec ==
    /\ Init
    /\ [][Next]_vars
    /\ \A c \in Calls : WF_vars(blocking[c] /\ Ends(c))
=============================================================================
