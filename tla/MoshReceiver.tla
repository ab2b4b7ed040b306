---------------------------- MODULE MoshReceiver ----------------------------
(***************************************************************************)
(* External: how a Mosh server keeps the client states it receives.  It is  *)
(* the peer the client's messages (base, target, discard, delta) are built  *)
(* for, and the mirror image of ClientProtocol::accept_remote_update: a      *)
(* target it has is ignored, a base it lacks is ignored, states below the    *)
(* discard number are dropped, and the newest state is acknowledged.         *)
(***************************************************************************)
EXTENDS Integers, Sequences

VARIABLES
    server_states,   \* client state number -> the input stream it stands for
    server_newest    \* the number the server acknowledges

serverInputVars == <<server_states, server_newest>>

ServerInputInit ==
    /\ server_states = [n \in {0} |-> <<>>]
    /\ server_newest = 0

\* The message m adds a state.
ServerNeeds(m) ==
    /\ m.target \notin DOMAIN server_states
    /\ m.base \in DOMAIN server_states

ServerKeeps(m) == {n \in DOMAIN server_states : n >= m.discard} \cup {m.target}

ServerAccept(m) ==
    /\ ServerNeeds(m)
    /\ server_states' = [n \in ServerKeeps(m) |->
           IF n = m.target THEN server_states[m.base] \o m.delta ELSE server_states[n]]
    /\ server_newest' = IF m.target > server_newest THEN m.target ELSE server_newest

\* The input the remote application has been given.
ServerInput == server_states[server_newest]
=============================================================================
