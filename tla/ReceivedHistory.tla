-------------------------- MODULE ReceivedHistory --------------------------
(***************************************************************************)
(* The receiving half of ClientProtocol (ferrumtty-session): the server      *)
(* states that were rebuilt, the one that was handed to the host, and the     *)
(* floor below which the server will not build any more.                     *)
(*                                                                         *)
(* An update is [base, target, discard, delta], delta a sequence of           *)
(* instructions.                                                             *)
(***************************************************************************)
EXTENDS RemoteState, FiniteSets

CONSTANT MAXIMUM_RECEIVED_STATES   \* 1,024 in the code

ASSUME ReceivedAssumption == MAXIMUM_RECEIVED_STATES \in Nat \ {0}

VARIABLES
    received_states,          \* state number -> RemoteTerminalState
    latest_remote_state,
    delivered_remote_state,
    remote_throwaway_floor

remoteVars == <<received_states, latest_remote_state, delivered_remote_state,
                remote_throwaway_floor>>

RemoteInit(size) ==
    /\ received_states = [n \in {0} |-> NewState(size)]
    /\ latest_remote_state = 0
    /\ delivered_remote_state = NewState(size)
    /\ remote_throwaway_floor = 0

\* set_initial_remote_viewport: ignored once a server state has arrived.
SetInitialRemoteViewport(size) ==
    /\ latest_remote_state = 0
    /\ Cardinality(DOMAIN received_states) = 1
    /\ received_states' = [received_states EXCEPT ![0] = NewState(size)]
    /\ delivered_remote_state' = NewState(size)
    /\ UNCHANGED <<latest_remote_state, remote_throwaway_floor>>

(***************************************************************************)
(* accept_remote_update, one operator per decision.                         *)
(***************************************************************************)
\* InvalidStateTransition.
InvalidTransition(u) == u.discard > u.base \/ u.target <= u.base

Base(u) == Clone(received_states[u.base])

\* A bug the properties must catch: the bound is checked before the states below the
\* floor are dropped.
Rebuildable_FullFirst(u) ==
    /\ u.target \notin DOMAIN received_states
    /\ ~InvalidTransition(u)
    /\ u.base \in DOMAIN received_states
    /\ CanApply(Base(u), u.delta)
    /\ Cardinality(DOMAIN received_states) < MAXIMUM_RECEIVED_STATES

\* The update names a new state that can be rebuilt.  A known target and an
\* unknown base are ignored, the other cases are errors; none changes the history.
Rebuildable(u) ==
    /\ u.target \notin DOMAIN received_states
    /\ ~InvalidTransition(u)
    /\ u.base \in DOMAIN received_states
    /\ CanApply(Base(u), u.delta)
Rebuilt(u) == Apply(Base(u), u.delta)

Floor(u) == IF u.discard > remote_throwaway_floor THEN u.discard
            ELSE remote_throwaway_floor
Retained(u) == {n \in DOMAIN received_states : n >= Floor(u)}

\* TooManyRemoteStates: found after the old states were dropped.
HistoryFull(u) == Cardinality(Retained(u)) >= MAXIMUM_RECEIVED_STATES

\* The update is handed to the host: advances_remote_state.
Advances(u) ==
    /\ Rebuildable(u)
    /\ ~HistoryFull(u)
    /\ u.target > latest_remote_state
    /\ CanDiff(Rebuilt(u), delivered_remote_state)

\* The delta of the delivered update: the effects not yet handed over.
DeliveredDelta(u) == DiffFrom(Rebuilt(u), delivered_remote_state)

\* A bug the properties must catch: the update's own base, not the server's discard
\* number, becomes the floor.
AcceptRemoteUpdate_FloorAtBase(u) ==
    IF Rebuildable(u)
    THEN /\ remote_throwaway_floor' = u.base
         /\ received_states' =
               [n \in {k \in DOMAIN received_states : k >= u.base} \cup {u.target} |->
                   IF n = u.target THEN Rebuilt(u) ELSE received_states[n]]
         /\ IF Advances(u)
            THEN /\ latest_remote_state' = u.target
                 /\ delivered_remote_state' = Rebuilt(u)
            ELSE UNCHANGED <<latest_remote_state, delivered_remote_state>>
    ELSE UNCHANGED remoteVars

AcceptRemoteUpdate(u) ==
    IF Rebuildable(u)
    THEN /\ remote_throwaway_floor' = Floor(u)
         /\ received_states' =
               [n \in Retained(u) \cup (IF HistoryFull(u) THEN {} ELSE {u.target}) |->
                   IF n = u.target THEN Rebuilt(u) ELSE received_states[n]]
         /\ IF Advances(u)
            THEN /\ latest_remote_state' = u.target
                 /\ delivered_remote_state' = Rebuilt(u)
            ELSE UNCHANGED <<latest_remote_state, delivered_remote_state>>
    ELSE UNCHANGED remoteVars
=============================================================================
