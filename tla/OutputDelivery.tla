--------------------------- MODULE OutputDelivery ---------------------------
(***************************************************************************)
(* Output on its way to the host: a Mosh server, the network, the receiving   *)
(* half of ClientProtocol and the terminal the host feeds with the delivered  *)
(* updates.  The network loses, delays, reorders and duplicates in both       *)
(* directions, as in InputDelivery.                                          *)
(***************************************************************************)
EXTENDS ReceivedHistory, MoshSender

VARIABLES
    to_client,    \* server updates in flight
    to_server,    \* acknowledgement numbers in flight
    shown,        \* the host's terminal: content and size
    echoed,       \* the last echo acknowledgement handed to the host
    performed,    \* the session controls handed to the host
    agreed        \* the client's blank screen has the server's size

hostVars == <<shown, echoed, performed, agreed>>
vars == <<remoteVars, serverScreenVars, to_client, to_server, hostVars>>

Init ==
    /\ ServerScreenInit
    /\ RemoteInit(SizeOf(0))
    /\ to_client = {}
    /\ to_server = {}
    /\ shown = [content |-> Blank, size |-> SizeOf(0)]
    /\ echoed = NoEcho
    /\ performed = <<>>
    /\ agreed = TRUE

\* The host applies a delivered delta.
HandOver(delta) ==
    /\ shown' = FoldLeft(ApplyOperation, shown, delta)
    /\ echoed' = FoldLeft(LAMBDA e, o : IF o.op = "marker" THEN o.value ELSE e, echoed, delta)
    /\ performed' = FoldLeft(LAMBDA p, o : IF o.op = "control" THEN Append(p, o.id) ELSE p,
                             performed, delta)

\* set_initial_remote_viewport.
SetViewport(size) ==
    /\ SetInitialRemoteViewport(size)
    /\ shown' = [shown EXCEPT !.size = size]
    /\ agreed' = (size = SizeOf(0))
    /\ UNCHANGED <<serverScreenVars, to_client, to_server, echoed, performed>>

\* ingest_packet on a complete server update.
Ingest(u) ==
    /\ AcceptRemoteUpdate(u)
    /\ IF Advances(u) THEN HandOver(DeliveredDelta(u))
       ELSE UNCHANGED <<shown, echoed, performed>>
    /\ UNCHANGED <<serverScreenVars, to_client, to_server, agreed>>

\* Any client message carries latest_remote_state.
Acknowledge ==
    /\ to_server' \in {to_server, to_server \cup {latest_remote_state}}
    /\ UNCHANGED <<remoteVars, serverScreenVars, to_client, hostVars>>

ServerChange ==
    /\ ScreenChanges
    /\ UNCHANGED <<remoteVars, to_client, to_server, hostVars>>

ServerSend(b) ==
    /\ to_client' \in {to_client, to_client \cup {ServerUpdate(b)}}
    /\ UNCHANGED <<remoteVars, serverScreenVars, to_server, hostVars>>

ServerReceive(a) ==
    /\ ServerLearns(a)
    /\ UNCHANGED <<remoteVars, to_client, to_server, hostVars>>

Next ==
    \/ \E size \in {1, 2} : SetViewport(size)
    \/ \E u \in to_client : Ingest(u)
    \/ Acknowledge
    \/ ServerChange
    \/ \E b \in Bases : ServerSend(b)
    \/ \E a \in to_server : ServerReceive(a)

\* The update the server falls back to: from the state it knows the client to have.
FallsBack(u) ==
    u.base = server_known /\ u.discard = server_known /\ u.target = server_current

\* The client keeps acknowledging, the server keeps falling back, some copy of each
\* message gets through and what is in flight arrives.  The last conjunct is the weak
\* fairness of ingesting the fallback update: it has an effect when it can be rebuilt
\* and either is stored or raises the floor.
Fairness ==
    /\ WF_vars(Acknowledge /\ latest_remote_state \in to_server')
    /\ WF_vars(server_known \in Bases /\ ServerSend(server_known)
               /\ ServerUpdate(server_known) \in to_client')
    /\ WF_vars(\E a \in to_server : ServerReceive(a))
    /\ \/ []<>~(\E u \in to_client :
                   /\ FallsBack(u) /\ Rebuildable(u)
                   /\ ~HistoryFull(u) \/ Floor(u) # remote_throwaway_floor)
       \/ []<><<\E u \in to_client : FallsBack(u) /\ Ingest(u)>>_vars

Spec == Init /\ [][Next]_vars
FairSpec == Spec /\ Fairness

(***************************************************************************)
(* Properties.                                                              *)
(***************************************************************************)
\* The terminal shows exactly the server state the client acknowledges, whatever
\* bases the updates were built on and in whatever order they arrived: no delivered
\* delta repeats, skips or garbles output (diff_from and accept_remote_update, state
\* lib.rs:199-247, session lib.rs:453-494).
TerminalShowsLatest ==
    /\ shown.content = ContentOf(latest_remote_state)
    /\ agreed => shown.size = SizeOf(latest_remote_state)
    /\ echoed = EchoOf(latest_remote_state)

\* A retained state replays to the server's state of that number, after any number
\* of compactions, so that an update built on it can be rebuilt, and no history is
\* longer than its bound (Clone, compacted_history and validate_history_size, state
\* lib.rs:290-323, 396-413).
HistoriesReplay ==
    \A n \in DOMAIN received_states :
        /\ FitsHistory(received_states[n].history)
        /\ Clone(received_states[n]).screen = received_states[n].screen
        /\ received_states[n].screen.content = ContentOf(n)

\* The state the server builds on when everything else fails is still there:
\* neither the floor nor the bound, which is kept, removes a state that was
\* acknowledged (session lib.rs:474-481).
KnownStateRetained ==
    /\ Cardinality(DOMAIN received_states) <= MAXIMUM_RECEIVED_STATES
    /\ server_known \in DOMAIN received_states
    /\ latest_remote_state \in DOMAIN received_states

\* A session control is handed to the host once and in the server's order, whatever the
\* bases, the order and the repetitions of the updates: a delivery hands over exactly the
\* controls of the states it passes, if the new history continues the delivered one, and
\* none if the branches have diverged (diff_from, state lib.rs:199-232).
ControlsOnceInOrder ==
    [][performed' = performed \o
          (IF HistoryExtends(delivered_remote_state', delivered_remote_state)
           THEN SetToSortSeq(script.controls \cap
                                 (latest_remote_state + 1) .. latest_remote_state', <)
           ELSE <<>>)]_vars

\* What the code does not achieve: every session control up to the state shown was
\* performed.  diff_from is said to use a screen diff only where the histories "contain
\* no state that a screen diff cannot reconstruct" (state lib.rs:190-193).
ControlsPerformed ==
    performed = SetToSortSeq(script.controls \cap 1 .. latest_remote_state, <)

\* "A divergent branch uses a screen diff when both parsers end at a ground boundary"
\* (docs/COMPATIBILITY.md:67-68): a newer state that can be rebuilt and stored is
\* handed to the host if both histories end at ground, here even if both screens
\* have the same size.
DivergentBranchesConverge ==
    \A u \in to_client :
        (/\ Rebuildable(u) /\ ~HistoryFull(u) /\ u.target > latest_remote_state
         /\ EndsAtGround(Rebuilt(u).history)
         /\ EndsAtGround(delivered_remote_state.history)
         /\ Rebuilt(u).viewport = delivered_remote_state.viewport) => Advances(u)

\* The last state of the server is eventually shown, whatever was lost, garbled in
\* order or refused on the way, if no state is resized or ends inside a sequence: those
\* may stay undelivered until the screen changes again (session lib.rs:480-494).
EventuallyShown ==
    (/\ script.resized = {} /\ script.partials = {}
     /\ server_current = script.last) ~> latest_remote_state = script.last

(***************************************************************************)
(* The inductive invariant.  Of the numbers: no floor in use or on its way is   *)
(* above what the server knows, and no acknowledged state at or above the       *)
(* floor is missing.  Of the contents: every state the client holds is the      *)
(* server's state of that number, its history replays to it, and if the sizes    *)
(* agreed at the start the history tells the size it started with.              *)
(***************************************************************************)
NumberType ==
    /\ {server_current, server_known, latest_remote_state, remote_throwaway_floor} \subseteq Nat
    /\ to_server \subseteq Nat
    /\ \A u \in to_client : {u.target, u.discard} \subseteq Nat
    /\ DOMAIN received_states \subseteq Nat /\ IsFiniteSet(DOMAIN received_states)

FloorInv ==
    /\ remote_throwaway_floor <= server_known
    /\ \A u \in to_client : u.discard <= server_known

AcknowledgedInv ==
    \A a \in to_server \cup {server_known} :
        /\ a <= latest_remote_state
        /\ a >= remote_throwaway_floor => a \in DOMAIN received_states

Atoms == [from : Int, to : Int]
Operations == [op : {"bytes"}, run : Seq(Atoms) \ {<<>>}] \cup [op : {"resize"}, size : Nat]
                  \cup [op : {"control"}, id : Int]
Screens == [content : Int, size : Nat]
States == [initial : Nat, history : Seq(Operations), viewport : Nat, echo_ack : Int,
           screen : Screens]

\* The size a history starts with: that of the state whose snapshot comes first, or that of
\* the blank screen.
Origin(history) ==
    IF history # <<>> /\ history[1].op = "bytes" /\ history[1].run[1].from = AnyContent
    THEN SizeOf(history[1].run[1].to \div 2)
    ELSE SizeOf(0)

\* What the client holds as state n is the server's state n.
Faithful(s, n) ==
    /\ s \in States
    /\ FitsHistory(s.history)
    /\ s.screen = Replay(s.history, s.initial)
    /\ s.screen.content = ContentOf(n) /\ s.screen.size = s.viewport
    /\ s.echo_ack = EchoOf(n)
    /\ agreed => s.viewport = SizeOf(n) /\ s.initial = Origin(s.history)

UpdatesInv ==
    \A u \in to_client :
        u.base \in Nat /\ u.base < u.target /\ u.delta = Difference(u.base, u.target)

ReceivedInv == \A n \in DOMAIN received_states : Faithful(received_states[n], n)

\* The host shows what was delivered; before anything was, nothing else was received.
DeliveredInv ==
    /\ Faithful(delivered_remote_state, latest_remote_state)
    /\ shown \in Screens
    /\ shown.content = delivered_remote_state.screen.content
    /\ agreed => shown.size = delivered_remote_state.viewport
    /\ echoed = delivered_remote_state.echo_ack
    /\ delivered_remote_state.history = <<>> =>
          /\ DOMAIN received_states = {0}
          /\ received_states[0].history = <<>>

NumberInv == NumberType /\ FloorInv /\ AcknowledgedInv /\ KnownStateRetained
ContentInv == script \in Scripts /\ UpdatesInv /\ ReceivedInv /\ DeliveredInv
IInv == NumberInv /\ ContentInv
=============================================================================
