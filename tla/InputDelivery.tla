--------------------------- MODULE InputDelivery ---------------------------
(***************************************************************************)
(* Input on its way to the server: the sending half of ClientProtocol, a     *)
(* Mosh server and the network between them.  The caller of the protocol     *)
(* builds updates, retransmits and shuts down whenever it likes; the         *)
(* runtime's stop-and-wait use of it is one such caller.  A bare              *)
(* acknowledgement has base = target, so it never adds a server state.        *)
(*                                                                         *)
(* The network loses a message when it is sent (the message never joins the  *)
(* set in flight) and otherwise keeps it, so that it can arrive late, out of *)
(* order and more than once.                                                 *)
(***************************************************************************)
EXTENDS SentHistory, MoshReceiver

CONSTANTS
    MaxInstructions,   \* bound: instructions submitted in all
    MaxBatch           \* bound: instructions in one update

ASSUME BoundAssumption == MaxInstructions \in Nat /\ MaxBatch \in Nat

VARIABLES
    to_server,    \* client messages in flight
    to_client,    \* acknowledgement numbers in flight
    submitted,    \* every instruction handed to the protocol, in order
    ends          \* client state number -> submitted instructions it stands for

vars == <<sentVars, serverInputVars, to_server, to_client, submitted, ends>>

Init ==
    /\ SentInit
    /\ ServerInputInit
    /\ to_server = {}
    /\ to_client = {}
    /\ submitted = <<>>
    /\ ends = [n \in {0} |-> 0]

\* The k instructions that follow the submitted ones, each a fresh value.
Batch(k) == [i \in 1 .. k |-> Len(submitted) + i]

Sent(m) == to_server' \in {to_server, to_server \cup {m}}

\* The state `target` is created with `batch` as its last instructions.
Created(target, batch) ==
    /\ submitted' = submitted \o batch
    /\ ends' = [n \in DOMAIN ends \cup {target} |->
           IF n = target THEN Len(submitted) + Len(batch) ELSE ends[n]]

\* build_update.  The caller builds nothing after a shutdown.
Update(k) ==
    /\ Len(submitted) + k <= MaxInstructions
    /\ ~LocalShutdownSent
    /\ BuildUpdate(Batch(k))
    /\ Sent(UpdateMessage(next_local_state, Batch(k), 0))
    /\ Created(next_local_state, Batch(k))
    /\ UNCHANGED <<serverInputVars, to_client>>

\* build_shutdown, with the final input.
Shutdown(k) ==
    /\ Len(submitted) + k <= MaxInstructions
    /\ BuildShutdown(Batch(k))
    /\ Sent(UpdateMessage(U64_MAX, Batch(k), 0))
    /\ Created(U64_MAX, Batch(k))
    /\ UNCHANGED <<serverInputVars, to_client>>

\* retransmit_pending.
Retransmit ==
    /\ HasPendingUpdate
    /\ Sent(RetransmitMessage(0))
    /\ UNCHANGED <<sentVars, serverInputVars, to_client, submitted, ends>>

\* A client message reaches the server.
ServerReceive(m) ==
    /\ ServerAccept(m)
    /\ UNCHANGED <<sentVars, to_server, to_client, submitted, ends>>

\* The server sends a message; what matters here is the number it acknowledges.
ServerSend ==
    /\ to_client' \in {to_client, to_client \cup {server_newest}}
    /\ UNCHANGED <<sentVars, serverInputVars, to_server, submitted, ends>>

\* ingest_packet on a server message that acknowledges the number a.
Ingest(a) ==
    /\ ProcessAcknowledgement(a)
    /\ UNCHANGED <<serverInputVars, to_server, to_client, submitted, ends>>

Next ==
    \/ \E k \in 0 .. MaxBatch : Update(k) \/ Shutdown(k)
    \/ Retransmit
    \/ \E m \in to_server : ServerReceive(m)
    \/ ServerSend
    \/ \E a \in to_client : Ingest(a)

\* The host keeps polling, so a pending update is retransmitted again and again,
\* and the network is not dead: of infinitely many copies one gets through, in
\* both directions, and what is in flight arrives.
Fairness ==
    /\ SF_vars(Retransmit /\ RetransmitMessage(0) \in to_server')
    /\ SF_vars(ServerSend /\ server_newest \in to_client')
    /\ WF_vars(\E m \in to_server : m.target = Newest.state_id /\ ServerReceive(m))
    /\ WF_vars(Newest.state_id \in to_client /\ Ingest(Newest.state_id))

Spec == Init /\ [][Next]_vars
FairSpec == Spec /\ Fairness

(***************************************************************************)
(* Properties.                                                              *)
(***************************************************************************)
\* Every variable stays in its type.
TypeOK ==
    /\ next_local_state \in 1 .. U64_MAX
    /\ local_instructions \in Seq(Nat)
    /\ sent_states \in Seq(SentState) /\ Len(sent_states) > 0
    /\ submitted \in Seq(Nat)
    /\ DOMAIN ends \subseteq 0 .. U64_MAX
    /\ \A n \in DOMAIN ends : ends[n] \in Nat
    /\ DOMAIN server_states \subseteq DOMAIN ends
    /\ server_newest \in DOMAIN server_states
    /\ to_client \subseteq DOMAIN ends
    /\ \A m \in to_server :
          /\ {m.base, m.target, m.discard} \subseteq DOMAIN ends
          /\ m.delta \in Seq(Nat)

\* Each state the server holds stands for a prefix of the submitted input: no
\* interleaving of updates, retransmissions from another base, stale
\* acknowledgements and removed history makes the server read an instruction
\* twice, skip one or read two in the wrong order (build_state_update,
\* retransmit_pending and process_acknowledgement, session lib.rs:198-284, 420-451).
InputExactlyOnce ==
    \A n \in DOMAIN server_states :
        /\ n \in DOMAIN ends
        /\ server_states[n] = SubSeq(submitted, 1, ends[n])

\* What the client dropped is what the server holds: the confirmed state is still
\* on the server, and with the retained instructions it gives all of the input.
\* A retransmission therefore always has a base the server knows.
NothingLost ==
    /\ Confirmed.state_id \in DOMAIN server_states
    /\ server_states[Confirmed.state_id] \o local_instructions = submitted

\* Every sent state's instruction_end is an index into the retained instructions,
\* and the newest state ends where they end: the slice in retransmit_pending never
\* leaves the vector and never leaves an instruction out.
EndsInRange ==
    /\ \A i \in 1 .. Len(sent_states) :
          sent_states[i].instruction_end <= Len(local_instructions)
    /\ Newest.instruction_end = Len(local_instructions)

\* The system implements the abstract input stream.
Stream == INSTANCE InputStream WITH consumed <- ServerInput
ImplementsStream == Stream!Spec

(***************************************************************************)
(* The inductive invariant: ends gives each client state its prefix of the   *)
(* input, and everything else is measured by it.                             *)
(***************************************************************************)
\* A state number, the prefix it stands for and the retained rest of the input.
HistoryInv ==
    /\ \A a, b \in DOMAIN ends : a <= b => ends[a] <= ends[b]
    /\ \A a \in DOMAIN ends :
          /\ ends[a] <= Len(submitted)
          /\ a <= Newest.state_id
          /\ a < next_local_state \/ a = U64_MAX
    /\ ends[Newest.state_id] = Len(submitted)
    /\ local_instructions =
          SubSeq(submitted, ends[Confirmed.state_id] + 1, Len(submitted))
    /\ \A i \in 1 .. Len(sent_states) :
          /\ sent_states[i].state_id \in DOMAIN ends
          /\ sent_states[i].instruction_end =
                ends[sent_states[i].state_id] - ends[Confirmed.state_id]
          /\ \A j \in 1 .. Len(sent_states) :
                i < j => sent_states[i].state_id < sent_states[j].state_id

\* Every message in flight carries the input between its base and its target, and
\* asks the server to discard nothing the client may still build on.
MessagesInv ==
    \A m \in to_server :
        /\ m.base < m.target
        /\ m.discard <= m.base
        /\ m.discard <= Confirmed.state_id
        /\ m.delta = SubSeq(submitted, ends[m.base] + 1, ends[m.target])

\* The server still holds the confirmed state and everything it acknowledged
\* from there on.
ServerInv ==
    /\ Confirmed.state_id \in DOMAIN server_states
    /\ \A n \in DOMAIN server_states : n <= server_newest
    /\ \A a \in to_client :
          a >= Confirmed.state_id => a \in DOMAIN server_states

IInv ==
    /\ TypeOK
    /\ HistoryInv
    /\ MessagesInv
    /\ ServerInv
    /\ InputExactlyOnce

\* Once the caller has stopped submitting, everything it submitted is consumed
\* and confirmed: nothing in the history can block the retransmissions for good.
EventuallyConfirmed ==
    LocalShutdownSent ~> (LocalShutdownAcknowledged /\ ServerInput = submitted)
=============================================================================
