------------------------------ MODULE Session ------------------------------
(***************************************************************************)
(* A whole session: the runtime and the host that drives it, a Mosh server    *)
(* and the network.  The host calls any operation at any time; a datagram     *)
(* that poll returns is lost or travels, and arrives at most once (module     *)
(* SecureChannel) in any order.                                              *)
(*                                                                         *)
(* Of its own direction the server keeps the numbers: it sends its newest     *)
(* state as a difference from any state the client may have, and the last     *)
(* one, U64_MAX, when it closes the session.                                 *)
(***************************************************************************)
EXTENDS SessionRuntime, MoshReceiver

CONSTANTS
    MaxInputs,     \* bound: inputs the host queues
    MaxRemote,     \* bound: ordinary states of the server
    MaxQueue,      \* bound: instructions queued when the host resizes
    Capacity       \* bound: datagrams in flight in each direction

ASSUME SessionAssumption ==
    /\ {MaxInputs, MaxRemote, MaxQueue, Capacity} \subseteq Nat
    /\ MaxRemote < U64_MAX
    /\ MaxInputs + 1 < U64_MAX     \* the state numbers are not exhausted

VARIABLES
    server_last,     \* the server's newest ordinary state
    server_closed,   \* U64_MAX follows it
    server_known,    \* the newest one the client acknowledged
    to_server,
    to_client,
    accepted,        \* inputs the runtime accepted so far: 1 .. accepted
    frames,          \* frames[i]: the frame predicted for input i
    peer_acked,      \* a datagram acknowledging U64_MAX was returned to the host
    running_age      \* since request_shutdown, paused intervals left out

serverVars == <<serverInputVars, server_last, server_closed, server_known>>
ghostVars == <<accepted, frames, peer_acked, running_age>>
vars == <<runtimeVars, serverVars, to_server, to_client, ghostVars>>

Init ==
    /\ RuntimeInit
    /\ ServerInputInit
    /\ server_last = 0 /\ server_closed = FALSE /\ server_known = 0
    /\ to_server = {} /\ to_client = {}
    /\ accepted = 0 /\ frames = <<>>
    /\ peer_acked = FALSE
    /\ running_age = 0

\* What is in flight after a sender handed over `sent`: any datagram may be lost.
Travelling(flying, sent) ==
    {datagrams \in SUBSET (flying \cup sent) : Cardinality(datagrams) <= Capacity}

(***************************************************************************)
(* The host.                                                                *)
(***************************************************************************)
\* The host hands the returned datagrams to its socket.
HostPoll ==
    /\ Poll
    /\ to_server' \in Travelling(to_server, PolledDatagrams)
    /\ peer_acked' = (peer_acked \/ \E m \in PolledDatagrams : m.ack = U64_MAX)
    /\ UNCHANGED <<serverVars, to_client, accepted, frames, running_age>>

HostInput ==
    /\ accepted < MaxInputs
    /\ QueueInput([kind |-> "input", id |-> accepted + 1])
    /\ accepted' = accepted + 1
    /\ frames' = Append(frames, PredictionFrame)
    /\ UNCHANGED <<serverVars, to_server, to_client, peer_acked, running_age>>

\* A resize is numbered after the inputs before it.
HostResize ==
    /\ Len(queued_instructions) < MaxQueue
    /\ QueueResize([kind |-> "resize", id |-> accepted])
    /\ UNCHANGED <<serverVars, to_server, to_client, ghostVars>>

HostShutdown ==
    /\ RequestShutdown
    /\ running_age' = 0
    /\ UNCHANGED <<serverVars, to_server, to_client, accepted, frames, peer_acked>>

HostOther ==
    /\ Pause \/ Resume \/ NotifyUdpRebound \/ Cancel
    /\ UNCHANGED <<serverVars, to_server, to_client, ghostVars>>

Time ==
    /\ Tick
    /\ running_age' = IF shutdown = "LocalRequested" /\ lifecycle = "Running"
                      THEN Older(running_age, SHUTDOWN_TIMEOUT) ELSE running_age
    /\ UNCHANGED <<serverVars, to_server, to_client, accepted, frames, peer_acked>>

HostReceive(u) ==
    /\ ReceiveDatagram(u)
    /\ to_client' = to_client \ {u}
    /\ UNCHANGED <<serverVars, to_server, ghostVars>>

\* A heartbeat of the server arrives, or a part of a message.
HostReceivePart ==
    /\ ReceivePart
    /\ UNCHANGED <<serverVars, to_server, to_client, ghostVars>>

(***************************************************************************)
(* The server and the network.                                              *)
(***************************************************************************)
ServerChange ==
    /\ server_last < MaxRemote /\ ~server_closed
    /\ server_last' = server_last + 1
    /\ UNCHANGED <<runtimeVars, serverInputVars, server_closed, server_known, to_server,
                   to_client, ghostVars>>

ServerClose ==
    /\ ~server_closed
    /\ server_closed' = TRUE
    /\ UNCHANGED <<runtimeVars, serverInputVars, server_last, server_known, to_server,
                   to_client, ghostVars>>

\* With nothing new the server repeats the state it knows the client to have.
ServerTarget == IF server_closed THEN U64_MAX ELSE server_last
Bases == IF server_known = ServerTarget THEN {ServerTarget}
         ELSE {b \in server_known .. server_last : b < ServerTarget}

ServerSend(b) ==
    /\ to_client' \in Travelling(to_client,
           {[base |-> b, target |-> ServerTarget, ack |-> server_newest,
             discard |-> server_known]})
    /\ UNCHANGED <<runtimeVars, serverVars, to_server, ghostVars>>

ServerReceive(m) ==
    /\ IF ServerNeeds(m) THEN ServerAccept(m) ELSE UNCHANGED serverInputVars
    /\ server_known' = IF m.ack > server_known THEN m.ack ELSE server_known
    /\ to_server' = to_server \ {m}
    /\ UNCHANGED <<runtimeVars, server_last, server_closed, to_client, ghostVars>>

\* Once the session is cancelled or complete the host discards the runtime; what the
\* server does from then on is left out.
Server ==
    /\ lifecycle # "Cancelled" /\ ~Complete
    /\ \/ ServerChange \/ ServerClose
       \/ \E b \in Bases : ServerSend(b)
       \/ \E m \in to_server : ServerReceive(m)

Next ==
    \/ HostPoll \/ HostInput \/ HostResize \/ HostShutdown \/ HostOther \/ Time
    \/ HostReceivePart
    \/ \E u \in to_client : HostReceive(u)
    \/ Server

Spec == Init /\ [][Next]_vars

\* The host polls when milliseconds_until_next_poll says so and its clock runs; nothing
\* is assumed of the network and the server.
FairSpec == Spec /\ WF_vars(PollWait = 0 /\ HostPoll) /\ WF_vars(Time)

(***************************************************************************)
(* Properties.                                                              *)
(***************************************************************************)
Instructions == [kind : {"input", "resize"}, id : 0 .. MaxInputs]

StreamType ==
    /\ next_local_state \in 1 .. U64_MAX
    /\ sent_states \in Seq(SentState) /\ Len(sent_states) > 0
    /\ local_instructions \in Seq(Instructions)
    /\ queued_instructions \in Seq(Instructions)
    /\ QueuedInput <= MAXIMUM_QUEUED_INPUT
TimerType ==
    /\ send_age \in 0 .. RETRANSMIT
    /\ receive_age \in 0 .. SERVER_UNRESPONSIVE
    /\ shutdown_age \in 0 .. SHUTDOWN_TIMEOUT /\ running_age \in 0 .. SHUTDOWN_TIMEOUT
    /\ transmissions \in 0 .. SHUTDOWN_RETRY_LIMIT
ModeType ==
    /\ association \in {"Due", "Sent"}
    /\ connection_state \in {"Connecting", "Connected", "Interrupted"}
    /\ lifecycle \in {"Running", "Paused", "Cancelled"}
    /\ shutdown \in {"Open", "LocalRequested", "PeerRequested"} \cup Outcomes
FlagType ==
    /\ acknowledgement_due \in BOOLEAN
    /\ peer_shutdown_acknowledgement_due \in BOOLEAN
    /\ peer_acked \in BOOLEAN
RemoteType ==
    /\ latest_remote_state \in received_states
    /\ received_states \subseteq 0 .. U64_MAX
    /\ remote_throwaway_floor \in 0 .. U64_MAX

\* Every variable stays in its type, and the queue within its bound.
TypeOK == StreamType /\ TimerType /\ ModeType /\ FlagType /\ RemoteType

\* The inputs come in the order they were typed, every resize where it was made.
WellOrdered(stream) ==
    \A i \in 1 .. Len(stream) : stream[i].id = InputsIn(SubSeq(stream, 1, i))

\* All the input the runtime accepted is somewhere, once and in order: consumed by
\* the server up to the confirmed state, retained for retransmission, or queued;
\* only cancel gives any of it up.  Draining the queue, coalescing resizes,
\* stop-and-wait and the shutdown frame lose, repeat and reorder nothing
\* (queue_resize and build_queued_update, runtime lib.rs:316-355, 719-760).
InputAccounted ==
    LET stream == server_states[Confirmed.state_id] \o local_instructions
                  \o queued_instructions
    IN  /\ WellOrdered(stream)
        /\ lifecycle # "Cancelled" => InputsIn(stream) = accepted

\* At most one update is unconfirmed, so the runtime never makes the protocol prune
\* its history (poll, runtime lib.rs:665-672).
StopAndWait == Len(sent_states) <= 2

\* A shutdown is reported as acknowledged only when the server has consumed
\* everything the host ever queued (poll, runtime lib.rs:643-645).
AcknowledgedMeansConsumed ==
    shutdown = "Acknowledged" =>
        /\ server_newest = U64_MAX
        /\ InputsIn(ServerInput) = accepted

\* The frame predicted for an input when it is queued bounds it from both sides: a
\* server state holds the input exactly if its number has reached the frame.  An
\* echo acknowledgement therefore never confirms a keystroke the server has not
\* read, whether the queue waited for a pending update or went out with the
\* shutdown (prediction_frame_id, runtime lib.rs:823-826).
FramesAreExact ==
    \A n \in DOMAIN server_states : \A i \in 1 .. accepted :
        (frames[i] <= n) <=>
            \E k \in 1 .. Len(server_states[n]) :
                server_states[n][k] = [kind |-> "input", id |-> i]

\* The host may sleep as long as milliseconds_until_next_poll says and misses nothing: a
\* poll before that sends no datagram and gives no shutdown up (it may only report one
\* that was acknowledged), and a poll at that time does something, so that the host does
\* not spin, unless a peer's shutdown is waiting for the next heartbeat (runtime
\* lib.rs:762-803).
WaitIsExact ==
    Polling =>
        /\ PollWait > 0 => PolledDatagrams = {} /\ (Completing => ShutdownConfirmed)
        /\ PollWait = 0 => \/ PolledDatagrams # {} \/ Completing
                           \/ peer_shutdown_acknowledgement_due

\* A requested shutdown ends, whatever the server and the network do, while the
\* host polls the running session whenever it is told to: the timeout bounds it, and
\* a peer shutdown that comes in between cannot hold it open.
ShutdownEnds == shutdown = "LocalRequested" ~> (Complete \/ lifecycle # "Running")

\* A peer shutdown ends too: its acknowledgement becomes due by itself.
PeerShutdownEnds == shutdown = "PeerRequested" ~> (Complete \/ lifecycle # "Running")

\* "A peer shutdown is not complete until its `u64::MAX` acknowledgement datagram
\* has been returned to the host for sending" (docs/EMBEDDING.md:50-52).
PeerShutdownAcknowledged == shutdown = "PeerShutdown" => peer_acked

\* "A paused runtime ... does not advance timers" (docs/EMBEDDING.md:57-58): a
\* shutdown that is given up before its last transmission has run for the whole
\* timeout.
PausedTimeIsFree ==
    shutdown = "TimedOut" =>
        \/ transmissions >= SHUTDOWN_RETRY_LIMIT
        \/ running_age >= SHUTDOWN_TIMEOUT

(***************************************************************************)
(* The inductive invariant.  With one update on its way at a time the server  *)
(* holds the confirmed state, perhaps the newest, and older ones.             *)
(***************************************************************************)
\* The input that the newest state stands for.
NewestInput == server_states[Confirmed.state_id] \o local_instructions

\* The sent states are the confirmed one and at most one more, which holds all of the
\* retained instructions; their numbers are consecutive, or the newest is the last.
HistoryInv ==
    /\ Len(sent_states) \in 1 .. 2
    /\ Confirmed.instruction_end = 0
    /\ Newest.instruction_end = Len(local_instructions)
    /\ ~HasPendingUpdate => local_instructions = <<>>
    /\ HasPendingUpdate =>
          Confirmed.state_id < Newest.state_id /\ Confirmed.state_id < next_local_state
    /\ Newest.state_id \in {next_local_state - 1, U64_MAX}

\* A message that could add a state to the server adds the newest one, whole; for an
\* older one the server lacks the base or has the target.
MessageInv(m) ==
    /\ {m.base, m.target, m.discard, m.ack} \subseteq 0 .. U64_MAX
    /\ m.discard <= Confirmed.state_id
    /\ m.ack <= latest_remote_state
    /\ m.base # m.target =>
          /\ m.base < m.target
          /\ \/ /\ m.target <= Confirmed.state_id
                /\ m.target \in DOMAIN server_states \/ m.base \notin DOMAIN server_states
             \/ /\ m.base = Confirmed.state_id /\ m.target = Newest.state_id
                /\ m.delta = local_instructions
MessagesInv == \A m \in to_server : MessageInv(m)

\* The server keeps the confirmed state and whatever it acknowledged from there on.
ServerInv ==
    /\ Confirmed.state_id \in DOMAIN server_states
    /\ server_newest \in DOMAIN server_states
    /\ \A n \in DOMAIN server_states :
          /\ n \in 0 .. U64_MAX /\ n <= server_newest
          /\ n <= Confirmed.state_id \/ n = Newest.state_id
          /\ server_states[n] \in Seq(Instructions)
    /\ Newest.state_id \in DOMAIN server_states =>
          server_states[Newest.state_id] = NewestInput
    /\ \A u \in to_client :
          /\ u.ack \in 0 .. U64_MAX
          /\ u.ack >= Confirmed.state_id => u.ack \in DOMAIN server_states

\* Nobody builds on a server state the client may lack.
RemoteInv ==
    /\ server_last \in 0 .. MaxRemote /\ server_closed \in BOOLEAN
    /\ server_known \in 0 .. U64_MAX /\ server_known <= latest_remote_state
    /\ remote_throwaway_floor <= latest_remote_state
    /\ \A u \in to_client :
          /\ {u.base, u.target, u.discard} \subseteq 0 .. U64_MAX
          /\ u.discard <= latest_remote_state

\* A state's number tells the inputs it holds by their frames; the others wait for the
\* next update.
FrameInv ==
    /\ accepted \in 0 .. MaxInputs
    /\ frames \in Seq(0 .. U64_MAX) /\ Len(frames) = accepted
    /\ \A n \in DOMAIN server_states :
          /\ WellOrdered(server_states[n])
          /\ InputsIn(server_states[n]) <= accepted
          /\ \A i \in 1 .. accepted : frames[i] <= n <=> i <= InputsIn(server_states[n])
    /\ InputsIn(NewestInput) <= accepted
    /\ \A i \in 1 .. accepted :
          IF i <= InputsIn(NewestInput) THEN frames[i] <= Newest.state_id
          ELSE frames[i] = next_local_state

\* The shutdown state is the last one and holds all input.
ShutdownInv ==
    /\ LocalShutdownSent => /\ shutdown # "Open"
                            /\ queued_instructions = <<>>
                            /\ InputsIn(NewestInput) = accepted
    /\ shutdown = "Acknowledged" => LocalShutdownAcknowledged

IInv ==
    /\ TypeOK
    /\ HistoryInv
    /\ MessagesInv
    /\ ServerInv
    /\ RemoteInv
    /\ InputAccounted
    /\ FrameInv
    /\ ShutdownInv
=============================================================================
