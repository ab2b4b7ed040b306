--------------------------- MODULE SessionRuntime ---------------------------
(***************************************************************************)
(* SessionRuntime (ferrumtty-runtime): the host-driven state machine around   *)
(* ClientProtocol, with its input queue, timers, lifecycle and shutdown       *)
(* handshake.                                                                *)
(*                                                                         *)
(* Time is kept as ages that saturate at the limit they are compared with,    *)
(* so that last_send = None is the same as a saturated send_age: both make    *)
(* a retransmission or a heartbeat due.  The retransmission delay is fixed    *)
(* (its estimation from round-trip samples is left out).  Of the remote states *)
(* only the numbers are kept: rebuilding and comparing terminals, and updates  *)
(* that are held back because histories diverge, are in ReceivedHistory.       *)
(***************************************************************************)
EXTENDS SentHistory, FiniteSets

CONSTANTS
    RETRANSMIT,              \* retransmit_milliseconds, in ticks
    SERVER_UNRESPONSIVE,     \* 30 s in the code
    SHUTDOWN_TIMEOUT,        \* 10 s in the code
    SHUTDOWN_RETRY_LIMIT,    \* 16 in the code
    MAXIMUM_QUEUED_INPUT     \* 1 MiB in the code, here in inputs

ASSUME TimerAssumption ==
    {RETRANSMIT, SERVER_UNRESPONSIVE, SHUTDOWN_TIMEOUT, SHUTDOWN_RETRY_LIMIT,
     MAXIMUM_QUEUED_INPUT} \subseteq Nat \ {0}

VARIABLES
    queued_instructions,
    send_age,                   \* since last_send
    receive_age,                \* since last_receive
    association,                \* "Due" or "Sent"
    acknowledgement_due,
    connection_state,
    lifecycle,
    shutdown,                   \* "Open", "LocalRequested", "PeerRequested" or an outcome
    shutdown_age,               \* since started_at
    transmissions,
    peer_shutdown_acknowledgement_due,
    latest_remote_state,
    received_states,            \* the numbers of the rebuilt server states
    remote_throwaway_floor

timerVars == <<send_age, receive_age, shutdown_age>>
remoteVars == <<latest_remote_state, received_states, remote_throwaway_floor>>
handshakeVars == <<shutdown, transmissions, peer_shutdown_acknowledgement_due>>
runtimeVars == <<sentVars, queued_instructions, timerVars, association,
                 acknowledgement_due, connection_state, lifecycle, handshakeVars,
                 remoteVars>>

Outcomes == {"Acknowledged", "PeerShutdown", "TimedOut"}
Complete == shutdown \in Outcomes

RuntimeInit ==
    /\ SentInit
    /\ queued_instructions = <<>>
    /\ send_age = RETRANSMIT /\ receive_age = 0 /\ shutdown_age = 0
    /\ association = "Due"
    /\ acknowledgement_due = FALSE
    /\ connection_state = "Connecting"
    /\ lifecycle = "Running"
    /\ shutdown = "Open" /\ transmissions = 0
    /\ peer_shutdown_acknowledgement_due = FALSE
    /\ latest_remote_state = 0
    /\ received_states = {0}
    /\ remote_throwaway_floor = 0

Older(age, limit) == IF age < limit THEN age + 1 ELSE limit

\* The host's clock moves on, whether the runtime is paused or not.
Tick ==
    /\ send_age' = Older(send_age, RETRANSMIT)
    /\ receive_age' = Older(receive_age, SERVER_UNRESPONSIVE)
    /\ shutdown_age' = IF shutdown = "LocalRequested"
                       THEN Older(shutdown_age, SHUTDOWN_TIMEOUT) ELSE shutdown_age
    /\ UNCHANGED <<sentVars, queued_instructions, association, acknowledgement_due,
                   connection_state, lifecycle, handshakeVars, remoteVars>>

(***************************************************************************)
(* Calls of the host.  An instruction is [kind, id].                         *)
(***************************************************************************)
AcceptingInput == lifecycle = "Running" /\ shutdown = "Open"

\* How many of the instructions are input.
InputsIn(stream) == Cardinality({i \in 1 .. Len(stream) : stream[i].kind = "input"})
QueuedInput == InputsIn(queued_instructions)

\* A bug the properties must catch: the queue takes one input too many.
QueueInput_OneMore(ins) ==
    /\ AcceptingInput
    /\ QueuedInput <= MAXIMUM_QUEUED_INPUT
    /\ queued_instructions' = Append(queued_instructions, ins)
    /\ UNCHANGED <<sentVars, timerVars, association, acknowledgement_due,
                   connection_state, lifecycle, handshakeVars, remoteVars>>

\* queue_input, and queue_session_control, which only adds a capability check.
QueueInput(ins) ==
    /\ AcceptingInput
    /\ QueuedInput < MAXIMUM_QUEUED_INPUT
    /\ queued_instructions' = Append(queued_instructions, ins)
    /\ UNCHANGED <<sentVars, timerVars, association, acknowledgement_due,
                   connection_state, lifecycle, handshakeVars, remoteVars>>

\* A bug the properties must catch: a resize replaces the last queued one although
\* input was queued after it.
Coalesced_AcrossInput(queue, ins) ==
    LET resizes == {i \in 1 .. Len(queue) : queue[i].kind = "resize"}
    IN  IF resizes = {} THEN Append(queue, ins)
        ELSE [queue EXCEPT ![CHOOSE i \in resizes : \A j \in resizes : j <= i] = ins]

\* Only consecutive resizes are coalesced.
Coalesced(queue, ins) ==
    IF queue # <<>> /\ queue[Len(queue)].kind = "resize"
    THEN [queue EXCEPT ![Len(queue)] = ins]
    ELSE Append(queue, ins)

\* queue_resize; set_initial_remote_viewport is in ReceivedHistory.
QueueResize(ins) ==
    /\ AcceptingInput
    /\ queued_instructions' = Coalesced(queued_instructions, ins)
    /\ UNCHANGED <<sentVars, timerVars, association, acknowledgement_due,
                   connection_state, lifecycle, handshakeVars, remoteVars>>

\* request_shutdown.
RequestShutdown ==
    /\ lifecycle = "Running" /\ shutdown = "Open"
    /\ shutdown' = "LocalRequested" /\ transmissions' = 0 /\ shutdown_age' = 0
    /\ UNCHANGED <<sentVars, queued_instructions, send_age, receive_age, association,
                   acknowledgement_due, connection_state, lifecycle,
                   peer_shutdown_acknowledgement_due, remoteVars>>

\* pause.
Pause ==
    /\ lifecycle = "Running"
    /\ lifecycle' = "Paused"
    /\ UNCHANGED <<sentVars, queued_instructions, timerVars, association,
                   acknowledgement_due, connection_state, handshakeVars, remoteVars>>

\* resume and resume_with_actions, in a running session too.
Resume ==
    /\ lifecycle # "Cancelled"
    /\ lifecycle' = "Running"
    /\ receive_age' = 0 /\ send_age' = RETRANSMIT
    /\ UNCHANGED <<sentVars, queued_instructions, shutdown_age, association,
                   acknowledgement_due, connection_state, handshakeVars, remoteVars>>

\* notify_udp_rebound.
NotifyUdpRebound ==
    /\ lifecycle # "Cancelled"
    /\ send_age' = RETRANSMIT
    /\ UNCHANGED <<sentVars, queued_instructions, receive_age, shutdown_age, association,
                   acknowledgement_due, connection_state, lifecycle, handshakeVars,
                   remoteVars>>

\* cancel.
Cancel ==
    /\ lifecycle # "Cancelled"
    /\ lifecycle' = "Cancelled"
    /\ queued_instructions' = <<>>
    /\ UNCHANGED <<sentVars, timerVars, association, acknowledgement_due,
                   connection_state, handshakeVars, remoteVars>>

(***************************************************************************)
(* receive_datagram.                                                        *)
(***************************************************************************)
\* accept_remote_update, without the terminals.
Rebuildable(u) ==
    /\ u.target \notin received_states
    /\ u.discard <= u.base /\ u.target > u.base
    /\ u.base \in received_states
Advances(u) == Rebuildable(u) /\ u.target > latest_remote_state

AcceptRemoteUpdate(u) ==
    IF Rebuildable(u)
    THEN LET floor == IF u.discard > remote_throwaway_floor THEN u.discard
                      ELSE remote_throwaway_floor
         IN  /\ remote_throwaway_floor' = floor
             /\ received_states' = {n \in received_states : n >= floor} \cup {u.target}
             /\ latest_remote_state' = IF Advances(u) THEN u.target ELSE latest_remote_state
    ELSE UNCHANGED remoteVars

\* A timestamp-only heartbeat or a fragment of an incomplete message.
ReceivePart ==
    /\ lifecycle = "Running"
    /\ receive_age' = 0
    /\ connection_state' = "Connected"
    /\ UNCHANGED <<sentVars, queued_instructions, send_age, shutdown_age, association,
                   acknowledgement_due, lifecycle, handshakeVars, remoteVars>>

\* A datagram that completes the update u.
ReceiveDatagram(u) ==
    /\ lifecycle = "Running"
    /\ u.target \in received_states \/ (u.discard <= u.base /\ u.target > u.base)
    /\ ProcessAcknowledgement(u.ack)
    /\ AcceptRemoteUpdate(u)
    /\ receive_age' = 0
    /\ connection_state' = "Connected"
    /\ acknowledgement_due' = (acknowledgement_due \/ Advances(u))
    /\ peer_shutdown_acknowledgement_due' =
          (peer_shutdown_acknowledgement_due \/ u.target = U64_MAX)
    /\ shutdown' = IF u.target = U64_MAX /\ shutdown = "Open" THEN "PeerRequested"
                   ELSE shutdown
    /\ UNCHANGED <<queued_instructions, send_age, shutdown_age, association, lifecycle,
                   transmissions>>

(***************************************************************************)
(* poll.  One action per way through the function; the guards are its early   *)
(* returns, in order.                                                        *)
(***************************************************************************)
Polling == lifecycle = "Running" /\ ~Complete

\* The association comes first: its datagram, and the age of the last send after it.
Associating == association = "Due"
AssociationDatagrams == IF Associating THEN {AcknowledgementMessage(latest_remote_state)}
                        ELSE {}
PolledAge == IF Associating THEN 0 ELSE send_age

\* A bug the properties must catch: an ordinary acknowledgement ends the handshake.
ShutdownConfirmed_AnyState == shutdown = "LocalRequested" /\ ~HasPendingUpdate

ShutdownConfirmed == LocalShutdownAcknowledged

\* A bug the properties must catch: only a shutdown that was sent can time out.
ShutdownTimedOut_OnlyRetries ==
    /\ shutdown = "LocalRequested"
    /\ transmissions > SHUTDOWN_RETRY_LIMIT

ShutdownTimedOut ==
    /\ shutdown = "LocalRequested"
    /\ transmissions >= SHUTDOWN_RETRY_LIMIT \/ shutdown_age >= SHUTDOWN_TIMEOUT

\* The early return drops the association datagram that may have been built.
PollComplete ==
    /\ Polling
    /\ ~peer_shutdown_acknowledgement_due
    /\ \/ ShutdownConfirmed /\ shutdown' = "Acknowledged"
       \/ ~ShutdownConfirmed /\ ShutdownTimedOut /\ shutdown' = "TimedOut"
    /\ association' = "Sent" /\ send_age' = PolledAge
    /\ UNCHANGED <<sentVars, queued_instructions, receive_age, shutdown_age,
                   acknowledgement_due, connection_state, lifecycle, transmissions,
                   peer_shutdown_acknowledgement_due, remoteVars>>

Completing ==
    ~peer_shutdown_acknowledgement_due /\ (ShutdownConfirmed \/ ShutdownTimedOut)
Continuing == Polling /\ ~Completing

LocalShutdownUnsent == shutdown = "LocalRequested" /\ ~LocalShutdownSent

\* A bug the properties must catch: queued input does not wait for the pending update.
Fresh_WhilePending == queued_instructions # <<>> \/ LocalShutdownUnsent

Fresh == (queued_instructions # <<>> \/ LocalShutdownUnsent) /\ ~HasPendingUpdate
SendDue == acknowledgement_due \/ PolledAge >= RETRANSMIT

\* connection_state_action.
Liveness ==
    connection_state' = IF connection_state = "Connected" /\ receive_age >= SERVER_UNRESPONSIVE
                        THEN "Interrupted" ELSE connection_state

\* A bug the properties must catch: a bare acknowledgement does not complete the
\* peer's shutdown.
SettleHandshake_UpdatesOnly(counted) ==
    /\ peer_shutdown_acknowledgement_due' = (peer_shutdown_acknowledgement_due /\ ~counted)
    /\ shutdown' = IF peer_shutdown_acknowledgement_due /\ counted THEN "PeerShutdown"
                   ELSE shutdown
    /\ transmissions' = IF counted /\ shutdown = "LocalRequested"
                        THEN Older(transmissions, SHUTDOWN_RETRY_LIMIT) ELSE transmissions

\* record_shutdown_transmission (counted up to the limit it is compared with) and
\* complete_peer_shutdown_after_ack.
SettleHandshake(counted) ==
    /\ peer_shutdown_acknowledgement_due' = FALSE
    /\ shutdown' = IF peer_shutdown_acknowledgement_due THEN "PeerShutdown" ELSE shutdown
    /\ transmissions' = IF counted /\ shutdown = "LocalRequested"
                        THEN Older(transmissions, SHUTDOWN_RETRY_LIMIT) ELSE transmissions

Sending ==
    /\ association' = "Sent" /\ send_age' = 0
    /\ acknowledgement_due' = FALSE
    /\ Liveness
    /\ UNCHANGED <<receive_age, shutdown_age, lifecycle, remoteVars>>

\* build_queued_update.  Its shutdown-acknowledgement branch needs an acknowledged
\* local shutdown and something queued, which nothing can be by then.  A runtime that has
\* used up its 2^64 state numbers is not followed further: the queue is gone with the error.
PollFresh ==
    /\ Continuing /\ Fresh
    /\ ~(peer_shutdown_acknowledgement_due /\ LocalShutdownAcknowledged)
    /\ queued_instructions' = <<>>
    /\ IF LocalShutdownUnsent THEN BuildShutdown(queued_instructions)
       ELSE BuildUpdate(queued_instructions)
    /\ Sending /\ SettleHandshake(TRUE)

PollRetransmit ==
    /\ Continuing /\ ~Fresh /\ HasPendingUpdate /\ SendDue
    /\ Sending /\ SettleHandshake(TRUE)
    /\ UNCHANGED <<sentVars, queued_instructions>>

\* The acknowledgement and heartbeat.
PollHeartbeat ==
    /\ Continuing /\ ~Fresh /\ ~HasPendingUpdate /\ SendDue
    /\ Sending /\ SettleHandshake(FALSE)
    /\ UNCHANGED <<sentVars, queued_instructions>>

PollIdle ==
    /\ Continuing /\ ~Fresh /\ ~SendDue
    /\ association' = "Sent" /\ send_age' = PolledAge
    /\ Liveness
    /\ UNCHANGED <<sentVars, queued_instructions, receive_age, shutdown_age,
                   acknowledgement_due, lifecycle, handshakeVars, remoteVars>>

\* The datagrams that poll returns for sending.
PolledMessage ==
    CASE Fresh -> UpdateMessage(IF LocalShutdownUnsent THEN U64_MAX ELSE next_local_state,
                                queued_instructions, latest_remote_state)
      [] ~Fresh /\ HasPendingUpdate -> RetransmitMessage(latest_remote_state)
      [] OTHER -> AcknowledgementMessage(latest_remote_state)
PolledDatagrams ==
    IF ~Continuing THEN {}
    ELSE AssociationDatagrams \cup (IF Fresh \/ SendDue THEN {PolledMessage} ELSE {})

Poll == PollComplete \/ PollFresh \/ PollRetransmit \/ PollHeartbeat \/ PollIdle

(***************************************************************************)
(* milliseconds_until_next_poll: how long the host may sleep.                 *)
(***************************************************************************)
Left(age, limit) == limit - age
Smaller(a, b) == IF a < b THEN a ELSE b

ProtocolWait ==
    IF Associating \/ acknowledgement_due \/ Fresh THEN 0 ELSE Left(send_age, RETRANSMIT)

ShutdownWait ==
    IF transmissions >= SHUTDOWN_RETRY_LIMIT THEN 0
    ELSE Left(shutdown_age, SHUTDOWN_TIMEOUT)

\* A bug the properties must catch: the shutdown's own deadline is forgotten.
PollWait_NoDeadline == IF Polling THEN ProtocolWait ELSE U64_MAX

PollWait ==
    IF ~Polling THEN U64_MAX
    ELSE IF shutdown = "LocalRequested" THEN Smaller(ProtocolWait, ShutdownWait)
    ELSE ProtocolWait

\* A bug the properties must catch: the frame of the update sent last.
PredictionFrame_Sent == Newest.state_id

\* prediction_frame_id: the frame that will hold input queued now.
PredictionFrame == next_local_state
=============================================================================
