---------------------------- MODULE SentHistory ----------------------------
(***************************************************************************)
(* The sending half of ClientProtocol (ferrumtty-session): the client       *)
(* states that were sent and not yet confirmed, and the input instructions   *)
(* needed to rebuild them.  The first entry of sent_states is the confirmed  *)
(* state, the last one the newest.                                           *)
(*                                                                         *)
(* An instruction is any value; the encoding, compression and encryption of  *)
(* a message succeed.  What a message says of the other direction, its       *)
(* acknowledgement, is the argument ack.                                     *)
(***************************************************************************)
EXTENDS Integers, Sequences

CONSTANTS
    U64_MAX,               \* the reserved shutdown state number
    MAXIMUM_SENT_STATES,   \* 32 in the code
    NEWEST_KEPT            \* 16 in the code: where limit_sent_states removes

ASSUME MaxAssumption == U64_MAX \in Nat \ {0}
ASSUME HistoryAssumption ==
    /\ NEWEST_KEPT \in Nat \ {0, 1}
    /\ MAXIMUM_SENT_STATES \in Nat
    /\ NEWEST_KEPT <= MAXIMUM_SENT_STATES

VARIABLES
    next_local_state,
    local_instructions,
    sent_states

sentVars == <<next_local_state, local_instructions, sent_states>>

SentState == [state_id : 0 .. U64_MAX, instruction_end : Nat]

SentInit ==
    /\ next_local_state = 1
    /\ local_instructions = <<>>
    /\ sent_states = <<[state_id |-> 0, instruction_end |-> 0]>>

Confirmed == sent_states[1]
Newest == sent_states[Len(sent_states)]

HasPendingUpdate == Len(sent_states) > 1
LocalShutdownSent == Newest.state_id = U64_MAX
LocalShutdownAcknowledged == Confirmed.state_id = U64_MAX

(***************************************************************************)
(* The messages.                                                            *)
(***************************************************************************)
\* build_acknowledgement, and build_association, which is the same message.
AcknowledgementMessage(ack) ==
    [base |-> Newest.state_id, target |-> Newest.state_id, ack |-> ack,
     discard |-> Confirmed.state_id, delta |-> <<>>]

\* The message of build_state_update.
UpdateMessage(target, instructions, ack) ==
    [base |-> Newest.state_id, target |-> target, ack |-> ack,
     discard |-> Confirmed.state_id, delta |-> instructions]

\* A bug the properties must catch: the rebuilt update starts from the state
\* before the newest instead of the confirmed one.
RetransmitMessage_FromNewest(ack) ==
    LET base == sent_states[Len(sent_states) - 1]
    IN  [base |-> Confirmed.state_id, target |-> Newest.state_id, ack |-> ack,
         discard |-> Confirmed.state_id,
         delta |-> SubSeq(local_instructions, base.instruction_end + 1,
                          Newest.instruction_end)]

\* retransmit_pending: everything unconfirmed, rebuilt from the confirmed state.
RetransmitMessage(ack) ==
    [base |-> Confirmed.state_id, target |-> Newest.state_id, ack |-> ack,
     discard |-> Confirmed.state_id,
     delta |-> SubSeq(local_instructions, Confirmed.instruction_end + 1,
                      Newest.instruction_end)]

(***************************************************************************)
(* The state changes.                                                       *)
(***************************************************************************)
\* A bug the properties must catch: the oldest state goes, the confirmed one.
LimitSentStates_DropConfirmed(states) ==
    IF Len(states) > MAXIMUM_SENT_STATES THEN Tail(states) ELSE states

\* limit_sent_states: push_back adds one state at a time, so at most one is
\* removed; the confirmed state and the newest ones stay.
LimitSentStates(states) ==
    IF Len(states) > MAXIMUM_SENT_STATES
    THEN LET removed == Len(states) - NEWEST_KEPT + 1
         IN  SubSeq(states, 1, removed - 1) \o SubSeq(states, removed + 1, Len(states))
    ELSE states

\* build_state_update after the packets are sealed.
PushState(target, instructions) ==
    /\ local_instructions' = local_instructions \o instructions
    /\ sent_states' = LimitSentStates(Append(sent_states,
           [state_id |-> target,
            instruction_end |-> Len(local_instructions) + Len(instructions)]))

\* A bug the properties must catch: an ordinary update takes the reserved number.
BuildUpdate_Exhausted(instructions) ==
    /\ PushState(next_local_state, instructions)
    /\ next_local_state' = next_local_state + 1

\* build_update.
BuildUpdate(instructions) ==
    /\ next_local_state # U64_MAX
    /\ PushState(next_local_state, instructions)
    /\ next_local_state' = next_local_state + 1

\* build_shutdown.
BuildShutdown(instructions) ==
    /\ ~LocalShutdownSent
    /\ PushState(U64_MAX, instructions)
    /\ UNCHANGED next_local_state

\* A bug the properties must catch: the instructions are drained, but the ends of
\* the remaining states are not rebased.
ProcessAcknowledgement_NoRebase(ack) ==
    LET matches == {i \in 1 .. Len(sent_states) : sent_states[i].state_id = ack}
    IN  IF matches = {} THEN UNCHANGED sentVars
        ELSE LET i == CHOOSE j \in matches : TRUE
                 drained == sent_states[i].instruction_end
             IN  /\ sent_states' = SubSeq(sent_states, i, Len(sent_states))
                 /\ local_instructions' =
                       SubSeq(local_instructions, drained + 1, Len(local_instructions))
                 /\ UNCHANGED next_local_state

\* process_acknowledgement: only an exact match confirms; the instructions up to
\* the confirmed state go and the ends of the remaining states are rebased.
ProcessAcknowledgement(ack) ==
    LET matches == {i \in 1 .. Len(sent_states) : sent_states[i].state_id = ack}
    IN  IF matches = {} THEN UNCHANGED sentVars
        ELSE LET i == CHOOSE j \in matches : TRUE
                 drained == sent_states[i].instruction_end
             IN  /\ sent_states' = [k \in 1 .. (Len(sent_states) - i + 1) |->
                       [state_id |-> sent_states[k + i - 1].state_id,
                        instruction_end |->
                            sent_states[k + i - 1].instruction_end - drained]]
                 /\ local_instructions' =
                       SubSeq(local_instructions, drained + 1, Len(local_instructions))
                 /\ UNCHANGED next_local_state
=============================================================================
