--------------------------- MODULE SessionProofs ---------------------------
(***************************************************************************)
(* For every number space, timer and queue bound: the runtime loses, repeats *)
(* and reorders no accepted input, waits for one update at a time, reports a  *)
(* shutdown as acknowledged only when the server has everything, predicts     *)
(* frames exactly and tells the host how long it may sleep.                   *)
(***************************************************************************)
EXTENDS Session, FiniteSetTheorems, SequenceTheorems, WellFoundedInduction, TLAPS

\* The assumptions, one constant at a time.
LEMMA Bounds ==
    /\ U64_MAX \in Nat /\ U64_MAX > 0
    /\ RETRANSMIT \in Nat /\ RETRANSMIT > 0
    /\ SERVER_UNRESPONSIVE \in Nat /\ SERVER_UNRESPONSIVE > 0
    /\ SHUTDOWN_TIMEOUT \in Nat /\ SHUTDOWN_TIMEOUT > 0
    /\ SHUTDOWN_RETRY_LIMIT \in Nat /\ SHUTDOWN_RETRY_LIMIT > 0
    /\ MAXIMUM_QUEUED_INPUT \in Nat /\ MAXIMUM_QUEUED_INPUT > 0
    /\ MaxInputs \in Nat /\ MaxRemote \in Nat /\ MaxRemote < U64_MAX
BY MaxAssumption, TimerAssumption, SessionAssumption

(***************************************************************************)
(* Streams of instructions.                                                 *)
(***************************************************************************)
\* The positions of the inputs in a stream are finitely many.
LEMMA CountType ==
    ASSUME NEW S, NEW s \in Seq(S)
    PROVE  /\ IsFiniteSet({i \in 1 .. Len(s) : s[i].kind = "input"})
           /\ InputsIn(s) \in Nat
<1>1. IsFiniteSet(1 .. Len(s))
  BY FS_Interval
<1>2. {i \in 1 .. Len(s) : s[i].kind = "input"} \in SUBSET (1 .. Len(s))
  OBVIOUS
<1>3. QED  BY <1>1, <1>2, FS_Subset, FS_CardinalityType DEF InputsIn

\* An empty stream holds no input.
LEMMA CountEmpty == InputsIn(<<>>) = 0
<1>1. {i \in 1 .. Len(<<>>) : <<>>[i].kind = "input"} = {}
  OBVIOUS
<1>2. QED  BY <1>1, FS_EmptySet DEF InputsIn

\* Another instruction counts if it is an input.
LEMMA CountAppend ==
    ASSUME NEW S, NEW s \in Seq(S), NEW x \in S
    PROVE  InputsIn(Append(s, x)) = IF x.kind = "input" THEN InputsIn(s) + 1 ELSE InputsIn(s)
<1> DEFINE P(t) == {i \in 1 .. Len(t) : t[i].kind = "input"}
<1>1. IsFiniteSet(P(s)) /\ Len(s) + 1 \notin P(s)
  BY CountType
<1>2. CASE x.kind = "input"
  <2>1. P(Append(s, x)) = P(s) \cup {Len(s) + 1}
    BY <1>2
  <2>2. QED  BY <1>1, <1>2, <2>1, FS_AddElement DEF InputsIn
<1>3. CASE x.kind # "input"
  <2>1. P(Append(s, x)) = P(s)
    BY <1>3
  <2>2. QED  BY <1>3, <2>1 DEF InputsIn
<1>4. QED  BY <1>2, <1>3

\* A stream that is continued holds the same inputs and perhaps more.
LEMMA CountPrefix ==
    ASSUME NEW S, NEW s \in Seq(S), NEW t \in Seq(S)
    PROVE  InputsIn(s) <= InputsIn(s \o t)
<1> DEFINE P(u) == {i \in 1 .. Len(u) : u[i].kind = "input"}
<1>1. P(s) \in SUBSET P(s \o t)
  OBVIOUS
<1>2. IsFiniteSet(P(s \o t))
  <2>1. s \o t \in Seq(S)
    OBVIOUS
  <2>2. QED  BY <2>1, CountType
<1>3. QED  BY <1>1, <1>2, FS_Subset DEF InputsIn

\* The beginning of a well-ordered stream is well-ordered.
LEMMA WellOrderedPrefix ==
    ASSUME NEW S, NEW s \in Seq(S), NEW t \in Seq(S), WellOrdered(s \o t)
    PROVE  WellOrdered(s)
<1>1. ASSUME NEW i \in 1 .. Len(s)
      PROVE  s[i].id = InputsIn(SubSeq(s, 1, i))
  <2>1. i \in 1 .. Len(s \o t) /\ (s \o t)[i] = s[i] /\ SubSeq(s \o t, 1, i) = SubSeq(s, 1, i)
    OBVIOUS
  <2>2. QED  BY <2>1 DEF WellOrdered
<1>2. QED  BY <1>1 DEF WellOrdered

\* A stream stays well-ordered when the next instruction carries its number.
LEMMA WellOrderedAppend ==
    ASSUME NEW S, NEW s \in Seq(S), NEW x \in S, WellOrdered(s),
           x.id = InputsIn(Append(s, x))
    PROVE  WellOrdered(Append(s, x))
<1> DEFINE a == Append(s, x)
<1>1. ASSUME NEW i \in 1 .. Len(a)
      PROVE  a[i].id = InputsIn(SubSeq(a, 1, i))
  <2>1. CASE i <= Len(s)
    <3>1. i \in 1 .. Len(s) /\ a[i] = s[i] /\ SubSeq(a, 1, i) = SubSeq(s, 1, i)
      BY <2>1
    <3>2. QED  BY <3>1 DEF WellOrdered
  <2>2. CASE i > Len(s)
    <3>1. i = Len(a) /\ a[i] = x /\ SubSeq(a, 1, i) = a
      BY <2>2
    <3>2. QED  BY <3>1
  <2>3. QED  BY <2>1, <2>2
<1>2. QED  BY <1>1 DEF WellOrdered

\* A well-ordered stream holds the input i exactly if it holds i inputs or more.
LEMMA HeldInput ==
    ASSUME NEW s \in Seq(Instructions), WellOrdered(s), NEW i \in Nat \ {0}
    PROVE  i <= InputsIn(s) <=>
              \E k \in 1 .. Len(s) : s[k] = [kind |-> "input", id |-> i]
<1> DEFINE count(k) == InputsIn(SubSeq(s, 1, k))
<1>1. \A k \in 0 .. Len(s) : SubSeq(s, 1, k) \in Seq(Instructions) /\ count(k) \in Nat
  <2>1. \A k \in 0 .. Len(s) : SubSeq(s, 1, k) \in Seq(Instructions)
    OBVIOUS
  <2>2. QED  BY <2>1, CountType
<1>2. ASSUME NEW k \in 1 .. Len(s), s[k] = [kind |-> "input", id |-> i]
      PROVE  i <= InputsIn(s)
  <2>1. i = count(k)
    BY <1>2 DEF WellOrdered
  <2>2. /\ SubSeq(s, 1, k) \in Seq(Instructions) /\ SubSeq(s, k + 1, Len(s)) \in Seq(Instructions)
        /\ SubSeq(s, 1, k) \o SubSeq(s, k + 1, Len(s)) = s
    OBVIOUS
  <2>3. QED  BY <2>1, <2>2, CountPrefix
<1>3. ASSUME i <= InputsIn(s)
      PROVE  \E k \in 1 .. Len(s) : s[k] = [kind |-> "input", id |-> i]
  <2> DEFINE T == {k \in 0 .. Len(s) : i <= count(k)}
  <2>1. T \subseteq Nat /\ T # {}
    <3>1. SubSeq(s, 1, Len(s)) = s /\ Len(s) \in 0 .. Len(s)
      OBVIOUS
    <3>2. i <= count(Len(s))
      BY <1>3, <3>1
    <3> HIDE DEF count
    <3>3. QED  BY <3>1, <3>2
  <2>2. PICK k \in T : \A j \in T : ~(<<j, k>> \in OpToRel(<, Nat))
    BY <2>1, WFMin, NatLessThanWellFounded
  <2>3. \A j \in T : ~(j < k)
    BY <2>1, <2>2 DEF OpToRel
  <2>4. k # 0
    <3>1. SubSeq(s, 1, 0) = <<>>
      OBVIOUS
    <3>2. count(0) = 0
      BY <3>1, CountEmpty
    <3> HIDE DEF count
    <3>3. QED  BY <3>2
  <2>5. k \in 1 .. Len(s) /\ k - 1 \in 0 .. Len(s) /\ ~(i <= count(k - 1))
    BY <2>3, <2>4
  <2>6. /\ SubSeq(s, 1, k) = Append(SubSeq(s, 1, k - 1), s[k])
        /\ SubSeq(s, 1, k - 1) \in Seq(Instructions) /\ s[k] \in Instructions
    BY <2>5
  <2>7. count(k) = IF s[k].kind = "input" THEN count(k - 1) + 1 ELSE count(k - 1)
    BY <2>6, CountAppend
  <2>8. s[k].kind = "input" /\ count(k) = i
    <3>1. count(k) \in Nat /\ count(k - 1) \in Nat /\ i <= count(k)
      BY <1>1, <2>5
    <3> HIDE DEF count
    <3>2. QED  BY <2>5, <2>7, <3>1
  <2>9. s[k].id = i
    BY <2>5, <2>8 DEF WellOrdered
  <2>10. QED  BY <2>5, <2>6, <2>8, <2>9 DEF Instructions
<1>4. QED  BY <1>2, <1>3

(***************************************************************************)
(* The start and the steps that neither send nor receive an update.          *)
(***************************************************************************)
\* A new session satisfies the invariant.
LEMMA InitInv == Init => IInv
<1> SUFFICES ASSUME Init PROVE IInv
  OBVIOUS
<1> DEFINE first == [state_id |-> 0, instruction_end |-> 0]
<1>1. /\ sent_states = <<first>> /\ next_local_state = 1 /\ local_instructions = <<>>
      /\ Len(sent_states) = 1 /\ sent_states[1] = first
      /\ Confirmed = first /\ Newest = first
  BY DEF Init, RuntimeInit, SentInit, Confirmed, Newest
<1>2. /\ DOMAIN server_states = {0} /\ server_states[0] = <<>> /\ server_newest = 0
  BY DEF Init, ServerInputInit
<1>3. NewestInput = <<>> /\ NewestInput \o queued_instructions = <<>>
  BY <1>1, <1>2 DEF Init, RuntimeInit, NewestInput
<1>4. TypeOK
  <2>1. QueuedInput = 0
    BY CountEmpty DEF QueuedInput, Init, RuntimeInit
  <2>2. first \in SentState
    BY Bounds DEF SentState
  <2>3. sent_states \in Seq(SentState) /\ Len(sent_states) > 0
    BY <1>1, <2>2
  <2>4. FlagType
    BY Zenon DEF Init, RuntimeInit, FlagType
  <2>5. 0 \in 0 .. U64_MAX /\ 1 \in 1 .. U64_MAX
    BY Bounds
  <2>6. StreamType
    BY <1>1, <2>1, <2>3, <2>5, Bounds DEF StreamType, Init, RuntimeInit
  <2>7. TimerType /\ ModeType /\ RemoteType
    BY <2>5, Bounds DEF TimerType, ModeType, RemoteType, Init, RuntimeInit
  <2>8. QED  BY <2>4, <2>6, <2>7 DEF TypeOK
<1>5. HistoryInv
  BY <1>1 DEF HistoryInv, HasPendingUpdate
<1>6. MessagesInv
  BY DEF Init, MessagesInv
<1>7. ServerInv
  <2>1. <<>> \in Seq(Instructions) /\ 0 \in 0 .. U64_MAX
    BY Bounds
  <2>2. QED  BY <1>1, <1>2, <1>3, <2>1 DEF Init, ServerInv
<1>8. RemoteInv
  <2>1. server_closed \in BOOLEAN
    BY Zenon DEF Init
  <2>2. 0 \in 0 .. U64_MAX /\ 0 \in 0 .. MaxRemote
    BY Bounds
  <2>3. QED  BY <2>1, <2>2 DEF Init, RuntimeInit, RemoteInv
<1>9. WellOrdered(<<>>)
  BY DEF WellOrdered
<1>10. InputAccounted
  BY <1>3, <1>9, CountEmpty DEF InputAccounted, NewestInput, Init
<1>11. FrameInv
  BY <1>2, <1>3, <1>9, CountEmpty DEF FrameInv, Init
<1>12. ShutdownInv
  BY <1>1, Bounds DEF ShutdownInv, LocalShutdownSent, Init, RuntimeInit
<1>13. QED  BY <1>4, <1>5, <1>6, <1>7, <1>8, <1>10, <1>11, <1>12 DEF IInv

\* What the invariant says of the types of the streams.
LEMMA Streams ==
    ASSUME IInv
    PROVE  /\ local_instructions \in Seq(Instructions)
           /\ queued_instructions \in Seq(Instructions)
           /\ server_states[Confirmed.state_id] \in Seq(Instructions)
           /\ NewestInput \in Seq(Instructions)
           /\ NewestInput \o queued_instructions \in Seq(Instructions)
           /\ InputsIn(NewestInput) \in Nat
           /\ InputsIn(NewestInput \o queued_instructions) \in Nat
           /\ InputsIn(queued_instructions) \in Nat
           /\ WellOrdered(NewestInput \o queued_instructions)
           /\ lifecycle # "Cancelled" =>
                 InputsIn(NewestInput \o queued_instructions) = accepted
<1>1. /\ local_instructions \in Seq(Instructions)
      /\ queued_instructions \in Seq(Instructions)
      /\ server_states[Confirmed.state_id] \in Seq(Instructions)
  BY DEF IInv, TypeOK, StreamType, ServerInv
<1>2. NewestInput \in Seq(Instructions)
  BY <1>1 DEF NewestInput
<1>3. NewestInput \o queued_instructions \in Seq(Instructions)
  BY <1>1, <1>2
<1>4. QED
  BY <1>1, <1>2, <1>3, CountType DEF IInv, InputAccounted, NewestInput

\* What the invariant says of the sent states and their numbers.
LEMMA SentFacts ==
    ASSUME IInv
    PROVE  /\ sent_states \in Seq(SentState) /\ Len(sent_states) \in 1 .. 2
           /\ Confirmed \in SentState /\ Newest \in SentState
           /\ Confirmed.state_id \in 0 .. U64_MAX /\ Newest.state_id \in 0 .. U64_MAX
           /\ Confirmed.state_id <= Newest.state_id
           /\ ~HasPendingUpdate => Len(sent_states) = 1 /\ Confirmed = Newest
           /\ HasPendingUpdate => Len(sent_states) = 2
           /\ next_local_state \in 1 .. U64_MAX
<1>1. sent_states \in Seq(SentState)
  BY DEF IInv, TypeOK, StreamType
<1>2. Len(sent_states) \in 1 .. 2
  BY DEF IInv, HistoryInv
<1>3. ~HasPendingUpdate => Len(sent_states) = 1 /\ Confirmed = Newest
  BY <1>2 DEF HasPendingUpdate, Confirmed, Newest
<1>4. HasPendingUpdate => Len(sent_states) = 2
  BY SMTT(30), <1>2 DEF HasPendingUpdate
<1>5. Confirmed \in SentState /\ Newest \in SentState
  BY <1>1, <1>2 DEF Confirmed, Newest
<1>6. QED  BY <1>1, <1>2, <1>3, <1>4, <1>5, Bounds DEF IInv, TypeOK, StreamType, HistoryInv, SentState

\* Steps that touch neither the history nor the server, and send only what may be sent.
LEMMA QuietStep ==
    ASSUME IInv, UNCHANGED <<sentVars, serverVars, to_client, remoteVars>>,
           \A m \in to_server' : m \in to_server \/ MessageInv(m)
    PROVE  /\ HistoryInv' /\ MessagesInv' /\ ServerInv' /\ RemoteInv'
           /\ NewestInput' = NewestInput /\ Newest' = Newest /\ Confirmed' = Confirmed
           /\ LocalShutdownSent' = LocalShutdownSent
           /\ LocalShutdownAcknowledged' = LocalShutdownAcknowledged
<1> USE DEF sentVars, serverVars, serverInputVars, remoteVars
<1>1. /\ NewestInput' = NewestInput /\ Newest' = Newest /\ Confirmed' = Confirmed
      /\ LocalShutdownSent' = LocalShutdownSent
      /\ LocalShutdownAcknowledged' = LocalShutdownAcknowledged
      /\ HasPendingUpdate' = HasPendingUpdate
  BY DEF NewestInput, Newest, Confirmed, LocalShutdownSent, LocalShutdownAcknowledged,
         HasPendingUpdate
<1>2. HistoryInv'
  BY <1>1 DEF IInv, HistoryInv
<1>3. MessagesInv'
  BY <1>1 DEF IInv, MessagesInv, MessageInv
<1>4. ServerInv'
  BY <1>1 DEF IInv, ServerInv
<1>5. RemoteInv'
  BY DEF IInv, RemoteInv
<1>6. QED  BY <1>1, <1>2, <1>3, <1>4, <1>5

\* How the accounting is shown: the new stream is a stream that is accounted for.
LEMMA Accounted ==
    ASSUME NEW s, (NewestInput \o queued_instructions)' = s, WellOrdered(s),
           lifecycle' # "Cancelled" => InputsIn(s) = accepted'
    PROVE  InputAccounted'
<1>1. WellOrdered(s)' /\ (lifecycle' # "Cancelled" => InputsIn(s)' = accepted')
  BY DEF WellOrdered, InputsIn
<1>2. WellOrdered(NewestInput \o queued_instructions)'
  BY <1>1 DEF WellOrdered, InputsIn
<1>3. lifecycle' # "Cancelled" => InputsIn(NewestInput \o queued_instructions)' = accepted'
  BY <1>1 DEF InputsIn
<1>4. QED  BY <1>2, <1>3 DEF InputAccounted, NewestInput

\* The frames stay exact while the history, the server's states and the input stay.
LEMMA FrameKept ==
    ASSUME IInv, UNCHANGED <<next_local_state, server_states, accepted, frames>>,
           NewestInput' = NewestInput, Newest'.state_id = Newest.state_id
    PROVE  FrameInv'
<1>1. \A n \in DOMAIN server_states :
         /\ WellOrdered(server_states[n])' = WellOrdered(server_states[n])
         /\ InputsIn(server_states[n])' = InputsIn(server_states[n])
  BY DEF WellOrdered, InputsIn
<1>2. InputsIn(NewestInput)' = InputsIn(NewestInput)
  BY DEF InputsIn
<1>3. QED  BY <1>1, <1>2 DEF IInv, FrameInv

\* Steps that also leave the queue and the input accepted so far alone.
LEMMA IdleStep ==
    ASSUME IInv, UNCHANGED <<sentVars, serverVars, to_client, remoteVars>>,
           \A m \in to_server' : m \in to_server \/ MessageInv(m),
           UNCHANGED <<queued_instructions, accepted, frames>>,
           lifecycle' = "Cancelled" <=> lifecycle = "Cancelled",
           TypeOK', shutdown = "Open" \/ shutdown' # "Open",
           shutdown' = "Acknowledged" => shutdown = "Acknowledged" \/ LocalShutdownAcknowledged
    PROVE  IInv'
<1>1. /\ HistoryInv' /\ MessagesInv' /\ ServerInv' /\ RemoteInv'
      /\ NewestInput' = NewestInput /\ Newest' = Newest /\ Confirmed' = Confirmed
      /\ LocalShutdownSent' = LocalShutdownSent
      /\ LocalShutdownAcknowledged' = LocalShutdownAcknowledged
  BY QuietStep
<1>2. InputAccounted'
  <2>1. (NewestInput \o queued_instructions)' = NewestInput \o queued_instructions
    BY <1>1
  <2>2. QED
    BY <2>1, Streams DEF InputAccounted, NewestInput, WellOrdered, InputsIn
<1>3. FrameInv'
  BY <1>1, FrameKept DEF sentVars, serverVars, serverInputVars
<1>4. ShutdownInv'
  BY <1>1 DEF IInv, ShutdownInv, InputsIn
<1>5. QED  BY <1>1, <1>2, <1>3, <1>4 DEF IInv

\* request_shutdown.
LEMMA HostShutdownInv == ASSUME IInv, HostShutdown PROVE IInv'
<1> USE DEF HostShutdown, RequestShutdown
<1>1. /\ UNCHANGED <<sentVars, serverVars, to_server, to_client, remoteVars>>
      /\ UNCHANGED <<queued_instructions, accepted, frames, lifecycle>>
      /\ shutdown' = "LocalRequested"
  OBVIOUS
<1>2. TypeOK'
  <2>1. StreamType'
    BY <1>1 DEF IInv, TypeOK, StreamType, QueuedInput, InputsIn, sentVars
  <2>2. TimerType'
    BY Bounds DEF IInv, TypeOK, TimerType
  <2>3. ModeType' /\ RemoteType'
    BY DEF IInv, TypeOK, ModeType, RemoteType, Outcomes, remoteVars
  <2>4. FlagType'
    BY DEF IInv, TypeOK, FlagType
  <2>5. QED  BY <2>1, <2>2, <2>3, <2>4 DEF TypeOK
<1>3. QED  BY <1>1, <1>2, IdleStep

\* pause, resume and notify_udp_rebound.
LEMMA HostPauseInv ==
    ASSUME IInv, HostOther, Pause \/ Resume \/ NotifyUdpRebound PROVE IInv'
<1> USE DEF HostOther, Pause, Resume, NotifyUdpRebound, ghostVars, timerVars, handshakeVars
<1>1. /\ UNCHANGED <<sentVars, serverVars, to_server, to_client, remoteVars>>
      /\ UNCHANGED <<queued_instructions, accepted, frames, shutdown>>
      /\ lifecycle # "Cancelled" /\ lifecycle' # "Cancelled"
  BY Zenon
<1>2. TypeOK'
  <2>1. StreamType'
    BY <1>1 DEF IInv, TypeOK, StreamType, QueuedInput, InputsIn, sentVars
  <2>2. TimerType'
    BY Bounds DEF IInv, TypeOK, TimerType
  <2>3. ModeType' /\ RemoteType'
    BY DEF IInv, TypeOK, ModeType, RemoteType, Outcomes, remoteVars
  <2>4. FlagType'
    BY DEF IInv, TypeOK, FlagType
  <2>5. QED  BY <2>1, <2>2, <2>3, <2>4 DEF TypeOK
<1>3. QED  BY <1>1, <1>2, IdleStep

\* cancel gives up what is queued and nothing else.
LEMMA CancelInv == ASSUME IInv, HostOther, Cancel PROVE IInv'
<1> USE DEF HostOther, Cancel, ghostVars, timerVars, handshakeVars
<1>1. /\ UNCHANGED <<sentVars, serverVars, to_server, to_client, remoteVars>>
      /\ UNCHANGED <<accepted, frames, shutdown>>
      /\ lifecycle' = "Cancelled" /\ queued_instructions' = <<>>
  BY Zenon
<1>2. TypeOK'
  <2>1. StreamType'
    BY <1>1, CountEmpty, Bounds DEF IInv, TypeOK, StreamType, QueuedInput, InputsIn, sentVars
  <2>2. TimerType' /\ ModeType' /\ RemoteType' /\ FlagType'
    BY DEF IInv, TypeOK, TimerType, ModeType, RemoteType, FlagType, Outcomes, remoteVars
  <2>3. QED  BY <2>1, <2>2 DEF TypeOK
<1>3. /\ HistoryInv' /\ MessagesInv' /\ ServerInv' /\ RemoteInv'
      /\ NewestInput' = NewestInput /\ Newest' = Newest /\ Confirmed' = Confirmed
      /\ LocalShutdownSent' = LocalShutdownSent
      /\ LocalShutdownAcknowledged' = LocalShutdownAcknowledged
  BY <1>1, QuietStep
<1>4. InputAccounted'
  <2>1. WellOrdered(NewestInput)
    BY Streams, WellOrderedPrefix
  <2>2. (NewestInput \o queued_instructions)' = NewestInput
    BY <1>1, <1>3, Streams
  <2>3. QED
    BY <1>1, <2>1, <2>2 DEF InputAccounted, NewestInput, WellOrdered, InputsIn
<1>5. FrameInv'
  BY <1>1, <1>3, FrameKept DEF sentVars, serverVars, serverInputVars
<1>6. ShutdownInv'
  BY <1>1, <1>3 DEF IInv, ShutdownInv, InputsIn
<1>7. QED  BY <1>2, <1>3, <1>4, <1>5, <1>6 DEF IInv

\* The clock.
LEMMA TimeInv == ASSUME IInv, Time PROVE IInv'
<1> USE DEF Time, Tick, handshakeVars
<1>1. /\ UNCHANGED <<sentVars, serverVars, to_server, to_client, remoteVars>>
      /\ UNCHANGED <<queued_instructions, accepted, frames, lifecycle, shutdown>>
  OBVIOUS
<1>2. TypeOK'
  <2>1. StreamType'
    BY <1>1 DEF IInv, TypeOK, StreamType, QueuedInput, InputsIn, sentVars
  <2>2. TimerType'
    BY Bounds DEF IInv, TypeOK, TimerType, Older
  <2>3. ModeType' /\ RemoteType' /\ FlagType'
    BY DEF IInv, TypeOK, ModeType, RemoteType, FlagType, Outcomes, remoteVars
  <2>4. QED  BY <2>1, <2>2, <2>3 DEF TypeOK
<1>3. QED  BY <1>1, <1>2, IdleStep

\* A heartbeat or a part of a message.
LEMMA HostReceivePartInv == ASSUME IInv, HostReceivePart PROVE IInv'
<1> USE DEF HostReceivePart, ReceivePart, handshakeVars, ghostVars
<1>1. /\ UNCHANGED <<sentVars, serverVars, to_server, to_client, remoteVars>>
      /\ UNCHANGED <<queued_instructions, accepted, frames, lifecycle, shutdown>>
  OBVIOUS
<1>2. TypeOK'
  <2>1. StreamType'
    BY <1>1 DEF IInv, TypeOK, StreamType, QueuedInput, InputsIn, sentVars
  <2>2. TimerType'
    BY Bounds DEF IInv, TypeOK, TimerType
  <2>3. ModeType' /\ RemoteType' /\ FlagType'
    BY DEF IInv, TypeOK, ModeType, RemoteType, FlagType, Outcomes, remoteVars
  <2>4. QED  BY <2>1, <2>2, <2>3 DEF TypeOK
<1>3. QED  BY <1>1, <1>2, IdleStep

(***************************************************************************)
(* The host queues instructions.                                            *)
(***************************************************************************)
\* While the session accepts input the next state is newer than all the server has.
LEMMA NextIsNewer ==
    ASSUME IInv, AcceptingInput
    PROVE  \A n \in DOMAIN server_states : ~(next_local_state <= n)
<1>1. Newest.state_id = next_local_state - 1
  BY DEF AcceptingInput, IInv, HistoryInv, ShutdownInv, LocalShutdownSent
<1>2. /\ Confirmed.state_id \in Nat /\ Newest.state_id \in Nat
      /\ Confirmed.state_id <= Newest.state_id /\ next_local_state \in Nat
  BY SentFacts, Bounds
<1>3. \A n \in DOMAIN server_states :
         n \in Nat /\ (n <= Confirmed.state_id \/ n = Newest.state_id)
  BY Bounds DEF IInv, ServerInv
<1>4. QED  BY <1>1, <1>2, <1>3

\* queue_input.
LEMMA HostInputInv == ASSUME IInv, HostInput PROVE IInv'
<1> DEFINE x == [kind |-> "input", id |-> accepted + 1]
           S == NewestInput \o queued_instructions
<1>1. /\ UNCHANGED <<sentVars, serverVars, to_server, to_client, remoteVars>>
      /\ UNCHANGED <<timerVars, running_age, association, connection_state, lifecycle>>
      /\ UNCHANGED <<shutdown, transmissions, peer_shutdown_acknowledgement_due>>
      /\ UNCHANGED <<acknowledgement_due, peer_acked>>
      /\ AcceptingInput /\ QueuedInput < MAXIMUM_QUEUED_INPUT
      /\ queued_instructions' = Append(queued_instructions, x)
      /\ accepted < MaxInputs /\ accepted' = accepted + 1
      /\ frames' = Append(frames, next_local_state)
  BY DEF HostInput, QueueInput, handshakeVars, PredictionFrame
<1>2. accepted \in 0 .. MaxInputs /\ accepted \in Nat /\ frames \in Seq(0 .. U64_MAX)
  BY Bounds DEF IInv, FrameInv
<1>3. x \in Instructions /\ accepted + 1 \in 0 .. MaxInputs
  BY <1>1, <1>2, Bounds DEF Instructions
<1>4. TypeOK'
  <2>1. QueuedInput' <= MAXIMUM_QUEUED_INPUT
    <3>1. queued_instructions \in Seq(Instructions) /\ QueuedInput \in Nat
      BY Streams DEF QueuedInput
    <3>2. InputsIn(Append(queued_instructions, x)) = InputsIn(queued_instructions) + 1
      BY <3>1, <1>3, CountAppend
    <3>3. QueuedInput' = QueuedInput + 1
      BY <1>1, <3>2 DEF QueuedInput, InputsIn
    <3>4. QED  BY <1>1, <3>1, <3>3, Bounds
  <2>2. StreamType'
    <3>1. queued_instructions' \in Seq(Instructions)
      BY <1>1, <1>3, Streams
    <3>2. QED  BY <1>1, <2>1, <3>1 DEF IInv, TypeOK, StreamType, sentVars
  <2>3. TimerType' /\ ModeType' /\ RemoteType'
    BY <1>1 DEF IInv, TypeOK, TimerType, ModeType, RemoteType, Outcomes, remoteVars, timerVars
  <2>4. FlagType'
    BY <1>1 DEF IInv, TypeOK, FlagType
  <2>5. QED  BY <2>2, <2>3, <2>4 DEF TypeOK
<1>5. /\ HistoryInv' /\ MessagesInv' /\ ServerInv' /\ RemoteInv'
      /\ NewestInput' = NewestInput /\ Newest' = Newest /\ Confirmed' = Confirmed
      /\ LocalShutdownSent' = LocalShutdownSent
      /\ LocalShutdownAcknowledged' = LocalShutdownAcknowledged
  BY <1>1, QuietStep
<1>6. lifecycle # "Cancelled" /\ shutdown = "Open" /\ ~LocalShutdownSent
  BY SMTT(30), <1>1 DEF AcceptingInput, IInv, ShutdownInv
<1>7. InputAccounted'
  <2>1. S \in Seq(Instructions) /\ WellOrdered(S) /\ InputsIn(S) = accepted
    BY <1>6, Streams
  <2>2. InputsIn(Append(S, x)) = accepted + 1
    BY <1>3, <2>1, CountAppend
  <2>3. WellOrdered(Append(S, x))
    <3> HIDE DEF S
    <3>1. x.id = InputsIn(Append(S, x))
      BY <2>2
    <3> HIDE DEF x
    <3>2. QED  BY <1>3, <2>1, <3>1, WellOrderedAppend
  <2>4. (NewestInput \o queued_instructions)' = Append(S, x)
    <3>1. NewestInput \in Seq(Instructions) /\ queued_instructions \in Seq(Instructions)
      BY Streams
    <3>2. NewestInput \o Append(queued_instructions, x) = Append(S, x)
      BY <1>3, <3>1
    <3>3. QED  BY <1>1, <1>5, <3>2
  <2>5. QED
    BY <1>1, <2>2, <2>3, <2>4 DEF InputAccounted, NewestInput, WellOrdered, InputsIn
<1>8. FrameInv'
  <2>1. \A n \in DOMAIN server_states :
           /\ WellOrdered(server_states[n])' = WellOrdered(server_states[n])
           /\ InputsIn(server_states[n])' = InputsIn(server_states[n])
    BY <1>1 DEF serverVars, serverInputVars, WellOrdered, InputsIn
  <2>2. InputsIn(NewestInput)' = InputsIn(NewestInput)
    BY <1>5 DEF InputsIn
  <2>3. UNCHANGED <<server_states, next_local_state>>
    BY <1>1 DEF sentVars, serverVars, serverInputVars
  <2>4. /\ frames' \in Seq(0 .. U64_MAX) /\ Len(frames') = accepted'
        /\ frames'[accepted + 1] = next_local_state
        /\ \A i \in 1 .. accepted : frames'[i] = frames[i]
    <3>1. next_local_state \in 0 .. U64_MAX
      BY Bounds DEF IInv, TypeOK, StreamType
    <3>2. Len(frames) = accepted
      BY DEF IInv, FrameInv
    <3>3. QED  BY <1>1, <1>2, <3>1, <3>2
  <2>5. \A n \in DOMAIN server_states : InputsIn(server_states[n]) \in Nat
    BY CountType DEF IInv, ServerInv
  <2>6. ASSUME NEW n \in DOMAIN server_states
        PROVE  /\ WellOrdered(server_states[n])
               /\ InputsIn(server_states[n]) <= accepted + 1
               /\ \A i \in 1 .. accepted + 1 :
                     frames'[i] <= n <=> i <= InputsIn(server_states[n])
    <3>1. /\ WellOrdered(server_states[n])
          /\ InputsIn(server_states[n]) <= accepted
          /\ \A i \in 1 .. accepted : frames[i] <= n <=> i <= InputsIn(server_states[n])
      BY DEF IInv, FrameInv
    <3>2. ~(next_local_state <= n)
      BY <1>1, NextIsNewer
    <3>3. QED  BY <1>2, <2>4, <2>5, <3>1, <3>2
  <2>7. InputsIn(NewestInput) \in Nat /\ InputsIn(NewestInput) <= accepted
    BY Streams DEF IInv, FrameInv
  <2>8. \A i \in 1 .. accepted + 1 :
           IF i <= InputsIn(NewestInput) THEN frames'[i] <= Newest.state_id
           ELSE frames'[i] = next_local_state
    BY <1>2, <2>4, <2>7 DEF IInv, FrameInv
  <2>9. QED
    BY <1>1, <1>2, <1>3, <1>5, <2>1, <2>2, <2>3, <2>4, <2>6, <2>7, <2>8 DEF FrameInv
<1>9. ShutdownInv'
  BY <1>1, <1>5, <1>6 DEF ShutdownInv
<1>10. QED  BY <1>4, <1>5, <1>7, <1>8, <1>9 DEF IInv

\* queue_resize: the resize takes the place of the one before it or follows the input.
LEMMA CoalescedStream ==
    ASSUME NEW s \in Seq(Instructions), NEW q \in Seq(Instructions), NEW x \in Instructions,
           x.kind = "resize", x.id = InputsIn(s \o q), WellOrdered(s \o q)
    PROVE  /\ Coalesced(q, x) \in Seq(Instructions)
           /\ InputsIn(Coalesced(q, x)) = InputsIn(q)
           /\ InputsIn(s \o Coalesced(q, x)) = InputsIn(s \o q)
           /\ WellOrdered(s \o Coalesced(q, x))
<1>1. s \o q \in Seq(Instructions)
  OBVIOUS
<1>2. CASE q # <<>> /\ q[Len(q)].kind = "resize"
  <2> DEFINE f == SubSeq(q, 1, Len(q) - 1)
             y == q[Len(q)]
  <2>1. Len(q) \in Nat /\ Len(q) > 0
    BY <1>2
  <2>2. f \in Seq(Instructions) /\ y \in Instructions /\ s \o f \in Seq(Instructions)
    BY <2>1
  <2>3. q = Append(f, y) /\ s \o q = Append(s \o f, y)
    BY <2>1
  <2>4. [q EXCEPT ![Len(q)] = x] = Append(f, x)
    <3> DEFINE g == [q EXCEPT ![Len(q)] = x]
    <3>1. g \in Seq(Instructions) /\ Len(g) = Len(q)
      BY <2>1
    <3>2. Append(f, x) \in Seq(Instructions) /\ Len(Append(f, x)) = Len(q)
      <4>1. Len(f) = Len(q) - 1
        <5>1. \A i \in 1 .. Len(q) - 1 : q[i] \in Instructions
          OBVIOUS
        <5>2. Len(f) = IF 1 <= Len(q) - 1 THEN (Len(q) - 1) - 1 + 1 ELSE 0
          BY <2>1, <5>1, SubSeqProperties
        <5>3. \A n \in Nat : n > 0 => (IF 1 <= n - 1 THEN (n - 1) - 1 + 1 ELSE 0) = n - 1
          OBVIOUS
        <5> HIDE DEF f
        <5>4. QED  BY <2>1, <5>2, <5>3, Zenon
      <4> HIDE DEF f
      <4>2. Append(f, x) \in Seq(Instructions) /\ Len(Append(f, x)) = Len(f) + 1
        BY <2>2
      <4>3. QED  BY <2>1, <4>1, <4>2
    <3>3. \A i \in 1 .. Len(q) : g[i] = Append(f, x)[i]
      BY <2>1
    <3> HIDE DEF f, g
    <3>4. g = Append(f, x)
      BY <3>1, <3>2, <3>3, SeqEqual
    <3>5. QED  BY <3>4 DEF g
  <2>5. Coalesced(q, x) = Append(f, x)
    BY <1>2, <2>4 DEF Coalesced
  <2>6. s \o Append(f, x) = Append(s \o f, x)
    BY <2>2
  <2>7. y.kind # "input" /\ x.kind # "input"
    BY <1>2
  <2> HIDE DEF f, y
  <2>8. InputsIn(q) = InputsIn(f) /\ InputsIn(s \o q) = InputsIn(s \o f)
    BY <2>2, <2>3, <2>7, CountAppend
  <2>9. InputsIn(Append(f, x)) = InputsIn(f) /\ InputsIn(Append(s \o f, x)) = InputsIn(s \o f)
    BY <2>2, <2>7, CountAppend
  <2>10. WellOrdered(s \o f)
    <3>1. <<y>> \in Seq(Instructions) /\ Append(s \o f, y) = (s \o f) \o <<y>>
      BY <2>2
    <3>2. WellOrdered((s \o f) \o <<y>>)
      BY <2>3, <3>1
    <3>3. QED  BY <2>2, <3>1, <3>2, WellOrderedPrefix
  <2>11. WellOrdered(Append(s \o f, x))
    BY <2>2, <2>8, <2>9, <2>10, WellOrderedAppend
  <2>12. QED  BY <2>2, <2>5, <2>6, <2>8, <2>9, <2>11
<1>3. CASE ~(q # <<>> /\ q[Len(q)].kind = "resize")
  <2>1. Coalesced(q, x) = Append(q, x) /\ s \o Append(q, x) = Append(s \o q, x)
    BY <1>3 DEF Coalesced
  <2>2. InputsIn(Append(q, x)) = InputsIn(q) /\ InputsIn(Append(s \o q, x)) = InputsIn(s \o q)
    BY <1>1, CountAppend
  <2>3. WellOrdered(Append(s \o q, x))
    BY <1>1, <2>2, WellOrderedAppend
  <2>4. QED  BY <2>1, <2>2, <2>3
<1>4. QED  BY <1>2, <1>3

LEMMA HostResizeInv == ASSUME IInv, HostResize PROVE IInv'
<1> DEFINE x == [kind |-> "resize", id |-> accepted]
<1>1. /\ UNCHANGED <<sentVars, serverVars, to_server, to_client, remoteVars>>
      /\ UNCHANGED <<timerVars, running_age, association, connection_state, lifecycle>>
      /\ UNCHANGED <<shutdown, transmissions, peer_shutdown_acknowledgement_due>>
      /\ UNCHANGED <<acknowledgement_due, peer_acked, accepted, frames>>
      /\ AcceptingInput
      /\ queued_instructions' = Coalesced(queued_instructions, x)
  BY DEF HostResize, QueueResize, handshakeVars, ghostVars
<1>2. lifecycle # "Cancelled" /\ shutdown = "Open" /\ ~LocalShutdownSent
  BY <1>1 DEF AcceptingInput, IInv, ShutdownInv
<1>3. x \in Instructions
  BY DEF Instructions, IInv, FrameInv
<1>4. x.kind = "resize" /\ x.id = InputsIn(NewestInput \o queued_instructions)
  BY <1>2, Streams
<1>5. /\ queued_instructions' \in Seq(Instructions)
      /\ InputsIn(Coalesced(queued_instructions, x)) = InputsIn(queued_instructions)
      /\ InputsIn(NewestInput \o Coalesced(queued_instructions, x)) = accepted
      /\ WellOrdered(NewestInput \o Coalesced(queued_instructions, x))
  <2> HIDE DEF x
  <2>1. QED  BY <1>1, <1>2, <1>3, <1>4, Streams, CoalescedStream
<1>6. TypeOK'
  <2>1. QueuedInput' = QueuedInput
    BY <1>1, <1>5 DEF QueuedInput, InputsIn
  <2>2. StreamType'
    BY <1>1, <1>5, <2>1 DEF IInv, TypeOK, StreamType, sentVars
  <2>3. TimerType' /\ ModeType' /\ RemoteType'
    BY <1>1 DEF IInv, TypeOK, TimerType, ModeType, RemoteType, Outcomes, remoteVars, timerVars
  <2>4. FlagType'
    BY <1>1 DEF IInv, TypeOK, FlagType
  <2>5. QED  BY <2>2, <2>3, <2>4 DEF TypeOK
<1>7. /\ HistoryInv' /\ MessagesInv' /\ ServerInv' /\ RemoteInv'
      /\ NewestInput' = NewestInput /\ Newest' = Newest /\ Confirmed' = Confirmed
      /\ LocalShutdownSent' = LocalShutdownSent
      /\ LocalShutdownAcknowledged' = LocalShutdownAcknowledged
  BY <1>1, QuietStep
<1>8. InputAccounted'
  <2> DEFINE S == NewestInput \o Coalesced(queued_instructions, x)
  <2>1. (NewestInput \o queued_instructions)' = S
    BY <1>1, <1>7
  <2>2. WellOrdered(S) /\ InputsIn(S) = accepted
    BY <1>5
  <2> HIDE DEF S
  <2>3. QED  BY <1>1, <2>1, <2>2, Accounted
<1>9. FrameInv'
  BY <1>1, <1>7, FrameKept DEF sentVars, serverVars, serverInputVars
<1>10. ShutdownInv'
  BY <1>1, <1>2, <1>7 DEF ShutdownInv
<1>11. QED  BY <1>6, <1>7, <1>8, <1>9, <1>10 DEF IInv

(***************************************************************************)
(* poll.                                                                    *)
(***************************************************************************)
\* The messages that poll may send without changing the history.
LEMMA PolledKnown ==
    ASSUME IInv
    PROVE  /\ MessageInv(AcknowledgementMessage(latest_remote_state))
           /\ HasPendingUpdate => MessageInv(RetransmitMessage(latest_remote_state))
<1>1. latest_remote_state \in 0 .. U64_MAX /\ latest_remote_state <= latest_remote_state
  BY Bounds DEF IInv, TypeOK, RemoteType
<1>2. /\ Confirmed.state_id \in 0 .. U64_MAX /\ Newest.state_id \in 0 .. U64_MAX
      /\ Confirmed.state_id <= Confirmed.state_id
  BY SentFacts, Bounds
<1>3. MessageInv(AcknowledgementMessage(latest_remote_state))
  BY <1>1, <1>2 DEF MessageInv, AcknowledgementMessage
<1>4. ASSUME HasPendingUpdate
      PROVE  MessageInv(RetransmitMessage(latest_remote_state))
  <2>1. Confirmed.state_id < Newest.state_id
    BY <1>4 DEF IInv, HistoryInv
  <2>2. SubSeq(local_instructions, Confirmed.instruction_end + 1, Newest.instruction_end)
           = local_instructions
    <3>1. /\ SubSeq(local_instructions, Confirmed.instruction_end + 1, Newest.instruction_end)
                = SubSeq(local_instructions, 1, Len(local_instructions))
      BY DEF IInv, HistoryInv
    <3>2. local_instructions \in Seq(Instructions)
      BY Streams
    <3>3. SubSeq(local_instructions, 1, Len(local_instructions)) = local_instructions
      BY <3>2
    <3>4. QED  BY <3>1, <3>3
  <2>3. QED  BY <1>1, <1>2, <2>1, <2>2 DEF MessageInv, RetransmitMessage
<1>5. QED  BY <1>3, <1>4

\* Only a fresh update is outside of that.
LEMMA PolledNotFresh ==
    ASSUME IInv, ~Fresh, NEW m \in PolledDatagrams
    PROVE  MessageInv(m)
<1>1. \/ m = AcknowledgementMessage(latest_remote_state)
      \/ HasPendingUpdate /\ m = RetransmitMessage(latest_remote_state)
  BY DEF PolledDatagrams, AssociationDatagrams, PolledMessage
<1>2. QED  BY <1>1, PolledKnown

\* The modes, timers and flags after a poll.
LEMMA PollTypes ==
    ASSUME IInv, HostPoll
    PROVE  TimerType' /\ ModeType' /\ FlagType' /\ RemoteType'
<1> USE DEF HostPoll, Poll, PollComplete, PollFresh, PollRetransmit, PollHeartbeat, PollIdle,
            Sending, handshakeVars, remoteVars
<1>1. TimerType'
  <2>1. send_age' \in {0, send_age}
    BY DEF PolledAge
  <2>2. transmissions' = transmissions
           \/ transmissions' = Older(transmissions, SHUTDOWN_RETRY_LIMIT)
    BY DEF SettleHandshake
  <2>3. UNCHANGED <<receive_age, shutdown_age, running_age>>
    OBVIOUS
  <2> HIDE DEF HostPoll
  <2>4. QED  BY <2>1, <2>2, <2>3, Bounds DEF IInv, TypeOK, TimerType, Older
<1>2. ModeType'
  <2>1. /\ association' = "Sent" /\ lifecycle' = lifecycle
        /\ connection_state' = connection_state \/ connection_state' = "Interrupted"
    BY DEF Liveness
  <2>2. shutdown' = shutdown \/ shutdown' \in Outcomes
    BY DEF SettleHandshake, Outcomes
  <2> HIDE DEF HostPoll
  <2>3. QED  BY <2>1, <2>2 DEF IInv, TypeOK, ModeType
<1>3. FlagType'
  <2>1. peer_acked' \in BOOLEAN
    BY Zenon
  <2>2. acknowledgement_due' \in BOOLEAN /\ peer_shutdown_acknowledgement_due' \in BOOLEAN
    BY DEF IInv, TypeOK, FlagType, SettleHandshake
  <2> HIDE DEF HostPoll
  <2>3. QED  BY <2>1, <2>2 DEF FlagType
<1>4. RemoteType'
  BY DEF IInv, TypeOK, RemoteType
<1>5. QED  BY <1>1, <1>2, <1>3, <1>4

\* A poll that builds no fresh update.
LEMMA PollNotFreshInv ==
    ASSUME IInv, HostPoll, PollComplete \/ PollRetransmit \/ PollHeartbeat \/ PollIdle
    PROVE  IInv'
<1>1. ASSUME NEW m \in to_server' PROVE m \in to_server \/ MessageInv(m)
  <2>1. m \in to_server \/ m \in PolledDatagrams
    BY DEF HostPoll, Travelling
  <2>2. PollComplete => PolledDatagrams = {}
    BY DEF PollComplete, PolledDatagrams, Continuing, Completing
  <2>3. ~PollComplete => ~Fresh
    BY DEF PollRetransmit, PollHeartbeat, PollIdle
  <2>4. QED  BY <2>1, <2>2, <2>3, PolledNotFresh
<1>2. /\ UNCHANGED <<sentVars, serverVars, to_client, remoteVars>>
      /\ UNCHANGED <<queued_instructions, accepted, frames, lifecycle>>
  BY DEF HostPoll, PollComplete, PollRetransmit, PollHeartbeat, PollIdle, Sending
<1>3. TypeOK'
  <2>1. StreamType'
    BY <1>2 DEF IInv, TypeOK, StreamType, QueuedInput, InputsIn, sentVars
  <2>2. QED  BY <2>1, PollTypes DEF TypeOK
<1>4. /\ shutdown = "Open" \/ shutdown' # "Open"
      /\ shutdown' = "Acknowledged" => shutdown = "Acknowledged" \/ LocalShutdownAcknowledged
  BY DEF PollComplete, PollRetransmit, PollHeartbeat, PollIdle, SettleHandshake,
         handshakeVars, ShutdownConfirmed
<1>5. QED  BY <1>1, <1>2, <1>3, <1>4, IdleStep

\* A poll that drains the queue into a fresh update or into the shutdown state.
LEMMA PollFreshInv == ASSUME IInv, HostPoll, PollFresh PROVE IInv'
<1> DEFINE c == Confirmed.state_id
           q == queued_instructions
           target == IF LocalShutdownUnsent THEN U64_MAX ELSE next_local_state
           new == [state_id |-> target, instruction_end |-> Len(queued_instructions)]
<1>1. /\ ~HasPendingUpdate /\ Len(sent_states) = 1 /\ Confirmed = Newest
      /\ local_instructions = <<>> /\ q \in Seq(Instructions) /\ Len(q) \in Nat
      /\ lifecycle = "Running" /\ ~Complete
  BY SentFacts, Streams DEF PollFresh, Fresh, IInv, HistoryInv, Continuing, Polling
<1>2. /\ UNCHANGED <<serverVars, to_client, remoteVars, accepted, frames, lifecycle>>
      /\ queued_instructions' = <<>>
  BY DEF HostPoll, PollFresh, Sending
<1>3. ~LocalShutdownSent
  BY DEF PollFresh, Fresh, LocalShutdownUnsent, IInv, ShutdownInv
<1>4. /\ c = next_local_state - 1 /\ c \in 0 .. U64_MAX /\ c \in Nat
      /\ next_local_state \in 1 .. U64_MAX
      /\ target \in 0 .. U64_MAX /\ c < target /\ next_local_state <= target
      /\ ~LocalShutdownUnsent => next_local_state # U64_MAX
  <2>1. c = next_local_state - 1
    BY <1>1, <1>3 DEF IInv, HistoryInv, LocalShutdownSent
  <2>2. ~LocalShutdownUnsent => next_local_state # U64_MAX
    BY DEF PollFresh, BuildUpdate
  <2>3. next_local_state \in 1 .. U64_MAX /\ c \in 0 .. U64_MAX
    BY SentFacts
  <2>4. QED  BY <2>1, <2>2, <2>3, Bounds
<1>5. /\ next_local_state' = IF LocalShutdownUnsent THEN next_local_state
                             ELSE next_local_state + 1
      /\ next_local_state' \in 1 .. U64_MAX
  BY <1>4, Bounds DEF PollFresh, BuildUpdate, BuildShutdown
<1>6. local_instructions' = q
  BY <1>1 DEF PollFresh, BuildUpdate, BuildShutdown, PushState
<1>7. sent_states' = Append(sent_states, new)
  <2>1. sent_states' = LimitSentStates(Append(sent_states, new))
    BY <1>1 DEF PollFresh, BuildUpdate, BuildShutdown, PushState
  <2>2. Len(Append(sent_states, new)) = 2
    <3>1. sent_states \in Seq(SentState)
      BY SentFacts
    <3>2. Len(Append(sent_states, new)) = Len(sent_states) + 1
      BY <3>1
    <3>3. QED  BY <1>1, <3>2
  <2>3. 2 <= MAXIMUM_SENT_STATES /\ MAXIMUM_SENT_STATES \in Nat
    BY HistoryAssumption
  <2> HIDE DEF new
  <2>4. QED  BY <2>1, <2>2, <2>3 DEF LimitSentStates
<1>8. /\ new \in SentState
      /\ sent_states' \in Seq(SentState) /\ Len(sent_states') = 2
      /\ sent_states'[1] = Confirmed /\ sent_states'[2] = new
  <2>1. new \in SentState
    BY <1>1, <1>4 DEF SentState
  <2>2. sent_states \in Seq(SentState)
    BY SentFacts
  <2> HIDE DEF new
  <2>3. /\ Append(sent_states, new) \in Seq(SentState)
        /\ Len(Append(sent_states, new)) = Len(sent_states) + 1
        /\ Append(sent_states, new)[1] = sent_states[1]
        /\ Append(sent_states, new)[Len(sent_states) + 1] = new
    <3>1. 1 \in 1 .. Len(sent_states)
      BY <1>1
    <3>2. QED  BY <2>1, <2>2, <3>1, AppendProperties
  <2>4. Len(sent_states) + 1 = 2
    BY <1>1
  <2>5. QED  BY <1>7, <2>1, <2>3, <2>4, Zenon DEF Confirmed
<1>9. /\ Confirmed' = Confirmed /\ Newest' = new /\ HasPendingUpdate'
      /\ Newest.state_id = c /\ new.state_id = target
  BY <1>1, <1>8 DEF Confirmed, Newest, HasPendingUpdate
<1>10. TypeOK'
  <2>1. QueuedInput' = 0
    BY <1>2, CountEmpty DEF QueuedInput, InputsIn
  <2>2. <<>> \in Seq(Instructions)
    OBVIOUS
  <2>3. StreamType'
    BY <1>1, <1>2, <1>5, <1>6, <1>8, <2>1, <2>2, Bounds DEF StreamType
  <2>4. QED  BY <2>3, PollTypes DEF TypeOK
<1>11. HistoryInv'
  <2>1. Confirmed.instruction_end = 0
    BY DEF IInv, HistoryInv
  <2>2. Newest'.instruction_end = Len(local_instructions')
    BY <1>6, <1>9
  <2>3. /\ Confirmed'.state_id < Newest'.state_id /\ Confirmed'.state_id < next_local_state'
        /\ Newest'.state_id \in {next_local_state' - 1, U64_MAX}
    BY <1>4, <1>5, <1>9
  <2>4. QED  BY <1>8, <1>9, <2>1, <2>2, <2>3 DEF HistoryInv
<1>12. MessagesInv'
  <2>1. ASSUME NEW m \in to_server' PROVE MessageInv(m)'
    <3>1. m \in to_server \/ m \in PolledDatagrams
      BY DEF HostPoll, Travelling
    <3>2. \/ MessageInv(m) \/ m = AcknowledgementMessage(latest_remote_state)
          \/ m = UpdateMessage(target, q, latest_remote_state)
      BY <3>1 DEF IInv, MessagesInv, PolledDatagrams, AssociationDatagrams, PolledMessage,
                  PollFresh
    <3>3. UNCHANGED <<latest_remote_state, server_states>>
      BY <1>2 DEF serverVars, serverInputVars, remoteVars
    <3>4. CASE MessageInv(m)
      <4>1. m.base # m.target =>
              /\ m.base < m.target /\ m.target <= c
              /\ m.target \in DOMAIN server_states \/ m.base \notin DOMAIN server_states
        BY <1>9, <3>4, Bounds DEF MessageInv
      <4>2. QED  BY <1>9, <3>3, <3>4, <4>1 DEF MessageInv
    <3>5. CASE m = AcknowledgementMessage(latest_remote_state)
      <4>1. MessageInv(m) /\ m.base = m.target
        BY <3>5, PolledKnown DEF AcknowledgementMessage
      <4>2. QED  BY <1>9, <3>3, <4>1 DEF MessageInv
    <3>6. CASE m = UpdateMessage(target, q, latest_remote_state)
      <4>1. latest_remote_state \in 0 .. U64_MAX /\ latest_remote_state <= latest_remote_state
        BY Bounds DEF IInv, TypeOK, RemoteType
      <4>2. /\ m.base = c /\ m.target = target /\ m.discard = c
            /\ m.ack = latest_remote_state /\ m.delta = q
        BY <1>9, <3>6 DEF UpdateMessage
      <4> HIDE DEF target
      <4>3. QED  BY <1>4, <1>6, <1>9, <3>3, <4>1, <4>2 DEF MessageInv
    <3>7. QED  BY <3>2, <3>4, <3>5, <3>6
  <2>2. QED  BY <2>1 DEF MessagesInv
<1>13. ServerInv'
  <2>1. \A n \in DOMAIN server_states : n \in Nat /\ n <= c
    BY <1>4, <1>9, Bounds DEF IInv, ServerInv
  <2>2. target \notin DOMAIN server_states
    BY <1>4, <2>1
  <2>3. UNCHANGED <<to_client, server_states, server_newest>>
    BY <1>2 DEF serverVars, serverInputVars
  <2> HIDE DEF target
  <2>4. QED  BY <1>9, <2>1, <2>2, <2>3 DEF IInv, ServerInv
<1>14. RemoteInv'
  BY <1>2 DEF IInv, RemoteInv, serverVars, remoteVars
<1>15. /\ NewestInput' = NewestInput \o q
       /\ (NewestInput \o queued_instructions)' = NewestInput \o q
  <2>1. server_states' = server_states
    BY <1>2 DEF serverVars, serverInputVars
  <2>2. server_states[c] \in Seq(Instructions) /\ NewestInput \o q \in Seq(Instructions)
    BY Streams
  <2>3. NewestInput = server_states[c]
    BY <1>1, <2>2 DEF NewestInput
  <2>4. NewestInput' = NewestInput \o q
    BY <1>6, <1>9, <2>1, <2>3 DEF NewestInput
  <2>5. (NewestInput \o q) \o <<>> = NewestInput \o q
    BY <2>2
  <2>6. QED  BY <1>2, <2>4, <2>5
<1>16. WellOrdered(NewestInput \o q) /\ InputsIn(NewestInput \o q) = accepted
  BY <1>1, Streams
<1>17. InputAccounted'
  BY <1>2, <1>15, <1>16, Accounted
<1>18. FrameInv'
  <2>1. \A n \in DOMAIN server_states :
           /\ WellOrdered(server_states[n])' = WellOrdered(server_states[n])
           /\ InputsIn(server_states[n])' = InputsIn(server_states[n])
    BY <1>2 DEF serverVars, serverInputVars, WellOrdered, InputsIn
  <2>2. InputsIn(NewestInput)' = accepted
    BY <1>15, <1>16 DEF InputsIn
  <2>3. accepted \in Nat /\ accepted <= accepted
    BY Bounds DEF IInv, FrameInv
  <2>4. \A i \in 1 .. accepted : i <= accepted /\ frames[i] <= Newest'.state_id
    <3>1. \A i \in 1 .. accepted : frames[i] \in Nat /\ (frames[i] <= c \/ frames[i] = next_local_state)
      <4>1. Len(frames) = accepted
        BY DEF IInv, FrameInv
      <4>2. frames \in Seq(0 .. U64_MAX)
        BY DEF IInv, FrameInv
      <4>3. \A i \in 1 .. accepted : frames[i] \in Nat
        BY <4>1, <4>2, Bounds
      <4>4. QED  BY <1>9, <4>3 DEF IInv, FrameInv
    <3> HIDE DEF target
    <3>2. QED  BY <1>4, <1>9, <2>3, <3>1, Bounds
  <2>5. UNCHANGED <<server_states, accepted, frames>>
    BY <1>2 DEF serverVars, serverInputVars
  <2> HIDE DEF new
  <2>6. QED  BY <2>1, <2>2, <2>3, <2>4, <2>5 DEF IInv, FrameInv
<1>19. ShutdownInv'
  <2>1. LocalShutdownSent' => LocalShutdownUnsent
    BY <1>4, <1>9 DEF LocalShutdownSent
  <2>2. LocalShutdownUnsent => shutdown' # "Open"
    BY DEF PollFresh, SettleHandshake, LocalShutdownUnsent
  <2>3. InputsIn(NewestInput)' = accepted'
    BY <1>2, <1>15, <1>16 DEF InputsIn
  <2>4. shutdown' # "Acknowledged"
    BY <1>1 DEF PollFresh, SettleHandshake, Complete, Outcomes
  <2>5. QED  BY <1>2, <2>1, <2>2, <2>3, <2>4 DEF ShutdownInv
<1>20. QED
  BY <1>10, <1>11, <1>12, <1>13, <1>14, <1>17, <1>18, <1>19 DEF IInv

(***************************************************************************)
(* receive_datagram.                                                        *)
(***************************************************************************)
\* An acknowledgement changes nothing unless it is for the pending update, whose
\* instructions then go.
LEMMA AckCases ==
    ASSUME IInv, NEW ack, ProcessAcknowledgement(ack)
    PROVE  \/ UNCHANGED sentVars
           \/ /\ HasPendingUpdate /\ ack = Newest.state_id
              /\ sent_states' = [k \in 1 .. 1 |-> [state_id |-> Newest.state_id, instruction_end |-> 0]]
              /\ local_instructions' = <<>>
              /\ UNCHANGED next_local_state
<1> DEFINE matches == {i \in 1 .. Len(sent_states) : sent_states[i].state_id = ack}
           Rebased(i) == [k \in 1 .. (Len(sent_states) - i + 1) |->
                             [state_id |-> sent_states[k + i - 1].state_id,
                              instruction_end |-> sent_states[k + i - 1].instruction_end
                                                  - sent_states[i].instruction_end]]
<1>1. CASE matches = {}
  BY <1>1 DEF ProcessAcknowledgement
<1>2. CASE matches # {}
  <2>1. PICK i \in matches :
           /\ sent_states' = Rebased(i)
           /\ local_instructions' = SubSeq(local_instructions, sent_states[i].instruction_end + 1,
                                           Len(local_instructions))
           /\ UNCHANGED next_local_state
    BY <1>2 DEF ProcessAcknowledgement
  <2>2. /\ i \in 1 .. 2 /\ i \in 1 .. Len(sent_states) /\ sent_states[i].state_id = ack
        /\ Len(sent_states) \in 1 .. 2
    BY SentFacts
  <2>3. CASE i = 1
    <3>1. Confirmed.instruction_end = 0 /\ sent_states[i] = Confirmed
      BY <2>3 DEF IInv, HistoryInv, Confirmed
    <3>2. local_instructions' = local_instructions
      <4>1. local_instructions \in Seq(Instructions)
        BY Streams
      <4>2. SubSeq(local_instructions, 1, Len(local_instructions)) = local_instructions
        BY <4>1
      <4>3. QED  BY <2>1, <3>1, <4>2
    <3>3. \A k \in 1 .. Len(sent_states) :
             [state_id |-> sent_states[k].state_id,
              instruction_end |-> sent_states[k].instruction_end - 0] = sent_states[k]
      <4>1. \A k \in 1 .. Len(sent_states) : sent_states[k] \in SentState
        BY SentFacts
      <4>2. \A r \in SentState :
               [state_id |-> r.state_id, instruction_end |-> r.instruction_end - 0] = r
        BY DEF SentState
      <4>3. QED  BY <4>1, <4>2
    <3>4. Rebased(1) = [k \in 1 .. Len(sent_states) |-> sent_states[k]]
      <4>1. Len(sent_states) - 1 + 1 = Len(sent_states)
        BY <2>2
      <4>2. \A k \in 1 .. Len(sent_states) : k + 1 - 1 = k
        BY <2>2
      <4>3. QED  BY <2>3, <3>1, <3>3, <4>1, <4>2
    <3>5. [k \in 1 .. Len(sent_states) |-> sent_states[k]] = sent_states
      BY SentFacts
    <3>6. QED  BY <2>1, <2>3, <3>2, <3>4, <3>5 DEF sentVars
  <2>4. CASE i # 1
    <3>1. i = 2 /\ Len(sent_states) = 2
      BY <2>2, <2>4
    <3>2. HasPendingUpdate /\ Newest = sent_states[2] /\ Newest.instruction_end \in Nat
      BY <3>1, SentFacts DEF HasPendingUpdate, Newest, SentState
    <3>3. sent_states' = [k \in 1 .. 1 |-> [state_id |-> Newest.state_id, instruction_end |-> 0]]
      <4>1. sent_states' = Rebased(2)
        BY <2>1, <3>1
      <4>2. Len(sent_states) - 2 + 1 = 1
        BY <3>1
      <4>3. \A k \in 1 .. 1 : k + 2 - 1 = 2
        OBVIOUS
      <4>4. Newest.instruction_end - Newest.instruction_end = 0
        BY <3>2
      <4>5. Rebased(2) = [k \in 1 .. 1 |-> [state_id |-> sent_states[2].state_id,
                                           instruction_end |-> sent_states[2].instruction_end
                                                               - sent_states[2].instruction_end]]
        BY <4>2, <4>3
      <4>6. QED  BY <3>2, <4>1, <4>4, <4>5
    <3>4. local_instructions' = <<>>
      <4>1. local_instructions' = SubSeq(local_instructions, Len(local_instructions) + 1,
                                         Len(local_instructions))
        BY <2>1, <3>1, <3>2 DEF IInv, HistoryInv
      <4>2. local_instructions \in Seq(Instructions)
        BY Streams
      <4>3. SubSeq(local_instructions, Len(local_instructions) + 1, Len(local_instructions)) = <<>>
        BY <4>2
      <4>4. QED  BY <4>1, <4>3
    <3>5. QED  BY <2>1, <2>2, <3>1, <3>2, <3>3, <3>4
  <2>5. QED  BY <2>3, <2>4
<1>3. QED  BY <1>1, <1>2

\* The remote states only move on.
LEMMA RemoteStep ==
    ASSUME IInv, NEW u \in to_client, AcceptRemoteUpdate(u)
    PROVE  /\ RemoteType'
           /\ latest_remote_state \in Nat /\ latest_remote_state' \in Nat
           /\ latest_remote_state <= latest_remote_state'
           /\ remote_throwaway_floor' <= latest_remote_state'
<1>1. /\ u.target \in 0 .. U64_MAX /\ u.discard \in 0 .. U64_MAX
      /\ u.discard <= latest_remote_state
      /\ remote_throwaway_floor <= latest_remote_state
  BY DEF IInv, RemoteInv
<1>2. /\ latest_remote_state \in received_states /\ received_states \subseteq 0 .. U64_MAX
      /\ remote_throwaway_floor \in 0 .. U64_MAX /\ latest_remote_state \in 0 .. U64_MAX
  BY DEF IInv, TypeOK, RemoteType
<1>3. CASE Rebuildable(u)
  <2>1. PICK floor \in 0 .. U64_MAX :
           /\ floor <= latest_remote_state
           /\ remote_throwaway_floor' = floor
           /\ received_states' = {n \in received_states : n >= floor} \cup {u.target}
           /\ latest_remote_state' = IF Advances(u) THEN u.target ELSE latest_remote_state
    BY <1>1, <1>2, <1>3 DEF AcceptRemoteUpdate
  <2>2. Advances(u) => u.target > latest_remote_state
    BY DEF Advances
  <2>3. /\ latest_remote_state' \in 0 .. U64_MAX /\ latest_remote_state <= latest_remote_state'
        /\ floor <= latest_remote_state'
    BY <1>1, <1>2, <2>1, <2>2, Bounds
  <2>4. latest_remote_state' \in received_states'
    <3>1. latest_remote_state >= floor
      BY <1>2, <2>1, Bounds
    <3>2. QED  BY <1>2, <2>1, <3>1
  <2>5. received_states' \subseteq 0 .. U64_MAX
    BY <1>1, <1>2, <2>1
  <2>6. QED  BY <1>2, <2>1, <2>3, <2>4, <2>5, Bounds DEF RemoteType
<1>4. CASE ~Rebuildable(u)
  <2>1. UNCHANGED remoteVars
    BY <1>4 DEF AcceptRemoteUpdate
  <2>2. QED  BY <1>1, <1>2, <2>1, Bounds DEF remoteVars, RemoteType
<1>5. QED  BY <1>3, <1>4

\* What an acknowledgement leaves of the history, in both cases.
LEMMA AckStep ==
    ASSUME IInv, NEW u \in to_client, ProcessAcknowledgement(u.ack), server_states' = server_states
    PROVE  /\ sent_states' \in Seq(SentState) /\ Len(sent_states') > 0
           /\ local_instructions' \in Seq(Instructions) /\ next_local_state' = next_local_state
           /\ HistoryInv'
           /\ NewestInput' = NewestInput /\ Newest'.state_id = Newest.state_id
           /\ LocalShutdownAcknowledged => LocalShutdownAcknowledged'
           /\ \/ Confirmed' = Confirmed /\ local_instructions' = local_instructions
              \/ /\ Confirmed.state_id < Newest.state_id
                 /\ Confirmed'.state_id = Newest.state_id
                 /\ Newest.state_id \in DOMAIN server_states
<1>1. CASE UNCHANGED sentVars
  <2>1. /\ sent_states' = sent_states /\ local_instructions' = local_instructions
        /\ next_local_state' = next_local_state
    BY <1>1 DEF sentVars
  <2>2. /\ Confirmed' = Confirmed /\ Newest' = Newest /\ NewestInput' = NewestInput
        /\ HasPendingUpdate' = HasPendingUpdate
    BY <2>1 DEF Confirmed, Newest, NewestInput, HasPendingUpdate
  <2>3. QED
    BY <2>1, <2>2 DEF IInv, TypeOK, StreamType, HistoryInv, LocalShutdownAcknowledged
<1>2. CASE /\ HasPendingUpdate /\ u.ack = Newest.state_id
           /\ sent_states' = [k \in 1 .. 1 |-> [state_id |-> Newest.state_id, instruction_end |-> 0]]
           /\ local_instructions' = <<>>
           /\ UNCHANGED next_local_state
  <2> DEFINE r == [state_id |-> Newest.state_id, instruction_end |-> 0]
  <2>1. r \in SentState
    BY SentFacts DEF SentState
  <2>2. sent_states' \in Seq(SentState) /\ Len(sent_states') = 1 /\ sent_states'[1] = r
    <3> HIDE DEF r
    <3>1. QED  BY <1>2, <2>1 DEF r
  <2>3. Confirmed' = r /\ Newest' = r /\ ~HasPendingUpdate'
    BY <2>2 DEF Confirmed, Newest, HasPendingUpdate
  <2>4. /\ Confirmed.state_id < Newest.state_id
        /\ Newest.state_id \in {next_local_state - 1, U64_MAX}
    BY <1>2 DEF IInv, HistoryInv
  <2>5. /\ Confirmed.state_id \in Nat /\ Newest.state_id \in Nat
        /\ Newest.state_id <= U64_MAX
    BY SentFacts, Bounds
  <2>6. Newest.state_id \in DOMAIN server_states
    BY <1>2, <2>4, <2>5 DEF IInv, ServerInv
  <2>7. NewestInput' = NewestInput
    <3>1. server_states[Newest.state_id] = NewestInput /\ NewestInput \in Seq(Instructions)
      BY <2>6, Streams DEF IInv, ServerInv
    <3>2. NewestInput' = server_states[Newest.state_id] \o <<>>
      BY <1>2, <2>3 DEF NewestInput
    <3>3. NewestInput \o <<>> = NewestInput
      BY <3>1
    <3>4. QED  BY <3>1, <3>2, <3>3
  <2>8. HistoryInv'
    <3>1. Len(local_instructions') = 0
      BY <1>2
    <3>2. QED  BY <1>2, <2>2, <2>3, <2>4, <3>1 DEF HistoryInv
  <2>9. ~LocalShutdownAcknowledged
    BY <2>4, <2>5, Bounds DEF LocalShutdownAcknowledged
  <2>10. local_instructions' \in Seq(Instructions)
    BY <1>2
  <2>11. QED  BY <1>2, <2>2, <2>3, <2>4, <2>6, <2>7, <2>8, <2>9, <2>10
<1>3. QED  BY <1>1, <1>2, AckCases

\* A datagram that completes an update.
LEMMA HostReceiveInv ==
    ASSUME IInv, NEW u \in to_client, HostReceive(u)
    PROVE  IInv'
<1>1. /\ UNCHANGED <<serverVars, to_server, accepted, frames, peer_acked, running_age>>
      /\ UNCHANGED <<queued_instructions, send_age, shutdown_age, association, lifecycle>>
      /\ UNCHANGED transmissions
      /\ to_client' = to_client \ {u}
      /\ receive_age' = 0 /\ connection_state' = "Connected"
      /\ ProcessAcknowledgement(u.ack) /\ AcceptRemoteUpdate(u)
      /\ shutdown' = IF u.target = U64_MAX /\ shutdown = "Open" THEN "PeerRequested"
                     ELSE shutdown
  BY DEF HostReceive, ReceiveDatagram, ghostVars
<1>2. UNCHANGED <<server_states, server_newest, server_last, server_closed, server_known>>
  BY <1>1 DEF serverVars, serverInputVars
<1>3. /\ sent_states' \in Seq(SentState) /\ Len(sent_states') > 0
      /\ local_instructions' \in Seq(Instructions) /\ next_local_state' = next_local_state
      /\ HistoryInv'
      /\ NewestInput' = NewestInput /\ Newest'.state_id = Newest.state_id
      /\ LocalShutdownAcknowledged => LocalShutdownAcknowledged'
      /\ \/ Confirmed' = Confirmed /\ local_instructions' = local_instructions
         \/ /\ Confirmed.state_id < Newest.state_id
            /\ Confirmed'.state_id = Newest.state_id
            /\ Newest.state_id \in DOMAIN server_states
  BY <1>1, <1>2, AckStep
<1>4. /\ RemoteType'
      /\ latest_remote_state \in Nat /\ latest_remote_state' \in Nat
      /\ latest_remote_state <= latest_remote_state'
      /\ remote_throwaway_floor' <= latest_remote_state'
  BY <1>1, RemoteStep
<1>5. /\ Confirmed.state_id \in Nat /\ Newest.state_id \in Nat /\ Confirmed'.state_id \in Nat
      /\ Confirmed.state_id <= Confirmed'.state_id /\ Confirmed'.state_id <= Newest.state_id
  BY <1>3, SentFacts, Bounds
<1>6. TypeOK'
  <2>1. QueuedInput' = QueuedInput
    BY <1>1 DEF QueuedInput, InputsIn
  <2>2. StreamType'
    BY <1>1, <1>3, <2>1 DEF IInv, TypeOK, StreamType
  <2>3. TimerType'
    BY <1>1, Bounds DEF IInv, TypeOK, TimerType
  <2>4. ModeType'
    BY <1>1 DEF IInv, TypeOK, ModeType, Outcomes
  <2>5. FlagType'
    <3>1. /\ acknowledgement_due' = (acknowledgement_due \/ Advances(u))
          /\ peer_shutdown_acknowledgement_due' =
                (peer_shutdown_acknowledgement_due \/ u.target = U64_MAX)
      BY DEF HostReceive, ReceiveDatagram
    <3>2. /\ acknowledgement_due' \in BOOLEAN
          /\ peer_shutdown_acknowledgement_due' \in BOOLEAN
      BY <3>1, Zenon
    <3>3. QED  BY <1>1, <3>2 DEF IInv, TypeOK, FlagType
  <2>6. QED  BY <1>4, <2>2, <2>3, <2>4, <2>5 DEF TypeOK
<1>7. MessagesInv'
  <2>1. ASSUME NEW m \in to_server' PROVE MessageInv(m)'
    <3>1. MessageInv(m)
      BY <1>1 DEF IInv, MessagesInv
    <3>2. /\ {m.base, m.target, m.discard, m.ack} \subseteq 0 .. U64_MAX
          /\ m.discard \in Nat /\ m.ack \in Nat /\ m.target \in Nat
      BY <3>1, Bounds DEF MessageInv
    <3>3. m.discard <= Confirmed'.state_id /\ m.ack <= latest_remote_state'
      BY <1>4, <1>5, <3>1, <3>2 DEF MessageInv
    <3>4. ASSUME m.base # m.target
          PROVE  /\ m.base < m.target
                 /\ \/ /\ m.target <= Confirmed'.state_id
                       /\ m.target \in DOMAIN server_states \/ m.base \notin DOMAIN server_states
                    \/ /\ m.base = Confirmed'.state_id /\ m.target = Newest'.state_id
                       /\ m.delta = local_instructions'
      <4>1. CASE Confirmed' = Confirmed /\ local_instructions' = local_instructions
        BY <1>3, <3>1, <3>4, <4>1 DEF MessageInv
      <4>2. CASE /\ Confirmed'.state_id = Newest.state_id
                 /\ Newest.state_id \in DOMAIN server_states
        <5>1. m.target = Newest.state_id => m.target <= Confirmed'.state_id
          BY <1>5, <4>2
        <5>2. m.target <= Confirmed.state_id => m.target <= Confirmed'.state_id
          BY <1>5, <3>2
        <5>3. QED  BY <3>1, <3>4, <4>2, <5>1, <5>2 DEF MessageInv
      <4>3. QED  BY <1>3, <4>1, <4>2
    <3>5. QED  BY <1>2, <3>2, <3>3, <3>4 DEF MessageInv
  <2>2. QED  BY <2>1 DEF MessagesInv
<1>8. ServerInv'
  <2>1. Confirmed'.state_id \in DOMAIN server_states /\ server_newest \in DOMAIN server_states
    BY <1>3 DEF IInv, ServerInv
  <2>2. \A n \in DOMAIN server_states :
           /\ n \in 0 .. U64_MAX /\ n <= server_newest
           /\ n <= Confirmed'.state_id \/ n = Newest'.state_id
           /\ server_states[n] \in Seq(Instructions)
    <3>1. ASSUME NEW n \in DOMAIN server_states
          PROVE  n <= Confirmed'.state_id \/ n = Newest'.state_id
      <4>1. n \in Nat /\ (n <= Confirmed.state_id \/ n = Newest.state_id)
        BY Bounds DEF IInv, ServerInv
      <4>2. QED  BY <1>3, <1>5, <4>1
    <3>2. QED  BY <3>1 DEF IInv, ServerInv
  <2>3. Newest'.state_id \in DOMAIN server_states =>
           server_states[Newest'.state_id] = NewestInput'
    BY <1>3 DEF IInv, ServerInv
  <2>4. \A v \in to_client' :
           /\ v.ack \in 0 .. U64_MAX
           /\ v.ack >= Confirmed'.state_id => v.ack \in DOMAIN server_states
    <3>1. \A v \in to_client' : v.ack \in 0 .. U64_MAX /\ v.ack \in Nat
      BY <1>1, Bounds DEF IInv, ServerInv
    <3>2. \A v \in to_client' : v.ack >= Confirmed'.state_id => v.ack >= Confirmed.state_id
      BY <1>5, <3>1
    <3>3. QED  BY <1>1, <3>1, <3>2 DEF IInv, ServerInv
  <2>5. QED  BY <1>2, <2>1, <2>2, <2>3, <2>4 DEF ServerInv
<1>9. RemoteInv'
  <2>1. server_known \in Nat /\ server_known <= latest_remote_state'
    BY <1>4, Bounds DEF IInv, RemoteInv
  <2>2. ASSUME NEW v \in to_client'
        PROVE  /\ {v.base, v.target, v.discard} \subseteq 0 .. U64_MAX
               /\ v.discard <= latest_remote_state'
    <3>1. /\ {v.base, v.target, v.discard} \subseteq 0 .. U64_MAX
          /\ v.discard <= latest_remote_state /\ v.discard \in Nat
      BY <1>1, Bounds DEF IInv, RemoteInv
    <3>2. QED  BY <1>4, <3>1
  <2>3. QED  BY <1>2, <1>4, <2>1, <2>2 DEF IInv, RemoteInv
<1>10. InputAccounted'
  <2>1. (NewestInput \o queued_instructions)' = NewestInput \o queued_instructions
    BY <1>1, <1>3
  <2>2. QED  BY <1>1, <2>1, Streams, Accounted
<1>11. FrameInv'
  BY <1>1, <1>2, <1>3, FrameKept
<1>12. ShutdownInv'
  <2>1. InputsIn(NewestInput)' = InputsIn(NewestInput)
    BY <1>3 DEF InputsIn
  <2>2. LocalShutdownSent' = LocalShutdownSent
    BY <1>3 DEF LocalShutdownSent
  <2>3. QED  BY <1>1, <1>3, <2>1, <2>2 DEF IInv, ShutdownInv
<1>13. QED
  BY <1>3, <1>6, <1>7, <1>8, <1>9, <1>10, <1>11, <1>12 DEF IInv

(***************************************************************************)
(* The server.                                                              *)
(***************************************************************************)
\* What depends on the runtime alone survives the server's steps.
LEMMA RuntimeKept ==
    ASSUME IInv, UNCHANGED <<runtimeVars, ghostVars>>
    PROVE  /\ TypeOK' /\ HistoryInv'
           /\ Newest' = Newest /\ Confirmed' = Confirmed
           /\ LocalShutdownSent' = LocalShutdownSent
           /\ LocalShutdownAcknowledged' = LocalShutdownAcknowledged
           /\ UNCHANGED <<sentVars, remoteVars, queued_instructions, lifecycle, shutdown>>
           /\ UNCHANGED <<accepted, frames>>
<1> USE DEF runtimeVars, ghostVars, sentVars, timerVars, handshakeVars, remoteVars
<1>1. StreamType'
  BY DEF IInv, TypeOK, StreamType, QueuedInput, InputsIn
<1>2. TimerType' /\ ModeType' /\ FlagType' /\ RemoteType'
  BY DEF IInv, TypeOK, TimerType, ModeType, FlagType, RemoteType
<1>3. /\ Newest' = Newest /\ Confirmed' = Confirmed /\ HasPendingUpdate' = HasPendingUpdate
      /\ LocalShutdownSent' = LocalShutdownSent
      /\ LocalShutdownAcknowledged' = LocalShutdownAcknowledged
  BY DEF Newest, Confirmed, HasPendingUpdate, LocalShutdownSent, LocalShutdownAcknowledged
<1>4. HistoryInv'
  BY <1>3 DEF IInv, HistoryInv
<1>5. QED  BY <1>1, <1>2, <1>3, <1>4 DEF TypeOK

\* The server's steps that consume nothing.
LEMMA ServerOwnStep ==
    ASSUME IInv, UNCHANGED <<runtimeVars, ghostVars, serverInputVars, to_server>>,
           RemoteInv',
           \A u \in to_client' : u \in to_client \/ u.ack = server_newest
    PROVE  IInv'
<1>1. /\ TypeOK' /\ HistoryInv'
      /\ Newest' = Newest /\ Confirmed' = Confirmed
      /\ LocalShutdownSent' = LocalShutdownSent
      /\ LocalShutdownAcknowledged' = LocalShutdownAcknowledged
      /\ UNCHANGED <<sentVars, remoteVars, queued_instructions, lifecycle, shutdown>>
      /\ UNCHANGED <<accepted, frames>>
  BY RuntimeKept
<1>2. UNCHANGED <<server_states, server_newest>>
  BY DEF serverInputVars
<1>3. NewestInput' = NewestInput
  BY <1>1, <1>2 DEF NewestInput, sentVars
<1>4. MessagesInv'
  BY <1>1, <1>2 DEF IInv, MessagesInv, MessageInv, sentVars, remoteVars
<1>5. ServerInv'
  <2>1. server_newest \in DOMAIN server_states /\ server_newest \in 0 .. U64_MAX
    BY DEF IInv, ServerInv
  <2>2. \A u \in to_client' :
           /\ u.ack \in 0 .. U64_MAX
           /\ u.ack >= Confirmed.state_id => u.ack \in DOMAIN server_states
    BY <2>1 DEF IInv, ServerInv
  <2>3. QED  BY <1>1, <1>2, <1>3, <2>2 DEF IInv, ServerInv
<1>6. InputAccounted'
  <2>1. (NewestInput \o queued_instructions)' = NewestInput \o queued_instructions
    BY <1>1, <1>3
  <2>2. QED  BY <1>1, <2>1, Streams, Accounted
<1>7. FrameInv'
  BY <1>1, <1>2, <1>3, FrameKept DEF sentVars
<1>8. ShutdownInv'
  <2>1. InputsIn(NewestInput)' = InputsIn(NewestInput)
    BY <1>3 DEF InputsIn
  <2>2. QED  BY <1>1, <2>1 DEF IInv, ShutdownInv
<1>9. QED  BY <1>1, <1>4, <1>5, <1>6, <1>7, <1>8 DEF IInv

\* Its terminal changes, or it closes the session.
LEMMA ServerMovesInv == ASSUME IInv, ServerChange \/ ServerClose PROVE IInv'
<1>1. /\ UNCHANGED <<runtimeVars, ghostVars, serverInputVars, to_server>>
      /\ UNCHANGED <<to_client, server_known>>
  BY DEF ServerChange, ServerClose
<1>2. server_last' \in 0 .. MaxRemote
  BY Bounds DEF ServerChange, ServerClose, IInv, RemoteInv
<1>3. server_closed' \in BOOLEAN
  BY DEF ServerChange, ServerClose, IInv, RemoteInv
<1>4. RemoteInv'
  BY <1>1, <1>2, <1>3, RuntimeKept DEF IInv, RemoteInv, remoteVars
<1>5. QED  BY <1>1, <1>4, ServerOwnStep

\* It sends its newest state.
LEMMA ServerSendInv == ASSUME IInv, NEW b \in Bases, ServerSend(b) PROVE IInv'
<1> DEFINE v == [base |-> b, target |-> ServerTarget, ack |-> server_newest,
                 discard |-> server_known]
<1>1. /\ UNCHANGED <<runtimeVars, ghostVars, serverInputVars, to_server>>
      /\ UNCHANGED <<server_last, server_closed, server_known>>
      /\ to_client' \subseteq to_client \cup {v}
  BY DEF ServerSend, serverVars, Travelling
<1>2. /\ server_last \in 0 .. U64_MAX /\ server_known \in 0 .. U64_MAX
      /\ server_known <= latest_remote_state
  BY Bounds DEF IInv, RemoteInv
<1>3. ServerTarget \in 0 .. U64_MAX
  BY <1>2, Bounds DEF ServerTarget
<1>4. b \in 0 .. U64_MAX
  BY <1>2, <1>3, Bounds DEF Bases
<1>5. {v.base, v.target, v.discard} \subseteq 0 .. U64_MAX /\ v.discard <= latest_remote_state
  BY <1>2, <1>3, <1>4
<1>6. RemoteInv'
  <2>1. latest_remote_state' = latest_remote_state /\ remote_throwaway_floor' = remote_throwaway_floor
    BY <1>1, RuntimeKept DEF remoteVars
  <2> HIDE DEF v
  <2>2. QED  BY <1>1, <1>5, <2>1 DEF IInv, RemoteInv
<1>7. QED  BY <1>1, <1>6, ServerOwnStep

\* It consumes the newest state, or nothing.
LEMMA ServerReceiveInv == ASSUME IInv, NEW m \in to_server, ServerReceive(m) PROVE IInv'
<1> DEFINE c == Confirmed.state_id
           n0 == Newest.state_id
<1>1. /\ UNCHANGED <<runtimeVars, ghostVars, to_client, server_last, server_closed>>
      /\ to_server' = to_server \ {m}
      /\ server_known' = IF m.ack > server_known THEN m.ack ELSE server_known
  BY DEF ServerReceive
<1>2. /\ TypeOK' /\ HistoryInv'
      /\ Newest' = Newest /\ Confirmed' = Confirmed
      /\ LocalShutdownSent' = LocalShutdownSent
      /\ LocalShutdownAcknowledged' = LocalShutdownAcknowledged
      /\ UNCHANGED <<sentVars, remoteVars, queued_instructions, lifecycle, shutdown>>
      /\ UNCHANGED <<accepted, frames>>
  BY <1>1, RuntimeKept
<1>3. MessageInv(m)
  BY DEF IInv, MessagesInv
<1>4. RemoteInv'
  <2>1. /\ m.ack \in 0 .. U64_MAX /\ m.ack <= latest_remote_state
    BY <1>3 DEF MessageInv
  <2>2. server_known' \in 0 .. U64_MAX /\ server_known' <= latest_remote_state
    BY <1>1, <2>1 DEF IInv, RemoteInv
  <2>3. QED  BY <1>1, <1>2, <2>2 DEF IInv, RemoteInv, remoteVars
<1>5. CASE ~ServerNeeds(m)
  <2>1. UNCHANGED <<server_states, server_newest>>
    BY <1>5 DEF ServerReceive, serverInputVars
  <2>2. NewestInput' = NewestInput
    BY <1>2, <2>1 DEF NewestInput, sentVars
  <2>3. MessagesInv'
    BY <1>1, <1>2, <2>1 DEF IInv, MessagesInv, MessageInv, sentVars, remoteVars
  <2>4. ServerInv'
    BY <1>1, <1>2, <2>1, <2>2 DEF IInv, ServerInv
  <2>5. InputAccounted'
    <3>1. (NewestInput \o queued_instructions)' = NewestInput \o queued_instructions
      BY <1>2, <2>2
    <3>2. QED  BY <1>2, <3>1, Streams, Accounted
  <2>6. FrameInv'
    BY <1>2, <2>1, <2>2, FrameKept DEF sentVars
  <2>7. ShutdownInv'
    <3>1. InputsIn(NewestInput)' = InputsIn(NewestInput)
      BY <2>2 DEF InputsIn
    <3>2. QED  BY <1>2, <3>1 DEF IInv, ShutdownInv
  <2>8. QED  BY <1>2, <1>4, <2>3, <2>4, <2>5, <2>6, <2>7 DEF IInv
<1>6. CASE ServerNeeds(m)
  <2>1. /\ m.base = c /\ m.target = n0 /\ m.delta = local_instructions
        /\ n0 \notin DOMAIN server_states /\ c \in DOMAIN server_states
        /\ m.discard \in Nat /\ m.discard <= c
    <3>1. m.target \notin DOMAIN server_states /\ m.base \in DOMAIN server_states
      BY <1>6 DEF ServerNeeds
    <3>2. m.base = c /\ m.target = n0 /\ m.delta = local_instructions
      BY <1>3, <3>1 DEF MessageInv
    <3>3. m.discard \in Nat /\ m.discard <= c
      BY <1>3, Bounds DEF MessageInv
    <3>4. QED  BY <3>1, <3>2, <3>3
  <2>2. c \in Nat /\ n0 \in Nat /\ n0 \in 0 .. U64_MAX /\ c < n0
    <3>1. c \in Nat /\ n0 \in Nat /\ n0 \in 0 .. U64_MAX /\ c <= n0
      BY SentFacts, Bounds
    <3>2. c # n0
      BY <2>1
    <3>3. QED  BY <3>1, <3>2
  <2>3. \A n \in DOMAIN server_states :
           /\ n \in 0 .. U64_MAX /\ n \in Nat /\ n <= c
           /\ server_states[n] \in Seq(Instructions)
    BY <2>1, Bounds DEF IInv, ServerInv
  <2>4. /\ DOMAIN server_states' = {n \in DOMAIN server_states : n >= m.discard} \cup {n0}
        /\ server_states'[n0] = NewestInput
        /\ \A n \in DOMAIN server_states : n >= m.discard => server_states'[n] = server_states[n]
    BY <1>6, <2>1 DEF ServerReceive, ServerAccept, ServerKeeps, NewestInput
  <2>5. server_newest' = n0
    <3>1. server_newest \in Nat /\ server_newest <= c
      BY <2>3 DEF IInv, ServerInv
    <3>2. QED  BY <1>6, <2>1, <2>2, <3>1 DEF ServerReceive, ServerAccept
  <2>6. c \in DOMAIN server_states' /\ NewestInput' = NewestInput
    <3>1. c >= m.discard
      BY <2>1, <2>2
    <3>2. QED  BY <1>2, <2>1, <2>4, <3>1 DEF NewestInput, sentVars
  <2>7. MessagesInv'
    <3>1. ASSUME NEW p \in to_server' PROVE MessageInv(p)'
      <4>1. MessageInv(p)
        BY <1>1 DEF IInv, MessagesInv
      <4>2. UNCHANGED <<local_instructions, latest_remote_state>>
        BY <1>2 DEF sentVars, remoteVars
      <4>3. ASSUME p.target <= c, p.base < p.target,
                   p.target \in DOMAIN server_states \/ p.base \notin DOMAIN server_states
            PROVE  p.target \in DOMAIN server_states' \/ p.base \notin DOMAIN server_states'
        <5>1. p.base \in Nat /\ p.target \in Nat
          BY <4>1, Bounds DEF MessageInv
        <5>2. p.base # n0
          BY <2>2, <4>3, <5>1
        <5>3. QED  BY <2>1, <2>4, <4>3, <5>1, <5>2
      <4>4. QED  BY <1>2, <4>1, <4>2, <4>3 DEF MessageInv
    <3>2. QED  BY <3>1 DEF MessagesInv
  <2>8. ServerInv'
    <3>1. ASSUME NEW n \in DOMAIN server_states'
          PROVE  /\ n \in 0 .. U64_MAX /\ n <= server_newest'
                 /\ n <= Confirmed'.state_id \/ n = Newest'.state_id
                 /\ server_states'[n] \in Seq(Instructions)
      <4>1. CASE n = n0
        BY <1>2, <2>2, <2>4, <2>5, <4>1, Streams
      <4>2. CASE n # n0
        <5>1. n \in DOMAIN server_states /\ server_states'[n] = server_states[n]
          BY <2>4, <4>2
        <5>2. n <= n0
          BY <2>2, <2>3, <5>1
        <5>3. QED  BY <1>2, <2>3, <2>5, <5>1, <5>2
      <4>3. QED  BY <4>1, <4>2
    <3>2. ASSUME NEW u \in to_client'
          PROVE  /\ u.ack \in 0 .. U64_MAX
                 /\ u.ack >= Confirmed'.state_id => u.ack \in DOMAIN server_states'
      <4>1. /\ u.ack \in 0 .. U64_MAX /\ u.ack \in Nat
            /\ u.ack >= c => u.ack \in DOMAIN server_states
        BY <1>1, Bounds DEF IInv, ServerInv
      <4>2. u.ack >= c => u.ack >= m.discard
        BY <2>1, <2>2, <4>1
      <4>3. QED  BY <1>2, <2>4, <4>1, <4>2
    <3>3. QED  BY <1>2, <2>4, <2>5, <2>6, <3>1, <3>2 DEF ServerInv
  <2>9. InputAccounted'
    <3>1. (NewestInput \o queued_instructions)' = NewestInput \o queued_instructions
      BY <1>2, <2>6
    <3>2. QED  BY <1>2, <3>1, Streams, Accounted
  <2>10. FrameInv'
    <3>1. /\ accepted \in Nat /\ InputsIn(NewestInput) \in Nat
          /\ InputsIn(NewestInput) <= accepted /\ WellOrdered(NewestInput)
      BY Streams, WellOrderedPrefix, Bounds DEF IInv, FrameInv
    <3>2. \A i \in 1 .. accepted : frames[i] <= n0 <=> i <= InputsIn(NewestInput)
      <4>1. ASSUME NEW i \in 1 .. accepted, ~(i <= InputsIn(NewestInput))
            PROVE  ~(frames[i] <= n0)
        <5>1. frames[i] = next_local_state
          BY <4>1 DEF IInv, FrameInv
        <5>2. ~LocalShutdownSent
          BY <3>1, <4>1 DEF IInv, ShutdownInv
        <5>3. n0 = next_local_state - 1
          BY <5>2 DEF IInv, HistoryInv, LocalShutdownSent
        <5>4. next_local_state \in Nat
          BY SentFacts
        <5>5. QED  BY <2>2, <5>1, <5>3, <5>4
      <4>2. QED  BY <4>1 DEF IInv, FrameInv
    <3>3. ASSUME NEW n \in DOMAIN server_states'
          PROVE  /\ WellOrdered(server_states'[n])
                 /\ InputsIn(server_states'[n]) <= accepted
                 /\ \A i \in 1 .. accepted : frames[i] <= n <=> i <= InputsIn(server_states'[n])
      <4>1. CASE n = n0
        <5>1. server_states'[n] = NewestInput
          BY <2>4, <4>1
        <5>2. QED  BY <3>1, <3>2, <4>1, <5>1
      <4>2. CASE n # n0
        <5>1. n \in DOMAIN server_states /\ server_states'[n] = server_states[n]
          BY <2>4, <4>2
        <5>2. QED  BY <5>1 DEF IInv, FrameInv
      <4>3. QED  BY <4>1, <4>2
    <3>4. \A n \in DOMAIN server_states' :
             /\ WellOrdered(server_states[n])' <=> WellOrdered(server_states'[n])
             /\ InputsIn(server_states[n])' = InputsIn(server_states'[n])
      BY DEF WellOrdered, InputsIn
    <3>5. InputsIn(NewestInput)' = InputsIn(NewestInput)
      BY <2>6 DEF InputsIn
    <3>6. next_local_state' = next_local_state
      BY <1>2 DEF sentVars
    <3>7. QED  BY <1>2, <3>3, <3>4, <3>5, <3>6 DEF IInv, FrameInv
  <2>11. ShutdownInv'
    <3>1. InputsIn(NewestInput)' = InputsIn(NewestInput)
      BY <2>6 DEF InputsIn
    <3>2. QED  BY <1>2, <3>1 DEF IInv, ShutdownInv
  <2>12. QED  BY <1>2, <1>4, <2>7, <2>8, <2>9, <2>10, <2>11 DEF IInv
<1>7. QED  BY <1>5, <1>6

(***************************************************************************)
(* The results.                                                             *)
(***************************************************************************)
\* Every step keeps the invariant.
LEMMA NextInv == ASSUME IInv, [Next]_vars PROVE IInv'
<1>1. ASSUME HostPoll PROVE IInv'
  BY <1>1, PollFreshInv, PollNotFreshInv DEF HostPoll, Poll
<1>2. ASSUME HostOther PROVE IInv'
  BY <1>2, HostPauseInv, CancelInv DEF HostOther
<1>3. ASSUME Server PROVE IInv'
  BY <1>3, ServerMovesInv, ServerSendInv, ServerReceiveInv DEF Server
<1>4. ASSUME NEW u \in to_client, HostReceive(u) PROVE IInv'
  BY <1>4, HostReceiveInv
<1>5. ASSUME UNCHANGED vars PROVE IInv'
  <2>1. /\ UNCHANGED <<runtimeVars, ghostVars, serverInputVars, to_server, to_client>>
        /\ UNCHANGED <<server_last, server_closed, server_known>>
    BY <1>5 DEF vars, serverVars
  <2>2. RemoteInv'
    BY <2>1, RuntimeKept DEF IInv, RemoteInv, remoteVars
  <2>3. QED  BY <2>1, <2>2, ServerOwnStep
<1>6. QED
  BY <1>1, <1>2, <1>3, <1>4, <1>5, HostInputInv, HostResizeInv, HostShutdownInv, TimeInv,
     HostReceivePartInv DEF Next

\* The inductive invariant holds in every reachable state.
THEOREM Invariance == Spec => []IInv
<1>1. IInv /\ [Next]_vars => IInv'
  BY NextInv
<1>2. QED  BY InitInv, <1>1, PTL DEF Spec

\* Every variable stays in its type, and the queue of the runtime within its bound
\* (queue_input, runtime lib.rs:316-337).
THEOREM TypeCorrect == Spec => []TypeOK
<1>1. IInv => TypeOK
  BY DEF IInv
<1>2. QED  BY Invariance, <1>1, PTL

\* All the input the runtime accepted is consumed, retained or queued, once and in
\* order, until cancel gives up what is queued.
THEOREM InputSafety == Spec => []InputAccounted
<1>1. IInv => InputAccounted
  BY DEF IInv
<1>2. QED  BY Invariance, <1>1, PTL

\* At most one update is unconfirmed, so the history is never pruned.
THEOREM OneUpdatePending == Spec => []StopAndWait
<1>1. IInv => StopAndWait
  <2>1. IInv => Len(sent_states) \in 1 .. 2
    BY DEF IInv, HistoryInv
  <2>2. \A k \in 1 .. 2 : k <= 2
    OBVIOUS
  <2>3. QED  BY <2>1, <2>2, Zenon DEF StopAndWait
<1>2. QED  BY Invariance, <1>1, PTL

\* A shutdown is reported as acknowledged only when the server has consumed all input.
THEOREM ShutdownConsumesAll == Spec => []AcknowledgedMeansConsumed
<1>1. ASSUME IInv, shutdown = "Acknowledged"
      PROVE  server_newest = U64_MAX /\ InputsIn(ServerInput) = accepted
  <2>1. Confirmed.state_id = U64_MAX
    BY <1>1 DEF IInv, ShutdownInv, LocalShutdownAcknowledged
  <2>2. Newest.state_id = U64_MAX
    BY <1>1, <2>1, SentFacts, Bounds
  <2>3. /\ U64_MAX \in DOMAIN server_states /\ server_newest \in 0 .. U64_MAX
        /\ U64_MAX <= server_newest
    BY <1>1, <2>1 DEF IInv, ServerInv
  <2>4. server_newest = U64_MAX
    BY <2>3, Bounds
  <2>5. ServerInput = NewestInput
    BY <1>1, <2>2, <2>3, <2>4 DEF IInv, ServerInv, ServerInput
  <2>6. QED  BY <1>1, <2>2, <2>4, <2>5 DEF IInv, ShutdownInv, LocalShutdownSent
<1>2. IInv => AcknowledgedMeansConsumed
  BY <1>1 DEF AcknowledgedMeansConsumed
<1>3. QED  BY Invariance, <1>2, PTL

\* A server state holds an input exactly if its number has reached the frame that
\* prediction_frame_id gave when the input was queued.
THEOREM FramesExact == Spec => []FramesAreExact
<1>1. ASSUME IInv, NEW n \in DOMAIN server_states, NEW i \in 1 .. accepted
      PROVE  (frames[i] <= n) <=>
                \E k \in 1 .. Len(server_states[n]) :
                   server_states[n][k] = [kind |-> "input", id |-> i]
  <2>1. frames[i] <= n <=> i <= InputsIn(server_states[n])
    BY <1>1 DEF IInv, FrameInv
  <2>2. server_states[n] \in Seq(Instructions) /\ WellOrdered(server_states[n])
    BY <1>1 DEF IInv, ServerInv, FrameInv
  <2>3. i \in Nat \ {0}
    BY <1>1, Bounds DEF IInv, FrameInv
  <2>4. QED  BY <2>1, <2>2, <2>3, HeldInput
<1>2. IInv => FramesAreExact
  BY <1>1 DEF FramesAreExact
<1>3. QED  BY Invariance, <1>2, PTL

\* The time that milliseconds_until_next_poll reports is exact: nothing is due before
\* it, and something is at it.
THEOREM SleepIsSafe == Spec => []WaitIsExact
<1>1. ASSUME TypeOK, Polling
      PROVE  /\ PollWait > 0 => PolledDatagrams = {} /\ (Completing => ShutdownConfirmed)
             /\ PollWait = 0 => \/ PolledDatagrams # {} \/ Completing
                                \/ peer_shutdown_acknowledgement_due
  <2>1. /\ send_age \in 0 .. RETRANSMIT /\ shutdown_age \in 0 .. SHUTDOWN_TIMEOUT
        /\ transmissions \in 0 .. SHUTDOWN_RETRY_LIMIT
    BY <1>1 DEF TypeOK, TimerType
  <2> DEFINE p == ProtocolWait
             w == ShutdownWait
  <2>2. /\ p \in Nat /\ w \in Nat
        /\ p > 0 <=> ~(Associating \/ Fresh \/ SendDue)
        /\ w > 0 <=> ~(transmissions >= SHUTDOWN_RETRY_LIMIT \/ shutdown_age >= SHUTDOWN_TIMEOUT)
    <3>1. /\ p \in Nat
          /\ p > 0 <=> ~(Associating \/ acknowledgement_due \/ Fresh \/ send_age >= RETRANSMIT)
      BY <2>1, Bounds DEF ProtocolWait, Left
    <3>2. ~Associating => (SendDue <=> acknowledgement_due \/ send_age >= RETRANSMIT)
      BY DEF SendDue, PolledAge
    <3>3. /\ w \in Nat
          /\ w > 0 <=> ~(transmissions >= SHUTDOWN_RETRY_LIMIT \/ shutdown_age >= SHUTDOWN_TIMEOUT)
      BY <2>1, Bounds DEF ShutdownWait, Left
    <3>4. QED  BY <3>1, <3>2, <3>3
  <2> HIDE DEF p, w
  <2>3. PollWait = IF shutdown = "LocalRequested" THEN Smaller(p, w) ELSE p
    BY <1>1 DEF PollWait, p, w
  <2>4. /\ PollWait > 0 <=> p > 0 /\ (shutdown = "LocalRequested" => w > 0)
        /\ PollWait = 0 <=> ~(p > 0) \/ (shutdown = "LocalRequested" /\ ~(w > 0))
    BY <2>2, <2>3 DEF Smaller
  <2>5. shutdown = "LocalRequested" /\ ~(w > 0) <=> ShutdownTimedOut
    BY <2>2 DEF ShutdownTimedOut
  <2>6. PolledDatagrams # {} <=> Continuing /\ ~(p > 0)
    BY <2>2 DEF PolledDatagrams, AssociationDatagrams
  <2>7. Continuing <=> ~Completing
    BY <1>1 DEF Continuing
  <2>8. Completing <=> ~peer_shutdown_acknowledgement_due /\ (ShutdownConfirmed \/ ShutdownTimedOut)
    BY DEF Completing
  <2>9. QED  BY <2>4, <2>5, <2>6, <2>7, <2>8
<1>2. TypeOK => WaitIsExact
  BY <1>1 DEF WaitIsExact
<1>3. QED  BY TypeCorrect, <1>2, PTL
=============================================================================
