# FerrumTTY in TLA+

TLA+ models of the FerrumTTY client (`crates/`), TLC configurations that check
them on small instances, and TLAPS proofs of the properties that matter most.
`PROJECT.json` maps every definition to the lines it models and lists the runs,
the findings, the hazards and the theorems.

## The system

FerrumTTY is a client for the Mosh protocol: it synchronises two objects over
UDP, the user's input (client to server) and the screen (server to client). Each
side numbers the states of its object and sends the newest one as a difference
from a state the other side is believed to have, again and again until it is
acknowledged. Nothing is persisted; a crashed client is gone. There are no
threads: all concurrency is between the client, the network, the server, the
user and the clock.

| component | state it keeps | operations | interacts with | what makes it correct |
|---|---|---|---|---|
| packet encryption (`ferrumtty-crypto`), `ReplayWindow` (`ferrumtty-session`) | the next send counter; the highest received counter and a 128-bit window | `seal_next`, `open`, `accept` | every datagram of `ClientProtocol` | a nonce is never used twice; a packet gets through at most once; reordering inside the window is tolerated |
| sending half of `ClientProtocol` | the next state number, the unconfirmed states, the instructions needed to rebuild them | `build_update`, `build_shutdown`, `build_acknowledgement`, `retransmit_pending`, `process_acknowledgement` | the runtime calls it; the server rebuilds the states | each instruction is read once and in order; whatever is dropped is on the server |
| receiving half of `ClientProtocol` | the rebuilt server states, the delivered one, the throwaway floor | `accept_remote_update`, `set_initial_remote_viewport` | `RemoteTerminalState`; the runtime hands the deltas to the host | the terminal shows exactly the acknowledged state, without repeated or missing output; the server's fallback base is kept |
| `RemoteTerminalState` (`ferrumtty-state`) | a terminal and the operations that produced it | `apply` with compaction, `clone`, `diff_from` | the receiving half | a clone replays to the same screen; a diff gives only what is new |
| fragments (`ferrumtty-wire`, table in `ferrumtty-session`) | one accumulator per message in progress, at most 64 | `split`, `encode`, `parse`, `push` | between messages and packets | what is assembled is what was split; loss is survived |
| `SessionRuntime` (`ferrumtty-runtime`) | the queue, timers, lifecycle, connection state, both shutdown handshakes | `queue_*`, `pause`, `resume`, `cancel`, `notify_udp_rebound`, `request_shutdown`, `receive_datagram`, `poll`, `milliseconds_until_next_poll` | the host drives it; it drives `ClientProtocol` | accepted input is neither lost nor reordered; shutdowns end and report the truth; prediction frames are exact; a host that sleeps as long as it is told misses nothing |
| round-trip estimation (in the runtime) | smoothed round trip, variance, retransmission delay | `record_round_trip_sample` | timestamps of every packet | a sample never exceeds the time really spent; the delay follows the round trip |
| prediction (`ferrumtty-predict`) | the predicted span, its cells, the anchor, acknowledgements | `offer_for_frame_with_context`, `take_reconciliation`, `acknowledge` | the event loop writes its bytes to the terminal | taking a prediction back restores the authoritative screen |
| `TerminalGuard` (`ferrumtty-terminal`) | the authoritative screen model, the local notice, terminal modes | `enter`, `write_server_bytes`, `write_overlay_bytes`, `write_local_notice`, `redraw_authoritative`, suspension, `Drop` | the event loop | the terminal is what the model says plus the prediction; it is given back on every way out |
| title filter (`ferrumtty-terminal`) | a partial OSC control, the remote titles, the displayed ones | `process`, `restore_remote_title`, `reapply_policy` | server output on its way to the terminal | only titles change, wherever the stream is cut |
| escape interpreter and input encoding (`ferrumtty-terminal`) | a held prefix, whether a line starts | `input`, `flush`; `encode_key`, `encode_mouse`, `encode_paste`, `encode_focus` | keyboard, mouse and focus events | nothing typed is lost or overtaken |
| event loop (`ferrumtty-client`) | the above, a termination flag | `run`, `event_loop`, `drain_network`, `drain_terminal`, `suspend_client`, `apply_actions` | sockets, terminal, signals | the client ends when told to, with an honest status and a restored terminal |
| message encoding, command line, diagnostics, laboratory | none | conversions, parsing, logging, testing | | |

What is hard to test here: losses, duplicates and reorderings on both paths at
once; updates on different bases that meet in the client; histories at their
bounds; a shutdown of both sides at once, timeouts racing late answers; redraws
that happen behind the predictor; controls cut anywhere; and the many ways out of the
event loop. `PROJECT.json` lists these hazards line
by line.

## Modules

| module | models | state and actions |
|---|---|---|
| `SecureChannel` | packet numbers, `seal_next`, the replay window | `SealNext` per role, `IngestPacket` of any packet ever sealed, by either side, again and again |
| `SentHistory` | the sending half of `ClientProtocol` | operators on `next_local_state`, `local_instructions`, `sent_states`; used by two compositions |
| `MoshReceiver` | external: the server's copy of the client states | `ServerAccept` |
| `InputStream` | abstract: a stream that is submitted and consumed in prefixes | `Submit`, `Consume` |
| `InputDelivery` | `SentHistory`, the network and `MoshReceiver` | one action per call of the protocol and per arrival; refines `InputStream` |
| `RemoteState` | `RemoteTerminalState` | pure operators: `Apply`, `Clone`, `Compacted`, `DiffFrom` |
| `ReceivedHistory` | the receiving half of `ClientProtocol` | `AcceptRemoteUpdate`, `SetInitialRemoteViewport` |
| `MoshSender` | external: a server that sends its screen from any base it keeps; what the application does is one of `Scripts` | `ScreenChanges`, `ServerLearns` |
| `OutputDelivery` | `ReceivedHistory`, the network, `MoshSender` and the host's terminal | one action per arrival, acknowledgement and change of the screen |
| `SessionRuntime` | `SessionRuntime` over `SentHistory` | one action per host call and per path through `poll`; `PollWait` is `milliseconds_until_next_poll` |
| `Session` | the runtime, a host, a network and a server | the host calls anything at any time |
| `FragmentAssembly` | splitting, accumulators, the table of assemblies | `Send`, `Ingest` |
| `PredictionOverlay` | `PredictionOverlay` | operators `Offer`, `TakeReconciliation`, `Acknowledge` |
| `PredictedScreen` | the event loop, `TerminalGuard`, the predictor and the terminal | one action per event, server output and local command |
| `RoundTrip` | the round-trip estimation of the runtime | a probe travels, is held and echoed while the clock wraps; `ReceiveEcho` takes the sample; `SteadySample` repeats one |
| `TitleFilter` | `TitleOutputFilter` | pure operators, one per state of `process_byte`, from a filter and a byte to a filter and the bytes let through |
| `TitledTerminal` | the filter, the guard's suspensions and an external terminal emulator, once behind the filter (`shown`) and once without it (`direct`) | one byte of server output, suspension, the shell's title, resumption, the end |
| `LocalInput` | input encoding and `EscapeInterpreter` | pure operators on bytes |
| `Client` | `run`, `event_loop` and everything they call, the modes `TerminalGuard` switches | `pc` is the place in the loop; one action per call that can succeed, fail or leave |
| `InputDeliveryProofs`, `SessionProofs`, `OutputDeliveryProofs`, `FragmentAssemblyProofs`, `TitledTerminalProofs`, `PredictedScreenProofs`, `ClientProofs` | | theorems about the module of that name |
| `DatagramProofs` | | theorems about `SecureChannel` and `RoundTrip` |
| `MCFragmentAssembly`, `MCOutputDelivery`, `MCTitledTerminal`, `MCClient` | | lengths, scripts, server output, events and settings for TLC |

`MC*.cfg` give the constants of these modules their values.

How the data is abstracted: an instruction, an input or a packet body is a number.
A screen of `RemoteState` is a content number and a size; host bytes are steps from
one content to another, which garble any other content, so that output that is
repeated, skipped or applied to the wrong screen shows. A screen of
`PredictedScreen` is a small grid with a cursor, on which a character takes no cell, one or
two. A byte of server output in
`TitleFilter` is a symbol for its class, and a byte of local input in `LocalInput` is
the number it is. `Client` keeps of the runtime the shutdown state only. Time in
`SessionRuntime` is kept as ages that saturate at the limit they are compared with, so an age of the limit
stands for any longer one. Encoding, compression and sealing succeed.

Where a definition has a variant with a suffix (`Shifted_NoNewBit`), the variant is
a bug of a kind the code could have; the property it must break is in
`PROJECT.json` under `mutants`.

## Runs

| run | bounds | shows |
|---|---|---|
| `secure_channel` | 5 counters per direction, a window of 3 | both ends run out of counters and packets leave the window; no nonce is reused, nothing is delivered twice, nothing inside the window is refused. No deadlock check: exhausted channels stop. |
| `input_delivery` | 3 ordinary states, 2 instructions, a history of 3 | every order of updates, shutdown, retransmissions and acknowledgements, with pruning and exhaustion: `InputExactlyOnce`, `NothingLost`, `EndsInRange`, the refinement of `InputStream`, and that everything submitted is confirmed in the end |
| `output_delivery` | 4 scripts of 3 server states (appended with a session control in each, redrawn with two, resized, cut inside a sequence), histories of 2 bytes and 5 operations, 3 received states | compaction, divergence, partial sequences, resizes, updates with several controls and the bound on received states all occur; the terminal shows the acknowledged state, a delivery hands over exactly the controls it passes, once and in order, and none from a diverged history (`ControlsOnceInOrder`), and the last state is shown in the end |
| `session` | 2 inputs, resizes, one datagram in flight each way, timers of one tick | accepted input is accounted for, stop-and-wait, truthful acknowledgement, exact frames, exact waits |
| `shutdown` | no input, one server state, two transmissions | local, peer and simultaneous shutdowns end, for a host that polls only when it is told to |
| `fragments` | messages of 6, 7, 0 and 3 bytes, chunks of 2, 4 indexes, a table of 2 | full, oversized, empty and partial messages, and a table that fills and turns fragments away: what is assembled is what was split, and a message is returned once each of its fragments was taken in |
| `prediction` | a row of 4 columns, 3 frames, spans of 3, one output; insertion and overwriting anywhere in the text, characters of 0, 1 and 2 cells, notices and suspensions | rollback is exact and the margin is respected, except in the cases that the properties name (`spoiled`, below); acknowledged cells stay. Two rows of 3 columns, and two outputs on fewer frames, were explored as well. |
| `titles` | 3 items of server output from a set with every kind of control (titles of each command, empty and too long ones, other and over-long commands, header-only and cancelled ones, both introducers and all terminators), UTF-8 characters in the text and in titles, also with the bytes 0x9c and 0x9d, and a doubled escape; 2 suspensions; commands and titles of 2 bytes | only titles change, and they carry the prefix exactly while the session holds the terminal, until the filter first reads a byte differently from the terminal (`misread`, below). No deadlock check: the guard is dropped at the end. |
| `client` | 4 settings: much input (3 events of 12 or 10 kinds, 3 sets of remote modes) under a control and a printable prefix, or few events with signals, lost terminals, socket errors and a server that ends, with and without the alternate screen; 2 datagrams. The three sets of modes put each of the 13 modes away from its default | the terminal is out of raw mode and of all that the guard switches, and the modes which the guard never touches are as the remote program left them; input keeps its order, the exit status is honest, termination ends the client. No deadlock check: the client ends. |
| `round_trip` | timestamps of 5 bits, samples up to 15, echoes held up to 2 and delayed up to 34 ticks, more than a whole turn; then any steady round trip | samples are honest, the estimates stay in range, the delay settles |

The bounds are the smallest at which the special cases meet: a history that is
pruned while its states are in flight needs three states; two branches that
diverge and a third state that builds on either need three server states; a
window that drops packets needs more counters than bits; a simultaneous shutdown
needs one datagram in each direction. `U64_MAX` is a small constant, so the reserved
number is really met by counting. Three events are a prefix, its second key and one
more; the settings of `client` are separate because input and disturbances multiply,
and the disturbed ones keep the events that meet a failure (local commands, resize).

Some properties hold up to a point that the code does not handle. Each names it, and a
configuration below shows what happens there:

- `OnlyTitlesChange` and `TitlesShown` hold until `misread`: the filter looks at single bytes,
  so it takes 0x9d inside a character for a control, 0x9c inside a title for its end, and an
  escape before another one, or inside a control before its end, for something else than the
  terminal does; or a suspension writes the titles into the middle of a character or a
  passing control (`Misreads`, `Deactivate`).
- `RollbackIsExact` holds always when predictions overwrite. When they insert, it holds while
  `spoiled` is empty: the rollback deletes as many cells as keys were predicted, which is wrong
  once a guess took no cell or two, once an insertion pushed text over the margin, and once a
  notice or a suspension repainted the screen without the guesses. `MarginRespected` needs
  that guesses took one cell, and that none were repainted.
- `TerminalRestored` excepts the modes of `Untouched`, which no step of `deactivate_terminal`
  resets: keypad, insert, origin and wrap mode, cursor visibility and shape, and margins, and
  without the alternate screen also the cursor keys and the remote program's alternate screen.
  Those are as the remote program left them.

### Disagreements between the documents and the code

These runs end in a counterexample; `PROJECT.json` quotes the documents.

| run | what the trace shows |
|---|---|
| `utf8_output` | a character whose UTF-8 encoding contains the byte 0x9d (a closing quotation mark, e2 80 9d) is written: the filter takes the byte for an OSC introducer and holds it and the text after it back. |
| `network_down` | the first datagram cannot be sent because the network is down, and the session ends; a copy of a datagram ends it as well, since `receive_datagram` refuses it and `drain_network` passes the error on (`receive_datagram_lossy` exists and is not used). |

More configurations reproduce others (`tlc -config MCX.cfg Module`):

| configuration | module | what the trace shows |
|---|---|---|
| `MCPeerShutdown.cfg` | `Session` | the server closes with an update on a state the client lacks. `receive_datagram` makes the acknowledgement due although the update was ignored, and the next datagram, which acknowledges an older state, completes the shutdown; `docs/EMBEDDING.md:50-52` says it is not complete before its `u64::MAX` acknowledgement was returned. |
| `MCResizeBranch.cfg` | `MCOutputDelivery` | both parsers are at ground and both screens have one size, but a tail contains a resize: the state is stored and not shown (`docs/COMPATIBILITY.md:67-69` says a screen diff is used). Its repetition is then ignored as known, so the display waits for the screen to change. |
| `MCLostFragments.cfg` | `MCFragmentAssembly` | as many messages as the table has entries lose a fragment each; the next message is refused in every copy, although all of its fragments keep arriving (session lib.rs:328; `docs/COMPATIBILITY.md:20` lists packet loss as verified). |
| `MCWideGuess.cfg` | `PredictedScreen` | `offer` predicts any printable character and counts one cell (predict lib.rs:375-417; the crate's own test at 526 predicts a double-width one): after two wide guesses are inserted, deleting two cells leaves the rest of them, where `reconcile` is said to remove "every tentative cell" (predict lib.rs:277). |
| `MCWideGuess.cfg`, with `AnyWidthMargin` | `PredictedScreen` | a wide guess two columns before the end covers the last column; `docs/PREDICTION.md:21-22` says "Prediction stops before the right margin". |
| `MCInsertInside.cfg` | `PredictedScreen` | a guess inserted before text pushes the last cell over the margin; deleting the guess leaves a blank there (predict lib.rs:470). |
| `MCPausedShutdown.cfg` | `Session` | request a shutdown, pause longer than the timeout, resume: the next poll gives up. `resume_state` re-arms the other timers only, and `docs/EMBEDDING.md:57-58` says a paused runtime "does not advance timers". |
| `MCControlBranch.cfg` | `MCOutputDelivery` | a session control lies in a branch that diverged from what was delivered (a compacted history diverges too); the screen diff does not carry it, and it is never performed (`state` lib.rs:190-193 excludes what "a screen diff cannot reconstruct"). |
| `MCPredictSuspend.cfg` | `PredictedScreen` | after a suspension (or a notice) the terminal shows the authoritative screen, and the pending rollback of inserted guesses deletes cells of it. |
| `MCStaleAnchor.cfg` | `PredictedScreen` | a key at the margin is refused and leaves its anchor; after output that moves the cursor, the next key is compared with that anchor and refused as well, although `docs/PREDICTION.md:32-33` has prediction resume after reconciliation. |
| `MCEscapedTitle.cfg` | `MCTitledTerminal` | `ESC ESC ]`: the filter lets the second escape pass as the end of a two-byte sequence, a terminal starts anew with it, and the title reaches it without the prefix. |
| `MCQuotedTitle.cfg` | `MCTitledTerminal` | a title with an opening quotation mark (U+201C, e2 80 9c): the filter takes the byte 0x9c for the end of the title, shows it cut and lets the rest through as text. |
| `MCCutPassthrough.cfg` | `MCTitledTerminal` | a suspension inside a control that is passing through: the restored title is written into the middle of it. |
| `MCAllModes.cfg` | `MCClient` | a mode of `Untouched` that a remote program selected, such as a hidden cursor, keypad or insert mode, margins, or its alternate screen under `MOSH_NO_TERM_INIT`, stays after the exit (`README.md:133`: "Terminal restoration after exit"). |
| `MCResumedModes.cfg` | `MCClient` | mouse and focus reports are switched off for a suspension and not switched on again by the redraw, which covers contents only (`README.md:99`: "restore after resume"). |
| `MCPastedPrefix.cfg` | `MCClient` | pasted text does not move the line start of the escape interpreter: after a paste, a printable prefix in the middle of the line still counts as a command (`README.md:103-104`). |

`EventuallyShown` excludes scripts that resize or end inside a sequence, for the reason
`MCResizeBranch.cfg` shows.

### Fairness

- `input_delivery`: the host polls for ever, so a pending update is retransmitted
  for ever (`poll` retransmits whenever the delay has passed); the network lets
  infinitely many copies through; the server answers. Building updates and
  shutting down are the user's choice and get no fairness.
- `output_delivery`: the client acknowledges for ever (heartbeats), the server
  falls back to the state it knows the client to have, as Mosh does when nothing
  newer is acknowledged, and what is in flight arrives.
- `shutdown`: the host polls when `milliseconds_until_next_poll` is zero, and its clock
  runs; the event loop, which polls at least every 20 ms, does more than that.
  Nothing is assumed of the server and the network. Both are the contract of `docs/EMBEDDING.md`; a paused or
  cancelled runtime is excepted in the property.
- `client`: the loop keeps running: none of its calls blocks (the socket is non-blocking,
  events are polled with a zero timeout). Datagrams are finitely many, so that
  `drain_network` comes to its end; a flood that never pauses could hold it up. Nothing
  makes the user continue a suspended client.
- `round_trip`: while the server is heard its datagrams keep bringing samples.
- `MCLostFragments.cfg`: the peer sends all its messages and keeps repeating the last one, every
  fragment of which arrives again and again.

## Proofs

Every module `XProofs` extends `X`, where the inductive invariant `IInv` stands, proves
`Init => IInv` and a lemma for each action, and ends in `Invariance` (`Spec => []IInv`) and
the theorems that follow from it. `IInv` was checked by TLC first, under the configurations
of the module. `DatagramProofs` extends two modules; the names of `RoundTrip` are longer
for that (`RoundTripSpec`, `RoundTripInv`). The invariant of `TitledTerminalProofs`,
`TitledInv`, stands in that module, since it speaks of all sequences of bytes; TLC checked it
with the types left out.

| module | theorems | hold for |
|---|---|---|
| `DatagramProofs` (`SecureChannel`) | `TypeCorrect`, `NonceSafety`, `ReplaySafety`, `ReorderingTolerated` | every number of counters, every window width |
| `InputDeliveryProofs` | `TypeCorrect`, `ExactlyOnce`, `RetainedInput`, `SliceInRange`, `Refinement` | every `U64_MAX`, history bound and number of instructions |
| `SessionProofs` | `TypeCorrect`, `InputSafety`, `OneUpdatePending`, `ShutdownConsumesAll`, `FramesExact`, `SleepIsSafe` | every queue bound, timer, number of inputs and of datagrams in flight |
| `OutputDeliveryProofs` | `FallbackRetained`, `Replayed`, `LatestShown` | every script of the server and every history bound |
| `FragmentAssemblyProofs` | `ExactReassembly`, `IntactReceived` | any messages, chunk size, index range and limits |
| `DatagramProofs` (`RoundTrip`) | `EstimatesInBounds`, `HonestSamples` | every width of the timestamps, sample limit and delay |
| `TitledTerminalProofs` | `OutputPreserved`, `TitlesPrefixed` | any output of the server, every limit on commands and titles, any number of items and suspensions |
| `PredictedScreenProofs` | `TypeCorrect`, `AcknowledgementsConsistent`, `AcknowledgedProtected`, `MarginSafe`, `RollbackExact` | every size of the screen, number of frames and of outputs, guesses of any width |
| `ClientProofs` | `TypeCorrect`, `TerminalSafe`, `CleanStop`, `NothingLost` | every configuration, any events, any sets of remote modes |

**Encryption.** `IInv` adds `Numbering`, each end has sealed exactly the numbers below
its counter, and `WindowExact`, a bit of the window is set exactly if the packet of that
age was delivered. Without the second, neither direction of the replay
window can be argued: a bit that is set too early refuses a packet, one that is
missing lets it in twice. The step for a new highest counter uses a lemma on what
shifting does to each bit.

**Input.** The properties are
not inductive, because a step of the server depends on messages built long ago
from a history that has since been pruned and rebased. `ends` records which prefix
of the input each state number stands for, and `IInv` measures everything by it:
`HistoryInv` (the ends grow with the numbers, the retained instructions are the
input after the confirmed state, `instruction_end` is a difference of two ends),
`MessagesInv` (a message carries the input between its base and its target and
discards nothing above the confirmed state) and `ServerInv` (the server still has
the confirmed state and what it acknowledged from there on).

**Runtime.** `Session` has no `ends`: the runtime has one update on its way at a time, so
`HistoryInv` can say that there are at most two sent states and that the newest holds all
retained instructions. `MessagesInv` says of an old message that it cannot act any more
(the server lacks its base or has its target), `ServerInv` what the server holds,
`FrameInv` that a state's number and the frames of the inputs agree, for the states that the
server has and for the one still to be sent, and `ShutdownInv` that the shutdown state is
the last and holds all input. `SleepIsSafe` needs the types only: it compares
`milliseconds_until_next_poll` with what `poll` would do, condition by condition.

**Output.** `NumberInv` is about the numbers of the states: `FloorInv` (no floor in use or in
flight is above what the server knows) and
`AcknowledgedInv` (what was acknowledged, at or above the floor, is still held). An
acknowledgement in flight may make the server fall back to that state, and an old update may
raise the floor, and neither must meet the other. `ContentInv` is about what the states are:
`Faithful` (the history replays to the screen, the screen is the server's of that number) of
every state the client holds, and `DeliveredInv`, the host shows the delivered one. Its
hard parts are the lemmas `DiffPlays` (both ways of `diff_from` lead from the
delivered content to the target's), `CanonicalPlays`, `GroundIsWhole` (at ground nothing is lost
in a snapshot), `CompactedMoves` and `DifferenceMoves`. A size follows a delta only if both
histories started with the same one; that they did is read off their heads (`Origin`: a
snapshot's size, or the blank screen's), which `canonical_operations` and an extension keep. All
this is computed by folds: the lemmas on `Fold` give, for an operator on
typed values, that `FoldLeft` exists and what it is for no element, one more and two parts, from
induction over the natural numbers with a set for the predicate. The sizes are claimed only
while the client's blank screen has the server's size (`agreed`), as in the property.

**Fragments.** An accumulator holds some chunks of its message, knows the last index
exactly if it should, and counts the bytes it holds (`Sound`); it holds all that was handed
over and is never left complete (`HandedInv`). That the chunks
put together are the message is an induction along `FlattenSeq`'s
recursive function. `IntactReceived` has no hypothesis on the table: `handed` counts a
fragment only when the table takes it in, so the theorem says that a refusal costs the refused
fragment and nothing else. That a full table keeps refusing (`MCLostFragments.cfg`) is
a matter of liveness.

**Round trip.** How far the clock is ahead of the timestamp that the server would echo now
tells the time spent up to whole turns (`ProbeInv`); the rest is modular arithmetic and what the
rounding of the integer divisions may do to the smoothed values.

**Titles.** Three parsers read along: the filter, the terminal behind it (`shown`) and the one
without it (`direct`). `Follows` says, for each state of the filter, where the two terminals
are: in `OscHeader` and `Title` the first is at ground and the second inside a control that
holds the bytes which the filter holds back; in `PassthroughOsc` both are inside the same
control; in `DiscardTitle` only the second is, in a title over the limit. `Clean` is what
makes the replay of held bytes work: they end no control, so `Reading` them leaves the first
terminal where the second already is. `TitlesFollow` relates the filter's record of the titles
to both terminals, with `prefix_active` exactly while the session is active. `Reading`
is a recursive function; that it exists and what it gives for two parts is shown by `Induction`.
The theorems have no hypotheses. All of this is claimed while `~misread`, and `Ahead` is what
that gives for the next byte: the filter and the terminal without it take the byte for the same.

**Prediction.** `SpanInv` says where the span stands and that it ends before the margin,
`ModelInv` that the authoritative screen holds no guesses, `OverwriteInv` and `InsertInv`
how the terminal differs from it in the two modes: when predictions insert, the guesses stand at
the model's cursor, what stood there follows them, and only blanks went over the margin
(`GuessesInPlace`, `CursorInPlace`, `TextInPlace`), each as far as `spoiled` allows. The
theorems have no hypotheses; the cases they do not claim are in the properties.
`AcknowledgedProtected` is an action property.

**Event loop.** `GuardInv` follows who holds the terminal through every way out, and that the
modes which the guard never touches are at their defaults or as the remote program selected them,
`StopInv` traces each reason for a clean exit back to a server that stops, and `InputInv`
relates the interpreter to `Reading`, what a reading of all typed events at once says they
mean. `Reading` is a recursive function over the events; the lemma `Induction` gives
its value for one more event. `NothingLost` excepts a printable prefix together with
pastes (`PasteFree`), where `MCPastedPrefix.cfg` shows the opposite.

Assumptions: only those on the constants, stated in the modules and evaluated by TLC in the
runs. They are types, except that `NEWEST_KEPT`
must be at least 2 and at most the bound, as 16 and 32 are: then pruning never
removes the confirmed or the newest state.

Only model-checked:

- liveness under fairness, which the prover does not do: `EventuallyConfirmed`,
  `EventuallyShown`, `ShutdownEnds`, `PeerShutdownEnds`, `TerminationEnds`, `DelaySettles`;
- `ControlsOnceInOrder` of `OutputDelivery`, for the four scripts of the run.

## Not modelled

The contents of messages and their compression, the command line, diagnostics and the
laboratory are conversions without state. The
terminal emulator, the VT parsers, AES-OCB and the Mosh server are external and
modelled by how the client uses them. `build_shutdown_ack` needs an acknowledged
local shutdown and a queued instruction at once; by then the runtime accepts no
input, so the branch cannot be reached through it. Failures of encoding or sealing
in `poll` are left out, among them a runtime whose state numbers are used up, which has
drained its queue when it reports the error (`PollFresh`). Left out are also the parsers
that derive the remote modes from output (`Client` lets output select any of a set of modes), the UTF-8 input mode, and the Windows
variants of `install_termination_flag` and `suspend_client`. Unwinding after a panic drops
the guard as every other way out does and is not a separate action.

## Plan

1. Done: the protocol (encryption, input, output, fragments), the runtime, its
   shutdown handshakes and waits, the round-trip estimation, prediction on the screen,
   titles, local input and the event loop; the proofs above.
2. Next: `ControlsOnceInOrder` for every script, from `ContentInv` extended by the controls
   that a history holds.
