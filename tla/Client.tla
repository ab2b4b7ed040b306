------------------------------- MODULE Client -------------------------------
(***************************************************************************)
(* The command-line client (ferrumtty-client): start-up, the event loop with   *)
(* its signals, socket and keyboard, suspension, and every way out of it,      *)
(* with the terminal modes that TerminalGuard changes and must give back.      *)
(*                                                                         *)
(* Of SessionRuntime the loop sees whether a shutdown is in progress or done,  *)
(* whether a server state was received, and room for input; its timers are a   *)
(* number of polls (SessionRuntime has the details, PredictedScreen has what   *)
(* is drawn).  The server, the network and the local terminal are external.    *)
(***************************************************************************)
EXTENDS LocalInput, FiniteSets

CONSTANTS
    Settings,         \* [escape_byte, alternate, events, typed, datagrams, disturbed]:
                      \*   the configuration; the user's events and a bound on them;
                      \*   a bound on datagrams; whether anything else may happen
    RequestedModes,   \* the modes that remote programs select
    SHUTDOWN_POLLS    \* a shutdown is over after so many polls

ASSUME ClientAssumption ==
    /\ SHUTDOWN_POLLS \in Nat
    /\ Settings \subseteq [escape_byte : 0..255, alternate : BOOLEAN, events : SUBSET Events,
                           typed : Nat, datagrams : Nat, disturbed : BOOLEAN]
    /\ RequestedModes \subseteq Modes

VARIABLES
    settings,                \* configuration and environment of this run
    termination_requested,   \* set by signals
    pc,                      \* where the client is in run and event_loop
    exit,                    \* "none", "clean", "unclean" or "error"
    cause,                   \* what the first error came from
    tty,                     \* the local terminal: raw mode, and what output switches in it
    broken,                  \* the local terminal takes no more output
    session_terminal_active,
    modes,                   \* remote_modes
    overlay,                 \* the predictor has something to take back
    escape,                  \* EscapeInterpreter
    local_notice_active,
    typed,                   \* the events handled so far, with their bytes
    queued,                  \* the bytes given to queue_input so far
    shutdown, acknowledged, peer_due, waited, received_server_state,
    server, inbox, refused, datagrams

hostVars == <<settings, termination_requested>>
loopVars == <<pc, exit, cause>>
terminalVars == <<tty, broken, session_terminal_active, modes, overlay>>
inputVars == <<local_notice_active, escape, typed, queued>>
runtimeVars == <<shutdown, acknowledged, peer_due, waited, received_server_state>>
networkVars == <<server, inbox, refused, datagrams>>
vars == <<hostVars, loopVars, terminalVars, inputVars, runtimeVars, networkVars>>

Outcomes == {"Acknowledged", "PeerShutdown", "TimedOut"}
ShutdownInProgress == shutdown \notin {"Open"} \cup Outcomes
Running == pc \in {"Top", "Network", "Terminal", "Poll"}

DefaultModes ==
    [cursor_key |-> "Normal", application_keypad |-> FALSE, bracketed_paste |-> FALSE,
     mouse_tracking |-> "Disabled", mouse_encoding |-> "Default", focus_reporting |-> FALSE,
     insert_mode |-> FALSE, origin_mode |-> FALSE, auto_wrap |-> TRUE,
     cursor_visible |-> TRUE, cursor_shape |-> "Default", alternate_screen |-> FALSE,
     scroll_region |-> <<>>]
PlainTerminal == [raw |-> FALSE, modes |-> DefaultModes]

Init ==
    /\ settings \in Settings
    /\ termination_requested = FALSE
    /\ pc = "Start" /\ exit = "none" /\ cause = "none"
    /\ tty = PlainTerminal /\ broken = FALSE /\ session_terminal_active = FALSE
    /\ modes = DefaultModes /\ overlay = FALSE
    /\ escape = NewEscape(settings.escape_byte)
    /\ local_notice_active = FALSE /\ typed = <<>> /\ queued = <<>>
    /\ shutdown = "Open" /\ acknowledged = FALSE /\ peer_due = FALSE /\ waited = 0
    /\ received_server_state = FALSE
    /\ server = "up" /\ inbox = {} /\ refused = FALSE /\ datagrams = 0

(***************************************************************************)
(* Outside the client.                                                      *)
(***************************************************************************)
\* A termination signal; the handler is installed before the terminal is entered.
Signal ==
    /\ settings.disturbed /\ pc \notin {"Start", "Ended"}
    /\ termination_requested' = TRUE
    /\ UNCHANGED <<settings, loopVars, terminalVars, inputVars, runtimeVars, networkVars>>

\* The local terminal goes away: writes to it fail from now on.
TerminalGone ==
    /\ settings.disturbed /\ ~broken
    /\ broken' = TRUE
    /\ UNCHANGED <<hostVars, loopVars, tty, session_terminal_active, modes, overlay,
                   inputVars, runtimeVars, networkVars>>

\* The server sends output, its own shutdown, or the acknowledgement of the client's;
\* or the network delivers a copy of an earlier datagram.
Datagram ==
    /\ pc \notin {"Start", "Ended"}
    /\ datagrams < settings.datagrams
    /\ datagrams' = datagrams + 1
    /\ \/ server # "gone" /\ inbox' = inbox \cup {"output"} /\ UNCHANGED server
       \/ settings.disturbed /\ server = "up" /\ inbox' = inbox \cup {"shutdown"} /\ server' = "ending"
       \/ server = "stopped" /\ inbox' = inbox \cup {"ack"} /\ UNCHANGED server
       \/ settings.disturbed /\ received_server_state
          /\ inbox' = inbox \cup {"copy"} /\ UNCHANGED server
    /\ UNCHANGED <<hostVars, loopVars, terminalVars, inputVars, runtimeVars, refused>>

\* The server's process ends.
ServerGone ==
    /\ settings.disturbed /\ server # "gone"
    /\ server' = "gone"
    /\ UNCHANGED <<hostVars, loopVars, terminalVars, inputVars, runtimeVars, inbox,
                   refused, datagrams>>

(***************************************************************************)
(* TerminalGuard.                                                           *)
(***************************************************************************)
\* A session takes the terminal: enter_with_title_policy and resume_after_suspend.
Entered ==
    [raw |-> TRUE,
     modes |-> [tty.modes EXCEPT
                  !.bracketed_paste = TRUE,
                  !.alternate_screen = @ \/ settings.alternate,
                  !.cursor_key = IF settings.alternate THEN "Application" ELSE @]]

\* After a suspension the redraw shows or hides the cursor, and sets no other mode.
Resumed ==
    [raw |-> TRUE,
     modes |-> [Entered.modes EXCEPT !.cursor_visible = modes.cursor_visible]]

\* A bug the properties must catch: the focus reports are left on.
Quietened_NoFocus ==
    [tty.modes EXCEPT
       !.bracketed_paste = FALSE,
       !.mouse_tracking = "Disabled", !.mouse_encoding = "Default",
       !.cursor_key = IF settings.alternate THEN "Normal" ELSE @,
       !.alternate_screen = @ /\ ~settings.alternate]

\* What deactivate_terminal switches back.  In the terminal (an xterm) resetting any mouse
\* mode or encoding resets the one that is on.
Quietened ==
    [tty.modes EXCEPT
       !.bracketed_paste = FALSE,
       !.mouse_tracking = "Disabled", !.mouse_encoding = "Default",
       !.focus_reporting = FALSE,
       !.cursor_key = IF settings.alternate THEN "Normal" ELSE @,
       !.alternate_screen = @ /\ ~settings.alternate]

\* deactivate_terminal of an active session: every step is tried, raw mode last.
Deactivated == [raw |-> FALSE, modes |-> IF broken THEN tty.modes ELSE Quietened]

\* deactivate_terminal, on suspension and when the guard is dropped: nothing when the
\* session has given the terminal back already.
Deactivate ==
    /\ tty' = IF session_terminal_active THEN Deactivated ELSE tty
    /\ session_terminal_active' = FALSE

\* Output that puts the remote terminal into the modes m.  It holds only what changes,
\* or it resets the terminal first, which also undoes what the session had switched on.
ModesWritten(m) ==
    {[tty EXCEPT !.modes = [mode \in DOMAIN m |-> IF m[mode] = modes[mode] THEN @[mode]
                                                ELSE m[mode]]],
     [tty EXCEPT !.modes = m]}

(***************************************************************************)
(* The ways on and out.                                                     *)
(***************************************************************************)
Continue(next) == pc' = next /\ UNCHANGED <<exit, cause>>
Leave(status) == pc' = "Leaving" /\ exit' = status /\ UNCHANGED cause
Fail(why) == pc' = "Leaving" /\ exit' = "error" /\ cause' = why

\* request_shutdown.
RequestShutdown ==
    /\ shutdown' = IF shutdown = "Open" THEN "LocalRequested" ELSE shutdown
    /\ UNCHANGED <<acknowledged, peer_due, waited, received_server_state>>

(***************************************************************************)
(* run.                                                                     *)
(***************************************************************************)
\* Key, locale, terminal, address or signal handler are missing.
StartFails ==
    /\ pc = "Start"
    /\ pc' = "Ended" /\ exit' = "error" /\ cause' = "startup"
    /\ UNCHANGED <<hostVars, terminalVars, inputVars, runtimeVars, networkVars>>

\* Raw mode is taken back when the rest of the set-up fails.
EnterTerminal ==
    /\ pc = "Start"
    /\ IF broken THEN pc' = "Ended" /\ exit' = "error" /\ cause' = "terminal"
       ELSE Continue("Entered")
    /\ tty' = IF broken THEN tty ELSE Entered
    /\ session_terminal_active' = ~broken
    /\ UNCHANGED <<hostVars, broken, modes, overlay, inputVars, runtimeVars, networkVars>>

\* terminal_size; it may fail with the terminal already entered.
StartSession ==
    /\ pc = "Entered"
    /\ Continue("Top") \/ Fail("terminal")
    /\ UNCHANGED <<hostVars, terminalVars, inputVars, runtimeVars, networkVars>>

(***************************************************************************)
(* event_loop.                                                              *)
(***************************************************************************)
\* The top of the loop.  A long gap since the last iteration also resumes the runtime,
\* which only touches its timers.
CheckTermination ==
    /\ pc = "Top"
    /\ Continue("Network")
    /\ IF termination_requested THEN RequestShutdown ELSE UNCHANGED runtimeVars
    /\ UNCHANGED <<hostVars, terminalVars, inputVars, networkVars>>

\* drain_network until nothing more has arrived.
NetworkDrained ==
    /\ pc = "Network" /\ ~refused
    /\ Continue("Terminal")
    /\ UNCHANGED <<hostVars, terminalVars, inputVars, runtimeVars, networkVars>>

\* The server's port is closed.  Once the server was heard this ends the session well.
NetworkRefused ==
    /\ pc = "Network" /\ refused
    /\ refused' = FALSE
    /\ IF received_server_state THEN Leave("clean") ELSE Fail("network")
    /\ UNCHANGED <<hostVars, terminalVars, inputVars, runtimeVars, server, inbox, datagrams>>

Receiving(kind) ==
    /\ pc = "Network" /\ ~refused
    /\ kind \in inbox
    /\ inbox' = inbox \ {kind}
    /\ UNCHANGED <<server, refused, datagrams>>

\* receive_datagram refuses a repeated datagram, and the session ends.
ReceiveFails ==
    /\ Receiving("copy")
    /\ Fail("network")
    /\ UNCHANGED <<hostVars, terminalVars, inputVars, runtimeVars>>

\* WriteTerminal: the prediction is reconciled and the notice cleared, then the output is
\* processed and written.
ReceiveOutput ==
    /\ Receiving("output")
    /\ received_server_state' = TRUE
    /\ IF broken
       THEN /\ Fail("terminal")
            /\ modes' \in IF overlay \/ local_notice_active THEN {modes} ELSE RequestedModes
            /\ local_notice_active' = (local_notice_active /\ overlay)
            /\ UNCHANGED <<tty, overlay>>
       ELSE /\ Continue("Network")
            /\ \E m \in RequestedModes : modes' = m /\ tty' \in ModesWritten(m)
            /\ local_notice_active' = FALSE
            /\ overlay' = FALSE
    /\ UNCHANGED <<hostVars, broken, session_terminal_active, escape, typed, queued,
                   shutdown, acknowledged, peer_due, waited>>

ReceiveShutdown ==
    /\ Receiving("shutdown")
    /\ Continue("Network")
    /\ received_server_state' = TRUE
    /\ peer_due' = TRUE
    /\ shutdown' = IF shutdown = "Open" THEN "PeerRequested" ELSE shutdown
    /\ UNCHANGED <<hostVars, terminalVars, inputVars, acknowledged, waited>>

ReceiveAcknowledgement ==
    /\ Receiving("ack")
    /\ Continue("Network")
    /\ received_server_state' = TRUE
    /\ acknowledged' = TRUE
    /\ UNCHANGED <<hostVars, terminalVars, inputVars, shutdown, peer_due, waited>>

(***************************************************************************)
(* drain_terminal.  A notice is cleared first, whatever the event is.  Apart   *)
(* from that, events that encode to nothing and key releases change nothing.   *)
(***************************************************************************)
EventRead == pc = "Terminal" /\ ~ShutdownInProgress

\* The event read is lost with the session.
ClearNoticeFails ==
    /\ EventRead
    /\ local_notice_active /\ broken
    /\ local_notice_active' = FALSE
    /\ Fail("terminal")
    /\ UNCHANGED <<hostVars, terminalVars, escape, typed, queued, runtimeVars, networkVars>>

Handling(event) ==
    /\ EventRead
    /\ Len(typed) < settings.typed
    /\ ~(local_notice_active /\ broken)
    /\ typed' = Append(typed, [key |-> event.type = "Key",
                               typing |-> event.type \in {"Key", "Paste"},
                               bytes |-> Encode(event, modes)])

Interpreted(event) == EscapeInput(escape, Encode(event, modes))

KeyEvent(event, action) ==
    /\ event.type = "Key" /\ Encode(event, modes) # <<>>
    /\ Handling(event)
    /\ Interpreted(event).action = action
    /\ escape' = Interpreted(event).escape
    /\ local_notice_active' = (action = "Help" /\ ~broken)

\* queue_input; a full queue (SessionRuntime has its bound) ends the session.
Queued(bytes) == queued' = queued \o bytes
QueueFull == settings.disturbed /\ Fail("input")
QueueInput(bytes) ==
    \/ Continue("Terminal") /\ Queued(bytes)
    \/ bytes # <<>> /\ QueueFull /\ UNCHANGED queued

KeyHeld(event) ==
    /\ KeyEvent(event, "Hold")
    /\ Continue("Terminal")
    /\ UNCHANGED <<hostVars, terminalVars, queued, runtimeVars, networkVars>>

\* write_local_notice.
KeyHelp(event) ==
    /\ KeyEvent(event, "Help")
    /\ IF broken THEN Fail("terminal") ELSE Continue("Terminal")
    /\ UNCHANGED <<hostVars, terminalVars, queued, runtimeVars, networkVars>>

\* A forwarded key may be predicted.
KeyForwarded(event) ==
    /\ KeyEvent(event, "Forward")
    /\ LET bytes == Interpreted(event).bytes
       IN  \/ QueueInput(bytes) /\ UNCHANGED overlay
           \/ /\ Queued(bytes)
              /\ IF broken THEN Fail("terminal") ELSE Continue("Terminal")
              /\ overlay' = (overlay \/ ~broken)
    /\ UNCHANGED <<hostVars, tty, broken, session_terminal_active, modes, runtimeVars,
                   networkVars>>

KeyQuit(event) ==
    /\ KeyEvent(event, "Quit")
    /\ RequestShutdown
    /\ Continue("Poll")
    /\ UNCHANGED <<hostVars, terminalVars, queued, networkVars>>

\* suspend_client up to the stop; a terminal that cannot be written ends the session.
KeySuspend(event) ==
    /\ KeyEvent(event, "Suspend")
    /\ Deactivate
    /\ IF broken THEN Fail("terminal") ELSE Continue("Suspended")
    /\ UNCHANGED <<hostVars, broken, modes, overlay, queued, runtimeVars, networkVars>>

\* suspend_client after the stop, and resume_after_suspend: raw mode, set-up, redraw.
\* It fails when raw mode cannot be set, when the terminal is gone, or when the stop
\* itself had failed, here after a full resumption.  The predictor is not told.
ResumeClient ==
    /\ pc = "Suspended"
    /\ \/ /\ ~broken
          /\ tty' = Resumed
          /\ session_terminal_active' = TRUE
          /\ Continue("Terminal") \/ (settings.disturbed /\ Fail("suspend"))
       \/ /\ settings.disturbed
          /\ Fail("terminal")
          /\ UNCHANGED <<tty, session_terminal_active>>
    /\ UNCHANGED <<hostVars, broken, modes, overlay, inputVars, runtimeVars, networkVars>>

\* A bug the properties must catch: the prefix is sent after what followed it.
WithPrefix_After(bytes) == bytes \o Flush(escape).bytes

\* flush_escape comes before anything but a key.
WithPrefix(bytes) == Flush(escape).bytes \o bytes

\* Paste, mouse and focus events; a mouse or focus event may have no bytes.  The prefix
\* may be queued although the rest finds no room.
OtherEvent(event) ==
    /\ event.type \in {"Paste", "Mouse", "Focus"}
    /\ Handling(event)
    /\ escape' = Flush(escape).escape
    /\ local_notice_active' = FALSE
    /\ \/ QueueInput(WithPrefix(Encode(event, modes)))
       \/ Queued(Flush(escape).bytes) /\ QueueFull
    /\ UNCHANGED <<hostVars, terminalVars, runtimeVars, networkVars>>

\* A resized terminal has given up its margins.  Once the prefix is queued the prediction
\* is taken back and the model resized, which forgets the margins too.
ResizeEvent(event) ==
    /\ event.type = "Resize"
    /\ Handling(event)
    /\ escape' = Flush(escape).escape
    /\ local_notice_active' = FALSE
    /\ tty' = [tty EXCEPT !.modes.scroll_region = <<>>]
    /\ \/ Flush(escape).bytes # <<>> /\ QueueFull /\ UNCHANGED <<queued, overlay, modes>>
       \/ /\ Queued(Flush(escape).bytes)
          /\ IF overlay /\ broken THEN Fail("terminal") /\ UNCHANGED <<overlay, modes>>
             ELSE /\ Continue("Terminal")
                  /\ overlay' = FALSE
                  /\ modes' = [modes EXCEPT !.scroll_region = <<>>]
    /\ UNCHANGED <<hostVars, broken, session_terminal_active, runtimeVars, networkVars>>

\* No more events, or the loop skips them; reading them may fail.
TerminalDrained ==
    /\ pc = "Terminal"
    /\ \/ Continue("Poll")
       \/ settings.disturbed /\ ~ShutdownInProgress /\ Fail("input")
    /\ UNCHANGED <<hostVars, terminalVars, inputVars, runtimeVars, networkVars>>

(***************************************************************************)
(* poll, apply_actions and the check of the outcome.                         *)
(***************************************************************************)
Older(count) == IF count < SHUTDOWN_POLLS THEN count + 1 ELSE count

\* What the runtime's poll does with n datagrams to send.  Its timers see to it that a
\* due acknowledgement is sent and that a shutdown ends.
Polled(n) ==
    CASE peer_due -> IF n > 0 THEN "PeerShutdown" ELSE shutdown
      [] ~peer_due /\ acknowledged -> "Acknowledged"
      [] ~peer_due /\ ~acknowledged /\ shutdown = "LocalRequested" /\ waited >= SHUTDOWN_POLLS ->
            "TimedOut"
      [] OTHER -> shutdown

PollRuns(n) ==
    /\ pc = "Poll"
    /\ peer_due /\ waited >= SHUTDOWN_POLLS => n > 0
    /\ Polled(n) \in {"Acknowledged", "TimedOut"} => n = 0
    /\ shutdown' = Polled(n)
    /\ peer_due' = (peer_due /\ n = 0)
    /\ waited' = IF ShutdownInProgress THEN Older(waited) ELSE waited
    /\ UNCHANGED <<acknowledged, received_server_state>>

\* A bug the properties must catch: a shutdown that timed out is reported as clean.
Reported_AlwaysClean(outcome) == "clean"

\* A shutdown that timed out is unclean.
Reported(outcome) == IF outcome = "TimedOut" THEN "unclean" ELSE "clean"

\* A bug the properties must catch: the loop goes on when the shutdown timed out.
Finished_OnlyConfirmed(state) == state \in Outcomes \ {"TimedOut"}

Finished(state) == state \in Outcomes

\* Every datagram is sent.  The server may read the client's shutdown; a closed port is
\* reported by the next use of the socket.
PollSends ==
    \E n \in 0..2 :
        /\ PollRuns(n)
        /\ n > 0 => ~refused
        /\ IF Finished(shutdown') THEN Leave(Reported(shutdown')) ELSE Continue("Top")
        /\ server' \in IF n > 0 /\ shutdown = "LocalRequested" /\ server \in {"up", "ending"}
                       THEN {server, "stopped"} ELSE {server}
        /\ refused' \in IF n > 0 /\ server = "gone" THEN BOOLEAN ELSE {refused}
        /\ UNCHANGED <<hostVars, terminalVars, inputVars, inbox, datagrams>>

\* Sending fails: the network is down, or reports the closed port.
PollSendFails ==
    \E n \in 1..2 :
        /\ PollRuns(n)
        /\ refused \/ settings.disturbed
        /\ Fail("network")
        /\ refused' = FALSE
        /\ UNCHANGED <<hostVars, terminalVars, inputVars, server, inbox, datagrams>>

\* After the loop the prediction is taken back, and the guard is dropped.
LeaveLoop ==
    /\ pc = "Leaving"
    /\ pc' = "Ended"
    /\ exit' = IF overlay /\ broken THEN "error" ELSE exit
    /\ cause' = IF overlay /\ broken /\ cause = "none" THEN "terminal" ELSE cause
    /\ overlay' = (overlay /\ broken)
    /\ Deactivate
    /\ UNCHANGED <<hostVars, broken, modes, inputVars, runtimeVars, networkVars>>

ClientStep ==
    \/ StartFails \/ EnterTerminal \/ StartSession
    \/ CheckTermination
    \/ NetworkDrained \/ NetworkRefused \/ ReceiveFails
    \/ ReceiveOutput \/ ReceiveShutdown \/ ReceiveAcknowledgement
    \/ \E event \in settings.events :
          \/ KeyHeld(event) \/ KeyHelp(event) \/ KeyForwarded(event) \/ KeyQuit(event) \/ KeySuspend(event)
          \/ OtherEvent(event) \/ ResizeEvent(event)
    \/ ClearNoticeFails \/ TerminalDrained
    \/ PollSends \/ PollSendFails
    \/ LeaveLoop

Next ==
    \/ ClientStep \/ ResumeClient
    \/ Signal \/ TerminalGone \/ Datagram \/ ServerGone

\* The client keeps running; nothing makes the user continue a suspended one.
Spec == Init /\ [][Next]_vars /\ WF_vars(ClientStep)

(***************************************************************************)
(* Properties.                                                              *)
(***************************************************************************)
Byte == 0..255
Bytes == Seq(Byte)

ControlType ==
    /\ settings \in Settings
    /\ pc \in {"Start", "Entered", "Top", "Network", "Terminal", "Poll", "Suspended",
               "Leaving", "Ended"}
    /\ exit \in {"none", "clean", "unclean", "error"}
    /\ tty \in [raw : BOOLEAN, modes : Modes]
    /\ broken \in BOOLEAN /\ session_terminal_active \in BOOLEAN /\ overlay \in BOOLEAN
    /\ acknowledged \in BOOLEAN /\ peer_due \in BOOLEAN /\ refused \in BOOLEAN
    /\ modes \in Modes
    /\ shutdown \in {"Open", "LocalRequested", "PeerRequested"} \cup Outcomes
    /\ waited \in 0..SHUTDOWN_POLLS
    /\ server \in {"up", "ending", "stopped", "gone"}
    /\ inbox \subseteq {"output", "shutdown", "ack", "copy"}

InputType ==
    /\ cause \in {"none", "startup", "terminal", "network", "input", "suspend"}
    /\ escape \in [escape_byte : 0..255, prefix_held : BOOLEAN, at_line_start : BOOLEAN]
    /\ typed \in Seq([key : BOOLEAN, typing : BOOLEAN, bytes : Bytes])
    /\ queued \in Bytes

\* Every variable stays in its type; what is queued are bytes.
TypeOK == ControlType /\ InputType

\* The modes that no step of deactivate_terminal touches: they stay as the remote program
\* selected them.
Untouched ==
    {"application_keypad", "insert_mode", "origin_mode", "auto_wrap", "cursor_visible",
     "cursor_shape", "scroll_region"}
    \cup (IF settings.alternate THEN {} ELSE {"cursor_key", "alternate_screen"})

\* What the terminal is like without the session: every mode is off that the session or
\* the guard knows of, and another one differs from its default only if the remote program
\* asked for that and has not taken it back.
Released ==
    \A mode \in DOMAIN DefaultModes :
        \/ tty.modes[mode] = DefaultModes[mode]
        \/ mode \in Untouched /\ tty.modes[mode] = modes[mode]

\* TerminalGuard: however the client ends, and while it is suspended, the terminal is out of
\* raw mode and of everything the session switched on, takes no pastes, mouse or focus
\* reports, and keeps no mode that the remote program has left; no prediction is left on
\* it.  A terminal that takes no more output can only be taken out of raw mode.
TerminalRestored ==
    pc \in {"Ended", "Suspended"} =>
        /\ ~tty.raw
        /\ ~broken => Released
        /\ ~broken /\ pc = "Ended" => ~overlay

\* A session that is reported as shut down cleanly leaves no server running ("Please note
\* that the mosh-server process may still be running", main.rs:600).
CleanMeansStopped == exit = "clean" => server # "up"

\* A reading of everything the user did, event by event: the prefix of a local command is
\* held until the next event, a command is not sent, the literal suffix sends the prefix
\* once, and anything else sends both.  A printable prefix counts at the start of a line
\* of what was typed only ("Printable prefixes follow the conventional newline-prefix
\* behavior").
LineStart(text) == text = <<>> \/ text[Len(text)] \in LineEnds

Opens(byte, before, e) ==
    /\ e.key /\ ~before.open /\ e.bytes = <<byte>>
    /\ Graphic(byte) => LineStart(before.text)

Meant(byte, before, e) ==
    IF ~before.open THEN e.bytes
    ELSE IF e.key /\ e.bytes \in {<<46>>, <<63>>, <<26>>} THEN <<>>
    ELSE IF e.key /\ e.bytes = <<LiteralEscapeSuffix(byte)>> THEN <<byte>>
    ELSE <<byte>> \o e.bytes

\* What the reading is after one more event.
Heard(byte, before, e) ==
    IF Opens(byte, before, e) THEN [before EXCEPT !.open = TRUE]
    ELSE [sent |-> before.sent \o Meant(byte, before, e),
          text |-> IF e.typing THEN before.text \o Meant(byte, before, e)
                   ELSE IF before.open THEN before.text \o <<byte>> ELSE before.text,
          open |-> FALSE]

Unheard == [sent |-> <<>>, text |-> <<>>, open |-> FALSE]

Reading(byte, events) ==
    LET read[n \in 0..Len(events)] ==
            IF n = 0 THEN Unheard ELSE Heard(byte, read[n - 1], events[n])
    IN  read[Len(events)]

\* Nothing the user does is lost, repeated or overtaken by what came later, in whatever
\* order keys, local commands, pastes, mouse, focus and resize events come, across
\* suspensions and changes of the modes.  A full queue ends the session instead.
InputInOrder == cause # "input" => queued = Reading(settings.escape_byte, typed).sent

(***************************************************************************)
(* The inductive invariant.  A terminal that the guard does not hold is given  *)
(* back already, the guard holds it wherever the loop is at work, and what the *)
(* guard does not touch is as the remote program selected it.  Whatever tells  *)
(* the client that the server stops was sent by a server that does.  The       *)
(* interpreter is where the reading of the user's events is, on the same line  *)
(* of text.                                                                 *)
(***************************************************************************)
GivenBack == ~tty.raw /\ (~broken => Released)

GuardInv ==
    /\ ~session_terminal_active => GivenBack
    /\ pc = "Entered" \/ Running => session_terminal_active
    /\ pc \in {"Start", "Suspended", "Ended"} => ~session_terminal_active
    /\ ~broken => \A mode \in Untouched : tty.modes[mode] \in {DefaultModes[mode], modes[mode]}
    /\ pc = "Start" => ~overlay
    /\ pc = "Ended" /\ ~broken => ~overlay

StopInv ==
    /\ refused => server = "gone"
    /\ \/ {"ack", "shutdown"} \cap inbox # {}
       \/ acknowledged \/ peer_due
       \/ shutdown \in {"PeerRequested", "PeerShutdown", "Acknowledged"}
       => server # "up"

\* A paste does not count for the line of a printable prefix.
PasteFree == Graphic(settings.escape_byte) => \A e \in settings.events : e.type # "Paste"

InputInv ==
    LET reading == Reading(settings.escape_byte, typed)
    IN  /\ cause = "input" => pc \in {"Leaving", "Ended"}
        /\ escape.escape_byte = settings.escape_byte
        /\ reading \in [sent : Bytes, text : Bytes, open : BOOLEAN]
        /\ PasteFree =>
              /\ cause # "input" => queued = reading.sent
              /\ escape.prefix_held = reading.open
              /\ Graphic(settings.escape_byte) =>
                    escape.at_line_start = LineStart(reading.text)

ControlInv == ControlType /\ GuardInv /\ StopInv /\ CleanMeansStopped
IInv == ControlInv /\ InputType /\ InputInv

\* A termination signal, the local quit command and the server's shutdown end the client,
\* whatever the server and the network do ("Bounded local, peer, and simultaneous SSP
\* shutdown handshakes", README.md:128); a suspended client has to be continued first.
TerminationEnds ==
    (termination_requested \/ shutdown # "Open") ~> (pc \in {"Ended", "Suspended"})

\* "Recoverable indefinite network interruption" (README.md:125): no state of the network
\* ends the session.
InterruptionSurvived == cause # "network"

\* "Terminal restoration after exit" (README.md:133), of every mode.
AllModesRestored == pc = "Ended" /\ ~broken => tty = PlainTerminal

\* The terminal is in the modes that the remote program asked for, also after a resume.
RemoteModesInForce ==
    Running /\ ~broken => /\ tty.modes.mouse_tracking = modes.mouse_tracking
                          /\ tty.modes.focus_reporting = modes.focus_reporting
=============================================================================
