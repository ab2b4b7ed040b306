---------------------------- MODULE ClientProofs ----------------------------
(***************************************************************************)
(* For every configuration, every user and every remote program: however the   *)
(* client ends, the local terminal is given back, a session that is reported   *)
(* as shut down cleanly has no server running, and the bytes that were queued  *)
(* are what the user meant, in order.  The control of the loop comes first,    *)
(* then the bytes of the events, then the interpreter against the reading.     *)
(***************************************************************************)
EXTENDS Client, NaturalsInduction, WellFoundedInduction, TLAPS

(***************************************************************************)
(* The terminal.                                                            *)
(***************************************************************************)
Terminals == [raw : BOOLEAN, modes : Modes]

LEMMA DefaultType == DefaultModes \in Modes
BY DEF DefaultModes, Modes, CursorShapes

LEMMA UntouchedNames == Untouched \subseteq DOMAIN DefaultModes
BY DEF Untouched, DefaultModes

LEMMA InitInv == Init => ControlInv
<1> SUFFICES ASSUME Init PROVE ControlInv
  OBVIOUS
<1>1. ControlType
  <2>1. tty \in Terminals
    BY DefaultType DEF Init, PlainTerminal, Terminals
  <2>2. waited \in 0..SHUTDOWN_POLLS
    BY ClientAssumption DEF Init
  <2>3. /\ settings \in Settings /\ modes \in Modes
        /\ inbox \subseteq {"output", "shutdown", "ack", "copy"}
    BY DefaultType DEF Init
  <2>4. QED  BY <2>1, <2>2, <2>3 DEF Init, ControlType, Terminals
<1>2. GuardInv
  <2>1. tty.modes = DefaultModes /\ ~tty.raw
    BY DEF Init, PlainTerminal
  <2>2. GivenBack
    BY <2>1 DEF GivenBack, Released
  <2>3. \A mode \in Untouched : tty.modes[mode] \in {DefaultModes[mode], modes[mode]}
    BY <2>1
  <2>4. QED  BY <2>2, <2>3 DEF Init, GuardInv, Running
<1>3. StopInv /\ CleanMeansStopped
  BY DEF Init, StopInv, CleanMeansStopped
<1>4. QED  BY <1>1, <1>2, <1>3 DEF ControlInv

LEMMA ModesType ==
    ASSUME ControlType
    PROVE  /\ tty \in Terminals /\ tty.modes \in Modes /\ tty.raw \in BOOLEAN
           /\ settings.alternate \in BOOLEAN /\ modes \in Modes
BY ClientAssumption DEF ControlType, Terminals

\* What the guard does not touch of the modes of the terminal.
Selected(term, m) == \A mode \in Untouched : term.modes[mode] \in {DefaultModes[mode], m[mode]}

\* A session takes the terminal.
LEMMA EnteredType ==
    ASSUME ControlType, GuardInv
    PROVE  /\ Entered \in Terminals
           /\ ~broken => Selected(Entered, modes)
           /\ Resumed \in Terminals
           /\ ~broken => Selected(Resumed, modes)
<1> DEFINE new == [tty.modes EXCEPT
                     !.bracketed_paste = TRUE,
                     !.alternate_screen = @ \/ settings.alternate,
                     !.cursor_key = IF settings.alternate THEN "Application" ELSE @]
           shown == [new EXCEPT !.cursor_visible = modes.cursor_visible]
<1>1. new \in Modes /\ shown \in Modes
  BY ZenonT(60), ModesType DEF Modes
<1>2. \A mode \in Untouched : new[mode] = tty.modes[mode]
  BY ModesType DEF Untouched, Modes
<1>3. \A mode \in Untouched : shown[mode] \in {new[mode], modes[mode]}
  BY ModesType, <1>1 DEF Untouched, Modes
<1>4. Entered = [raw |-> TRUE, modes |-> new]
  BY DEF Entered
<1> HIDE DEF new, shown
<1>5. Resumed = [raw |-> TRUE, modes |-> shown]
  BY <1>4 DEF Resumed, shown
<1>6. QED  BY <1>1, <1>2, <1>3, <1>4, <1>5 DEF Terminals, Selected, GuardInv

\* What the guard gives back: raw mode in any case, the rest unless the terminal is gone.
LEMMA DeactivatedGiven ==
    ASSUME ControlType, GuardInv
    PROVE  /\ Deactivated \in Terminals
           /\ ~Deactivated.raw
           /\ ~broken => Selected(Deactivated, modes)
           /\ ~broken => \A mode \in DOMAIN DefaultModes :
                           \/ Deactivated.modes[mode] = DefaultModes[mode]
                           \/ mode \in Untouched /\ Deactivated.modes[mode] = modes[mode]
<1> DEFINE keys == IF settings.alternate THEN "Normal" ELSE tty.modes.cursor_key
           alternate == tty.modes.alternate_screen /\ ~settings.alternate
<1>a. keys \in {"Normal", "Application"} /\ alternate \in BOOLEAN
  BY ModesType DEF Modes
<1>b. /\ settings.alternate => keys = "Normal" /\ alternate = FALSE
      /\ ~settings.alternate => keys = tty.modes.cursor_key /\ alternate = tty.modes.alternate_screen
  BY ModesType DEF Modes
<1>c. Quietened = [tty.modes EXCEPT
                     !.bracketed_paste = FALSE, !.mouse_tracking = "Disabled",
                     !.mouse_encoding = "Default", !.focus_reporting = FALSE,
                     !.cursor_key = keys, !.alternate_screen = alternate]
  BY ModesType DEF Quietened, Modes
<1> HIDE DEF keys, alternate
<1>1. Quietened \in Modes
  BY <1>a, <1>c, ModesType DEF Modes
<1>2. \A mode \in Untouched : Quietened[mode] = tty.modes[mode]
  BY <1>b, <1>c, ModesType DEF Untouched, Modes
<1>3. \A mode \in DOMAIN DefaultModes \ Untouched : Quietened[mode] = DefaultModes[mode]
  <2>1. /\ Quietened["bracketed_paste"] = FALSE /\ Quietened["mouse_tracking"] = "Disabled"
        /\ Quietened["mouse_encoding"] = "Default" /\ Quietened["focus_reporting"] = FALSE
        /\ Quietened["cursor_key"] = keys /\ Quietened["alternate_screen"] = alternate
    BY <1>c, ModesType DEF Modes
  <2>2. /\ DefaultModes["bracketed_paste"] = FALSE /\ DefaultModes["mouse_tracking"] = "Disabled"
        /\ DefaultModes["mouse_encoding"] = "Default" /\ DefaultModes["focus_reporting"] = FALSE
        /\ DefaultModes["cursor_key"] = "Normal" /\ DefaultModes["alternate_screen"] = FALSE
    BY DEF DefaultModes
  <2>3. \A mode \in DOMAIN DefaultModes \ Untouched :
          \/ mode \in {"bracketed_paste", "mouse_tracking", "mouse_encoding", "focus_reporting"}
          \/ settings.alternate /\ mode \in {"cursor_key", "alternate_screen"}
    BY DEF DefaultModes, Untouched
  <2>4. QED  BY <2>1, <2>2, <2>3, <1>b
<1>4. Deactivated.raw = FALSE /\ Deactivated.modes = IF broken THEN tty.modes ELSE Quietened
  BY DEF Deactivated
<1>5. Deactivated \in Terminals
  BY <1>1, ModesType DEF Deactivated, Terminals
<1>6. QED  BY <1>2, <1>3, <1>4, <1>5 DEF Selected, GuardInv

\* deactivate_terminal leaves a terminal that is given back.
LEMMA DeactivateGives ==
    ASSUME ControlType, GuardInv, Deactivate, UNCHANGED <<settings, broken, modes>>
    PROVE  /\ tty' \in Terminals /\ session_terminal_active' = FALSE
           /\ GivenBack' /\ (~broken => Selected(tty', modes))
<1>1. CASE session_terminal_active
  <2>1. tty' = Deactivated /\ session_terminal_active' = FALSE
    BY <1>1 DEF Deactivate
  <2>2. Untouched' = Untouched
    BY DEF Untouched
  <2>3. QED  BY <2>1, <2>2, DeactivatedGiven DEF GivenBack, Released
<1>2. CASE ~session_terminal_active
  BY <1>2, ModesType DEF Deactivate, GivenBack, Released, Untouched, GuardInv, Selected
<1>3. QED  BY <1>1, <1>2

\* Remote modes are written to the terminal.
LEMMA ModesWrittenType ==
    ASSUME ControlType, GuardInv, ~broken, NEW m \in RequestedModes, NEW term \in ModesWritten(m)
    PROVE  term \in Terminals /\ Selected(term, m)
<1>1. m \in Modes
  BY ClientAssumption
<1> DEFINE new == [mode \in DOMAIN m |-> IF m[mode] = modes[mode] THEN tty.modes[mode]
                                        ELSE m[mode]]
<1>2. CASE term = [tty EXCEPT !.modes = new]
  <2>1. new \in Modes
    BY <1>1, ModesType DEF Modes
  <2>2. DOMAIN m = DOMAIN DefaultModes
    BY <1>1 DEF Modes, DefaultModes
  <2>3. \A mode \in Untouched : new[mode] \in {DefaultModes[mode], m[mode]}
    BY <2>2, UntouchedNames DEF GuardInv
  <2> HIDE DEF new
  <2>4. term.modes = new /\ term \in Terminals
    BY <1>2, <2>1, ModesType DEF Terminals
  <2>5. QED  BY <2>3, <2>4 DEF Selected
<1>3. CASE term = [tty EXCEPT !.modes = m]
  BY <1>1, <1>3, ModesType DEF Terminals, Selected
<1>4. QED  BY <1>2, <1>3 DEF ModesWritten

(***************************************************************************)
(* What most steps leave alone.                                             *)
(***************************************************************************)
AtWork == {"Entered", "Top", "Network", "Terminal", "Poll"}
Places == AtWork \cup {"Start", "Suspended", "Leaving", "Ended"}
Exits == {"none", "clean", "unclean", "error"}

\* A step of the client at work, to its next step or out of the loop.
Onward == pc \in AtWork /\ pc' \in AtWork \cup {"Leaving"}

\* The guard keeps the terminal while the client is at work.
LEMMA GuardKept ==
    ASSUME GuardInv, Onward, UNCHANGED <<settings, tty, broken, session_terminal_active, modes>>
    PROVE  GuardInv'
BY DEF GuardInv, GivenBack, Released, Untouched, Running, Onward, AtWork

\* The types of what only the terminal's and the runtime's steps change.
LEMMA TypeKept ==
    ASSUME ControlType, pc' \in Places, exit' \in Exits, overlay' \in BOOLEAN,
           UNCHANGED <<settings, tty, broken, session_terminal_active, modes, runtimeVars,
                       networkVars>>
    PROVE  ControlType'
BY DEF ControlType, Places, AtWork, Exits, runtimeVars, networkVars

\* The facts about the server, when nothing is received or sent.
LEMMA StopKept ==
    ASSUME StopInv, CleanMeansStopped, exit' \in {exit, "unclean", "error"},
           UNCHANGED <<runtimeVars, networkVars>>
    PROVE  StopInv' /\ CleanMeansStopped'
BY DEF StopInv, CleanMeansStopped, runtimeVars, networkVars

\* A step of the loop that touches neither terminal, runtime nor network.
LEMMA QuietInv ==
    ASSUME ControlInv, Onward, exit' \in {exit, "error"}, overlay' \in BOOLEAN,
           UNCHANGED <<settings, tty, broken, session_terminal_active, modes, runtimeVars,
                       networkVars>>
    PROVE  ControlInv'
<1>1. exit \in Exits /\ pc' \in Places
  BY DEF ControlInv, ControlType, Exits, Onward, Places
<1>2. ControlType'
  BY <1>1, TypeKept DEF ControlInv, Exits
<1>3. GuardInv'
  BY GuardKept DEF ControlInv
<1>4. StopInv' /\ CleanMeansStopped'
  BY StopKept DEF ControlInv
<1>5. QED  BY <1>2, <1>3, <1>4 DEF ControlInv

(***************************************************************************)
(* Outside the client.                                                      *)
(***************************************************************************)
LEMMA SignalInv ==
    ASSUME ControlInv, Signal
    PROVE  ControlInv'
BY DEF ControlInv, Signal, ControlType, GuardInv, GivenBack, Released, Untouched, StopInv, CleanMeansStopped, Running,
       loopVars, terminalVars, runtimeVars, networkVars

LEMMA TerminalGoneInv ==
    ASSUME ControlInv, TerminalGone
    PROVE  ControlInv'
<1>1. ControlType'
  BY DEF ControlInv, ControlType, TerminalGone, hostVars, loopVars, runtimeVars, networkVars
<1>2. GuardInv'
  BY DEF ControlInv, GuardInv, GivenBack, Released, Untouched, Running, TerminalGone, hostVars, loopVars
<1>3. StopInv' /\ CleanMeansStopped'
  BY StopKept DEF ControlInv, TerminalGone, loopVars
<1>4. QED  BY <1>1, <1>2, <1>3 DEF ControlInv

\* The guard and the client do not notice what the server does.
LEMMA OutsideGuard ==
    ASSUME GuardInv, UNCHANGED <<hostVars, loopVars, terminalVars>>
    PROVE  GuardInv'
BY DEF GuardInv, GivenBack, Released, Untouched, Running, hostVars, loopVars, terminalVars

LEMMA DatagramInv ==
    ASSUME ControlInv, Datagram
    PROVE  ControlInv'
<1>1. /\ inbox' \subseteq {"output", "shutdown", "ack", "copy"}
      /\ server' \in {"up", "ending", "stopped", "gone"}
      /\ server' # server => server = "up"
      /\ "ack" \in inbox' => "ack" \in inbox \/ server' = "stopped"
      /\ "shutdown" \in inbox' => "shutdown" \in inbox \/ server' = "ending"
      /\ server # "up" => server' # "up"
  BY DEF ControlInv, ControlType, Datagram
<1>2. ControlType'
  BY <1>1 DEF ControlInv, ControlType, Datagram, hostVars, loopVars, terminalVars, runtimeVars
<1>3. GuardInv'
  BY OutsideGuard DEF ControlInv, Datagram
<1>4. StopInv' /\ CleanMeansStopped'
  BY <1>1 DEF ControlInv, StopInv, CleanMeansStopped, Datagram, loopVars, runtimeVars
<1>5. QED  BY <1>2, <1>3, <1>4 DEF ControlInv

LEMMA ServerGoneInv ==
    ASSUME ControlInv, ServerGone
    PROVE  ControlInv'
<1>1. ControlType'
  BY DEF ControlInv, ControlType, ServerGone, hostVars, loopVars, terminalVars, runtimeVars
<1>2. GuardInv'
  BY OutsideGuard DEF ControlInv, ServerGone
<1>3. StopInv' /\ CleanMeansStopped'
  BY DEF ControlInv, StopInv, CleanMeansStopped, ServerGone
<1>4. QED  BY <1>1, <1>2, <1>3 DEF ControlInv

(***************************************************************************)
(* run.                                                                     *)
(***************************************************************************)
LEMMA StartFailsInv ==
    ASSUME ControlInv, StartFails
    PROVE  ControlInv'
<1>1. ControlType'
  BY TypeKept DEF ControlInv, ControlType, StartFails, hostVars, terminalVars, Places, Exits
<1>2. GuardInv'
  BY DEF ControlInv, GuardInv, GivenBack, Released, Untouched, Running, StartFails, hostVars, terminalVars
<1>3. StopInv' /\ CleanMeansStopped'
  BY StopKept DEF ControlInv, StartFails
<1>4. QED  BY <1>1, <1>2, <1>3 DEF ControlInv

LEMMA EnterTerminalInv ==
    ASSUME ControlInv, EnterTerminal
    PROVE  ControlInv'
<1>1. /\ pc = "Start" /\ pc' \in {"Ended", "Entered"} /\ exit' \in {exit, "error"}
      /\ pc' = "Ended" <=> broken
      /\ tty' = IF broken THEN tty ELSE Entered
      /\ session_terminal_active' = ~broken
      /\ UNCHANGED <<settings, broken, modes, overlay, runtimeVars, networkVars>>
  BY DEF EnterTerminal, Continue, hostVars
<1>2. /\ tty' \in Terminals /\ (~broken => Selected(tty', modes))
  BY <1>1, EnteredType, ModesType DEF ControlInv, GuardInv, Selected
<1>3. ControlType'
  BY <1>1, <1>2 DEF ControlInv, ControlType, Terminals, runtimeVars, networkVars
<1>4. GuardInv'
  BY <1>1, <1>2 DEF ControlInv, GuardInv, GivenBack, Released, Untouched, Selected, Running
<1>5. StopInv' /\ CleanMeansStopped'
  BY <1>1, StopKept DEF ControlInv
<1>6. QED  BY <1>3, <1>4, <1>5 DEF ControlInv

LEMMA StartSessionInv ==
    ASSUME ControlInv, StartSession
    PROVE  ControlInv'
<1>1. overlay \in BOOLEAN
  BY DEF ControlInv, ControlType
<1>2. QED
  BY <1>1, QuietInv DEF StartSession, Continue, Fail, Onward, AtWork, hostVars, terminalVars

(***************************************************************************)
(* event_loop.                                                              *)
(***************************************************************************)
\* request_shutdown.
LEMMA RequestInv ==
    ASSUME ControlInv, RequestShutdown, Onward, exit' = exit,
           UNCHANGED <<settings, terminalVars, networkVars>>
    PROVE  ControlInv'
<1>1. /\ shutdown' \in {shutdown, "LocalRequested"}
      /\ UNCHANGED <<acknowledged, peer_due, waited, received_server_state>>
  BY DEF RequestShutdown
<1>2. ControlType'
  BY <1>1 DEF ControlInv, ControlType, Onward, AtWork, terminalVars, networkVars
<1>3. GuardInv'
  BY GuardKept DEF ControlInv, terminalVars
<1>4. StopInv' /\ CleanMeansStopped'
  BY <1>1 DEF ControlInv, StopInv, CleanMeansStopped, networkVars
<1>5. QED  BY <1>2, <1>3, <1>4 DEF ControlInv

LEMMA CheckTerminationInv ==
    ASSUME ControlInv, CheckTermination
    PROVE  ControlInv'
<1>1. Onward /\ exit' = exit /\ UNCHANGED <<settings, terminalVars, networkVars>>
  BY DEF CheckTermination, Continue, Onward, AtWork, hostVars
<1>2. CASE termination_requested
  BY <1>1, <1>2, RequestInv DEF CheckTermination
<1>3. CASE ~termination_requested
  <2>1. UNCHANGED runtimeVars
    BY <1>3 DEF CheckTermination
  <2>2. overlay' \in BOOLEAN
    BY <1>1 DEF ControlInv, ControlType, terminalVars
  <2>3. QED  BY <1>1, <2>1, <2>2, QuietInv DEF terminalVars
<1>4. QED  BY <1>2, <1>3

LEMMA NetworkDrainedInv ==
    ASSUME ControlInv, NetworkDrained
    PROVE  ControlInv'
<1>1. overlay \in BOOLEAN
  BY DEF ControlInv, ControlType
<1>2. QED
  BY <1>1, QuietInv DEF NetworkDrained, Continue, Onward, AtWork, hostVars, terminalVars

LEMMA NetworkRefusedInv ==
    ASSUME ControlInv, NetworkRefused
    PROVE  ControlInv'
<1>1. /\ Onward /\ exit' \in {"clean", "error"} /\ refused /\ refused' = FALSE
      /\ UNCHANGED <<settings, terminalVars, runtimeVars, server, inbox, datagrams>>
  BY DEF NetworkRefused, Leave, Fail, Onward, AtWork, hostVars
<1>2. ControlType'
  <2>1. refused' \in BOOLEAN
    BY <1>1
  <2>2. exit' \in Exits /\ pc' \in Places
    BY <1>1 DEF Exits, Onward, Places
  <2>3. UNCHANGED <<settings, terminalVars, runtimeVars, server, inbox>>
    BY <1>1
  <2>4. QED
    BY <2>1, <2>2, <2>3
    DEF ControlInv, ControlType, Exits, Places, AtWork, terminalVars, runtimeVars
<1>3. GuardInv'
  BY <1>1, GuardKept DEF ControlInv, terminalVars
<1>4. StopInv' /\ CleanMeansStopped'
  BY <1>1 DEF ControlInv, StopInv, CleanMeansStopped, runtimeVars
<1>5. QED  BY <1>2, <1>3, <1>4 DEF ControlInv

\* What Receiving takes from the network.
LEMMA Received ==
    ASSUME ControlInv, NEW kind, Receiving(kind)
    PROVE  /\ pc = "Network" /\ kind \in inbox /\ inbox' \subseteq inbox
           /\ UNCHANGED <<server, refused, datagrams>>
           /\ kind \in {"ack", "shutdown"} => server # "up"
BY DEF ControlInv, StopInv, Receiving

LEMMA ReceiveFailsInv ==
    ASSUME ControlInv, ReceiveFails
    PROVE  ControlInv'
<1>1. /\ Onward /\ exit' = "error" /\ inbox' \subseteq inbox
      /\ UNCHANGED <<settings, terminalVars, runtimeVars, server, refused, datagrams>>
  BY Received DEF ReceiveFails, Fail, Onward, AtWork, hostVars
<1>2. ControlType'
  BY <1>1 DEF ControlInv, ControlType, Onward, AtWork, terminalVars, runtimeVars
<1>3. GuardInv'
  BY <1>1, GuardKept DEF ControlInv, terminalVars
<1>4. StopInv' /\ CleanMeansStopped'
  BY <1>1 DEF ControlInv, StopInv, CleanMeansStopped, runtimeVars
<1>5. QED  BY <1>2, <1>3, <1>4 DEF ControlInv

LEMMA ReceiveOutputInv ==
    ASSUME ControlInv, ReceiveOutput
    PROVE  ControlInv'
<1>1. /\ Onward /\ exit' \in {exit, "error"} /\ inbox' \subseteq inbox
      /\ UNCHANGED <<settings, broken, session_terminal_active, shutdown, acknowledged,
                     peer_due, waited, server, refused, datagrams>>
  BY Received DEF ReceiveOutput, Fail, Continue, Onward, AtWork, hostVars
<1>2. /\ tty' \in Terminals /\ (~broken => Selected(tty', modes'))
      /\ modes' \in Modes /\ overlay' \in BOOLEAN
  <2>1. CASE broken
    BY <2>1, ModesType, ClientAssumption DEF ControlInv, ControlType, ReceiveOutput
  <2>2. CASE ~broken
    <3>1. PICK m \in RequestedModes : modes' = m /\ tty' \in ModesWritten(m)
      BY <2>2 DEF ReceiveOutput
    <3>2. tty' \in Terminals /\ Selected(tty', m)
      BY <2>2, <3>1, ModesWrittenType DEF ControlInv
    <3>3. overlay' = FALSE
      BY <2>2 DEF ReceiveOutput
    <3>4. QED  BY <3>1, <3>2, <3>3, ClientAssumption
  <2>3. QED  BY <2>1, <2>2
<1>3. ControlType'
  BY <1>1, <1>2 DEF ControlInv, ControlType, Terminals, Onward, AtWork
<1>4. GuardInv'
  <2>1. pc = "Network" /\ session_terminal_active
    BY Received DEF ControlInv, GuardInv, Running, ReceiveOutput
  <2>2. QED  BY <1>1, <1>2, <2>1 DEF ControlInv, GuardInv, Selected, Untouched, Running, Onward, AtWork
<1>5. StopInv' /\ CleanMeansStopped'
  BY <1>1 DEF ControlInv, StopInv, CleanMeansStopped
<1>6. QED  BY <1>3, <1>4, <1>5 DEF ControlInv

\* The server's shutdown and its acknowledgement are sent by a server that stops.
LEMMA ReceiveShutdownInv ==
    ASSUME ControlInv, ReceiveShutdown
    PROVE  ControlInv'
<1>1. /\ Onward /\ exit' = exit /\ inbox' \subseteq inbox /\ server # "up"
      /\ peer_due' = TRUE /\ shutdown' \in {shutdown, "PeerRequested"}
      /\ UNCHANGED <<settings, terminalVars, acknowledged, waited, server, refused, datagrams>>
  BY Received DEF ReceiveShutdown, Continue, Onward, AtWork, hostVars
<1>2. ControlType'
  BY <1>1 DEF ControlInv, ControlType, Onward, AtWork, terminalVars
<1>3. GuardInv'
  BY <1>1, GuardKept DEF ControlInv, terminalVars
<1>4. StopInv' /\ CleanMeansStopped'
  BY <1>1 DEF ControlInv, StopInv, CleanMeansStopped
<1>5. QED  BY <1>2, <1>3, <1>4 DEF ControlInv

LEMMA ReceiveAcknowledgementInv ==
    ASSUME ControlInv, ReceiveAcknowledgement
    PROVE  ControlInv'
<1>1. /\ Onward /\ exit' = exit /\ inbox' \subseteq inbox /\ server # "up"
      /\ acknowledged' = TRUE
      /\ UNCHANGED <<settings, terminalVars, shutdown, peer_due, waited, server, refused,
                     datagrams>>
  BY Received DEF ReceiveAcknowledgement, Continue, Onward, AtWork, hostVars
<1>2. ControlType'
  BY <1>1 DEF ControlInv, ControlType, Onward, AtWork, terminalVars
<1>3. GuardInv'
  BY <1>1, GuardKept DEF ControlInv, terminalVars
<1>4. StopInv' /\ CleanMeansStopped'
  BY <1>1 DEF ControlInv, StopInv, CleanMeansStopped
<1>5. QED  BY <1>2, <1>3, <1>4 DEF ControlInv

(***************************************************************************)
(* drain_terminal.                                                          *)
(***************************************************************************)
\* An event is read at one place of the loop.
LEMMA Read ==
    ASSUME NEW event, NEW action, KeyEvent(event, action) \/ Handling(event) \/ EventRead
    PROVE  pc = "Terminal"
BY DEF KeyEvent, Handling, EventRead

LEMMA KeyHeldInv ==
    ASSUME ControlInv, NEW event, KeyHeld(event)
    PROVE  ControlInv'
<1>1. overlay \in BOOLEAN
  BY DEF ControlInv, ControlType
<1>2. pc = "Terminal"
  BY Read DEF KeyHeld
<1>3. QED
  BY <1>1, <1>2, QuietInv DEF KeyHeld, Continue, Onward, AtWork, hostVars, terminalVars

LEMMA KeyHelpInv ==
    ASSUME ControlInv, NEW event, KeyHelp(event)
    PROVE  ControlInv'
<1>1. overlay \in BOOLEAN
  BY DEF ControlInv, ControlType
<1>2. pc = "Terminal"
  BY Read DEF KeyHelp
<1>3. QED
  BY <1>1, <1>2, QuietInv DEF KeyHelp, Continue, Fail, Onward, AtWork, hostVars, terminalVars

LEMMA KeyForwardedInv ==
    ASSUME ControlInv, NEW event, KeyForwarded(event)
    PROVE  ControlInv'
<1>1. overlay \in BOOLEAN /\ broken \in BOOLEAN
  BY DEF ControlInv, ControlType
<1>2. pc = "Terminal"
  BY Read DEF KeyForwarded
<1>3. pc' \in {"Terminal", "Leaving"} /\ exit' \in {exit, "error"}
  BY DEF KeyForwarded, QueueInput, QueueFull, Continue, Fail
<1>4. overlay' \in BOOLEAN
  BY <1>1 DEF KeyForwarded
<1>5. QED
  BY <1>2, <1>3, <1>4, QuietInv DEF KeyForwarded, Onward, AtWork, hostVars

LEMMA KeyQuitInv ==
    ASSUME ControlInv, NEW event, KeyQuit(event)
    PROVE  ControlInv'
<1>1. pc = "Terminal"
  BY Read DEF KeyQuit
<1>2. QED
  BY <1>1, RequestInv DEF KeyQuit, Continue, Onward, AtWork, hostVars

LEMMA KeySuspendInv ==
    ASSUME ControlInv, NEW event, KeySuspend(event)
    PROVE  ControlInv'
<1>1. /\ Deactivate
      /\ pc' \in {"Suspended", "Leaving"} /\ exit' \in {exit, "error"}
      /\ UNCHANGED <<settings, broken, modes, overlay, runtimeVars, networkVars>>
  BY DEF KeySuspend, Continue, Fail, hostVars
<1>2. /\ tty' \in Terminals /\ session_terminal_active' = FALSE
      /\ GivenBack' /\ (~broken => Selected(tty', modes))
  BY <1>1, DeactivateGives DEF ControlInv
<1>3. session_terminal_active' \in BOOLEAN
  BY <1>2
<1>4. ControlType'
  BY <1>1, <1>2, <1>3 DEF ControlInv, ControlType, Terminals, runtimeVars, networkVars
<1>5. GuardInv'
  BY <1>1, <1>2 DEF GuardInv, Selected, Untouched, Running
<1>6. StopInv' /\ CleanMeansStopped'
  BY <1>1, StopKept DEF ControlInv
<1>7. QED  BY <1>4, <1>5, <1>6 DEF ControlInv

\* After the resumption the guard holds the terminal again; one that fails leaves it as
\* the suspension gave it back.
LEMMA ResumeClientInv ==
    ASSUME ControlInv, ResumeClient
    PROVE  ControlInv'
<1>1. /\ pc = "Suspended" /\ pc' \in {"Terminal", "Leaving"} /\ exit' \in {exit, "error"}
      /\ UNCHANGED <<settings, broken, modes, overlay, runtimeVars, networkVars>>
  BY DEF ResumeClient, Continue, Fail, hostVars
<1>2. StopInv' /\ CleanMeansStopped'
  BY <1>1, StopKept DEF ControlInv
<1>3. CASE tty' = Resumed /\ session_terminal_active' = TRUE
  <2>1. tty' \in Terminals /\ (~broken => Selected(tty', modes))
    BY <1>3, EnteredType DEF ControlInv
  <2>2. session_terminal_active' \in BOOLEAN
    BY <1>3
  <2>3. ControlType'
    BY <1>1, <2>1, <2>2 DEF ControlInv, ControlType, Terminals, runtimeVars, networkVars
  <2>4. GuardInv'
    BY <1>1, <1>3, <2>1 DEF GuardInv, Selected, Untouched, Running
  <2>5. QED  BY <1>2, <2>3, <2>4 DEF ControlInv
<1>4. CASE pc' = "Leaving" /\ UNCHANGED <<tty, session_terminal_active>>
  <2>1. ControlType'
    BY <1>1, <1>4 DEF ControlInv, ControlType, runtimeVars, networkVars
  <2>2. GuardInv'
    BY <1>1, <1>4 DEF ControlInv, GuardInv, GivenBack, Released, Untouched, Running
  <2>3. QED  BY <1>2, <2>1, <2>2 DEF ControlInv
<1>5. QED  BY <1>3, <1>4 DEF ResumeClient, Fail

LEMMA OtherEventInv ==
    ASSUME ControlInv, NEW event, OtherEvent(event)
    PROVE  ControlInv'
<1>1. overlay \in BOOLEAN
  BY DEF ControlInv, ControlType
<1>2. pc = "Terminal"
  BY Read DEF OtherEvent
<1>3. pc' \in {"Terminal", "Leaving"} /\ exit' \in {exit, "error"}
  BY DEF OtherEvent, QueueInput, QueueFull, Continue, Fail
<1>4. QED
  BY <1>1, <1>2, <1>3, QuietInv DEF OtherEvent, Onward, AtWork, hostVars, terminalVars

\* The terminal and its model give up the margins.
LEMMA ResizeEventInv ==
    ASSUME ControlInv, NEW event, ResizeEvent(event)
    PROVE  ControlInv'
<1>1. overlay \in BOOLEAN /\ broken \in BOOLEAN
  BY DEF ControlInv, ControlType
<1>2. pc = "Terminal" /\ session_terminal_active
  BY Read DEF ResizeEvent, ControlInv, GuardInv, Running
<1>3. /\ pc' \in {"Terminal", "Leaving"} /\ exit' \in {exit, "error"}
      /\ UNCHANGED <<settings, broken, session_terminal_active, runtimeVars, networkVars>>
  BY DEF ResizeEvent, QueueFull, Continue, Fail, hostVars
<1>4. overlay' \in BOOLEAN
  BY <1>1 DEF ResizeEvent
<1> DEFINE flat(m) == [m EXCEPT !.scroll_region = <<>>]
<1>5. \A m \in Modes : /\ flat(m) \in Modes
                       /\ \A mode \in DOMAIN DefaultModes :
                            flat(m)[mode] = IF mode = "scroll_region" THEN <<>> ELSE m[mode]
  BY DEF Modes, DefaultModes
<1>6. tty' = [tty EXCEPT !.modes = flat(tty.modes)] /\ modes' \in {modes, flat(modes)}
  BY DEF ResizeEvent
<1>7. DefaultModes["scroll_region"] = <<>>
  BY DEF DefaultModes
<1> HIDE DEF flat
<1>8. tty' \in Terminals /\ tty'.modes = flat(tty.modes) /\ modes' \in Modes
  BY <1>5, <1>6, ModesType DEF Terminals, ControlInv
<1>9. ~broken => Selected(tty', modes')
  <2> SUFFICES ASSUME ~broken, NEW mode \in Untouched
               PROVE  tty'.modes[mode] \in {DefaultModes[mode], modes'[mode]}
    BY DEF Selected
  <2>1. tty.modes[mode] \in {DefaultModes[mode], modes[mode]}
    BY DEF ControlInv, GuardInv
  <2>2. QED  BY <2>1, <1>5, <1>6, <1>7, <1>8, UntouchedNames, ModesType DEF ControlInv
<1>10. ControlType'
  BY <1>2, <1>3, <1>4, <1>8 DEF ControlInv, ControlType, Terminals, runtimeVars, networkVars
<1>11. GuardInv'
  BY <1>2, <1>3, <1>9 DEF ControlInv, GuardInv, Selected, Untouched, Running
<1>12. StopInv' /\ CleanMeansStopped'
  BY <1>3, StopKept DEF ControlInv
<1>13. QED  BY <1>10, <1>11, <1>12 DEF ControlInv

LEMMA ClearNoticeFailsInv ==
    ASSUME ControlInv, ClearNoticeFails
    PROVE  ControlInv'
<1>1. overlay \in BOOLEAN
  BY DEF ControlInv, ControlType
<1>2. QED
  BY <1>1, QuietInv
  DEF ClearNoticeFails, EventRead, Fail, Onward, AtWork, hostVars, terminalVars

LEMMA TerminalDrainedInv ==
    ASSUME ControlInv, TerminalDrained
    PROVE  ControlInv'
<1>1. overlay \in BOOLEAN
  BY DEF ControlInv, ControlType
<1>2. QED
  BY <1>1, QuietInv DEF TerminalDrained, Continue, Fail, Onward, AtWork, hostVars, terminalVars

(***************************************************************************)
(* poll, apply_actions and the check of the outcome.                         *)
(***************************************************************************)
\* What the runtime reports of a shutdown, and of a server that does not run on.
LEMMA PollFacts ==
    ASSUME ControlInv, NEW n \in Nat, PollRuns(n)
    PROVE  /\ pc = "Poll"
           /\ shutdown' \in {"Open", "LocalRequested", "PeerRequested"} \cup Outcomes
           /\ peer_due' \in BOOLEAN /\ waited' \in 0..SHUTDOWN_POLLS
           /\ acknowledged' = acknowledged
           /\ peer_due' => server # "up"
           /\ shutdown' \in {"PeerRequested", "PeerShutdown", "Acknowledged"} => server # "up"
<1>1. /\ peer_due \in BOOLEAN /\ acknowledged \in BOOLEAN
      /\ shutdown \in {"Open", "LocalRequested", "PeerRequested"} \cup Outcomes
      /\ waited \in 0..SHUTDOWN_POLLS
  BY DEF ControlInv, ControlType
<1>2. pc = "Poll" /\ acknowledged' = acknowledged /\ shutdown' = Polled(n)
      /\ (peer_due' <=> peer_due /\ n = 0)
  BY DEF PollRuns
<1>3. peer_due' \in BOOLEAN
  BY DEF PollRuns
<1>4. waited' \in 0..SHUTDOWN_POLLS
  BY <1>1, ClientAssumption DEF PollRuns, Older
<1>5. peer_due' => server # "up"
  BY <1>2 DEF ControlInv, StopInv
<1>6. /\ shutdown' \in {"Open", "LocalRequested", "PeerRequested"} \cup Outcomes
      /\ shutdown' \in {"PeerRequested", "PeerShutdown", "Acknowledged"} => server # "up"
  <2>1. CASE peer_due
    BY <1>1, <1>2, <2>1 DEF Polled, ControlInv, StopInv, Outcomes
  <2>2. CASE ~peer_due /\ acknowledged
    BY <1>1, <1>2, <2>2 DEF Polled, ControlInv, StopInv, Outcomes
  <2>3. CASE ~peer_due /\ ~acknowledged
    <3>1. Polled(n) \in {"TimedOut", shutdown}
      BY <2>3 DEF Polled
    <3>2. QED  BY <1>1, <1>2, <3>1 DEF ControlInv, StopInv, Outcomes
  <2>4. QED  BY <1>1, <2>1, <2>2, <2>3
<1>7. QED  BY <1>2, <1>3, <1>4, <1>5, <1>6

LEMMA PollSendsInv ==
    ASSUME ControlInv, PollSends
    PROVE  ControlInv'
<1>1. PICK n \in 0..2 :
        /\ PollRuns(n)
        /\ IF Finished(shutdown') THEN Leave(Reported(shutdown')) ELSE Continue("Top")
        /\ server' \in IF n > 0 /\ shutdown = "LocalRequested" /\ server \in {"up", "ending"}
                       THEN {server, "stopped"} ELSE {server}
        /\ refused' \in IF n > 0 /\ server = "gone" THEN BOOLEAN ELSE {refused}
        /\ UNCHANGED <<hostVars, terminalVars, inputVars, inbox, datagrams>>
  BY DEF PollSends
<1>2. /\ pc = "Poll"
      /\ shutdown' \in {"Open", "LocalRequested", "PeerRequested"} \cup Outcomes
      /\ peer_due' \in BOOLEAN /\ waited' \in 0..SHUTDOWN_POLLS
      /\ acknowledged' = acknowledged
      /\ peer_due' => server # "up"
      /\ shutdown' \in {"PeerRequested", "PeerShutdown", "Acknowledged"} => server # "up"
  BY <1>1, PollFacts
<1>3. /\ server' \in {"up", "ending", "stopped", "gone"}
      /\ server # "up" => server' # "up"
      /\ server = "gone" => server' = "gone"
  BY <1>1 DEF ControlInv, ControlType
<1>4. refused' \in BOOLEAN /\ (refused' => refused \/ server = "gone")
  BY <1>1 DEF ControlInv, ControlType
<1>5. /\ pc' \in {"Top", "Leaving"} /\ exit' \in {exit, "clean", "unclean"}
      /\ exit' = exit \/ exit' = "unclean" \/ shutdown' \in {"PeerShutdown", "Acknowledged"}
  BY <1>1 DEF Finished, Reported, Leave, Continue, Outcomes
<1>6. ControlType'
  BY <1>1, <1>2, <1>3, <1>4, <1>5 DEF ControlInv, ControlType, hostVars, terminalVars
<1>7. GuardInv'
  BY <1>1, <1>2, <1>5, GuardKept DEF ControlInv, Onward, AtWork, hostVars, terminalVars
<1>8. StopInv'
  BY <1>1, <1>2, <1>3, <1>4 DEF ControlInv, StopInv
<1>9. CleanMeansStopped'
  BY <1>2, <1>3, <1>5 DEF ControlInv, CleanMeansStopped
<1>10. QED  BY <1>6, <1>7, <1>8, <1>9 DEF ControlInv

LEMMA PollSendFailsInv ==
    ASSUME ControlInv, PollSendFails
    PROVE  ControlInv'
<1>1. PICK n \in 1..2 :
        /\ PollRuns(n) /\ Fail("network") /\ refused' = FALSE
        /\ UNCHANGED <<hostVars, terminalVars, inputVars, server, inbox, datagrams>>
  BY DEF PollSendFails
<1>2. /\ pc = "Poll"
      /\ shutdown' \in {"Open", "LocalRequested", "PeerRequested"} \cup Outcomes
      /\ peer_due' \in BOOLEAN /\ waited' \in 0..SHUTDOWN_POLLS
      /\ acknowledged' = acknowledged
      /\ peer_due' => server # "up"
      /\ shutdown' \in {"PeerRequested", "PeerShutdown", "Acknowledged"} => server # "up"
  BY <1>1, PollFacts
<1>3. refused' \in BOOLEAN /\ ~refused'
  BY <1>1
<1>4. pc' = "Leaving" /\ exit' = "error"
  BY <1>1 DEF Fail
<1>5. ControlType'
  BY <1>1, <1>2, <1>3, <1>4 DEF ControlInv, ControlType, hostVars, terminalVars
<1>6. GuardInv'
  BY <1>1, <1>2, <1>4, GuardKept DEF ControlInv, Onward, AtWork, hostVars, terminalVars
<1>7. StopInv' /\ CleanMeansStopped'
  BY <1>1, <1>2, <1>3, <1>4 DEF ControlInv, StopInv, CleanMeansStopped
<1>8. QED  BY <1>5, <1>6, <1>7 DEF ControlInv

\* The guard is dropped on every way out of the loop.
LEMMA LeaveLoopInv ==
    ASSUME ControlInv, LeaveLoop
    PROVE  ControlInv'
<1>1. /\ Deactivate /\ pc' = "Ended" /\ exit' \in {exit, "error"}
      /\ UNCHANGED <<settings, broken, modes, runtimeVars, networkVars>>
  BY DEF LeaveLoop, hostVars
<1>2. /\ tty' \in Terminals /\ session_terminal_active' = FALSE
      /\ GivenBack' /\ (~broken => Selected(tty', modes))
  BY <1>1, DeactivateGives DEF ControlInv
<1>3. overlay' \in BOOLEAN /\ (~broken => ~overlay')
  BY DEF LeaveLoop, ControlInv, ControlType
<1>4. session_terminal_active' \in BOOLEAN
  BY <1>2
<1>5. ControlType'
  BY <1>1, <1>2, <1>3, <1>4 DEF ControlInv, ControlType, Terminals, runtimeVars, networkVars
<1>6. GuardInv'
  BY <1>1, <1>2, <1>3 DEF GuardInv, Selected, Untouched, Running
<1>7. StopInv' /\ CleanMeansStopped'
  BY <1>1, StopKept DEF ControlInv
<1>8. QED  BY <1>5, <1>6, <1>7 DEF ControlInv

(***************************************************************************)
(* Every step, without the input.                                           *)
(***************************************************************************)
LEMMA StutterInv ==
    ASSUME ControlInv, UNCHANGED vars
    PROVE  ControlInv'
BY DEF ControlInv, ControlType, GuardInv, GivenBack, Released, Untouched, StopInv, CleanMeansStopped, Running,
       vars, hostVars, loopVars, terminalVars, runtimeVars, networkVars

LEMMA NextInv == ControlInv /\ [Next]_vars => ControlInv'
<1> SUFFICES ASSUME ControlInv, [Next]_vars PROVE ControlInv'
  OBVIOUS
<1>1. CASE ClientStep
  <2>1. CASE \E event \in settings.events :
                \/ KeyHeld(event) \/ KeyHelp(event) \/ KeyForwarded(event)
                \/ KeyQuit(event) \/ KeySuspend(event)
                \/ OtherEvent(event) \/ ResizeEvent(event)
    BY <2>1, KeyHeldInv, KeyHelpInv, KeyForwardedInv, KeyQuitInv, KeySuspendInv,
       OtherEventInv, ResizeEventInv
  <2>2. CASE StartFails \/ EnterTerminal \/ StartSession \/ CheckTermination
    BY <2>2, StartFailsInv, EnterTerminalInv, StartSessionInv, CheckTerminationInv
  <2>3. CASE \/ NetworkDrained \/ NetworkRefused \/ ReceiveFails
             \/ ReceiveOutput \/ ReceiveShutdown \/ ReceiveAcknowledgement
    BY <2>3, NetworkDrainedInv, NetworkRefusedInv, ReceiveFailsInv, ReceiveOutputInv,
       ReceiveShutdownInv, ReceiveAcknowledgementInv
  <2>4. CASE ClearNoticeFails \/ TerminalDrained \/ PollSends \/ PollSendFails \/ LeaveLoop
    BY <2>4, ClearNoticeFailsInv, TerminalDrainedInv, PollSendsInv, PollSendFailsInv,
       LeaveLoopInv
  <2>5. QED  BY <1>1, <2>1, <2>2, <2>3, <2>4 DEF ClientStep
<1>2. CASE ResumeClient
  BY <1>2, ResumeClientInv
<1>3. CASE Signal \/ TerminalGone \/ Datagram \/ ServerGone
  BY <1>3, SignalInv, TerminalGoneInv, DatagramInv, ServerGoneInv
<1>4. CASE UNCHANGED vars
  BY <1>4, StutterInv
<1>5. QED  BY <1>1, <1>2, <1>3, <1>4 DEF Next

(***************************************************************************)
(* The bytes of the events.                                                 *)
(***************************************************************************)
LEMMA Joined == \A s, t \in Bytes : s \o t \in Bytes
BY DEF Bytes

LEMMA Tuple0 == <<>> \in Bytes
BY DEF Bytes
LEMMA Tuple1 == \A a \in Byte : <<a>> \in Bytes
BY DEF Bytes
LEMMA Tuple2 == \A a, b \in Byte : <<a, b>> \in Bytes
BY DEF Bytes
LEMMA Tuple3 == \A a, b, c \in Byte : <<a, b, c>> \in Bytes
BY DEF Bytes
LEMMA Tuple4 == \A a, b, c, d \in Byte : <<a, b, c, d>> \in Bytes
BY DEF Bytes

\* Every number has a width, and its digits are bytes.
LEMMA Digits ==
    ASSUME NEW n \in Nat, n < Powers[6]
    PROVE  Decimal(n) \in Bytes
<1> DEFINE W(w) == n < Powers[w + 1] /\ (w = 1 \/ n >= Powers[w])
<1>1. \E w \in 1..5 : W(w)
  <2>1. CASE n < 10
    <3>1. W(1)
      BY SMT, <2>1 DEF Powers
    <3>2. QED  BY SMT, <3>1
  <2>2. CASE n >= 10 /\ n < 100
    <3>1. W(2)
      BY SMT, <2>2 DEF Powers
    <3>2. QED  BY SMT, <3>1
  <2>3. CASE n >= 100 /\ n < 1000
    <3>1. W(3)
      BY SMT, <2>3 DEF Powers
    <3>2. QED  BY SMT, <3>1
  <2>4. CASE n >= 1000 /\ n < 10000
    <3>1. W(4)
      BY SMT, <2>4 DEF Powers
    <3>2. QED  BY SMT, <3>1
  <2>5. CASE n >= 10000
    <3>1. W(5)
      BY SMT, <2>5 DEF Powers
    <3>2. QED  BY SMT, <3>1
  <2>6. QED  BY SMT, <2>1, <2>2, <2>3, <2>4, <2>5
<1>2. Width(n) \in 1..5
  BY SMT, <1>1 DEF Width
<1>3. \A k \in 1..5 : Powers[k] \in Nat \ {0}
  BY SMT DEF Powers
<1> DEFINE D(p) == 48 + ((n \div p) % 10)
<1>4. \A p \in Nat \ {0} : D(p) \in Byte
  BY SMT DEF Byte
<1>5. \A w \in 1..5 : \A i \in 1..w : w + 1 - i \in 1..5
  BY SMT
<1>6. Decimal(n) = [i \in 1..Width(n) |-> D(Powers[Width(n) + 1 - i])]
  BY SMT DEF Decimal
<1> HIDE DEF W, D
<1>7. \A i \in 1..Width(n) : D(Powers[Width(n) + 1 - i]) \in Byte
  BY SMT, <1>2, <1>3, <1>4, <1>5
<1>8. \A w \in Nat : Width(n) = w => Decimal(n) \in Bytes
  BY <1>6, <1>7 DEF Bytes
<1>9. QED  BY <1>2, <1>8

LEMMA Utf8Bytes ==
    ASSUME NEW c \in Nat, c <= MaxChar
    PROVE  Utf8(c) \in Bytes
<1> DEFINE x1 == 128 + (c % 64)
           x2 == 128 + ((c \div 64) % 64)
           x3 == 128 + ((c \div 4096) % 64)
           y2 == 192 + (c \div 64)
           y3 == 224 + (c \div 4096)
           y4 == 240 + (c \div 262144)
<1>1. x1 \in Byte /\ x2 \in Byte /\ x3 \in Byte
  BY SMT DEF Byte
<1>2. CASE c < 128
  <2>1. c \in Byte /\ Utf8(c) = <<c>>
    BY SMT, <1>2 DEF Utf8, Byte
  <2>2. QED  BY <2>1, Tuple1
<1>3. CASE c >= 128 /\ c < 2048
  <2>1. y2 \in Byte /\ Utf8(c) = <<y2, x1>>
    BY SMT, <1>3 DEF Utf8, Byte
  <2> HIDE DEF x1, x2, x3, y2, y3, y4
  <2>2. QED  BY <1>1, <2>1, Tuple2
<1>4. CASE c >= 2048 /\ c < 65536
  <2>1. y3 \in Byte /\ Utf8(c) = <<y3, x2, x1>>
    BY SMT, <1>4 DEF Utf8, Byte
  <2> HIDE DEF x1, x2, x3, y2, y3, y4
  <2>2. QED  BY <1>1, <2>1, Tuple3
<1>5. CASE c >= 65536
  <2>1. y4 \in Byte /\ Utf8(c) = <<y4, x3, x2, x1>>
    BY SMT, <1>5 DEF Utf8, Byte, MaxChar
  <2> HIDE DEF x1, x2, x3, y2, y3, y4
  <2>2. QED  BY <1>1, <2>1, Tuple4
<1>6. QED  BY SMT, <1>2, <1>3, <1>4, <1>5

LEMMA Literals ==
    /\ \A b \in 0..255 : b \in Byte
    /\ ESC \in Byte /\ CSI \in Bytes
<1>1. \A b \in 0..255 : b \in Byte
  BY DEF Byte
<1>2. ESC \in Byte /\ 91 \in Byte
  BY DEF Byte, ESC
<1>3. QED  BY <1>1, <1>2, Tuple2 DEF CSI

LEMMA Parameters ==
    ASSUME NEW mods
    PROVE  KeyModifierParameter(mods) \in 1..8
BY SMT DEF KeyModifierParameter, ModifierBits

LEMMA SmallDigits ==
    ASSUME NEW n \in Nat, n <= 255
    PROVE  Decimal(n) \in Bytes
<1>1. n < Powers[6]
  BY SMT DEF Powers
<1>2. QED  BY <1>1, Digits

LEMMA ControlBytes ==
    ASSUME NEW c \in Nat
    PROVE  EncodeControl(c) \in Bytes
<1>1. CASE c \in 64..95
  <2>1. c - 64 \in Byte
    BY SMT, <1>1 DEF Byte
  <2>2. /\ c \notin 97..122 /\ c # 50 /\ c \notin 51..55 /\ c \notin {56, 63}
    BY SMT, <1>1
  <2>3. EncodeControl(c) = <<c - 64>>
    BY Zenon, <1>1, <2>2 DEF EncodeControl
  <2>4. QED  BY <2>1, <2>3, Tuple1
<1>2. CASE c \in 97..122
  <2>1. c - 96 \in Byte
    BY SMT, <1>2 DEF Byte
  <2>2. /\ c \notin 64..95 /\ c # 50 /\ c \notin 51..55 /\ c \notin {56, 63}
    BY SMT, <1>2
  <2>3. EncodeControl(c) = <<c - 96>>
    BY Zenon, <1>2, <2>2 DEF EncodeControl
  <2>4. QED  BY <2>1, <2>3, Tuple1
<1>3. CASE c = 50
  <2>1. 0 \in Byte /\ EncodeControl(c) = <<0>>
    BY SMT, <1>3 DEF EncodeControl, Byte
  <2>2. QED  BY <2>1, Tuple1
<1>4. CASE c \in 51..55
  <2>1. c - 24 \in Byte /\ EncodeControl(c) = <<c - 24>>
    BY SMT, <1>4 DEF EncodeControl, Byte
  <2>2. QED  BY <2>1, Tuple1
<1>5. CASE c \in {56, 63}
  <2>1. 127 \in Byte /\ EncodeControl(c) = <<127>>
    BY SMT, <1>5 DEF EncodeControl, Byte
  <2>2. QED  BY <2>1, Tuple1
<1>6. CASE ~(c \in 64..95 \/ c \in 97..122 \/ c = 50 \/ c \in 51..55 \/ c \in {56, 63})
  <2>1. EncodeControl(c) = <<>>
    BY SMT, <1>6 DEF EncodeControl
  <2>2. QED  BY <2>1, Tuple0
<1>7. QED  BY <1>1, <1>2, <1>3, <1>4, <1>5, <1>6

LEMMA CursorBytes ==
    ASSUME NEW final \in Byte, NEW mods, NEW cursor_key
    PROVE  EncodeCursorKey(final, mods, cursor_key) \in Bytes
<1> DEFINE parameter == KeyModifierParameter(mods)
<1>1. parameter \in Nat /\ parameter <= 255
  BY SMT, Parameters
<1>2. <<49, 59>> \in Bytes /\ Decimal(parameter) \in Bytes /\ <<final>> \in Bytes
  <2>1. 49 \in Byte /\ 59 \in Byte
    BY DEF Byte
  <2>2. QED  BY <1>1, <2>1, SmallDigits, Tuple1, Tuple2
<1>3. CSI \o <<49, 59>> \o Decimal(parameter) \o <<final>> \in Bytes
  BY <1>2, Literals, Joined
<1>4. <<ESC, IF cursor_key = "Application" THEN 79 ELSE 91, final>> \in Bytes
  <2>1. (IF cursor_key = "Application" THEN 79 ELSE 91) \in Byte
    BY DEF Byte
  <2>2. QED  BY <2>1, Literals, Tuple3
<1>5. QED  BY <1>3, <1>4 DEF EncodeCursorKey

LEMMA FunctionBytes ==
    ASSUME NEW number \in Nat, NEW mods
    PROVE  EncodeFunctionKey(number, mods) \in Bytes
<1> DEFINE parameter == KeyModifierParameter(mods)
           modifier == IF parameter = 1 THEN <<>> ELSE <<59>> \o Decimal(parameter)
<1>1. parameter \in Nat /\ parameter <= 255
  BY SMT, Parameters
<1>2. 49 \in Byte /\ 59 \in Byte /\ 79 \in Byte /\ 126 \in Byte
  BY DEF Byte
<1>3. modifier \in Bytes
  <2>1. <<59>> \o Decimal(parameter) \in Bytes
    BY <1>1, <1>2, SmallDigits, Tuple1, Joined
  <2>2. QED  BY <2>1, Tuple0
<1>4. CASE number \in 1..4 /\ parameter = 1
  <2>1. 79 + number \in Byte /\ number \notin 5..12
    BY SMT, <1>4 DEF Byte
  <2>2. EncodeFunctionKey(number, mods) = <<ESC, 79, 79 + number>>
    BY Zenon, <1>4, <2>1 DEF EncodeFunctionKey
  <2>3. QED  BY <2>1, <2>2, <1>2, Literals, Tuple3
<1>5. CASE number \in 1..4 /\ parameter # 1
  <2>1. 79 + number \in Byte /\ number \notin 5..12
    BY SMT, <1>5 DEF Byte
  <2>2. EncodeFunctionKey(number, mods) = CSI \o <<49>> \o modifier \o <<79 + number>>
    BY Zenon, <1>5, <2>1 DEF EncodeFunctionKey
  <2> HIDE DEF modifier, parameter
  <2>3. <<49>> \in Bytes /\ <<79 + number>> \in Bytes
    BY <1>2, <2>1, Tuple1
  <2>4. CSI \o <<49>> \o modifier \o <<79 + number>> \in Bytes
    BY Zenon, <2>3, <1>3, Literals, Joined
  <2>5. QED  BY <2>2, <2>4
<1>6. CASE number \in 5..12
  <2> DEFINE key == FunctionKeyParameters[number - 4]
  <2>1. key \in Nat /\ key <= 255 /\ number \notin 1..4
    BY SMT, <1>6 DEF FunctionKeyParameters
  <2>2. EncodeFunctionKey(number, mods) = CSI \o Decimal(key) \o modifier \o <<126>>
    BY Zenon, <1>6, <2>1 DEF EncodeFunctionKey
  <2> HIDE DEF modifier, parameter, key
  <2>3. Decimal(key) \in Bytes /\ <<126>> \in Bytes
    BY <1>2, <2>1, SmallDigits, Tuple1
  <2>4. CSI \o Decimal(key) \o modifier \o <<126>> \in Bytes
    BY Zenon, <2>3, <1>3, Literals, Joined
  <2>5. QED  BY <2>2, <2>4
<1>7. CASE number \notin 1..4 /\ number \notin 5..12
  <2>1. EncodeFunctionKey(number, mods) = <<>>
    BY SMT, <1>7 DEF EncodeFunctionKey
  <2>2. QED  BY <2>1, Tuple0
<1>8. QED  BY <1>4, <1>5, <1>6, <1>7

LEMMA PlainBytes ==
    ASSUME NEW code \in DOMAIN PlainKeys
    PROVE  PlainKeys[code] \in Bytes
<1>1. \A b \in {13, 127, 9, 90, 72, 70, 50, 51, 53, 54, 126} : b \in Byte
  BY DEF Byte
<1>2. /\ <<13>> \in Bytes /\ <<127>> \in Bytes /\ <<9>> \in Bytes /\ <<ESC>> \in Bytes
      /\ <<90>> \in Bytes /\ <<72>> \in Bytes /\ <<70>> \in Bytes
  BY <1>1, Literals, Tuple1
<1>3. /\ <<50, 126>> \in Bytes /\ <<51, 126>> \in Bytes /\ <<53, 126>> \in Bytes
      /\ <<54, 126>> \in Bytes
  BY <1>1, Tuple2
<1>4. /\ CSI \o <<90>> \in Bytes /\ CSI \o <<72>> \in Bytes /\ CSI \o <<70>> \in Bytes
      /\ CSI \o <<50, 126>> \in Bytes /\ CSI \o <<51, 126>> \in Bytes
      /\ CSI \o <<53, 126>> \in Bytes /\ CSI \o <<54, 126>> \in Bytes
  BY <1>2, <1>3, Literals, Joined
<1>5. DOMAIN PlainKeys = {"Enter", "Backspace", "Tab", "Esc", "BackTab", "Home", "End",
                          "Insert", "Delete", "PageUp", "PageDown"}
  BY SMT DEF PlainKeys
<1>6. PlainKeys["Enter"] \in Bytes
  BY <1>2, <1>4 DEF PlainKeys
<1>7. PlainKeys["Backspace"] \in Bytes
  BY <1>2, <1>4 DEF PlainKeys
<1>8. PlainKeys["Tab"] \in Bytes
  BY <1>2, <1>4 DEF PlainKeys
<1>9. PlainKeys["Esc"] \in Bytes
  BY <1>2, <1>4 DEF PlainKeys
<1>10. PlainKeys["BackTab"] \in Bytes
  BY <1>2, <1>4 DEF PlainKeys
<1>11. PlainKeys["Home"] \in Bytes
  BY <1>2, <1>4 DEF PlainKeys
<1>12. PlainKeys["End"] \in Bytes
  BY <1>2, <1>4 DEF PlainKeys
<1>13. PlainKeys["Insert"] \in Bytes
  BY <1>2, <1>4 DEF PlainKeys
<1>14. PlainKeys["Delete"] \in Bytes
  BY <1>2, <1>4 DEF PlainKeys
<1>15. PlainKeys["PageUp"] \in Bytes
  BY <1>2, <1>4 DEF PlainKeys
<1>16. PlainKeys["PageDown"] \in Bytes
  BY <1>2, <1>4 DEF PlainKeys
<1>17. QED  BY <1>5, <1>6, <1>7, <1>8, <1>9, <1>10, <1>11, <1>12, <1>13, <1>14, <1>15, <1>16

LEMMA CharType == \A c \in Chars : c \in Nat /\ c <= MaxChar
<1>1. \A m \in Nat : \A c \in 0..m : c \in Nat /\ c <= m
  OBVIOUS
<1>2. MaxChar \in Nat
  BY SMT DEF MaxChar
<1>3. QED  BY Zenon, <1>1, <1>2 DEF Chars

LEMMA CoordinateType == \A c \in Coordinates : c \in Nat /\ c < 65536
BY SMT DEF Coordinates

\* encode_key_with_mode.
LEMMA KeyBytes ==
    ASSUME NEW key \in KeyEvents, NEW cursor_key
    PROVE  EncodeKey(key, cursor_key) \in Bytes
<1>1. key.code \in KeyCodes /\ key.value \in Nat /\ key.value <= MaxChar
  <2>1. key.code \in KeyCodes /\ key.value \in Chars
    BY DEF KeyEvents
  <2>2. key.value \in Nat /\ key.value <= MaxChar
    BY <2>1, CharType
  <2>3. QED  BY <2>1, <2>2
<1>2. /\ {"Char", "F", "Null"} \cap DOMAIN PlainKeys = {}
      /\ {"Char", "F", "Null"} \cap DOMAIN CursorKeys = {}
      /\ DOMAIN PlainKeys \cap DOMAIN CursorKeys = {}
  BY SMT DEF PlainKeys, CursorKeys
<1>3. CASE key.code = "Char"
  <2>1. EncodeKey(key, cursor_key) =
           IF Control \in key.mods THEN EncodeControl(key.value)
           ELSE (IF Alt \in key.mods THEN <<ESC>> ELSE <<>>) \o Utf8(key.value)
    BY Zenon, <1>2, <1>3 DEF EncodeKey
  <2>2. EncodeControl(key.value) \in Bytes /\ Utf8(key.value) \in Bytes
    BY <1>1, ControlBytes, Utf8Bytes
  <2>3. (IF Alt \in key.mods THEN <<ESC>> ELSE <<>>) \in Bytes
    BY Literals, Tuple0, Tuple1
  <2>4. QED  BY Zenon, <2>1, <2>2, <2>3, Joined
<1>4. CASE key.code \in DOMAIN PlainKeys
  <2>1. EncodeKey(key, cursor_key) = PlainKeys[key.code]
    BY Zenon, <1>2, <1>4 DEF EncodeKey
  <2>2. QED  BY <2>1, <1>4, PlainBytes
<1>5. CASE key.code \in DOMAIN CursorKeys
  <2>1. CursorKeys[key.code] \in Byte
    BY SMT, <1>5 DEF CursorKeys, Byte
  <2>2. EncodeKey(key, cursor_key) =
           EncodeCursorKey(CursorKeys[key.code], key.mods, cursor_key)
    BY Zenon, <1>2, <1>5 DEF EncodeKey
  <2>3. QED  BY <2>1, <2>2, CursorBytes
<1>6. CASE key.code = "F"
  <2>1. EncodeKey(key, cursor_key) = EncodeFunctionKey(key.value, key.mods)
    BY Zenon, <1>2, <1>6 DEF EncodeKey
  <2>2. QED  BY <2>1, <1>1, FunctionBytes
<1>7. CASE key.code = "Null"
  <2>1. EncodeKey(key, cursor_key) = <<>>
    BY Zenon, <1>2, <1>7 DEF EncodeKey
  <2>2. QED  BY <2>1, Tuple0
<1>8. QED  BY <1>1, <1>3, <1>4, <1>5, <1>6, <1>7 DEF KeyCodes

\* The button and modifiers of a mouse event.
LEMMA CodeType ==
    ASSUME NEW event \in MouseEvents
    PROVE  MouseCode(event) \in 0..127
<1>1. event.kind \in MouseKinds /\ event.button \in DOMAIN Buttons
  BY DEF MouseEvents
<1>2. Buttons[event.button] \in 0..2
  BY SMT, <1>1 DEF Buttons
<1>3. \A kind \in DOMAIN Scrolls : Scrolls[kind] \in 64..67 /\ kind \notin {"Down", "Up", "Drag", "Moved"}
  BY SMT DEF Scrolls
<1>4. ModifierBits(event.mods, 4, 8, 16) \in 0..28
  BY SMT DEF ModifierBits
<1>5. MouseCode(event) =
        (CASE event.kind \in {"Down", "Up"} -> Buttons[event.button]
           [] event.kind = "Drag" -> Buttons[event.button] + 32
           [] event.kind = "Moved" -> 35
           [] OTHER -> Scrolls[event.kind]) + ModifierBits(event.mods, 4, 8, 16)
  BY DEF MouseCode
<1> DEFINE code == CASE event.kind \in {"Down", "Up"} -> Buttons[event.button]
                     [] event.kind = "Drag" -> Buttons[event.button] + 32
                     [] event.kind = "Moved" -> 35
                     [] OTHER -> Scrolls[event.kind]
<1>6. code \in 0..67
  <2>1. CASE event.kind \in {"Down", "Up"}
    BY SMT, <1>2, <2>1
  <2>2. CASE event.kind = "Drag"
    BY SMT, <1>2, <2>2
  <2>3. CASE event.kind = "Moved"
    BY SMT, <2>3
  <2>4. CASE event.kind \in DOMAIN Scrolls
    <3>1. code = Scrolls[event.kind]
      BY <1>3, <2>4
    <3>2. QED  BY SMT, <1>3, <2>4, <3>1
  <2>5. QED  BY <1>1, <2>1, <2>2, <2>3, <2>4 DEF MouseKinds
<1> HIDE DEF code
<1>7. MouseCode(event) = code + ModifierBits(event.mods, 4, 8, 16)
  BY <1>5 DEF code
<1>8. QED  BY SMT, <1>4, <1>6, <1>7

\* encode_mouse_with_mode.
LEMMA MouseBytes ==
    ASSUME NEW event \in MouseEvents, NEW tracking, NEW encoding
    PROVE  EncodeMouse(event, tracking, encoding) \in Bytes
<1>1. /\ event.column \in Nat /\ event.column < 65536 /\ event.row \in Nat /\ event.row < 65536
  <2>1. event.column \in Coordinates /\ event.row \in Coordinates
    BY DEF MouseEvents
  <2>2. QED  BY SMT, <2>1, CoordinateType
<1> DEFINE code == MouseCode(event)
           column == event.column + 1
           row == event.row + 1
           final == IF event.kind = "Up" THEN 109 ELSE 77
<1>2. /\ code \in Nat /\ code <= 255
      /\ column \in Nat /\ column < Powers[6] /\ row \in Nat /\ row < Powers[6]
  BY SMT, <1>1, CodeType DEF Powers
<1>3. final \in Byte /\ 59 \in Byte /\ 60 \in Byte /\ 77 \in Byte
  BY DEF Byte
<1>4. CSI \o <<60>> \o Decimal(code) \o <<59>> \o Decimal(column)
          \o <<59>> \o Decimal(row) \o <<final>> \in Bytes
  <2> HIDE DEF code, column, row, final
  <2>1. Decimal(code) \in Bytes /\ Decimal(column) \in Bytes /\ Decimal(row) \in Bytes
    BY <1>2, SmallDigits, Digits
  <2>2. <<59>> \in Bytes /\ <<60>> \in Bytes /\ <<final>> \in Bytes
    BY <1>3, Tuple1
  <2>3. QED  BY Zenon, <2>1, <2>2, Literals, Joined
<1>5. ASSUME NEW utf8
      PROVE  EncodeLegacyMouse(event, utf8) \in Bytes
  <2> DEFINE first == (IF event.kind = "Up" THEN 3 ELSE MouseCode(event)) + 32
             values == <<first, event.column + 33, event.row + 33>>
             bytes == IF utf8 THEN Utf8Values(values) ELSE LegacyValues(values)
  <2>1. /\ first \in Nat /\ first <= MaxChar
        /\ event.column + 33 \in Nat /\ event.column + 33 <= MaxChar
        /\ event.row + 33 \in Nat /\ event.row + 33 <= MaxChar
    BY SMT, <1>1, <1>2 DEF MaxChar
  <2>2. Utf8Values(values) \in Bytes
    <3>1. Utf8(first) \in Bytes /\ Utf8(event.column + 33) \in Bytes
          /\ Utf8(event.row + 33) \in Bytes
      BY <2>1, Utf8Bytes
    <3>2. /\ values[1] = first /\ values[2] = event.column + 33
          /\ values[3] = event.row + 33
      OBVIOUS
    <3> HIDE DEF first, values
    <3>3. Utf8(values[1]) \o Utf8(values[2]) \o Utf8(values[3]) \in Bytes
      BY Zenon, <3>1, <3>2, Joined
    <3>4. QED  BY <3>3, Tuple0 DEF Utf8Values
  <2>3. LegacyValues(values) \in Bytes
    <3>1. CASE \E i \in 1..3 : values[i] > 255
      BY <3>1, Tuple0 DEF LegacyValues
    <3>2. CASE ~\E i \in 1..3 : values[i] > 255
      <4>1. ~(values[1] > 255) /\ ~(values[2] > 255) /\ ~(values[3] > 255)
        BY <3>2
      <4>2. first \in Byte /\ event.column + 33 \in Byte /\ event.row + 33 \in Byte
        BY SMT, <4>1, <2>1 DEF Byte
      <4>3. LegacyValues(values) = values
        BY <3>2 DEF LegacyValues
      <4> HIDE DEF first
      <4>4. QED  BY <4>2, <4>3, Tuple3
    <3>3. QED  BY <3>1, <3>2
  <2>4. EncodeLegacyMouse(event, utf8) = IF bytes = <<>> THEN <<>> ELSE CSI \o <<77>> \o bytes
    BY DEF EncodeLegacyMouse
  <2>5. bytes \in Bytes
    BY <2>2, <2>3
  <2> HIDE DEF bytes
  <2>6. CSI \o <<77>> \o bytes \in Bytes
    BY <1>3, <2>5, Literals, Tuple1, Joined
  <2>7. QED  BY <2>4, <2>6, Tuple0
<1>6. QED  BY Zenon, <1>4, <1>5, Tuple0 DEF EncodeMouse

\* What an event sends to the server are bytes.
LEMMA EncodedBytes ==
    ASSUME NEW event \in Events, NEW m \in Modes
    PROVE  Encode(event, m) \in Bytes
<1>1. CASE event \in KeyEvents
  <2>1. event.type = "Key"
    BY <1>1 DEF KeyEvents
  <2>2. Encode(event, m) = EncodeKey(event, m.cursor_key)
    BY Zenon, <2>1 DEF Encode
  <2>3. QED  BY <1>1, <2>2, KeyBytes
<1>2. CASE event \in MouseEvents
  <2>1. event.type = "Mouse"
    BY <1>2 DEF MouseEvents
  <2>2. Encode(event, m) = EncodeMouse(event, m.mouse_tracking, m.mouse_encoding)
    BY Zenon, <2>1 DEF Encode
  <2>3. QED  BY <1>2, <2>2, MouseBytes
<1>3. CASE event \in PasteEvents
  <2>1. event.type = "Paste" /\ event.text \in Bytes
    BY <1>3 DEF PasteEvents, Bytes, Byte
  <2>2. Encode(event, m) = EncodePaste(event.text, m.bracketed_paste)
    BY Zenon, <2>1 DEF Encode
  <2>3. 48 \in Byte /\ 49 \in Byte /\ 50 \in Byte /\ 126 \in Byte
    BY DEF Byte
  <2>4. <<50, 48, 48, 126>> \in Bytes /\ <<50, 48, 49, 126>> \in Bytes
    BY <2>3, Tuple4
  <2>5. CSI \o <<50, 48, 48, 126>> \o event.text \o CSI \o <<50, 48, 49, 126>> \in Bytes
    BY Zenon, <2>1, <2>4, Literals, Joined
  <2>6. QED  BY Zenon, <2>1, <2>2, <2>5 DEF EncodePaste
<1>4. CASE event \in FocusEvents
  <2>1. event.type = "Focus"
    BY <1>4 DEF FocusEvents
  <2>2. Encode(event, m) = EncodeFocus(event.focused, m.focus_reporting)
    BY Zenon, <2>1 DEF Encode
  <2>3. (IF event.focused THEN 73 ELSE 79) \in Byte
    BY DEF Byte
  <2>4. CSI \o <<IF event.focused THEN 73 ELSE 79>> \in Bytes
    BY <2>3, Literals, Tuple1, Joined
  <2>5. QED  BY Zenon, <2>2, <2>4, Tuple0 DEF EncodeFocus
<1>5. CASE event \in ResizeEvents
  <2>1. event.type = "Resize"
    BY <1>5 DEF ResizeEvents
  <2>2. Encode(event, m) = <<>>
    BY Zenon, <2>1 DEF Encode
  <2>3. QED  BY <2>2, Tuple0
<1>6. QED  BY <1>1, <1>2, <1>3, <1>4, <1>5 DEF Events

(***************************************************************************)
(* The reading of the user's events, one event at a time.  It is a recursive   *)
(* function: that there is one, and that it depends on the events read so far  *)
(* only, is shown by induction.                                              *)
(***************************************************************************)
LEMMA Induction ==
    ASSUME NEW S, 0 \in S, \A n \in Nat : n \in S => n + 1 \in S
    PROVE  Nat \subseteq S
<1> DEFINE T == Nat \ S
<1> SUFFICES ASSUME T # {} PROVE FALSE
  OBVIOUS
<1>1. PICK k \in T : \A j \in T : ~(<<j, k>> \in OpToRel(<, Nat))
  BY WFMin, NatLessThanWellFounded
<1>2. \A j \in T : ~(j < k)
  BY <1>1 DEF OpToRel
<1>3. k \in Nat /\ k # 0
  BY <1>1
<1>4. k - 1 \in Nat /\ k - 1 < k /\ (k - 1) + 1 = k
  BY <1>3
<1>5. k - 1 \in S
  BY <1>2, <1>4
<1>6. QED  BY <1>1, <1>4, <1>5

\* A function that reads the first N of the events.
Reads(byte, events, N, f) ==
    f = [n \in 0..N |-> IF n = 0 THEN Unheard ELSE Heard(byte, f[n - 1], events[n])]

LEMMA ReadsExists ==
    ASSUME NEW byte, NEW events
    PROVE  \A N \in Nat : \E f : Reads(byte, events, N, f)
<1> DEFINE S == {N \in Nat : \E f : Reads(byte, events, N, f)}
<1>1. 0 \in S
  <2> DEFINE f == [n \in 0..0 |-> Unheard]
  <2>1. f = [n \in 0..0 |-> IF n = 0 THEN Unheard ELSE Heard(byte, f[n - 1], events[n])]
    <3>1. \A n \in 0..0 : n = 0
      OBVIOUS
    <3>2. QED  BY <3>1
  <2> HIDE DEF f
  <2>2. QED  BY <2>1 DEF Reads
<1>2. ASSUME NEW N \in Nat, N \in S
      PROVE  N + 1 \in S
  <2>1. PICK f : Reads(byte, events, N, f)
    BY <1>2
  <2> DEFINE e == Heard(byte, f[N], events[N + 1])
             g == [n \in 0..(N + 1) |-> IF n = N + 1 THEN e ELSE f[n]]
             h == [n \in 0..(N + 1) |->
                     IF n = 0 THEN Unheard ELSE Heard(byte, g[n - 1], events[n])]
  <2>2. /\ \A n \in 0..(N + 1) : n = N + 1 \/ (n \in 0..N /\ n # N + 1)
        /\ \A n \in 0..N : n # 0 => n - 1 \in 0..N /\ n - 1 \in 0..(N + 1) /\ n - 1 # N + 1
        /\ N \in 0..(N + 1) /\ N # N + 1 /\ N + 1 # 0 /\ (N + 1) - 1 = N
        /\ N + 1 \in 0..(N + 1) /\ 0..N \subseteq 0..(N + 1)
    OBVIOUS
  <2>3. \A n \in 0..N : f[n] = IF n = 0 THEN Unheard ELSE Heard(byte, f[n - 1], events[n])
    BY <2>1 DEF Reads
  <2>4. g[N + 1] = e /\ \A n \in 0..N : g[n] = f[n]
    <3>1. g[N + 1] = e
      BY <2>2
    <3>2. ASSUME NEW n \in 0..N PROVE g[n] = f[n]
      BY <2>2
    <3>3. QED  BY <3>1, <3>2
  <2>5. ASSUME NEW n \in 0..(N + 1) PROVE g[n] = h[n]
    <3>1. CASE n = N + 1
      <4>1. h[n] = Heard(byte, g[N], events[N + 1])
        BY Zenon, <2>2, <3>1
      <4>2. g[N] = f[N]
        BY <2>4
      <4>3. QED  BY Zenon, <2>4, <3>1, <4>1, <4>2
    <3>2. CASE n \in 0..N /\ n = 0
      BY Zenon, <2>2, <2>3, <2>4, <3>2
    <3>3. CASE n \in 0..N /\ n # 0
      <4>1. h[n] = Heard(byte, g[n - 1], events[n])
        BY Zenon, <3>3
      <4>2. g[n - 1] = f[n - 1]
        BY Zenon, <2>2, <2>4, <3>3
      <4>3. f[n] = Heard(byte, f[n - 1], events[n])
        BY Zenon, <2>3, <3>3
      <4>4. QED  BY Zenon, <2>4, <3>3, <4>1, <4>2, <4>3
    <3>4. QED  BY Zenon, <2>2, <3>1, <3>2, <3>3
  <2>6. g = h
    BY Zenon, <2>5
  <2>7. Reads(byte, events, N + 1, g)
    BY Zenon, <2>6 DEF Reads
  <2> HIDE DEF g
  <2>8. N + 1 \in Nat
    OBVIOUS
  <2>9. QED  BY <2>7, <2>8
<1> HIDE DEF S
<1>3. Nat \subseteq S
  BY Zenon, <1>1, <1>2, Induction
<1>4. QED  BY <1>3 DEF S

\* What was read depends on what is read only.
LEMMA ReadsAgree ==
    ASSUME NEW byte, NEW s, NEW t, NEW M \in Nat, NEW N \in Nat, NEW f, NEW g,
           Reads(byte, s, M, f), Reads(byte, t, N, g), M <= N,
           \A n \in 1..M : s[n] = t[n]
    PROVE  f[M] = g[M]
<1> DEFINE S == {n \in Nat : n <= M => f[n] = g[n]}
<1>1. \A n \in 0..M : f[n] = IF n = 0 THEN Unheard ELSE Heard(byte, f[n - 1], s[n])
  BY DEF Reads
<1>2. \A n \in 0..N : g[n] = IF n = 0 THEN Unheard ELSE Heard(byte, g[n - 1], t[n])
  BY DEF Reads
<1>3. 0 \in S
  <2>1. 0 \in 0..M /\ 0 \in 0..N
    OBVIOUS
  <2>2. QED  BY <1>1, <1>2, <2>1
<1>4. ASSUME NEW n \in Nat, n \in S
      PROVE  n + 1 \in S
  <2> SUFFICES ASSUME n + 1 <= M PROVE f[n + 1] = g[n + 1]
    OBVIOUS
  <2>1. /\ n + 1 \in 0..M /\ n + 1 \in 0..N /\ n + 1 # 0 /\ (n + 1) - 1 = n /\ n + 1 \in 1..M
        /\ n <= M
    OBVIOUS
  <2>2. f[n + 1] = Heard(byte, f[n], s[n + 1]) /\ g[n + 1] = Heard(byte, g[n], t[n + 1])
    BY <1>1, <1>2, <2>1
  <2>3. f[n] = g[n] /\ s[n + 1] = t[n + 1]
    BY <1>4, <2>1
  <2>4. QED  BY <2>2, <2>3
<1> HIDE DEF S
<1>5. Nat \subseteq S
  BY Zenon, <1>3, <1>4, Induction
<1>6. QED  BY <1>5 DEF S

LEMMA ReadingReads ==
    ASSUME NEW byte, NEW events, Len(events) \in Nat
    PROVE  \E f : Reads(byte, events, Len(events), f) /\ Reading(byte, events) = f[Len(events)]
<1> DEFINE f == CHOOSE f : Reads(byte, events, Len(events), f)
<1>1. Reads(byte, events, Len(events), f)
  BY ReadsExists
<1>2. Reading(byte, events) = f[Len(events)]
  BY DEF Reading, Reads
<1>3. QED  BY <1>1, <1>2

LEMMA ReadingNothing == \A byte : Reading(byte, <<>>) = Unheard
<1> SUFFICES ASSUME NEW byte PROVE Reading(byte, <<>>) = Unheard
  OBVIOUS
<1>1. Len(<<>>) = 0
  OBVIOUS
<1>2. PICK f : Reads(byte, <<>>, 0, f) /\ Reading(byte, <<>>) = f[0]
  BY <1>1, ReadingReads
<1>3. QED  BY <1>2 DEF Reads

\* One more event is heard after all the others.
LEMMA ReadingMore ==
    ASSUME NEW byte, NEW E, NEW events \in Seq(E), NEW e \in E
    PROVE  Reading(byte, Append(events, e)) = Heard(byte, Reading(byte, events), e)
<1> DEFINE N == Len(events)
           more == Append(events, e)
<1>1. /\ N \in Nat /\ Len(more) = N + 1 /\ N + 1 \in Nat /\ N <= N + 1
      /\ \A n \in 1..N : events[n] = more[n]
      /\ more[N + 1] = e
  OBVIOUS
<1>2. N + 1 \in 0..(N + 1) /\ N + 1 # 0 /\ (N + 1) - 1 = N
  <2>1. \A n \in Nat : n + 1 \in 0..(n + 1) /\ n + 1 # 0 /\ (n + 1) - 1 = n
    OBVIOUS
  <2>2. QED  BY Zenon, <1>1, <2>1
<1> HIDE DEF N, more
<1>3. PICK f : Reads(byte, events, N, f) /\ Reading(byte, events) = f[N]
  BY <1>1, ReadingReads DEF N
<1>4. PICK g : Reads(byte, more, N + 1, g) /\ Reading(byte, more) = g[N + 1]
  BY <1>1, ReadingReads
<1>5. f[N] = g[N]
  BY <1>1, <1>3, <1>4, ReadsAgree
<1>6. g[N + 1] = Heard(byte, g[N], more[N + 1])
  BY <1>2, <1>4 DEF Reads
<1>7. QED  BY <1>1, <1>3, <1>4, <1>5, <1>6 DEF more

(***************************************************************************)
(* The interpreter and the reading.                                         *)
(***************************************************************************)
Entries == [key : BOOLEAN, typing : BOOLEAN, bytes : Bytes]
Readings == [sent : Bytes, text : Bytes, open : BOOLEAN]
Interpreters == [escape_byte : 0..255, prefix_held : BOOLEAN, at_line_start : BOOLEAN]

\* An event as it is remembered.
Entry(event, m) == [key |-> event.type = "Key", typing |-> event.type \in {"Key", "Paste"},
                    bytes |-> Encode(event, m)]

LEMMA EntryType ==
    ASSUME NEW event \in Events, NEW m \in Modes
    PROVE  Entry(event, m) \in Entries
<1>1. Encode(event, m) \in Bytes
  BY EncodedBytes
<1>2. (event.type = "Key") \in BOOLEAN /\ (event.type \in {"Key", "Paste"}) \in BOOLEAN
  OBVIOUS
<1>3. QED  BY Zenon, <1>1, <1>2 DEF Entry, Entries

\* Sequences of bytes.
LEMMA Unjoined == \A s \in Bytes : s \o <<>> = s /\ <<>> \o s = s
BY DEF Bytes

LEMMA JoinedNotEmpty == \A s, t \in Bytes : s # <<>> => s \o t # <<>>
BY DEF Bytes

LEMMA LastJoined ==
    ASSUME NEW s \in Bytes, NEW t \in Bytes, t # <<>>
    PROVE  LineStart(s \o t) = (t[Len(t)] \in LineEnds)
<1>1. /\ s \o t # <<>> /\ Len(s \o t) = Len(s) + Len(t) /\ Len(t) > 0
      /\ Len(s) \in Nat /\ Len(t) \in Nat
  BY DEF Bytes
<1>2. (s \o t)[Len(s) + Len(t)] = t[Len(t)]
  BY <1>1 DEF Bytes
<1> DEFINE x == s \o t
           n == Len(x)
<1>3. x # <<>> /\ x[n] = t[Len(t)]
  BY Zenon, <1>1, <1>2
<1> HIDE DEF x
<1>4. LineStart(x) <=> t[Len(t)] \in LineEnds
  BY Zenon, <1>3 DEF LineStart
<1>5. LineStart(x) \in BOOLEAN
  BY DEF LineStart
<1>6. LineStart(x) = (t[Len(t)] \in LineEnds)
  BY <1>4, <1>5
<1>7. QED  BY <1>6 DEF x

LEMMA MeantType ==
    ASSUME NEW byte \in Byte, NEW r \in Readings, NEW e \in Entries
    PROVE  Meant(byte, r, e) \in Bytes
<1>1. <<byte>> \in Bytes /\ e.bytes \in Bytes /\ <<>> \in Bytes
  BY Tuple0, Tuple1 DEF Entries
<1>2. <<byte>> \o e.bytes \in Bytes
  BY <1>1, Joined
<1>3. QED  BY Zenon, <1>1, <1>2 DEF Meant

LEMMA HeardType ==
    ASSUME NEW byte \in Byte, NEW r \in Readings, NEW e \in Entries
    PROVE  Heard(byte, r, e) \in Readings
<1>1. r.sent \in Bytes /\ r.text \in Bytes /\ <<byte>> \in Bytes
  BY Tuple1 DEF Readings
<1>2. /\ r.sent \o Meant(byte, r, e) \in Bytes /\ r.text \o Meant(byte, r, e) \in Bytes
      /\ r.text \o <<byte>> \in Bytes
  BY <1>1, MeantType, Joined
<1>3. CASE Opens(byte, r, e)
  BY <1>3 DEF Heard, Readings
<1>4. CASE ~Opens(byte, r, e)
  <2> DEFINE text == IF e.typing THEN r.text \o Meant(byte, r, e)
                     ELSE IF r.open THEN r.text \o <<byte>> ELSE r.text
  <2>1. text \in Bytes
    BY Zenon, <1>1, <1>2
  <2>2. Heard(byte, r, e) = [sent |-> r.sent \o Meant(byte, r, e), text |-> text, open |-> FALSE]
    BY Zenon, <1>4 DEF Heard
  <2> HIDE DEF text
  <2>3. QED  BY <1>2, <2>1, <2>2 DEF Readings
<1>5. QED  BY <1>3, <1>4

\* The interpreter is where the reading is.
Agree(byte, esc, r) ==
    /\ esc.escape_byte = byte
    /\ esc.prefix_held = r.open
    /\ Graphic(byte) => esc.at_line_start = LineStart(r.text)

LEMMA ForwardAgrees ==
    ASSUME NEW byte \in Byte, NEW esc \in Interpreters, esc.escape_byte = byte,
           NEW r \in Readings, NEW bytes \in Bytes, bytes # <<>>,
           NEW sent
    PROVE  /\ Forward(esc, bytes).escape \in Interpreters
           /\ Forward(esc, bytes).bytes = bytes /\ Forward(esc, bytes).action = "Forward"
           /\ Agree(byte, Forward(esc, bytes).escape,
                    [sent |-> sent, text |-> r.text \o bytes, open |-> FALSE])
<1> DEFINE last == bytes[Len(bytes)] \in LineEnds
           after == [esc EXCEPT !.prefix_held = FALSE, !.at_line_start = last]
<1>1. last \in BOOLEAN
  OBVIOUS
<1>2. LineStart(r.text \o bytes) = last
  BY LastJoined DEF Readings
<1>3. Forward(esc, bytes) = [escape |-> after, action |-> "Forward", bytes |-> bytes]
  BY DEF Forward, Acting
<1> HIDE DEF last
<1>4. after \in Interpreters /\ after.escape_byte = byte /\ after.at_line_start = last
      /\ after.prefix_held = FALSE
  BY <1>1 DEF Interpreters
<1> HIDE DEF after
<1>5. /\ Forward(esc, bytes).escape = after /\ Forward(esc, bytes).bytes = bytes
      /\ Forward(esc, bytes).action = "Forward"
  BY <1>3
<1>6. Agree(byte, after, [sent |-> sent, text |-> r.text \o bytes, open |-> FALSE])
  BY Zenon, <1>2, <1>4 DEF Agree
<1>7. QED  BY Zenon, <1>4, <1>5, <1>6

\* input: what the interpreter forwards is what the user meant, and a command or a held
\* prefix sends nothing.
LEMMA KeyAgrees ==
    ASSUME NEW byte \in Byte, NEW esc \in Interpreters, NEW r \in Readings,
           Agree(byte, esc, r), NEW e \in Entries, e.key, e.typing, e.bytes # <<>>
    PROVE  /\ EscapeInput(esc, e.bytes).escape \in Interpreters
           /\ EscapeInput(esc, e.bytes).bytes \in Bytes
           /\ Agree(byte, EscapeInput(esc, e.bytes).escape, Heard(byte, r, e))
           /\ Heard(byte, r, e).sent = r.sent \o EscapeInput(esc, e.bytes).bytes
           /\ EscapeInput(esc, e.bytes).action # "Forward" => EscapeInput(esc, e.bytes).bytes = <<>>
<1> DEFINE i == EscapeInput(esc, e.bytes)
           h == Heard(byte, r, e)
           prefix == <<byte>>
           released == [esc EXCEPT !.prefix_held = FALSE]
<1>1. /\ esc.escape_byte = byte /\ esc.prefix_held = r.open /\ e.bytes \in Bytes
      /\ r.sent \in Bytes /\ r.text \in Bytes /\ r.open \in BOOLEAN
      /\ esc.prefix_held \in BOOLEAN /\ esc.at_line_start \in BOOLEAN
  BY DEF Agree, Interpreters, Entries, Readings
<1>2. prefix \in Bytes /\ prefix # <<>> /\ prefix \o e.bytes \in Bytes /\ prefix \o e.bytes # <<>>
  <2>1. prefix \in Bytes /\ prefix # <<>>
    BY Tuple1
  <2> HIDE DEF prefix
  <2>2. QED  BY <1>1, <2>1, Joined, JoinedNotEmpty
<1>3. /\ released \in Interpreters /\ released.escape_byte = byte
      /\ released.prefix_held = FALSE /\ released.at_line_start = esc.at_line_start
  BY <1>1 DEF Interpreters
<1> SUFFICES /\ i.escape \in Interpreters /\ i.bytes \in Bytes
             /\ Agree(byte, i.escape, h)
             /\ h.sent = r.sent \o i.bytes
             /\ i.action # "Forward" => i.bytes = <<>>
  OBVIOUS
<1> HIDE DEF i, h, released, prefix
<1>4. CASE esc.prefix_held
  <2>1. i = SecondKey(esc, e.bytes)
    BY Zenon, <1>4 DEF EscapeInput, i
  <2>2. ~Opens(byte, r, e)
    BY <1>1, <1>4 DEF Opens
  <2>3. h = [sent |-> r.sent \o Meant(byte, r, e), text |-> r.text \o Meant(byte, r, e),
             open |-> FALSE]
    BY Zenon, <2>2 DEF Heard, h
  <2>4. r.open
    BY <1>1, <1>4
  <2>5. CASE e.bytes \in {<<46>>, <<63>>, <<26>>}
    <3>1. Meant(byte, r, e) = <<>>
      BY Zenon, <2>4, <2>5 DEF Meant
    <3>2. h = [sent |-> r.sent, text |-> r.text, open |-> FALSE]
      BY Zenon, <1>1, <2>3, <3>1, Unjoined
    <3>3. PICK action \in {"Quit", "Help", "Suspend"} : i = Acting(released, action, <<>>)
      BY Zenon, <2>1, <2>5 DEF SecondKey, released
    <3>4. i.escape = released /\ i.bytes = <<>>
      BY <3>3 DEF Acting
    <3>5. Agree(byte, released, h)
      <4>1. h.open = FALSE /\ h.text = r.text /\ h.sent = r.sent
        BY <3>2
      <4>2. QED  BY <1>3, <4>1 DEF Agree
    <3>6. h.sent = r.sent \o i.bytes
      <4>1. h.sent = r.sent
        BY <3>2
      <4>2. QED  BY Zenon, <1>1, <3>4, <4>1, Unjoined
    <3>7. QED  BY Zenon, <1>3, <3>4, <3>5, <3>6, Tuple0
  <2>6. CASE /\ e.bytes \notin {<<46>>, <<63>>, <<26>>}
             /\ e.bytes = <<LiteralEscapeSuffix(byte)>>
    <3>1. Meant(byte, r, e) = prefix
      BY Zenon, <2>4, <2>6 DEF Meant, prefix
    <3>2. i = Forward(released, prefix)
      BY Zenon, <1>1, <2>1, <2>6 DEF SecondKey, released, prefix
    <3>3. h = [sent |-> r.sent \o prefix, text |-> r.text \o prefix, open |-> FALSE]
      BY Zenon, <2>3, <3>1
    <3>4. /\ i.escape \in Interpreters /\ i.bytes = prefix /\ i.action = "Forward"
          /\ Agree(byte, i.escape, [sent |-> r.sent \o prefix, text |-> r.text \o prefix,
                                    open |-> FALSE])
      BY <1>2, <1>3, <3>2, ForwardAgrees
    <3>5. h.sent = r.sent \o prefix
      BY <3>3
    <3>6. Agree(byte, i.escape, h)
      BY Zenon, <3>3, <3>4
    <3>7. QED  BY Zenon, <1>2, <3>4, <3>5, <3>6
  <2>7. CASE /\ e.bytes \notin {<<46>>, <<63>>, <<26>>}
             /\ e.bytes # <<LiteralEscapeSuffix(byte)>>
    <3>1. Meant(byte, r, e) = prefix \o e.bytes
      BY Zenon, <2>4, <2>7 DEF Meant, prefix
    <3>2. i = Forward(released, prefix \o e.bytes)
      BY Zenon, <1>1, <2>1, <2>7 DEF SecondKey, released, prefix
    <3>3. h = [sent |-> r.sent \o (prefix \o e.bytes), text |-> r.text \o (prefix \o e.bytes), open |-> FALSE]
      BY Zenon, <2>3, <3>1
    <3>4. /\ i.escape \in Interpreters /\ i.bytes = prefix \o e.bytes /\ i.action = "Forward"
          /\ Agree(byte, i.escape, [sent |-> r.sent \o (prefix \o e.bytes), text |-> r.text \o (prefix \o e.bytes),
                                    open |-> FALSE])
      BY <1>2, <1>3, <3>2, ForwardAgrees
    <3>5. h.sent = r.sent \o (prefix \o e.bytes)
      BY <3>3
    <3>6. Agree(byte, i.escape, h)
      BY Zenon, <3>3, <3>4
    <3>7. QED  BY Zenon, <1>2, <3>4, <3>5, <3>6
  <2>8. QED  BY <2>5, <2>6, <2>7
<1>5. CASE ~esc.prefix_held /\ e.bytes = prefix /\ (~Graphic(byte) \/ esc.at_line_start)
  <2> DEFINE held == [esc EXCEPT !.prefix_held = TRUE]
  <2>1. i = Acting(held, "Hold", <<>>)
    BY Zenon, <1>1, <1>5 DEF EscapeInput, i, prefix
  <2>2. held \in Interpreters /\ held.escape_byte = byte /\ held.prefix_held = TRUE
        /\ held.at_line_start = esc.at_line_start
    BY <1>1 DEF Interpreters
  <2>3. Opens(byte, r, e)
    <3>1. Graphic(byte) => LineStart(r.text)
      BY <1>5 DEF Agree
    <3>2. ~r.open
      BY <1>1, <1>5
    <3>3. QED  BY Zenon, <1>5, <3>1, <3>2 DEF Opens, prefix
  <2>4. h = [r EXCEPT !.open = TRUE]
    BY Zenon, <2>3 DEF Heard, h
  <2>5. h.sent = r.sent /\ h.text = r.text /\ h.open = TRUE
    BY <2>4 DEF Readings
  <2> HIDE DEF held
  <2>6. i.escape = held /\ i.bytes = <<>>
    BY <2>1 DEF Acting
  <2>7. Agree(byte, held, h)
    BY <2>2, <2>5 DEF Agree
  <2>8. h.sent = r.sent \o i.bytes
    BY Zenon, <1>1, <2>5, <2>6, Unjoined
  <2>9. QED  BY Zenon, <2>2, <2>6, <2>7, <2>8, Tuple0
<1>6. CASE ~esc.prefix_held /\ ~(e.bytes = prefix /\ (~Graphic(byte) \/ esc.at_line_start))
  <2>1. i = Forward(esc, e.bytes)
    BY Zenon, <1>1, <1>6 DEF EscapeInput, i, prefix
  <2>2. ~Opens(byte, r, e)
    <3>1. Graphic(byte) => esc.at_line_start = LineStart(r.text)
      BY DEF Agree
    <3>2. CASE e.bytes # prefix
      BY Zenon, <3>2 DEF Opens, prefix
    <3>3. CASE Graphic(byte) /\ ~esc.at_line_start
      <4>1. ~LineStart(r.text)
        BY <3>1, <3>3
      <4>2. QED  BY Zenon, <3>3, <4>1 DEF Opens
    <3>4. QED  BY Zenon, <1>6, <3>2, <3>3
  <2>3. ~r.open
    BY <1>1, <1>6
  <2>4. Meant(byte, r, e) = e.bytes
    BY Zenon, <2>3 DEF Meant
  <2>5. h = [sent |-> r.sent \o e.bytes, text |-> r.text \o e.bytes, open |-> FALSE]
    BY Zenon, <2>2, <2>4 DEF Heard, h
  <2>6. /\ i.escape \in Interpreters /\ i.bytes = e.bytes /\ i.action = "Forward"
        /\ Agree(byte, i.escape, [sent |-> r.sent \o e.bytes, text |-> r.text \o e.bytes,
                                  open |-> FALSE])
    BY <1>1, <2>1, ForwardAgrees
  <2>7. h.sent = r.sent \o e.bytes
    BY <2>5
  <2>8. Agree(byte, i.escape, h)
    BY Zenon, <2>5, <2>6
  <2>9. QED  BY Zenon, <1>1, <2>6, <2>7, <2>8
<1>7. QED  BY Zenon, <1>4, <1>5, <1>6

\* flush: anything but a key gives a held prefix back first.
LEMMA OtherAgrees ==
    ASSUME NEW byte \in Byte, NEW esc \in Interpreters, NEW r \in Readings,
           Agree(byte, esc, r), NEW e \in Entries, ~e.key, Graphic(byte) => ~e.typing
    PROVE  LET f == Flush(esc)
               h == Heard(byte, r, e)
           IN  /\ Agree(byte, f.escape, h)
               /\ h.sent = r.sent \o (f.bytes \o e.bytes)
<1> DEFINE f == Flush(esc)
           h == Heard(byte, r, e)
           prefix == <<byte>>
<1>1. /\ esc.escape_byte = byte /\ esc.prefix_held = r.open /\ e.bytes \in Bytes
      /\ r.sent \in Bytes /\ r.text \in Bytes /\ r.open \in BOOLEAN
      /\ esc.prefix_held \in BOOLEAN /\ esc.at_line_start \in BOOLEAN
  BY DEF Agree, Interpreters, Entries, Readings
<1>2. ~Opens(byte, r, e)
  BY DEF Opens
<1>3. prefix \in Bytes /\ prefix # <<>> /\ prefix[Len(prefix)] = byte
  BY Tuple1
<1>4. h.sent = r.sent \o Meant(byte, r, e) /\ h.open = FALSE
      /\ h.text = IF e.typing THEN r.text \o Meant(byte, r, e)
                  ELSE IF r.open THEN r.text \o prefix ELSE r.text
  BY <1>2 DEF Heard
<1>5. CASE esc.prefix_held
  <2> DEFINE after == [esc EXCEPT !.prefix_held = FALSE, !.at_line_start = FALSE]
  <2>1. f = Acting(after, "Forward", prefix)
    BY Zenon, <1>1, <1>5 DEF Flush
  <2>2. after.escape_byte = byte /\ after.prefix_held = FALSE /\ after.at_line_start = FALSE
    BY <1>1 DEF Interpreters
  <2> HIDE DEF after
  <2>3. f.escape = after /\ f.bytes = prefix
    BY <2>1 DEF Acting
  <2>4. Meant(byte, r, e) = prefix \o e.bytes
    BY Zenon, <1>1, <1>5 DEF Meant
  <2>5. Graphic(byte) => ~LineStart(h.text)
    <3> SUFFICES ASSUME Graphic(byte) PROVE ~LineStart(h.text)
      OBVIOUS
    <3>1. h.text = r.text \o prefix
      BY <1>1, <1>4, <1>5
    <3>2. LineStart(r.text \o prefix) = (byte \in LineEnds)
      BY <1>1, <1>3, LastJoined
    <3>3. byte \notin LineEnds
      BY DEF Graphic, LineEnds
    <3>4. QED  BY <3>1, <3>2, <3>3
  <2>6. LineStart(h.text) \in BOOLEAN
    BY DEF LineStart
  <2>7. Agree(byte, after, h)
    BY <1>4, <2>2, <2>5, <2>6 DEF Agree
  <2>8. QED  BY <1>4, <2>3, <2>4, <2>7
<1>6. CASE ~esc.prefix_held
  <2>1. f = Acting(esc, "Hold", <<>>)
    BY Zenon, <1>6 DEF Flush
  <2>2. f.escape = esc /\ f.bytes = <<>>
    BY <2>1 DEF Acting
  <2>3. Meant(byte, r, e) = e.bytes /\ <<>> \o e.bytes = e.bytes
    BY <1>1, <1>6, Unjoined DEF Meant
  <2>4. Graphic(byte) => h.text = r.text
    BY <1>1, <1>4, <1>6
  <2>5. Agree(byte, esc, h)
    BY <1>1, <1>4, <1>6, <2>4 DEF Agree
  <2>6. QED  BY Zenon, <1>4, <2>2, <2>3, <2>5
<1>7. QED  BY <1>1, <1>5, <1>6

(***************************************************************************)
(* Steps that leave the input alone.                                        *)
(***************************************************************************)
Causes == {"none", "startup", "terminal", "network", "input", "suspend"}
Over == {"Leaving", "Ended"}

\* The reason of a failure may change as long as the loop runs.
Silent ==
    /\ UNCHANGED <<settings, escape, typed, queued>>
    /\ cause' \in Causes
    /\ cause' = "input" => pc' \in Over
    /\ pc \in Over => (cause' = "input" <=> cause = "input")

LEMMA SilentInput ==
    ASSUME InputType, InputInv, Silent
    PROVE  InputType' /\ InputInv'
<1>1. InputType'
  BY DEF InputType, Silent, Causes
<1> DEFINE reading == Reading(settings.escape_byte, typed)
<1>2. reading' = reading /\ PasteFree' = PasteFree
  BY DEF Silent, PasteFree
<1>3. cause' # "input" => cause # "input"
  BY DEF InputInv, Silent, Over
<1>4. InputInv'
  <2>1. /\ cause' = "input" => pc' \in {"Leaving", "Ended"}
        /\ escape'.escape_byte = settings'.escape_byte
        /\ reading' \in [sent : Bytes, text : Bytes, open : BOOLEAN]
    BY <1>2 DEF InputInv, Silent, Over
  <2>2. PasteFree =>
              /\ cause' # "input" => queued' = reading'.sent
              /\ escape'.prefix_held = reading'.open
              /\ Graphic(settings'.escape_byte) =>
                    escape'.at_line_start = LineStart(reading'.text)
    BY Zenon, <1>2, <1>3 DEF InputInv, Silent
  <2>3. QED  BY Zenon, <1>2, <2>1, <2>2 DEF InputInv
<1>5. QED  BY <1>1, <1>4

LEMMA OutsideSilent ==
    ASSUME InputType, InputInv, UNCHANGED <<settings, loopVars, inputVars>>
    PROVE  Silent
BY DEF InputType, InputInv, Silent, Causes, Over, loopVars, inputVars

\* The steps of the client that read no event of the user.
LEMMA ClientSilent ==
    ASSUME ControlInv, InputType, InputInv,
           \/ StartFails \/ EnterTerminal \/ StartSession \/ CheckTermination
           \/ NetworkDrained \/ NetworkRefused \/ ReceiveFails
           \/ ReceiveOutput \/ ReceiveShutdown \/ ReceiveAcknowledgement
           \/ ClearNoticeFails \/ TerminalDrained \/ PollSends \/ PollSendFails
           \/ ResumeClient
    PROVE  Silent
<1>1. /\ UNCHANGED <<settings, escape, typed, queued>>
      /\ pc \notin Over
      /\ \/ UNCHANGED cause
         \/ cause' \in {"startup", "terminal", "network", "suspend"}
         \/ cause' = "input" /\ pc' = "Leaving"
  <2>1. CASE StartFails
    BY <2>1 DEF StartFails, hostVars, inputVars, Over
  <2>2. CASE EnterTerminal
    BY <2>2 DEF EnterTerminal, Continue, hostVars, inputVars, Over
  <2>3. CASE StartSession
    BY <2>3 DEF StartSession, Continue, Fail, hostVars, inputVars, Over
  <2>4. CASE CheckTermination
    BY <2>4 DEF CheckTermination, Continue, hostVars, inputVars, Over
  <2>5. CASE NetworkDrained
    BY <2>5 DEF NetworkDrained, Continue, hostVars, inputVars, Over
  <2>6. CASE NetworkRefused
    BY <2>6 DEF NetworkRefused, Leave, Fail, hostVars, inputVars, Over
  <2>7. CASE ReceiveFails
    BY <2>7 DEF ReceiveFails, Receiving, Fail, hostVars, inputVars, Over
  <2>8. CASE ReceiveOutput
    BY <2>8 DEF ReceiveOutput, Receiving, Fail, Continue, hostVars, Over
  <2>9. CASE ReceiveShutdown
    BY <2>9 DEF ReceiveShutdown, Receiving, Continue, hostVars, inputVars, Over
  <2>10. CASE ReceiveAcknowledgement
    BY <2>10 DEF ReceiveAcknowledgement, Receiving, Continue, hostVars, inputVars, Over
  <2>11. CASE ClearNoticeFails
    BY <2>11 DEF ClearNoticeFails, EventRead, Fail, hostVars, Over
  <2>12. CASE TerminalDrained
    BY <2>12 DEF TerminalDrained, Continue, Fail, hostVars, inputVars, Over
  <2>13. CASE PollSends
    BY <2>13 DEF PollSends, PollRuns, Leave, Continue, hostVars, inputVars, Over
  <2>14. CASE PollSendFails
    BY <2>14 DEF PollSendFails, PollRuns, Fail, hostVars, inputVars, Over
  <2>15. CASE ResumeClient
    BY <2>15 DEF ResumeClient, Continue, Fail, hostVars, inputVars, Over
  <2>16. QED
    BY <2>1, <2>2, <2>3, <2>4, <2>5, <2>6, <2>7, <2>8, <2>9, <2>10, <2>11, <2>12, <2>13,
       <2>14, <2>15
<1>2. cause \in Causes /\ (cause = "input" => pc \in Over)
  BY DEF InputType, InputInv, Causes, Over
<1>3. QED  BY <1>1, <1>2 DEF Silent, Causes, Over

LEMMA LeaveLoopSilent ==
    ASSUME InputType, LeaveLoop
    PROVE  Silent
BY DEF InputType, LeaveLoop, Silent, Causes, Over, hostVars, inputVars

(***************************************************************************)
(* Steps that handle an event.                                              *)
(***************************************************************************)
\* What holds when an event is read.
LEMMA AtEvent ==
    ASSUME ControlType, InputType, InputInv, pc = "Terminal", NEW event \in settings.events
    PROVE  /\ event \in Events /\ Entry(event, modes) \in Entries
           /\ Entry(event, modes).bytes = Encode(event, modes)
           /\ typed \in Seq(Entries) /\ queued \in Bytes
           /\ settings.escape_byte \in Byte /\ escape \in Interpreters
           /\ escape.escape_byte = settings.escape_byte
           /\ Reading(settings.escape_byte, typed) \in Readings
           /\ PasteFree => /\ queued = Reading(settings.escape_byte, typed).sent
                           /\ Agree(settings.escape_byte, escape,
                                    Reading(settings.escape_byte, typed))
<1>1. event \in Events /\ modes \in Modes /\ settings.escape_byte \in Byte
  BY ClientAssumption DEF ControlType, Byte
<1>2. Entry(event, modes) \in Entries
  BY <1>1, EntryType
<1>3. Entry(event, modes).bytes = Encode(event, modes)
  BY DEF Entry
<1>4. cause # "input"
  BY DEF InputInv
<1>5. QED
  BY <1>1, <1>2, <1>3, <1>4 DEF InputType, InputInv, Entries, Readings, Interpreters, Agree

\* The event is remembered; the interpreter and the queue follow the reading.
LEMMA EventInput ==
    ASSUME ControlType, InputType, InputInv, pc = "Terminal", NEW event \in settings.events,
           settings' = settings, typed' = Append(typed, Entry(event, modes)),
           cause' \in Causes, cause' = "input" => pc' \in Over,
           queued' \in Bytes, escape' \in Interpreters,
           escape'.escape_byte = settings.escape_byte,
           LET h == Heard(settings.escape_byte, Reading(settings.escape_byte, typed),
                          Entry(event, modes))
           IN  PasteFree => /\ cause' # "input" => queued' = h.sent
                            /\ Agree(settings.escape_byte, escape', h)
    PROVE  InputType' /\ InputInv'
<1> DEFINE byte == settings.escape_byte
           e == Entry(event, modes)
           h == Heard(byte, Reading(byte, typed), e)
<1>1. /\ e \in Entries /\ typed \in Seq(Entries) /\ byte \in Byte
      /\ Reading(byte, typed) \in Readings
  BY AtEvent
<1>2. typed' \in Seq(Entries)
  <2> HIDE DEF e
  <2>1. \A s \in Seq(Entries) : Append(s, e) \in Seq(Entries)
    BY <1>1
  <2>2. QED  BY <1>1, <2>1 DEF e
<1>3. InputType'
  BY <1>2 DEF InputType, Causes, Entries, Interpreters
<1>4. Reading(byte', typed') = h
  <2>1. byte' = byte
    OBVIOUS
  <2>2. Reading(byte, Append(typed, e)) = h
    BY <1>1, ReadingMore
  <2>3. QED  BY Zenon, <2>1, <2>2
<1>5. h \in Readings
  BY <1>1, HeardType
<1>6. PasteFree' = PasteFree
  BY DEF PasteFree
<1>7. PasteFree => /\ cause' # "input" => queued' = h.sent
                   /\ escape'.prefix_held = h.open
                   /\ Graphic(byte') => escape'.at_line_start = LineStart(h.text)
  BY DEF Agree
<1>8. InputInv'
  <2>1. Reading(byte', typed') \in [sent : Bytes, text : Bytes, open : BOOLEAN]
    BY <1>4, <1>5 DEF Readings
  <2>2. (cause' = "input" => pc' \in {"Leaving", "Ended"}) /\ escape'.escape_byte = byte'
    BY DEF Over
  <2> HIDE DEF h
  <2>3. QED  BY Zenon, <1>4, <1>6, <1>7, <2>1, <2>2 DEF InputInv
<1>9. QED  BY <1>3, <1>8

\* There is a reading for every state of the interpreter.
LEMMA SomeReading ==
    ASSUME NEW esc \in Interpreters
    PROVE  \E r \in Readings : Agree(esc.escape_byte, esc, r)
<1> DEFINE text == IF esc.at_line_start THEN <<>> ELSE <<0>>
           r == [sent |-> <<>>, text |-> text, open |-> esc.prefix_held]
<1>1. esc.prefix_held \in BOOLEAN /\ esc.at_line_start \in BOOLEAN
  BY DEF Interpreters
<1>2. <<>> \in Bytes /\ <<0>> \in Bytes
  <2>1. 0 \in Byte
    BY DEF Byte
  <2>2. QED  BY <2>1, Tuple0, Tuple1
<1>3. text \in Bytes
  BY Zenon, <1>2
<1>4. esc.at_line_start = LineStart(text)
  <2>1. CASE esc.at_line_start
    BY <1>1, <2>1 DEF LineStart
  <2>2. CASE ~esc.at_line_start
    <3>1. text = <<0>> /\ text # <<>> /\ text[Len(text)] = 0 /\ 0 \notin LineEnds
      BY <2>2 DEF LineEnds
    <3>2. LineStart(text) = FALSE
      BY <3>1 DEF LineStart
    <3>3. QED  BY <1>1, <2>2, <3>2
  <2>3. QED  BY <1>1, <2>1, <2>2
<1> HIDE DEF text
<1>5. r \in Readings
  BY <1>1, <1>2, <1>3 DEF Readings
<1>6. Agree(esc.escape_byte, esc, r)
  BY <1>4 DEF Agree
<1>7. QED  BY <1>5, <1>6

LEMMA InterpretedType ==
    ASSUME NEW esc \in Interpreters, NEW bytes \in Bytes, bytes # <<>>
    PROVE  /\ EscapeInput(esc, bytes).escape \in Interpreters
           /\ EscapeInput(esc, bytes).escape.escape_byte = esc.escape_byte
           /\ EscapeInput(esc, bytes).bytes \in Bytes
<1>1. PICK r \in Readings : Agree(esc.escape_byte, esc, r)
  BY SomeReading
<1> DEFINE e == [key |-> TRUE, typing |-> TRUE, bytes |-> bytes]
<1>2. e \in Entries /\ e.key /\ e.typing /\ e.bytes = bytes
  BY DEF Entries
<1>3. esc.escape_byte \in Byte
  BY DEF Interpreters, Byte
<1> HIDE DEF e
<1>4. /\ EscapeInput(esc, bytes).escape \in Interpreters
      /\ EscapeInput(esc, bytes).bytes \in Bytes
      /\ Agree(esc.escape_byte, EscapeInput(esc, bytes).escape, Heard(esc.escape_byte, r, e))
  BY <1>1, <1>2, <1>3, KeyAgrees
<1>5. QED  BY <1>4 DEF Agree

LEMMA FlushType ==
    ASSUME NEW esc \in Interpreters
    PROVE  /\ Flush(esc).escape \in Interpreters
           /\ Flush(esc).escape.escape_byte = esc.escape_byte
           /\ Flush(esc).bytes \in Bytes
<1>1. esc.escape_byte \in Byte /\ esc.prefix_held \in BOOLEAN
  BY DEF Interpreters, Byte
<1>2. <<>> \in Bytes /\ <<esc.escape_byte>> \in Bytes
  BY <1>1, Tuple0, Tuple1
<1>3. CASE esc.prefix_held
  <2> DEFINE after == [esc EXCEPT !.prefix_held = FALSE, !.at_line_start = FALSE]
  <2>1. Flush(esc) = [escape |-> after, action |-> "Forward", bytes |-> <<esc.escape_byte>>]
    BY Zenon, <1>3 DEF Flush, Acting
  <2>2. after \in Interpreters /\ after.escape_byte = esc.escape_byte
    BY DEF Interpreters
  <2> HIDE DEF after
  <2>3. QED  BY <1>2, <2>1, <2>2
<1>4. CASE ~esc.prefix_held
  <2>1. Flush(esc) = [escape |-> esc, action |-> "Hold", bytes |-> <<>>]
    BY Zenon, <1>4 DEF Flush, Acting
  <2>2. QED  BY <1>2, <2>1
<1>5. QED  BY <1>1, <1>3, <1>4

\* A key: only what is forwarded is queued.
LEMMA KeyInput ==
    ASSUME ControlType, InputType, InputInv, NEW event \in settings.events, NEW action,
           KeyEvent(event, action), settings' = settings,
           cause' \in Causes, cause' = "input" => pc' \in Over,
           action = "Forward" =>
              \/ queued' = queued \o Interpreted(event).bytes
              \/ queued' = queued /\ cause' = "input",
           action # "Forward" => queued' = queued
    PROVE  InputType' /\ InputInv'
<1> DEFINE byte == settings.escape_byte
           e == Entry(event, modes)
           r == Reading(byte, typed)
           i == EscapeInput(escape, Encode(event, modes))
           h == Heard(byte, r, e)
<1>1. /\ pc = "Terminal" /\ event.type = "Key" /\ Encode(event, modes) # <<>>
      /\ typed' = Append(typed, e) /\ i.action = action /\ escape' = i.escape
  BY DEF KeyEvent, Handling, EventRead, Interpreted, Entry
<1>2. /\ e \in Entries /\ e.bytes = Encode(event, modes) /\ queued \in Bytes
      /\ byte \in Byte /\ escape \in Interpreters /\ escape.escape_byte = byte
      /\ r \in Readings /\ (PasteFree => queued = r.sent /\ Agree(byte, escape, r))
  BY <1>1, AtEvent
<1>3. e.key /\ e.typing
  BY <1>1 DEF Entry
<1>4. /\ i.escape \in Interpreters /\ i.escape.escape_byte = byte /\ i.bytes \in Bytes
  <2> DEFINE b == Encode(event, modes)
  <2>1. b \in Bytes /\ b # <<>>
    BY <1>1, <1>2 DEF Entries
  <2> HIDE DEF b
  <2>2. /\ EscapeInput(escape, b).escape \in Interpreters
        /\ EscapeInput(escape, b).escape.escape_byte = byte
        /\ EscapeInput(escape, b).bytes \in Bytes
    BY <1>2, <2>1, InterpretedType
  <2>3. QED  BY <2>2 DEF b
<1>5. Interpreted(event).bytes = i.bytes
  BY DEF Interpreted
<1>6. PasteFree => /\ Agree(byte, i.escape, h) /\ h.sent = r.sent \o i.bytes
                   /\ i.action # "Forward" => i.bytes = <<>>
  <2> SUFFICES ASSUME PasteFree
               PROVE  /\ Agree(byte, i.escape, h) /\ h.sent = r.sent \o i.bytes
                      /\ i.action # "Forward" => i.bytes = <<>>
    OBVIOUS
  <2>1. e.bytes # <<>> /\ i = EscapeInput(escape, e.bytes)
    BY <1>1, <1>2
  <2> HIDE DEF e, r, i
  <2>2. /\ Agree(byte, EscapeInput(escape, e.bytes).escape, h)
        /\ h.sent = r.sent \o EscapeInput(escape, e.bytes).bytes
        /\ EscapeInput(escape, e.bytes).action # "Forward"
              => EscapeInput(escape, e.bytes).bytes = <<>>
    BY <1>2, <1>3, <2>1, KeyAgrees
  <2> HIDE DEF h
  <2>3. QED  BY Zenon, <2>1, <2>2
<1> HIDE DEF i, h
<1>7. queued' \in Bytes
  BY <1>2, <1>4, <1>5, Joined
<1>8. PasteFree => (cause' # "input" => queued' = h.sent)
  BY Zenon, <1>1, <1>2, <1>5, <1>6, Unjoined
<1>9. PasteFree => (cause' # "input" => queued' = h.sent) /\ Agree(byte, escape', h)
  BY Zenon, <1>1, <1>6, <1>8
<1>10. QED  BY <1>1, <1>4, <1>7, <1>9, EventInput DEF h

\* Anything else: what is queued comes after the prefix.
LEMMA OtherInput ==
    ASSUME ControlType, InputType, InputInv, NEW event \in settings.events,
           event.type # "Key", Handling(event), settings' = settings,
           escape' = Flush(escape).escape,
           cause' \in Causes, cause' = "input" => pc' \in Over,
           queued' \in Bytes,
           cause' # "input" =>
              queued' = queued \o (Flush(escape).bytes \o Encode(event, modes))
    PROVE  InputType' /\ InputInv'
<1> DEFINE byte == settings.escape_byte
           e == Entry(event, modes)
           r == Reading(byte, typed)
           h == Heard(byte, r, e)
<1>1. pc = "Terminal" /\ typed' = Append(typed, e)
  BY DEF Handling, EventRead, Entry
<1>2. /\ e \in Entries /\ e.bytes = Encode(event, modes)
      /\ byte \in Byte /\ escape \in Interpreters /\ escape.escape_byte = byte
      /\ r \in Readings /\ (PasteFree => queued = r.sent /\ Agree(byte, escape, r))
  BY <1>1, AtEvent
<1>3. ~e.key /\ (e.typing => event.type = "Paste")
  BY DEF Entry
<1>4. PasteFree => (Graphic(byte) => ~e.typing)
  BY <1>3 DEF PasteFree
<1>5. /\ Flush(escape).escape \in Interpreters /\ Flush(escape).escape.escape_byte = byte
  BY <1>2, FlushType
<1>6. PasteFree => /\ Agree(byte, Flush(escape).escape, h)
                   /\ h.sent = r.sent \o (Flush(escape).bytes \o e.bytes)
  <2> HIDE DEF e, r
  <2>1. QED  BY <1>2, <1>3, <1>4, OtherAgrees
<1> HIDE DEF h
<1>7. PasteFree => (cause' # "input" => queued' = h.sent) /\ Agree(byte, escape', h)
  BY Zenon, <1>2, <1>6
<1>8. QED  BY <1>1, <1>5, <1>7, EventInput DEF h


\* Each kind of event.
LEMMA KeyStep ==
    ASSUME ControlType, InputType, InputInv, NEW event \in settings.events,
           \/ KeyHeld(event) \/ KeyHelp(event) \/ KeyForwarded(event) \/ KeyQuit(event)
           \/ KeySuspend(event)
    PROVE  InputType' /\ InputInv'
<1>1. cause \in Causes /\ (pc = "Terminal" => cause # "input")
  BY DEF InputType, InputInv, Causes
<1>2. CASE KeyHeld(event) \/ KeyHelp(event) \/ KeyQuit(event) \/ KeySuspend(event)
  <2>1. PICK action \in {"Hold", "Help", "Quit", "Suspend"} : KeyEvent(event, action)
    BY <1>2 DEF KeyHeld, KeyHelp, KeyQuit, KeySuspend
  <2>2. pc = "Terminal"
    BY <2>1 DEF KeyEvent, Handling, EventRead
  <2>3. /\ settings' = settings /\ queued' = queued /\ cause' \in {cause, "terminal"}
    BY <1>2 DEF KeyHeld, KeyHelp, KeyQuit, KeySuspend, Continue, Fail, hostVars
  <2>4. cause' \in Causes /\ cause' # "input"
    BY <1>1, <2>2, <2>3 DEF Causes
  <2>5. action # "Forward"
    BY <2>1
  <2>6. QED  BY <2>1, <2>3, <2>4, <2>5, KeyInput
<1>3. CASE KeyForwarded(event)
  <2>1. KeyEvent(event, "Forward") /\ pc = "Terminal" /\ settings' = settings
    BY <1>3 DEF KeyForwarded, KeyEvent, Handling, EventRead, hostVars
  <2>2. \/ queued' = queued \o Interpreted(event).bytes /\ cause' \in {cause, "terminal"}
        \/ queued' = queued /\ cause' = "input" /\ pc' = "Leaving"
    BY <1>3 DEF KeyForwarded, QueueInput, Queued, QueueFull, Continue, Fail
  <2>3. cause' \in Causes /\ (cause' = "input" => pc' \in Over)
    BY <1>1, <2>1, <2>2 DEF Causes, Over
  <2>4. \/ queued' = queued \o Interpreted(event).bytes
        \/ queued' = queued /\ cause' = "input"
    BY Zenon, <2>2
  <2>5. QED  BY <2>1, <2>3, <2>4, KeyInput
<1>4. QED  BY <1>2, <1>3

LEMMA OtherStep ==
    ASSUME ControlType, InputType, InputInv, NEW event \in settings.events,
           OtherEvent(event) \/ ResizeEvent(event)
    PROVE  InputType' /\ InputInv'
<1> DEFINE prefix == Flush(escape).bytes
           bytes == Encode(event, modes)
<1>1. /\ event.type \in {"Paste", "Mouse", "Focus", "Resize"} /\ Handling(event)
      /\ pc = "Terminal" /\ escape' = Flush(escape).escape /\ settings' = settings
  BY DEF OtherEvent, ResizeEvent, Handling, EventRead, hostVars
<1>2. cause \in Causes /\ cause # "input"
  BY <1>1 DEF InputType, InputInv, Causes
<1>3. queued \in Bytes /\ prefix \in Bytes /\ bytes \in Bytes
  <2>1. escape \in Interpreters /\ queued \in Bytes
    BY DEF InputType, Interpreters
  <2>2. Entry(event, modes) \in Entries /\ Entry(event, modes).bytes = bytes
    BY <1>1, AtEvent
  <2>3. bytes \in Bytes
    BY <2>2 DEF Entries
  <2>4. QED  BY <2>1, <2>3, FlushType
<1>4. event.type = "Resize" => bytes = <<>>
  BY DEF Encode
<1>5. /\ prefix \o bytes \in Bytes /\ queued \o prefix \in Bytes
      /\ queued \o (prefix \o bytes) \in Bytes /\ prefix \o <<>> = prefix
  <2> HIDE DEF prefix, bytes
  <2>1. prefix \o bytes \in Bytes /\ queued \o prefix \in Bytes /\ prefix \o <<>> = prefix
    BY <1>3, Joined, Unjoined
  <2>2. QED  BY <1>3, <2>1, Joined
<1>6. \/ queued' = queued \o (prefix \o bytes) /\ cause' \in {cause, "terminal"}
      \/ queued' \in {queued, queued \o prefix} /\ cause' = "input" /\ pc' = "Leaving"
  <2>1. CASE OtherEvent(event)
    BY <2>1 DEF OtherEvent, QueueInput, Queued, QueueFull, WithPrefix, Continue, Fail
  <2>2. CASE ResizeEvent(event)
    <3>1. prefix \o bytes = prefix
      <4>1. bytes = <<>>
        BY <2>2, <1>4 DEF ResizeEvent
      <4>2. QED  BY Zenon, <1>5, <4>1
    <3>2. \/ queued' = queued \o prefix /\ cause' \in {cause, "terminal"}
          \/ queued' = queued /\ cause' = "input" /\ pc' = "Leaving"
      BY <2>2 DEF ResizeEvent, QueueInput, Queued, QueueFull, Continue, Fail
    <3> HIDE DEF prefix, bytes
    <3>3. QED  BY Zenon, <3>1, <3>2
  <2>3. QED  BY <2>1, <2>2
<1> HIDE DEF prefix, bytes
<1>7. queued' \in Bytes
  BY Zenon, <1>3, <1>5, <1>6
<1>8. /\ cause' \in Causes /\ (cause' = "input" => pc' \in Over)
  BY <1>2, <1>6 DEF Causes, Over
<1>9. cause' # "input" => queued' = queued \o (prefix \o bytes)
  BY Zenon, <1>6
<1>10. event.type # "Key"
  BY <1>1
<1>11. QED  BY <1>1, <1>7, <1>8, <1>9, <1>10, OtherInput DEF prefix, bytes

LEMMA InputInit == Init => InputType /\ InputInv
<1> SUFFICES ASSUME Init PROVE InputType /\ InputInv
  OBVIOUS
<1> DEFINE byte == settings.escape_byte
<1>1. byte \in Byte /\ escape = NewEscape(byte) /\ typed = <<>> /\ queued = <<>>
      /\ cause = "none"
  BY ClientAssumption DEF Init, Byte
<1>2. escape = [escape_byte |-> byte, prefix_held |-> FALSE, at_line_start |-> TRUE]
  BY <1>1 DEF NewEscape
<1>3. InputType
  <2>1. escape \in Interpreters
    BY <1>1, <1>2 DEF Interpreters, Byte
  <2>2. typed \in Seq(Entries)
    BY <1>1
  <2>3. queued \in Bytes
    BY <1>1, Tuple0
  <2>4. QED  BY <1>1, <2>1, <2>2, <2>3 DEF InputType, Interpreters, Entries
<1>4. Reading(byte, typed) = Unheard
  BY <1>1, ReadingNothing
<1>5. /\ Unheard \in Readings /\ Unheard.sent = <<>> /\ Unheard.open = FALSE
      /\ LineStart(Unheard.text) = TRUE
  BY Tuple0 DEF Unheard, Readings, LineStart
<1>6. InputInv
  <2>1. /\ escape.prefix_held = FALSE /\ escape.at_line_start = TRUE /\ escape.escape_byte = byte
    BY <1>2
  <2>2. Unheard \in [sent : Bytes, text : Bytes, open : BOOLEAN]
    BY <1>5 DEF Readings
  <2>3. cause # "input"
    BY <1>1
  <2>4. QED  BY Zenon, <1>1, <1>4, <1>5, <2>1, <2>2, <2>3 DEF InputInv
<1>7. QED  BY <1>3, <1>6

\* Every step keeps the interpreter and the queue where the reading is.
LEMMA InputNext ==
    ASSUME ControlInv, InputType, InputInv, [Next]_vars
    PROVE  InputType' /\ InputInv'
<1>0. ControlType
  BY DEF ControlInv
<1>1. CASE ClientStep \/ ResumeClient
  <2>1. CASE \E event \in settings.events :
                \/ KeyHeld(event) \/ KeyHelp(event) \/ KeyForwarded(event) \/ KeyQuit(event)
                \/ KeySuspend(event)
    BY <1>0, <2>1, KeyStep
  <2>2. CASE \E event \in settings.events : OtherEvent(event) \/ ResizeEvent(event)
    BY <1>0, <2>2, OtherStep
  <2>3. CASE LeaveLoop
    BY <2>3, LeaveLoopSilent, SilentInput
  <2>4. CASE \/ StartFails \/ EnterTerminal \/ StartSession \/ CheckTermination
             \/ NetworkDrained \/ NetworkRefused \/ ReceiveFails
             \/ ReceiveOutput \/ ReceiveShutdown \/ ReceiveAcknowledgement
             \/ ClearNoticeFails \/ TerminalDrained \/ PollSends \/ PollSendFails
             \/ ResumeClient
    BY <2>4, ClientSilent, SilentInput
  <2>5. QED  BY Zenon, <1>1, <2>1, <2>2, <2>3, <2>4 DEF ClientStep
<1>2. CASE Signal \/ TerminalGone \/ Datagram \/ ServerGone \/ UNCHANGED vars
  <2>1. UNCHANGED <<settings, loopVars, inputVars>>
    BY <1>2 DEF Signal, TerminalGone, Datagram, ServerGone, vars, hostVars
  <2>2. QED  BY <2>1, OutsideSilent, SilentInput
<1>3. QED  BY <1>1, <1>2 DEF Next

(***************************************************************************)
(* The theorems.                                                            *)
(***************************************************************************)
\* The inductive invariant of the client's loop, its terminal, its peer and its input holds
\* in every state, for every configuration, user, remote program and number of polls.
THEOREM Invariance == Spec => []IInv
<1>1. Init => IInv
  BY InitInv, InputInit DEF IInv
<1>2. IInv /\ [Next]_vars => IInv'
  BY NextInv, InputNext DEF IInv
<1>3. QED  BY <1>1, <1>2, PTL DEF Spec

\* Every variable stays in its type; in particular whatever encode_event makes of a key, a
\* paste, a mouse or a focus event is a sequence of bytes, in every mode of the terminal.
THEOREM TypeCorrect == Spec => []TypeOK
<1>1. IInv => TypeOK
  BY DEF IInv, ControlInv, TypeOK
<1>2. QED  BY <1>1, Invariance, PTL

\* TerminalGuard (enter, deactivate_terminal, drop) and every way out of run and event_loop:
\* however the client ends, and while it is suspended, the local terminal is out of raw mode.
\* While it still takes output it is also out of everything the session switched on and of
\* the remote program's paste, mouse and focus reports; the modes that deactivate_terminal
\* never resets (keypad, insert, origin, wrap, margins, cursor, and the alternate screen and
\* cursor keys when the session does not use them itself) are at their default or as the
\* remote program selected them.
THEOREM TerminalSafe == Spec => []TerminalRestored
<1>1. IInv => TerminalRestored
  BY DEF IInv, ControlInv, GuardInv, GivenBack, TerminalRestored
<1>2. QED  BY <1>1, Invariance, PTL

\* event_loop and drain_network: whatever is lost, late or repeated and whichever side began,
\* a shutdown that is reported as clean leaves no server running.
THEOREM CleanStop == Spec => []CleanMeansStopped
<1>1. IInv => CleanMeansStopped
  BY DEF IInv, ControlInv
<1>2. QED  BY <1>1, Invariance, PTL

\* EscapeInterpreter and drain_terminal: whatever the user types, clicks, pastes and resizes,
\* the bytes given to queue_input are what a reading of the events says, none lost, repeated
\* or overtaken, until a full queue ends the session.  The one exception is a printable
\* prefix with pastes, which do not count for its line (MCPastedPrefix.cfg).
THEOREM NothingLost == Spec => [](PasteFree => InputInOrder)
<1>1. IInv => (PasteFree => InputInOrder)
  BY Zenon DEF IInv, InputInv, InputInOrder
<1>2. QED  BY <1>1, Invariance, PTL
=============================================================================
