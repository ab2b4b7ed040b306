----------------------------- MODULE TitleFilter -----------------------------
(***************************************************************************)
(* TitleOutputFilter (ferrumtty-terminal): the state machine that server      *)
(* output goes through before it reaches the terminal.  It holds back title   *)
(* controls, which it replaces by ones with a prefix, and lets everything     *)
(* else pass.                                                                *)
(*                                                                         *)
(* A byte is a symbol: "ESC", "OSC" (0x9d), "ST" (0x9c), "CAN" (0x18 and      *)
(* 0x1a), "BEL", "]", "semi" (the semicolon), "bs" (the backslash), or any    *)
(* other one.  The prefix is one symbol, too.  The filter is one record, as   *)
(* the struct is; the operators give what a call returns and leaves behind.  *)
(***************************************************************************)
EXTENDS Integers, Sequences

CONSTANTS
    MAX_OSC_COMMAND_BYTES,     \* 16 in the code
    MAX_REMOTE_TITLE_BYTES     \* 1024 in the code

ASSUME FilterAssumption ==
    MAX_OSC_COMMAND_BYTES \in Nat \ {0} /\ MAX_REMOTE_TITLE_BYTES \in Nat \ {0}

Policies == {"PreserveRemote", "MoshPrefix"}
Commands == {"IconAndWindow", "Icon", "Window"}
MoshPrefix == <<"[mosh]">>
Terminators == {"BEL", "ST"}

(***************************************************************************)
(* TitleFilterState.                                                        *)
(***************************************************************************)
Ground == [mode |-> "Ground"]
Escape == [mode |-> "Escape"]
OscHeader(bytes, pending) == [mode |-> "OscHeader", bytes |-> bytes, pending |-> pending]
Title(command, bytes, pending) ==
    [mode |-> "Title", command |-> command, bytes |-> bytes, pending |-> pending]
PassthroughOsc(pending) == [mode |-> "PassthroughOsc", pending |-> pending]
DiscardTitle(pending) == [mode |-> "DiscardTitle", pending |-> pending]

NewFilter(policy) ==
    [policy |-> policy, state |-> Ground,
     initialized |-> FALSE, icon |-> <<>>, window |-> <<>>,
     prefix_active |-> policy = "MoshPrefix",
     displayed |-> <<>>]          \* None, or the icon and the window title

\* What one byte does: the filter afterwards and the bytes let through.
Result(filter, out) == [filter |-> filter, out |-> out]
Moved(filter, state, out) == Result([filter EXCEPT !.state = state], out)

(***************************************************************************)
(* Titles.                                                                  *)
(***************************************************************************)
Introducer(bytes) == IF bytes[1] = "ESC" THEN 2 ELSE 1
OscCommandLength(bytes) == Len(bytes) - Introducer(bytes)

\* title_command: the command of a title control, if it is one.
TitleCommand(bytes) ==
    LET field == SubSeq(bytes, Introducer(bytes) + 1, Len(bytes))
    IN  CASE field \in {<<>>, <<"0">>} -> {"IconAndWindow"}
          [] field = <<"1">> -> {"Icon"}
          [] field = <<"2">> -> {"Window"}
          [] OTHER -> {}

EncodeTitles(icon, window) ==
    IF icon = window
    THEN <<"ESC", "]", "0", "semi">> \o window \o <<"BEL">>
    ELSE <<"ESC", "]", "1", "semi">> \o icon \o <<"BEL">>
         \o <<"ESC", "]", "2", "semi">> \o window \o <<"BEL">>

SetRemoteTitle(filter, command, bytes) ==
    [filter EXCEPT !.initialized = TRUE,
                   !.icon = IF command = "Window" THEN @ ELSE bytes,
                   !.window = IF command = "Icon" THEN @ ELSE bytes]

\* The icon and the window title to display.
Displayed(filter) ==
    LET window == IF filter.prefix_active THEN MoshPrefix \o filter.window ELSE filter.window
    IN  << IF filter.prefix_active /\ filter.icon = filter.window THEN window ELSE filter.icon,
           window >>

\* A bug the properties must catch: what is displayed is not remembered when the
\* prefix is taken away.
EmitTitles_RememberPrefixed(filter) ==
    LET titles == Displayed(filter)
    IN  IF ~filter.initialized \/ filter.displayed = titles
        THEN Result(filter, <<>>)
        ELSE Result([filter EXCEPT !.displayed = IF filter.prefix_active THEN titles ELSE @],
                    EncodeTitles(titles[1], titles[2]))

\* emit_titles: nothing when they are displayed already.
EmitTitles(filter) ==
    LET titles == Displayed(filter)
    IN  IF ~filter.initialized \/ filter.displayed = titles
        THEN Result(filter, <<>>)
        ELSE Result([filter EXCEPT !.displayed = titles], EncodeTitles(titles[1], titles[2]))

\* A title control ended: the filter returns to ground and the new titles go out.
TitleEnds(filter) ==
    EmitTitles([SetRemoteTitle(filter, filter.state.command, filter.state.bytes)
                EXCEPT !.state = Ground])

(***************************************************************************)
(* process_byte, one operator per state.                                    *)
(***************************************************************************)
InGround(filter, byte) ==
    CASE byte = "ESC" -> Moved(filter, Escape, <<>>)
      [] byte = "OSC" -> Moved(filter, OscHeader(<<"OSC">>, FALSE), <<>>)
      [] OTHER -> Moved(filter, Ground, <<byte>>)

InEscape(filter, byte) ==
    IF byte = "]" THEN Moved(filter, OscHeader(<<"ESC", "]">>, FALSE), <<>>)
    ELSE Moved(filter, Ground, <<"ESC", byte>>)

\* What ends a control that has no title to keep.
EndsOsc(pending, byte) == (pending /\ byte = "bs") \/ byte \in Terminators \cup {"CAN"}

\* The header goes on; one that is no title's, or is too long, is let through.
LongerHeader(filter, bytes, byte) ==
    IF byte = "ESC" THEN Moved(filter, OscHeader(bytes, TRUE), <<>>)
    ELSE IF byte = "semi" /\ TitleCommand(bytes) # {}
    THEN Moved(filter, Title(CHOOSE c \in TitleCommand(bytes) : TRUE, <<>>, FALSE), <<>>)
    ELSE IF byte = "semi" \/ OscCommandLength(bytes) >= MAX_OSC_COMMAND_BYTES
    THEN Moved(filter, PassthroughOsc(FALSE), Append(bytes, byte))
    ELSE Moved(filter, OscHeader(Append(bytes, byte), FALSE), <<>>)

HeaderBytes(state) == IF state.pending THEN Append(state.bytes, "ESC") ELSE state.bytes

\* A bug the properties must catch: a control that ends in its header is dropped.
InOscHeader_DropEmpty(filter, byte) ==
    IF EndsOsc(filter.state.pending, byte) THEN Moved(filter, Ground, <<>>)
    ELSE LongerHeader(filter, HeaderBytes(filter.state), byte)

\* Until the command is known the control is held back.
InOscHeader(filter, byte) ==
    LET bytes == HeaderBytes(filter.state)
    IN  IF EndsOsc(filter.state.pending, byte) THEN Moved(filter, Ground, Append(bytes, byte))
        ELSE LongerHeader(filter, bytes, byte)

TitleFull(bytes) == Len(bytes) >= MAX_REMOTE_TITLE_BYTES

\* A title that is cancelled, or longer than the bound, is dropped.
InTitle(filter, byte) ==
    LET state == filter.state
        full == TitleFull(state.bytes)
        bytes == IF state.pending /\ ~full THEN Append(state.bytes, "ESC") ELSE state.bytes
        held == [filter EXCEPT !.state.bytes = bytes]
    IN  IF state.pending /\ byte = "bs" THEN TitleEnds(filter)
        ELSE IF byte \in Terminators THEN TitleEnds(held)
        ELSE IF byte = "CAN" THEN Moved(filter, Ground, <<>>)
        ELSE IF byte = "ESC" THEN Moved(filter, Title(state.command, bytes, TRUE), <<>>)
        ELSE IF (state.pending /\ full) \/ TitleFull(bytes)
        THEN Moved(filter, DiscardTitle(FALSE), <<>>)
        ELSE Moved(filter, Title(state.command, Append(bytes, byte), FALSE), <<>>)

InPassthroughOsc(filter, byte) ==
    Moved(filter, IF EndsOsc(filter.state.pending, byte) THEN Ground
                  ELSE PassthroughOsc(byte = "ESC"), <<byte>>)

InDiscardTitle(filter, byte) ==
    Moved(filter, IF EndsOsc(filter.state.pending, byte) THEN Ground
                  ELSE DiscardTitle(byte = "ESC"), <<>>)

ProcessByte(filter, byte) ==
    IF filter.policy # "MoshPrefix" THEN Result(filter, <<byte>>) ELSE
    CASE filter.state.mode = "Ground" -> InGround(filter, byte)
      [] filter.state.mode = "Escape" -> InEscape(filter, byte)
      [] filter.state.mode = "OscHeader" -> InOscHeader(filter, byte)
      [] filter.state.mode = "Title" -> InTitle(filter, byte)
      [] filter.state.mode = "PassthroughOsc" -> InPassthroughOsc(filter, byte)
      [] filter.state.mode = "DiscardTitle" -> InDiscardTitle(filter, byte)

(***************************************************************************)
(* Suspension and exit.                                                     *)
(***************************************************************************)
\* Switches the prefix off or on and emits the titles, unless nothing changes.
WithPrefix(filter, active) ==
    IF filter.policy # "MoshPrefix" \/ filter.prefix_active = active
    THEN Result(filter, <<>>)
    ELSE EmitTitles([filter EXCEPT !.prefix_active = active])

RestoreRemoteTitle(filter) == WithPrefix(filter, FALSE)
ReapplyPolicy(filter) == WithPrefix(filter, TRUE)
=============================================================================
