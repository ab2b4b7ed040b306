--------------------------- MODULE TitledTerminal ---------------------------
(***************************************************************************)
(* The title filter at work in the terminal guard: the server's output goes   *)
(* through it byte by byte, cut anywhere, and the guard takes the prefix away *)
(* and puts it back when the client is suspended, resumed and ended.          *)
(*                                                                         *)
(* The user's terminal is external.  Two of them are followed: `shown' gets   *)
(* what the client writes, `direct' what the server wrote, as if the user had *)
(* no client in between.                                                     *)
(***************************************************************************)
EXTENDS TitleFilter

CONSTANTS
    ServerItems,       \* what the server may write: whole characters and controls
    MaxItems,          \* a bound on how many of them it writes
    MaxSuspensions     \* a bound on the suspensions

ASSUME TitledAssumption ==
    /\ MaxItems \in Nat /\ MaxSuspensions \in Nat
    /\ ServerItems \subseteq Seq(STRING) \ {<<>>}

VARIABLES
    filter,       \* TerminalGuard.title_output
    session,      \* "Active", "Suspended" or "Ended": session_terminal_active
    unsent,       \* the rest of the item that the server is writing
    written,      \* the number of items it has begun to write
    suspensions,  \* the number of suspensions so far
    shown,        \* the user's terminal
    direct,       \* a terminal fed with the server's own output
    misread       \* history: the filter has met bytes that it takes for something else

vars == <<filter, session, unsent, written, suspensions, shown, direct, misread>>

(***************************************************************************)
(* The user's terminal.  It reads UTF-8, in the text and within controls: the  *)
(* byte after "lead" continues a character.  A control that is cancelled does *)
(* nothing.                                                                 *)
(***************************************************************************)
NewTerminal == [mode |-> "Ground", osc |-> <<>>, text |-> <<>>, others |-> <<>>,
                titled |-> FALSE, icon |-> <<>>, window |-> <<>>]

Separator(osc) == IF \E i \in 1..Len(osc) : osc[i] = "semi"
                  THEN CHOOSE i \in 1..Len(osc) :
                          osc[i] = "semi" /\ \A j \in 1..(i - 1) : osc[j] # "semi"
                  ELSE Len(osc) + 1

NoLimit == -1

\* The terminal performs a control, unless it is a title that `limit' forbids.
Perform(term, limit) ==
    LET at == Separator(term.osc)
        command == SubSeq(term.osc, 1, at - 1)
        title == SubSeq(term.osc, at + 1, Len(term.osc))
        done == [term EXCEPT !.mode = "Ground", !.osc = <<>>]
    IN  IF at > Len(term.osc) \/ command \notin {<<>>, <<"0">>, <<"1">>, <<"2">>}
        THEN [done EXCEPT !.others = Append(@, term.osc)]
        ELSE IF limit # NoLimit /\ Len(title) > limit THEN done
        ELSE [done EXCEPT !.titled = TRUE,
                          !.icon = IF command = <<"2">> THEN @ ELSE title,
                          !.window = IF command = <<"1">> THEN @ ELSE title]

\* The byte 0x9c continues a character of the control, such as U+201C, and ends nothing.
Continues(term, byte) ==
    /\ term.mode = "Osc" /\ byte = "ST"
    /\ term.osc # <<>> /\ term.osc[Len(term.osc)] = "lead"

ReadOsc(term, byte, limit) ==
    LET pending == term.mode = "OscEscape"
    IN  IF Continues(term, byte) THEN [term EXCEPT !.osc = Append(@, byte)]
        ELSE IF byte \in Terminators \/ (pending /\ byte = "bs") THEN Perform(term, limit)
        ELSE IF byte = "CAN" THEN [term EXCEPT !.mode = "Ground", !.osc = <<>>]
        ELSE IF byte = "ESC" THEN [term EXCEPT !.mode = "OscEscape"]
        ELSE [term EXCEPT !.mode = "Osc",
                          !.osc = IF pending THEN @ \o <<"ESC", byte>> ELSE Append(@, byte)]

ReadByte(term, byte, limit) ==
    CASE term.mode = "Lead" -> [term EXCEPT !.mode = IF byte = "lead" THEN "Lead" ELSE "Ground",
                                            !.text = Append(@, byte)]
      [] term.mode = "Ground" ->
           (CASE byte = "ESC" -> [term EXCEPT !.mode = "Escape"]
              [] byte = "OSC" -> [term EXCEPT !.mode = "Osc"]
              [] byte = "lead" -> [term EXCEPT !.mode = "Lead", !.text = Append(@, byte)]
              [] OTHER -> [term EXCEPT !.text = Append(@, byte)])
      [] term.mode = "Escape" ->
           (CASE byte = "]" -> [term EXCEPT !.mode = "Osc"]
              [] byte = "ESC" -> term
              [] OTHER -> [term EXCEPT !.mode = "Ground", !.text = @ \o <<"ESC", byte>>])
      [] term.mode \in {"Osc", "OscEscape"} -> ReadOsc(term, byte, limit)

\* The terminal after it has read all of bytes.
Reading(term, bytes) ==
    LET read[n \in 0..Len(bytes)] ==
            IF n = 0 THEN term ELSE ReadByte(read[n - 1], bytes[n], NoLimit)
    IN  read[Len(bytes)]

\* What process_byte takes for something else than the terminal, since it looks at single
\* bytes: an escape, 0x9d or, within a control, 0x9c that continues a character, and an
\* escape before another one or, within a control, before its end.
Misreads(policy, term, byte) ==
    /\ policy = "MoshPrefix"
    /\ \/ term.mode = "Lead" /\ byte \in {"ESC", "OSC"}
       \/ Continues(term, byte)
       \/ term.mode = "Escape" /\ byte = "ESC"
       \/ term.mode = "OscEscape" /\ byte \in {"ESC", "BEL", "ST"}

(***************************************************************************)
(* The guard.                                                               *)
(***************************************************************************)
Init ==
    /\ filter \in {NewFilter(policy) : policy \in Policies}
    /\ session = "Active"
    /\ unsent = <<>>
    /\ written = 0
    /\ suspensions = 0
    /\ shown = NewTerminal
    /\ direct = NewTerminal
    /\ misread = FALSE

\* The server starts to write another item.
ServerWrites ==
    /\ session = "Active" /\ unsent = <<>>
    /\ written < MaxItems
    /\ \E item \in ServerItems : unsent' = item
    /\ written' = written + 1
    /\ UNCHANGED <<filter, session, suspensions, shown, direct, misread>>

\* write_server_bytes, for one more byte of it.
WriteServerByte ==
    /\ session = "Active" /\ unsent # <<>>
    /\ LET result == ProcessByte(filter, Head(unsent))
       IN  filter' = result.filter /\ shown' = Reading(shown, result.out)
    /\ direct' = ReadByte(direct, Head(unsent), IF filter.policy = "MoshPrefix"
                                                THEN MAX_REMOTE_TITLE_BYTES ELSE NoLimit)
    /\ misread' = (misread \/ Misreads(filter.policy, direct, Head(unsent)))
    /\ unsent' = Tail(unsent)
    /\ UNCHANGED <<session, written, suspensions>>

\* deactivate_terminal: the titles are given back without the prefix, be it in the middle
\* of a control or a character that the terminal has only in part.
Deactivate(next) ==
    /\ session = "Active"
    /\ LET result == RestoreRemoteTitle(filter)
       IN  filter' = result.filter /\ shown' = Reading(shown, result.out)
    /\ session' = next
    /\ misread' = (misread \/ shown.mode # "Ground")
    /\ UNCHANGED <<unsent, written, direct>>

LeaveForSuspend ==
    /\ suspensions < MaxSuspensions
    /\ Deactivate("Suspended")
    /\ suspensions' = suspensions + 1

\* While the client is suspended the user's shell sets the title.
ShellTitle ==
    /\ session = "Suspended"
    /\ shown' = Reading(shown, <<"ESC", "]", "0", "semi", "shell", "BEL">>)
    /\ UNCHANGED <<filter, session, unsent, written, suspensions, direct, misread>>

ResumeAfterSuspend ==
    /\ session = "Suspended"
    /\ LET result == ReapplyPolicy(filter)
       IN  filter' = result.filter /\ shown' = Reading(shown, result.out)
    /\ session' = "Active"
    /\ UNCHANGED <<unsent, written, suspensions, direct, misread>>

\* The guard is dropped.
DropGuard == Deactivate("Ended") /\ UNCHANGED suspensions

Next ==
    \/ ServerWrites
    \/ WriteServerByte
    \/ LeaveForSuspend
    \/ ShellTitle
    \/ ResumeAfterSuspend
    \/ DropGuard

Spec == Init /\ [][Next]_vars

(***************************************************************************)
(* Properties.                                                              *)
(***************************************************************************)
\* "UTF-8 terminal output" (docs/COMPATIBILITY.md:22) and "Other OSC commands are passed
\* through unchanged": the user's terminal has printed the text and performed the other
\* controls that it would have without the client.
AllOutputPreserved == shown.text = direct.text /\ shown.others = direct.others

\* Nothing but titles is touched, after every byte, wherever the server's output is cut and
\* through suspensions, as long as process_byte has met none of the bytes that it misreads
\* and the client was not suspended inside a character or a control that passes.
OnlyTitlesChange == ~misread => AllOutputPreserved

\* While the session holds the terminal its titles are the latest ones of the server (those
\* within the bound) with the prefix, never without it, and the titles that a shell set
\* during a suspension are gone; at the end they are the server's own.  A server that set
\* no title changes none.
TitlesAlwaysShown ==
    filter.policy = "MoshPrefix" =>
       LET window == MoshPrefix \o direct.window
           icon == IF direct.icon = direct.window THEN window ELSE direct.icon
       IN  /\ session = "Active" /\ direct.titled =>
                 shown.icon = icon /\ shown.window = window
           /\ session = "Ended" /\ direct.titled =>
                 shown.icon = direct.icon /\ shown.window = direct.window
           /\ ~direct.titled => shown.window \in {<<>>, <<"shell">>}

\* The titles are shown so until process_byte misreads a byte, or the client is suspended
\* inside a character or a control that passes.
TitlesShown == ~misread => TitlesAlwaysShown
=============================================================================
