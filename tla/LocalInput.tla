----------------------------- MODULE LocalInput -----------------------------
(***************************************************************************)
(* From the user's events to the bytes for the server (ferrumtty-terminal):    *)
(* the encoding of keys, mouse, paste and focus events in the modes that the   *)
(* remote program selected, and EscapeInterpreter, which holds back the prefix *)
(* of local commands.                                                        *)
(*                                                                         *)
(* Bytes and characters are their numbers.  An event is a record; what an      *)
(* encoder returns is a sequence, the empty one for None.                     *)
(***************************************************************************)
EXTENDS Integers, Sequences

ESC == 27
CSI == <<ESC, 91>>
Shift == "SHIFT"
Alt == "ALT"
Control == "CONTROL"

(***************************************************************************)
(* Conversions of the standard library.                                      *)
(***************************************************************************)
\* The digits of a number below 100000, the first one first.
Powers == <<1, 10, 100, 1000, 10000, 100000>>
Width(n) == CHOOSE w \in 1..5 : n < Powers[w + 1] /\ (w = 1 \/ n >= Powers[w])
Decimal(n) == [i \in 1..Width(n) |-> 48 + ((n \div Powers[Width(n) + 1 - i]) % 10)]

\* Numbers that are no characters, and the encoding of those that are.
Surrogates == 55296..57343
MaxChar == 1114111
Utf8(c) ==
    IF c < 128 THEN <<c>>
    ELSE IF c < 2048 THEN <<192 + (c \div 64), 128 + (c % 64)>>
    ELSE IF c < 65536
    THEN <<224 + (c \div 4096), 128 + ((c \div 64) % 64), 128 + (c % 64)>>
    ELSE <<240 + (c \div 262144), 128 + ((c \div 4096) % 64), 128 + ((c \div 64) % 64),
           128 + (c % 64)>>

(***************************************************************************)
(* Keys; value is the character of "Char" and the number of "F".              *)
(***************************************************************************)
\* encode_control.
EncodeControl(c) ==
    CASE c \in 64..95 -> <<c - 64>>       \* @ to _
      [] c \in 97..122 -> <<c - 96>>      \* a to z
      [] c = 50 -> <<0>>                  \* 2
      [] c \in 51..55 -> <<c - 24>>       \* 3 to 7
      [] c \in {56, 63} -> <<127>>        \* 8 and ?
      [] OTHER -> <<>>

ModifierBits(mods, shift, alt, control) ==
    (IF Shift \in mods THEN shift ELSE 0) + (IF Alt \in mods THEN alt ELSE 0)
        + (IF Control \in mods THEN control ELSE 0)

\* key_modifier_parameter; 1 stands for None.
KeyModifierParameter(mods) == 1 + ModifierBits(mods, 1, 2, 4)

EncodeCursorKey(final, mods, cursor_key) ==
    IF KeyModifierParameter(mods) # 1
    THEN CSI \o <<49, 59>> \o Decimal(KeyModifierParameter(mods)) \o <<final>>
    ELSE <<ESC, IF cursor_key = "Application" THEN 79 ELSE 91, final>>

FunctionKeyParameters == <<15, 17, 18, 19, 20, 21, 23, 24>>

EncodeFunctionKey(number, mods) ==
    LET parameter == KeyModifierParameter(mods)
        modifier == IF parameter = 1 THEN <<>> ELSE <<59>> \o Decimal(parameter)
    IN  CASE number \in 1..4 /\ parameter = 1 -> <<ESC, 79, 79 + number>>
          [] number \in 1..4 /\ parameter # 1 -> CSI \o <<49>> \o modifier \o <<79 + number>>
          [] number \in 5..12 ->
                CSI \o Decimal(FunctionKeyParameters[number - 4]) \o modifier \o <<126>>
          [] OTHER -> <<>>

PlainKeys ==
    [Enter |-> <<13>>, Backspace |-> <<127>>, Tab |-> <<9>>, Esc |-> <<ESC>>,
     BackTab |-> CSI \o <<90>>, Home |-> CSI \o <<72>>, End |-> CSI \o <<70>>,
     Insert |-> CSI \o <<50, 126>>, Delete |-> CSI \o <<51, 126>>,
     PageUp |-> CSI \o <<53, 126>>, PageDown |-> CSI \o <<54, 126>>]

CursorKeys == [Up |-> 65, Down |-> 66, Right |-> 67, Left |-> 68]

\* encode_key_with_mode.
EncodeKey(key, cursor_key) ==
    CASE key.code = "Char" ->
            IF Control \in key.mods THEN EncodeControl(key.value)
            ELSE (IF Alt \in key.mods THEN <<ESC>> ELSE <<>>) \o Utf8(key.value)
      [] key.code \in DOMAIN PlainKeys -> PlainKeys[key.code]
      [] key.code \in DOMAIN CursorKeys ->
            EncodeCursorKey(CursorKeys[key.code], key.mods, cursor_key)
      [] key.code = "F" -> EncodeFunctionKey(key.value, key.mods)
      [] OTHER -> <<>>

(***************************************************************************)
(* Mouse.                                                                   *)
(***************************************************************************)
Scrolls == [ScrollUp |-> 64, ScrollDown |-> 65, ScrollLeft |-> 66, ScrollRight |-> 67]
Buttons == [Left |-> 0, Middle |-> 1, Right |-> 2]

\* mouse_event_is_reportable.
Reportable(kind, tracking) ==
    CASE tracking = "Disabled" -> FALSE
      [] tracking = "Press" -> kind \in {"Down"} \cup DOMAIN Scrolls
      [] tracking = "PressRelease" -> kind \notin {"Drag", "Moved"}
      [] tracking = "ButtonMotion" -> kind # "Moved"
      [] tracking = "AnyMotion" -> TRUE

MouseCode(event) ==
    (CASE event.kind \in {"Down", "Up"} -> Buttons[event.button]
       [] event.kind = "Drag" -> Buttons[event.button] + 32
       [] event.kind = "Moved" -> 35
       [] OTHER -> Scrolls[event.kind])
    + ModifierBits(event.mods, 4, 8, 16)

\* A bug the properties must catch: coordinates are cut to a byte without a check.
LegacyValues_NoCheck(values) == values

\* The three values as bytes, or nothing when one does not fit.
LegacyValues(values) == IF \E i \in 1..3 : values[i] > 255 THEN <<>> ELSE values

\* The three values as characters, or nothing when one is none.
Utf8Values(values) ==
    IF \E i \in 1..3 : values[i] \in Surrogates THEN <<>>
    ELSE Utf8(values[1]) \o Utf8(values[2]) \o Utf8(values[3])

\* encode_legacy_mouse.
EncodeLegacyMouse(event, utf8) ==
    LET values == << (IF event.kind = "Up" THEN 3 ELSE MouseCode(event)) + 32,
                     event.column + 33, event.row + 33 >>
        bytes == IF utf8 THEN Utf8Values(values) ELSE LegacyValues(values)
    IN  IF bytes = <<>> THEN <<>> ELSE CSI \o <<77>> \o bytes

\* encode_mouse_with_mode.
EncodeMouse(event, tracking, encoding) ==
    IF ~Reportable(event.kind, tracking) THEN <<>>
    ELSE IF encoding = "Sgr"
    THEN CSI \o <<60>> \o Decimal(MouseCode(event)) \o <<59>> \o Decimal(event.column + 1)
             \o <<59>> \o Decimal(event.row + 1) \o <<IF event.kind = "Up" THEN 109 ELSE 77>>
    ELSE EncodeLegacyMouse(event, encoding = "Utf8")

(***************************************************************************)
(* Paste and focus.                                                         *)
(***************************************************************************)
\* encode_paste_with_mode.
EncodePaste(text, bracketed_paste) ==
    IF ~bracketed_paste THEN text
    ELSE CSI \o <<50, 48, 48, 126>> \o text \o CSI \o <<50, 48, 49, 126>>

\* encode_focus_with_mode.
EncodeFocus(focused, focus_reporting) ==
    IF ~focus_reporting THEN <<>> ELSE CSI \o <<IF focused THEN 73 ELSE 79>>

(***************************************************************************)
(* Events, and the modes that remote programs select.  A key event is no       *)
(* release; "Null" stands for the keys that send nothing.                     *)
(***************************************************************************)
Modifiers == {Shift, Alt, Control}
Chars == 0..MaxChar
Coordinates == 0..65535
KeyCodes == {"Char", "F", "Null"} \cup DOMAIN PlainKeys \cup DOMAIN CursorKeys
MouseKinds == {"Down", "Up", "Drag", "Moved"} \cup DOMAIN Scrolls

KeyEvents == [type : {"Key"}, code : KeyCodes, value : Chars, mods : SUBSET Modifiers]
MouseEvents == [type : {"Mouse"}, kind : MouseKinds, button : DOMAIN Buttons,
                column : Coordinates, row : Coordinates, mods : SUBSET Modifiers]
PasteEvents == [type : {"Paste"}, text : Seq(0..255)]
FocusEvents == [type : {"Focus"}, focused : BOOLEAN]
ResizeEvents == [type : {"Resize"}]
Events == KeyEvents \cup MouseEvents \cup PasteEvents \cup FocusEvents \cup ResizeEvents

CursorShapes == {"Default", "BlinkingBlock", "SteadyBlock", "BlinkingUnderline",
                 "SteadyUnderline", "BlinkingBar", "SteadyBar"}

\* RemoteTerminalModes; the scroll region is <<>> or its top and bottom margins.
Modes == [cursor_key : {"Normal", "Application"}, application_keypad : BOOLEAN,
          bracketed_paste : BOOLEAN,
          mouse_tracking : {"Disabled", "Press", "PressRelease", "ButtonMotion", "AnyMotion"},
          mouse_encoding : {"Default", "Utf8", "Sgr"}, focus_reporting : BOOLEAN,
          insert_mode : BOOLEAN, origin_mode : BOOLEAN, auto_wrap : BOOLEAN,
          cursor_visible : BOOLEAN, cursor_shape : CursorShapes, alternate_screen : BOOLEAN,
          scroll_region : {<<>>} \cup (Coordinates \X Coordinates)]

\* The bytes of an event in the remote program's modes.
Encode(event, modes) ==
    CASE event.type = "Key" -> EncodeKey(event, modes.cursor_key)
      [] event.type = "Paste" -> EncodePaste(event.text, modes.bracketed_paste)
      [] event.type = "Mouse" ->
            EncodeMouse(event, modes.mouse_tracking, modes.mouse_encoding)
      [] event.type = "Focus" -> EncodeFocus(event.focused, modes.focus_reporting)
      [] event.type = "Resize" -> <<>>

(***************************************************************************)
(* EscapeInterpreter: [escape_byte, prefix_held, at_line_start].              *)
(***************************************************************************)
NewEscape(byte) == [escape_byte |-> byte, prefix_held |-> FALSE, at_line_start |-> TRUE]

LineEnds == {10, 13}
Graphic(byte) == byte \in 32..126

\* literal_escape_suffix.
LiteralEscapeSuffix(byte) ==
    CASE byte \in 1..31 -> byte + 64
      [] byte = 127 -> 63
      [] OTHER -> byte

\* An EscapeAction with the interpreter it leaves behind.
Acting(escape, action, bytes) == [escape |-> escape, action |-> action, bytes |-> bytes]
Forward(escape, bytes) ==
    Acting([escape EXCEPT !.prefix_held = FALSE, !.at_line_start = bytes[Len(bytes)] \in LineEnds],
           "Forward", bytes)

\* The key after a held prefix.  A command comes before the literal suffix.
SecondKey(escape, bytes) ==
    LET released == [escape EXCEPT !.prefix_held = FALSE]
    IN  IF bytes = <<46>> THEN Acting(released, "Quit", <<>>)
        ELSE IF bytes = <<63>> THEN Acting(released, "Help", <<>>)
        ELSE IF bytes = <<26>> THEN Acting(released, "Suspend", <<>>)
        ELSE IF bytes = <<LiteralEscapeSuffix(escape.escape_byte)>>
        THEN Forward(released, <<escape.escape_byte>>)
        ELSE Forward(released, <<escape.escape_byte>> \o bytes)

\* input; bytes is not empty.
EscapeInput(escape, bytes) ==
    CASE escape.prefix_held -> SecondKey(escape, bytes)
      [] ~escape.prefix_held /\ bytes = <<escape.escape_byte>>
            /\ (~Graphic(escape.escape_byte) \/ escape.at_line_start) ->
            Acting([escape EXCEPT !.prefix_held = TRUE], "Hold", <<>>)
      [] OTHER -> Forward(escape, bytes)

\* flush: a held prefix is given back.
Flush(escape) ==
    IF escape.prefix_held
    THEN Acting([escape EXCEPT !.prefix_held = FALSE, !.at_line_start = FALSE],
                "Forward", <<escape.escape_byte>>)
    ELSE Acting(escape, "Hold", <<>>)
=============================================================================
