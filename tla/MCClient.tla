------------------------------ MODULE MCClient ------------------------------
(***************************************************************************)
(* The user's events, the remote modes and the settings of the client for TLC. *)
(***************************************************************************)
EXTENDS Client

Key(code, value, mods) ==
    [type |-> "Key", code |-> code, value |-> value, mods |-> mods]
Char(c) == Key("Char", c, {})
Mouse(kind, column) ==
    [type |-> "Mouse", kind |-> kind, button |-> "Right", column |-> column, row |-> 4,
     mods |-> {Shift}]

ControlPrefix == 30          \* Ctrl-^
PrintablePrefix == 126       \* ~

Commands == {Char(46), Char(63), Key("Char", 122, {Control})}    \* . ? Ctrl-Z
Others == {[type |-> "Paste", text |-> <<97, 13>>], Mouse("Down", 94), Mouse("Drag", 223),
           [type |-> "Focus", focused |-> TRUE], [type |-> "Resize"]}

ControlEvents ==
    Commands \cup Others \cup
    {Key("Char", 54, {Control}), Char(94), Key("Up", 0, {}), Key("F", 5, {Alt})}

PrintableEvents ==
    Commands \cup (Others \ {[type |-> "Paste", text |-> <<97, 13>>]}) \cup
    {Char(126), Char(228), Key("Enter", 0, {})}

FewEvents ==
    {Key("Char", 94, {Control}), Char(46), Char(63), Key("Char", 122, {Control}),
     [type |-> "Resize"]}

\* Either the user does much, or everything else happens too.
AllSettings ==
    {[escape_byte |-> ControlPrefix, alternate |-> TRUE, events |-> ControlEvents,
      typed |-> 3, datagrams |-> 1, disturbed |-> FALSE],
     [escape_byte |-> PrintablePrefix, alternate |-> FALSE, events |-> PrintableEvents,
      typed |-> 3, datagrams |-> 1, disturbed |-> FALSE]}
    \cup [escape_byte : {ControlPrefix}, alternate : BOOLEAN, events : {FewEvents},
          typed : {2}, datagrams : {2}, disturbed : {TRUE}]

\* Only a network that goes down or repeats a datagram.
NetworkSettings ==
    {[escape_byte |-> ControlPrefix, alternate |-> TRUE, events |-> FewEvents,
      typed |-> 0, datagrams |-> 2, disturbed |-> TRUE]}

\* A paste before a printable prefix.
PasteSettings ==
    {[escape_byte |-> PrintablePrefix, alternate |-> TRUE,
      events |-> {Char(126), Char(46), [type |-> "Paste", text |-> <<97>>]},
      typed |-> 3, datagrams |-> 0, disturbed |-> FALSE]}

VimModes ==
    [DefaultModes EXCEPT
       !.cursor_key = "Application", !.application_keypad = TRUE, !.bracketed_paste = TRUE,
       !.focus_reporting = TRUE, !.mouse_tracking = "ButtonMotion", !.cursor_visible = FALSE,
       !.cursor_shape = "SteadyBar", !.alternate_screen = TRUE, !.scroll_region = <<1, 23>>]
MouseModes ==
    [DefaultModes EXCEPT
       !.mouse_tracking = "AnyMotion", !.mouse_encoding = "Utf8", !.insert_mode = TRUE,
       !.origin_mode = TRUE, !.auto_wrap = FALSE]

AllModes == {DefaultModes, VimModes, MouseModes}
=============================================================================
