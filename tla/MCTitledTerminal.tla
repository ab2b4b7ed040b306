-------------------------- MODULE MCTitledTerminal --------------------------
(***************************************************************************)
(* The output of the server for TLC: text, titles of every kind with every    *)
(* terminator, too long and cancelled ones, other controls, characters of     *)
(* more than one byte, and what the filter misreads.                         *)
(***************************************************************************)
EXTENDS TitledTerminal

Controls ==
    { <<"ESC", "]", "0", "semi", "x", "BEL">>,
      <<"OSC", "1", "semi", "y", "ST">>,
      <<"ESC", "]", "2", "semi", "y", "semi", "ESC", "bs">>,
      <<"ESC", "]", "semi", "x", "BEL">>,
      <<"ESC", "]", "2", "semi", "x", "y", "x", "BEL">>,
      <<"ESC", "]", "2", "semi", "x", "y", "x", "y", "ESC", "bs">>,
      <<"ESC", "]", "0", "semi", "z", "CAN">>,
      <<"ESC", "]", "5", "semi", "x", "ESC", "bs">>,
      <<"ESC", "]", "1", "1", "1", "semi", "x", "BEL">>,
      <<"OSC", "1", "2", "ST">>,
      <<"ESC", "]", "ESC", "bs">> }

Characters == { <<"lead", "x">>, <<"lead", "ST">>, <<"ESC", "]", "2", "semi", "lead", "x", "BEL">> }

\* What the filter misreads: U+201D, whose last byte is 0x9d, U+201C with 0x9c in a title,
\* and an escape that is followed by a title.
Utf8Items == { <<"lead", "OSC">>, <<"x">>, <<"semi">> }
QuotedItems == { <<"ESC", "]", "2", "semi", "lead", "ST", "BEL">> }
EscapeItems == { <<"ESC", "ESC", "]", "2", "semi", "x", "BEL">> }

Items == Controls \cup Characters \cup { <<"x">>, <<"semi">>, <<"ESC", "x">> }
         \cup Utf8Items \cup QuotedItems \cup EscapeItems
=============================================================================
