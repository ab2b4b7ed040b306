--------------------------- MODULE PredictedScreen ---------------------------
(***************************************************************************)
(* What the user sees: the event loop's handling of keys, server output and    *)
(* local commands (drain_terminal, apply_actions and reconcile_prediction of   *)
(* ferrumtty-client), TerminalGuard with its model of the authoritative         *)
(* screen, the predictor, and the real terminal, which only gets bytes.        *)
(*                                                                         *)
(* A screen is its cells and its cursor.  Server output changes a cell and     *)
(* leaves the cursor somewhere, on the real terminal just as in the model:     *)
(* what the terminal showed wrongly elsewhere stays.  The size is fixed.  A    *)
(* character takes no cell, one or two; half of a wide one is a cell like any   *)
(* other.                                                                   *)
(***************************************************************************)
EXTENDS PredictionOverlay

CONSTANTS
    Rows, Columns,
    MaxFrame,        \* bound: the last client frame
    MaxOutputs       \* bound: server outputs

ASSUME ScreenAssumption ==
    /\ {Rows, Columns} \subseteq Nat \ {0}
    /\ MaxFrame \in Nat \ {0} /\ MaxOutputs \in Nat

VARIABLES
    authoritative,          \* the model fed by server output
    real,                   \* the terminal
    local_notice_active,
    spoiled,                \* history: why taking inserted cells away may not be enough
    frame,                  \* prediction_frame_id
    outputs,
    settled                 \* the last step was server output

screenVars == <<authoritative, real, local_notice_active, spoiled>>
vars == <<predictionVars, screenVars, frame, outputs, settled>>

Blank == "blank"
Text == "text"
Guess == "guess"        \* an underlined prediction
Cells == [1 .. Rows -> [0 .. (Columns - 1) -> {Blank, Text, Guess}]]

Init ==
    /\ PredictionInit
    /\ authoritative = [cells |-> [r \in 1 .. Rows |-> [c \in 0 .. (Columns - 1) |-> Blank]],
                        row |-> 1, column |-> 0]
    /\ real = authoritative
    /\ local_notice_active = FALSE /\ spoiled = {}
    /\ frame = 1
    /\ outputs = 0
    /\ settled = FALSE

(***************************************************************************)
(* External: the terminal's control sequences.  After a character in the last  *)
(* column the cursor is past it (column = Columns): only the next character     *)
(* goes to the next line, a control acts on the last column.                  *)
(***************************************************************************)
At(screen) == IF screen.column >= Columns THEN Columns - 1 ELSE screen.column
OnRow(screen, cell(_)) ==
    [screen EXCEPT !.cells[screen.row] = [c \in 0 .. (Columns - 1) |-> cell(c)]]
MoveTo(screen, row, column) ==
    [screen EXCEPT !.row = row,
                   !.column = IF column >= Columns THEN Columns - 1 ELSE column]
Step(screen, step) == MoveTo(screen, screen.row,
                             IF At(screen) + step < 0 THEN 0 ELSE At(screen) + step)

\* ICH: what is pushed over the margin is gone.
InsertCharacter(screen) ==
    LET Shifted(c) == IF c < At(screen) THEN screen.cells[screen.row][c]
                      ELSE IF c = At(screen) THEN Blank
                      ELSE screen.cells[screen.row][c - 1]
    IN  MoveTo(OnRow(screen, Shifted), screen.row, screen.column)

\* DCH: blanks come in from the margin.
DeleteCharacters(screen, n) ==
    LET Shifted(c) == IF c < At(screen) THEN screen.cells[screen.row][c]
                      ELSE IF c + n < Columns THEN screen.cells[screen.row][c + n]
                      ELSE Blank
    IN  MoveTo(OnRow(screen, Shifted), screen.row, screen.column)

\* The line after the last one scrolls the screen.
NextLine(screen) ==
    IF screen.row < Rows THEN MoveTo(screen, screen.row + 1, 0)
    ELSE [screen EXCEPT !.column = 0,
             !.cells = [r \in 1 .. Rows |-> IF r < Rows THEN screen.cells[r + 1]
                                           ELSE [c \in 0 .. (Columns - 1) |-> Blank]]]

\* A character of one or two cells is written at the cursor, on the next line if it does
\* not fit; one without a cell of its own changes the character before the cursor.
Put(screen, value, width) ==
    LET start == IF screen.column + width > Columns THEN NextLine(screen) ELSE screen
        after == IF start.column + width > Columns THEN Columns ELSE start.column + width
        Written(c) == IF \/ start.column <= c /\ c < after
                         \/ width = 0 /\ c = start.column - 1
                      THEN value ELSE start.cells[start.row][c]
    IN  [OnRow(start, Written) EXCEPT !.column = after]

\* The bytes of a prediction.
Edited(screen, edit, width) ==
    CASE edit = "insert" -> Put(InsertCharacter(screen), Guess, width)
      [] edit = "overwrite" -> Put(screen, Guess, width)
      [] edit = "delete" -> DeleteCharacters(Step(screen, -1), 1)
      [] edit = "left" -> Step(screen, -1)
      [] edit = "right" -> Step(screen, 1)
      [] OTHER -> screen

(***************************************************************************)
(* The client.                                                              *)
(***************************************************************************)
Context == [row |-> authoritative.row, column |-> authoritative.column,
            columns |-> Columns]

\* local_reconciliation; cursor_state puts the cursor back where the span began.
RolledBack(screen) ==
    LET anchor == MoveTo(screen, line_context.row, line_context.column)
    IN  IF rollback_cells = 0 THEN anchor ELSE DeleteCharacters(anchor, rollback_cells)

\* reconcile_prediction: the terminal after it.
Reconciled(screen) ==
    CASE Reconciliation = "none" -> screen
      [] Reconciliation = "redraw" -> authoritative
      [] Reconciliation = "local" -> RolledBack(screen)

\* clear_local_notice redraws the authoritative screen.
Cleared(screen) == IF local_notice_active THEN authoritative ELSE screen

(***************************************************************************)
(* Inserted cells are taken away by their number.  That is not enough when a    *)
(* guess did not take one cell, when the insertion pushed text over the margin, *)
(* or when the screen was repainted without them.                            *)
(***************************************************************************)
Spoils(screen, edit, width) ==
    (IF edit \in {"insert", "overwrite"} /\ width # 1 THEN {"width"} ELSE {})
    \cup (IF edit = "insert" /\ screen.cells[screen.row][Columns - 1] # Blank
          THEN {"pushed"} ELSE {})

\* After a redraw of the authoritative screen, with the predictor as it is.
Repainted == IF overwrite \/ rollback_cells = 0 THEN {} ELSE {"repainted"}
SpoiledCleared == IF local_notice_active THEN Repainted ELSE spoiled

\* A forwarded key: it joins the frame and is offered to the predictor, which is not told
\* how many cells the character takes.
Key(action, width) ==
    LET edit == Outcome(frame, action, Context)
    IN  /\ Offer(frame, action, Context)
        /\ real' = Edited(Cleared(real), edit, width)
        /\ spoiled' = SpoiledCleared \cup Spoils(Cleared(real), edit, width)
        /\ local_notice_active' = FALSE
        /\ settled' = FALSE
        /\ UNCHANGED <<authoritative, frame, outputs>>

\* Paste, mouse and focus events.
OtherInput ==
    /\ Offer(frame, "Barrier", NoContext)
    /\ real' = Cleared(real)
    /\ spoiled' = SpoiledCleared
    /\ local_notice_active' = FALSE
    /\ settled' = FALSE
    /\ UNCHANGED <<authoritative, frame, outputs>>

\* A resize event; the sizes themselves are left out.
ResizeEvent ==
    /\ TakeReconciliation
    /\ real' = Reconciled(Cleared(real))
    /\ spoiled' = IF Reconciliation = "redraw" THEN {} ELSE SpoiledCleared
    /\ local_notice_active' = FALSE
    /\ settled' = FALSE
    /\ UNCHANGED <<authoritative, frame, outputs>>

\* write_local_notice: the notice goes over the screen, here over its first row.
Help ==
    /\ real' = [Cleared(real) EXCEPT !.cells[1] = [c \in 0 .. (Columns - 1) |-> Text]]
    /\ spoiled' = SpoiledCleared
    /\ local_notice_active' = TRUE
    /\ settled' = FALSE
    /\ UNCHANGED <<predictionVars, authoritative, frame, outputs>>

\* suspend_client: back from the suspension the authoritative screen is redrawn.
Suspend ==
    /\ real' = authoritative
    /\ spoiled' = Repainted
    /\ local_notice_active' = FALSE
    /\ settled' = FALSE
    /\ UNCHANGED <<predictionVars, authoritative, frame, outputs>>

\* WriteTerminal: the prediction is reconciled, then the bytes go to the model and
\* to the terminal.
Output(row, column, value, position) ==
    LET Painted(screen) == MoveTo(Put(MoveTo(screen, row, column), value, 1),
                                  position[1], position[2])
    IN  /\ outputs < MaxOutputs
        /\ outputs' = outputs + 1
        /\ authoritative' = Painted(authoritative)
        /\ real' = Painted(Cleared(Reconciled(real)))
        /\ spoiled' = IF local_notice_active \/ Reconciliation = "redraw" THEN {}
                      ELSE spoiled
        /\ local_notice_active' = FALSE
        /\ settled' = TRUE
        /\ TakeReconciliation
        /\ UNCHANGED frame

\* AcknowledgePrediction: the server acknowledges frames that were sent.
EchoAck(ack) ==
    /\ Acknowledge(ack)
    /\ settled' = FALSE
    /\ UNCHANGED <<screenVars, frame, outputs>>

\* The runtime sends the frame; input that follows belongs to the next one.
SendFrame ==
    /\ frame < MaxFrame
    /\ frame' = frame + 1
    /\ settled' = FALSE
    /\ UNCHANGED <<predictionVars, screenVars, outputs>>

RoundTrip(is_slow) ==
    /\ SetRoundTrip(is_slow)
    /\ settled' = FALSE
    /\ UNCHANGED <<screenVars, frame, outputs>>

Next ==
    \/ \E width \in 0 .. 2 : Key("Printable", width)
    \/ \E action \in {"Backspace", "Left", "Right", "Barrier"} : Key(action, 1)
    \/ OtherInput \/ ResizeEvent \/ Help \/ Suspend
    \/ \E row \in 1 .. Rows, column \in 0 .. (Columns - 1), value \in {Blank, Text},
          position \in (1 .. Rows) \X (0 .. (Columns - 1)) :
             Output(row, column, value, position)
    \/ \E ack \in 0 .. (frame - 1) : EchoAck(ack)
    \/ SendFrame
    \/ \E is_slow \in BOOLEAN : RoundTrip(is_slow)

Spec == Init /\ [][Next]_vars

(***************************************************************************)
(* Properties.                                                              *)
(***************************************************************************)
SpanType ==
    /\ Len(pending) <= MAXIMUM_PENDING_PREDICTIONS
    /\ \A i \in 1 .. Len(pending) : pending[i] \in 0 .. MaxFrame
    /\ Len(predicted_ascii) <= MAXIMUM_PENDING_PREDICTIONS
    /\ \A i \in 1 .. Len(predicted_ascii) :
          predicted_ascii[i] \in [frame_id : 0 .. MaxFrame, acknowledged : BOOLEAN]
    /\ cursor_offset \in 0 .. Len(predicted_ascii)
    /\ {highest_frame_id, latest_acknowledgement} \subseteq {None} \cup 0 .. MaxFrame
    /\ rollback_cells \in 0 .. Columns

\* Every variable stays in its type.
TypeOK ==
    /\ SpanType
    /\ authoritative.cells \in Cells /\ real.cells \in Cells
    /\ spoiled \subseteq {"width", "pushed", "repainted"}

\* Taking the prediction back gives exactly the authoritative screen, cells and cursor.
Exact == ~local_notice_active => Reconciled(real) = authoritative

\* "Conservative local prediction with authoritative-screen rollback"
\* (docs/COMPATIBILITY.md:23, take_reconciliation): predictions that overwrite are taken
\* back exactly, whatever was typed, moved, cancelled, acknowledged, refused, redrawn or
\* suspended; predictions that insert as well, at the end of a line and inside it, unless
\* a guess did not take one cell, text was pushed over the margin, or the screen was
\* repainted without the guesses.
RollbackIsExact == overwrite \/ spoiled = {} => Exact

\* No guess ever stands in the last column, where the next character would wrap
\* ("Prediction stops before the right margin", docs/PREDICTION.md:21-22), wherever
\* the span began and however often it was edited, as long as every guess takes one cell
\* and no guesses are repainted under a span that inserts.
MarginRespected ==
    spoiled \subseteq {"pushed"} => \A r \in 1 .. Rows : real.cells[r][Columns - 1] # Guess

\* The two records of what the server has acknowledged agree, cell by cell: the flag
\* that makes a line confident and the number that protects a cell from Backspace.
AcknowledgementsAgree ==
    \A i \in 1 .. Len(predicted_ascii) :
        predicted_ascii[i].acknowledged <=>
            predicted_ascii[i].frame_id <= latest_acknowledgement

\* "Backspace may cancel only the last unacknowledged local printable prediction"
\* (docs/PREDICTION.md:9): no key takes an acknowledged cell away singly; only a
\* barrier or a reconciliation drops the whole span.
AcknowledgedCellsStay ==
    [][\A i \in 1 .. Len(predicted_ascii) :
          predicted_ascii[i].acknowledged =>
              (i <= Len(predicted_ascii') \/ <<predicted_ascii, pending>>' = <<<<>>, <<>>>>)]_vars

\* Controls and other barriers "require authoritative reconciliation before prediction
\* resumes" (docs/PREDICTION.md:32-33): after server output it resumes, if the cursor
\* is before the margin.
PredictionResumes ==
    (settled /\ DisplayEnabled /\ Context.column < Columns - 1)
        => Outcome(frame, "Printable", Context) \in {"insert", "overwrite"}

\* What the code does not achieve: an exact rollback with guesses of any width ("Removes
\* every tentative cell and restores the saved cursor", predict lib.rs:277-278), after
\* text was pushed over the margin, and after a notice or a suspension; and the margin
\* with guesses of any width.
AnyWidthExact == spoiled \subseteq {"width"} => Exact
PushedExact == spoiled \subseteq {"pushed"} => Exact
RepaintedExact == spoiled \subseteq {"repainted"} => Exact
AnyWidthMargin == \A r \in 1 .. Rows : real.cells[r][Columns - 1] # Guess

(***************************************************************************)
(* The inductive invariant: where the span stands on the screen, and what is   *)
(* shown beside it.                                                          *)
(***************************************************************************)
Screens == [cells : Cells, row : 1 .. Rows, column : 0 .. Columns]
PredictedCell == [frame_id : 0 .. MaxFrame, acknowledged : BOOLEAN]

\* A span that is shown starts at the authoritative cursor and ends before the margin;
\* what must be taken away again is the span, until a barrier forgets its cells.
SpanInv ==
    /\ overwrite \in BOOLEAN
    /\ pending \in Seq(0 .. MaxFrame) /\ predicted_ascii \in Seq(PredictedCell)
    /\ frame \in 1 .. MaxFrame
    /\ highest_frame_id <= frame /\ latest_acknowledgement < frame
    /\ reconciliation_required => overlay_active
    /\ ~overlay_active => predicted_ascii = <<>> /\ rollback_cells = 0
    /\ ~reconciliation_required => rollback_cells = Len(predicted_ascii)
    /\ overlay_active => line_context = Context /\ Context.column + rollback_cells < Columns

\* The model of the screen holds no guesses, and its cursor stands on a cell.
ModelInv ==
    /\ authoritative \in Screens /\ real \in Screens
    /\ authoritative.column < Columns
    /\ \A r \in 1 .. Rows, c \in 0 .. (Columns - 1) : authoritative.cells[r][c] # Guess
    /\ spoiled \subseteq {"width", "pushed", "repainted"}

\* When predictions overwrite, the terminal shows the model unless a notice or a span
\* covers it, and the cursor does not run ahead of the span.
OverwriteInv ==
    /\ local_notice_active \/ overlay_active \/ real = authoritative
    /\ MarginRespected
    /\ spoiled = {} /\ overlay_active /\ ~reconciliation_required =>
          real.column <= authoritative.column + cursor_offset
    /\ spoiled \subseteq {"width"}

\* When they insert, the guesses are among the cells to take away, which stand at the
\* model's cursor.  What stood there follows them, and blanks are all that went over the
\* margin.
GuessPlace(r, c) ==
    /\ r = authoritative.row
    /\ authoritative.column <= c /\ c < authoritative.column + rollback_cells
GuessesInPlace(screen) ==
    \A r \in 1 .. Rows, c \in 0 .. (Columns - 1) :
        screen.cells[r][c] = Guess => GuessPlace(r, c)
CursorInPlace(screen) ==
    ~reconciliation_required =>
        screen.row = authoritative.row /\ screen.column = authoritative.column + cursor_offset
TextInPlace(screen) ==
    /\ \A r \in 1 .. Rows, c \in 0 .. (Columns - 1) :
          r # authoritative.row \/ c < authoritative.column =>
              screen.cells[r][c] = authoritative.cells[r][c]
    /\ \A c \in authoritative.column .. (Columns - 1) :
          IF c + rollback_cells < Columns
          THEN screen.cells[authoritative.row][c + rollback_cells] =
                  authoritative.cells[authoritative.row][c]
          ELSE authoritative.cells[authoritative.row][c] = Blank
InsertInv ==
    /\ spoiled \subseteq {"pushed"} => GuessesInPlace(real)
    /\ spoiled \subseteq {"pushed"} /\ ~local_notice_active => CursorInPlace(real)
    /\ spoiled = {} /\ ~local_notice_active => TextInPlace(real)

IInv ==
    /\ TypeOK
    /\ SpanInv
    /\ ModelInv
    /\ AcknowledgementsAgree
    /\ overwrite => OverwriteInv
    /\ ~overwrite => InsertInv
=============================================================================
