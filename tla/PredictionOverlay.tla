-------------------------- MODULE PredictionOverlay --------------------------
(***************************************************************************)
(* PredictionOverlay (ferrumtty-predict): the bookkeeping of the characters   *)
(* shown before the server has echoed them.  It never sees the screen; it      *)
(* remembers where a span began and how many cells to take away again.        *)
(*                                                                         *)
(* The bytes it returns are named by what they do to the screen.  The          *)
(* diagnostic counters are left out.                                         *)
(***************************************************************************)
EXTENDS Integers, Sequences

CONSTANTS
    Display,                       \* "Adaptive", "Always" or "Never"
    Modes,                         \* the settings of overwrite a client may start with
    MAXIMUM_PENDING_PREDICTIONS    \* 1024 in the code

ASSUME PredictionAssumption ==
    /\ Display \in {"Adaptive", "Always", "Never"}
    /\ Modes \subseteq BOOLEAN
    /\ MAXIMUM_PENDING_PREDICTIONS \in Nat \ {0}

VARIABLES
    overwrite,                 \* predictions overwrite instead of insert
    slow,                      \* the round trip takes ADAPTIVE_DISPLAY_MILLISECONDS or more
    pending,                   \* the frames of the predicted actions
    predicted_ascii,           \* the cells of the span: [frame_id, acknowledged]
    cursor_offset,
    highest_frame_id,
    latest_acknowledgement,
    rollback_cells,            \* cells a reconciliation must take away
    overlay_active,
    reconciliation_required,
    line_context               \* where the span began: [row, column, columns]

None == -1
NoContext == [row |-> None, column |-> None, columns |-> None]

spanVars == <<pending, predicted_ascii, cursor_offset, rollback_cells, overlay_active,
              reconciliation_required, line_context>>
predictionVars == <<overwrite, slow, spanVars, highest_frame_id, latest_acknowledgement>>

PredictionInit ==
    /\ overwrite \in Modes
    /\ slow = FALSE
    /\ pending = <<>> /\ predicted_ascii = <<>>
    /\ cursor_offset = 0 /\ rollback_cells = 0
    /\ highest_frame_id = None /\ latest_acknowledgement = None
    /\ overlay_active = FALSE /\ reconciliation_required = FALSE
    /\ line_context = NoContext

Last(s) == s[Len(s)]
Front(s) == SubSeq(s, 1, Len(s) - 1)
AtSpanEnd == cursor_offset = Len(predicted_ascii)

\* set_round_trip_milliseconds.
SetRoundTrip(is_slow) ==
    /\ slow' = is_slow
    /\ UNCHANGED <<overwrite, spanVars, highest_frame_id, latest_acknowledgement>>

DisplayEnabled == Display = "Always" \/ (Display = "Adaptive" /\ slow)

\* A bug the properties must catch: the bound is reached one prediction late.
HistoryFull_OneMore ==
    \/ Len(pending) > MAXIMUM_PENDING_PREDICTIONS
    \/ Len(predicted_ascii) > MAXIMUM_PENDING_PREDICTIONS

HistoryFull ==
    \/ Len(pending) >= MAXIMUM_PENDING_PREDICTIONS
    \/ Len(predicted_ascii) >= MAXIMUM_PENDING_PREDICTIONS

(***************************************************************************)
(* offer_for_frame_with_context.                                            *)
(***************************************************************************)
\* A bug the properties must catch: the last column is predicted as well.
Fits_LastColumn(anchor, context) ==
    anchor = context /\ anchor.column + cursor_offset < anchor.columns

\* The span starts where the cursor is and its next cell lies before the last column.
Fits(anchor, context) ==
    anchor = context /\ anchor.column + cursor_offset < anchor.columns - 1

Anchor(context) == IF line_context = NoContext THEN context ELSE line_context

\* A bug the properties must catch: acknowledged cells can be taken back.
LastAcknowledged_Never == FALSE

\* The last cell of the span was acknowledged.
LastAcknowledged ==
    predicted_ascii # <<>> /\ Last(predicted_ascii).frame_id <= latest_acknowledgement

\* What the offer does: the screen edit it returns, "barrier" for invalidate_span and
\* "none" for nothing at all.
Outcome(frame_id, action, context) ==
    IF frame_id < highest_frame_id THEN "none"
    ELSE IF action = "Barrier" THEN "barrier"
    ELSE IF ~DisplayEnabled \/ reconciliation_required THEN "none"
    ELSE IF HistoryFull THEN "barrier"
    ELSE CASE action = "Printable" ->
                 IF ~AtSpanEnd THEN "none"
                 ELSE IF ~Fits(Anchor(context), context) THEN "barrier"
                 ELSE IF overwrite THEN "overwrite" ELSE "insert"
           [] action = "Backspace" ->
                 IF cursor_offset = 0 \/ ~AtSpanEnd \/ LastAcknowledged THEN "none"
                 ELSE IF overwrite THEN "barrier" ELSE "delete"
           [] action = "Left" -> IF cursor_offset = 0 THEN "none" ELSE "left"
           [] action = "Right" -> IF AtSpanEnd THEN "none" ELSE "right"

\* A bug the properties must catch: the cells on the screen are forgotten with the span.
InvalidateSpan_ForgetsCells ==
    /\ pending' = <<>> /\ predicted_ascii' = <<>> /\ cursor_offset' = 0
    /\ rollback_cells' = 0
    /\ reconciliation_required' = (reconciliation_required \/ overlay_active)
    /\ UNCHANGED overlay_active

InvalidateSpan ==
    /\ pending' = <<>> /\ predicted_ascii' = <<>> /\ cursor_offset' = 0
    /\ reconciliation_required' = (reconciliation_required \/ overlay_active)
    /\ UNCHANGED <<rollback_cells, overlay_active>>

\* PrintableAscii and PrintableUtf8 alike: one cell per character, whatever its width.
PredictPrintable(frame_id, context) ==
    /\ predicted_ascii' = Append(predicted_ascii,
                                 [frame_id |-> frame_id, acknowledged |-> FALSE])
    /\ cursor_offset' = cursor_offset + 1
    /\ rollback_cells' = rollback_cells + 1
    /\ line_context' = Anchor(context)

PredictBackspace ==
    /\ predicted_ascii' = Front(predicted_ascii)
    /\ cursor_offset' = cursor_offset - 1
    /\ rollback_cells' = IF rollback_cells = 0 THEN 0 ELSE rollback_cells - 1
    /\ UNCHANGED line_context

PredictMove(step) ==
    /\ cursor_offset' = cursor_offset + step
    /\ UNCHANGED <<predicted_ascii, rollback_cells, line_context>>

Predict(frame_id, context, edit) ==
    /\ \/ edit \in {"insert", "overwrite"} /\ PredictPrintable(frame_id, context)
       \/ edit = "delete" /\ PredictBackspace
       \/ edit = "left" /\ PredictMove(-1)
       \/ edit = "right" /\ PredictMove(1)
    /\ pending' = Append(pending, frame_id)
    /\ overlay_active' = TRUE
    /\ UNCHANGED reconciliation_required

\* A printable that does not fit still leaves its context behind.
Offer(frame_id, action, context) ==
    LET outcome == Outcome(frame_id, action, context)
    IN  /\ highest_frame_id' = IF frame_id > highest_frame_id THEN frame_id
                               ELSE highest_frame_id
        /\ \/ outcome = "none" /\ UNCHANGED spanVars
           \/ /\ outcome = "barrier" /\ InvalidateSpan
              /\ line_context' = IF action = "Printable" /\ ~HistoryFull
                                 THEN Anchor(context) ELSE line_context
           \/ outcome \notin {"none", "barrier"} /\ Predict(frame_id, context, outcome)
        /\ UNCHANGED <<overwrite, slow, latest_acknowledgement>>

(***************************************************************************)
(* take_reconciliation and acknowledge.                                      *)
(***************************************************************************)
Reconciliation ==
    IF ~overlay_active /\ ~reconciliation_required THEN "none"
    ELSE IF overwrite \/ line_context = NoContext THEN "redraw" ELSE "local"

TakeReconciliation ==
    /\ IF Reconciliation = "none" THEN UNCHANGED spanVars
       ELSE /\ pending' = <<>> /\ predicted_ascii' = <<>> /\ cursor_offset' = 0
            /\ overlay_active' = FALSE /\ reconciliation_required' = FALSE
            /\ line_context' = NoContext
            /\ rollback_cells' = 0
    /\ UNCHANGED <<overwrite, slow, highest_frame_id, latest_acknowledgement>>

\* A bug the properties must catch: an acknowledgement may go back.
Counts_Backwards(ack) == highest_frame_id # None /\ ack <= highest_frame_id

\* Only a non-future, strictly advancing acknowledgement counts.
Counts(ack) ==
    highest_frame_id # None /\ ack <= highest_frame_id /\ ack > latest_acknowledgement

\* The entries from the first unacknowledged one on.
Unacknowledged(frames, ack) ==
    LET passed == {i \in 0 .. Len(frames) : \A j \in 1 .. i : frames[j] <= ack}
        popped == CHOOSE i \in passed : \A j \in passed : j <= i
    IN  SubSeq(frames, popped + 1, Len(frames))

Acknowledge(ack) ==
    /\ IF Counts(ack)
       THEN /\ latest_acknowledgement' = ack
            /\ pending' = Unacknowledged(pending, ack)
            /\ predicted_ascii' = [i \in 1 .. Len(predicted_ascii) |->
                   [predicted_ascii[i] EXCEPT !.acknowledged =
                       @ \/ predicted_ascii[i].frame_id <= ack]]
       ELSE UNCHANGED <<latest_acknowledgement, pending, predicted_ascii>>
    /\ UNCHANGED <<overwrite, slow, cursor_offset, rollback_cells, overlay_active,
                   reconciliation_required, line_context, highest_frame_id>>
=============================================================================
