----------------------- MODULE PredictedScreenProofs -----------------------
(***************************************************************************)
(* For every screen size, frame number and length of the span: the guesses    *)
(* of the predictor stay before the margin, taking them back restores the     *)
(* authoritative screen, and no key takes an acknowledged cell away.          *)
(***************************************************************************)
EXTENDS PredictedScreen, WellFoundedInduction, TLAPS

\* The assumptions, one constant at a time.
LEMMA Bounds ==
    /\ Rows \in Nat /\ Rows > 0 /\ Columns \in Nat /\ Columns > 0
    /\ MaxFrame \in Nat /\ MaxFrame > 0
    /\ MAXIMUM_PENDING_PREDICTIONS \in Nat /\ MAXIMUM_PENDING_PREDICTIONS > 0
    /\ Modes \subseteq BOOLEAN
BY PredictionAssumption, ScreenAssumption

(***************************************************************************)
(* The terminal's control sequences, cell by cell.                           *)
(***************************************************************************)
\* Two screens with the same cells and the same cursor are the same.
LEMMA ScreenEqual ==
    ASSUME NEW s \in Screens, NEW t \in Screens, s.row = t.row, s.column = t.column,
           \A r \in 1 .. Rows, c \in 0 .. (Columns - 1) : s.cells[r][c] = t.cells[r][c]
    PROVE  s = t
<1>1. s.cells \in Cells /\ t.cells \in Cells
  BY DEF Screens
<1>2. ASSUME NEW r \in 1 .. Rows PROVE s.cells[r] = t.cells[r]
  <2>1. /\ s.cells[r] = [c \in 0 .. (Columns - 1) |-> s.cells[r][c]]
        /\ t.cells[r] = [c \in 0 .. (Columns - 1) |-> t.cells[r][c]]
    BY <1>1 DEF Cells
  <2>2. [c \in 0 .. (Columns - 1) |-> s.cells[r][c]] = [c \in 0 .. (Columns - 1) |-> t.cells[r][c]]
    OBVIOUS
  <2>3. QED  BY <2>1, <2>2
<1>3. s.cells = t.cells
  <2>1. /\ s.cells = [r \in 1 .. Rows |-> s.cells[r]]
        /\ t.cells = [r \in 1 .. Rows |-> t.cells[r]]
    BY <1>1 DEF Cells
  <2>2. [r \in 1 .. Rows |-> s.cells[r]] = [r \in 1 .. Rows |-> t.cells[r]]
    BY <1>2
  <2>3. QED  BY <2>1, <2>2
<1>4. QED  BY <1>3 DEF Screens

\* CUP.
LEMMA MoveToFacts ==
    ASSUME NEW s \in Screens, NEW row \in 1 .. Rows, NEW column \in Nat
    PROVE  /\ MoveTo(s, row, column) \in Screens
           /\ MoveTo(s, row, column).cells = s.cells
           /\ MoveTo(s, row, column).row = row
           /\ column >= Columns => MoveTo(s, row, column).column = Columns - 1
           /\ column < Columns => MoveTo(s, row, column).column = column
           /\ MoveTo(s, row, column).column <= column
<1> DEFINE k == IF column >= Columns THEN Columns - 1 ELSE column
<1>1. k \in 0 .. Columns
  BY Bounds
<1>2. MoveTo(s, row, column) = [s EXCEPT !.row = row, !.column = k]
  BY DEF MoveTo
<1>3. /\ column >= Columns => k = Columns - 1
      /\ column < Columns => k = column
      /\ k <= column
  BY Bounds
<1> HIDE DEF k
<1>4. /\ MoveTo(s, row, column) \in Screens
      /\ MoveTo(s, row, column).cells = s.cells
      /\ MoveTo(s, row, column).row = row
      /\ MoveTo(s, row, column).column = k
  BY <1>1, <1>2 DEF Screens
<1>5. QED  BY <1>3, <1>4

\* The column a control acts on.
LEMMA AtFacts ==
    ASSUME NEW s \in Screens
    PROVE  /\ s.cells \in Cells /\ s.row \in 1 .. Rows /\ s.column \in Nat /\ s.column <= Columns
           /\ At(s) \in 0 .. (Columns - 1) /\ At(s) \in Nat /\ At(s) <= s.column
           /\ s.column < Columns => At(s) = s.column
<1>1. s.cells \in Cells /\ s.row \in 1 .. Rows /\ s.column \in 0 .. Columns
  BY DEF Screens
<1>2. QED  BY <1>1, Bounds DEF At

\* CUF and CUB by one.
LEMMA StepFacts ==
    ASSUME NEW s \in Screens, NEW step \in {-1, 1}
    PROVE  /\ Step(s, step) \in Screens
           /\ Step(s, step).cells = s.cells
           /\ Step(s, step).row = s.row
           /\ s.column < Columns /\ 0 <= s.column + step /\ s.column + step < Columns =>
                 Step(s, step).column = s.column + step
           /\ s.column + step < 0 => Step(s, step).column = 0
           /\ 0 <= s.column + step => Step(s, step).column <= s.column + step
<1> DEFINE k == IF At(s) + step < 0 THEN 0 ELSE At(s) + step
<1>1. /\ s.row \in 1 .. Rows /\ s.column \in Nat /\ At(s) \in Nat /\ At(s) <= s.column
      /\ s.column < Columns => At(s) = s.column
      /\ At(s) < Columns /\ s.column <= Columns
  BY AtFacts, Bounds
<1>2. /\ k \in Nat /\ (At(s) + step < 0 => k = 0)
      /\ (0 <= At(s) + step => k = At(s) + step)
  BY <1>1
<1>3. Step(s, step) = MoveTo(s, s.row, k)
  BY DEF Step
<1> HIDE DEF k
<1>4. /\ MoveTo(s, s.row, k) \in Screens
      /\ MoveTo(s, s.row, k).cells = s.cells
      /\ MoveTo(s, s.row, k).row = s.row
      /\ k < Columns => MoveTo(s, s.row, k).column = k
      /\ MoveTo(s, s.row, k).column <= k
  <2>1. s.row \in 1 .. Rows /\ k \in Nat
    BY <1>1, <1>2
  <2>2. QED  BY <2>1, MoveToFacts
<1>6. MoveTo(s, s.row, k).column \in Nat
  BY <1>4, AtFacts
<1>7. s.column + step < 0 => k = 0 /\ k < Columns
  BY <1>1, <1>2, Bounds
<1>8. 0 <= s.column + step => k <= s.column + step
  BY <1>1, <1>2, Bounds
<1>9. s.column < Columns /\ 0 <= s.column + step /\ s.column + step < Columns =>
         k = s.column + step /\ k < Columns
  BY <1>1, <1>2
<1>10. \A x \in Nat, y \in Nat, z \in Int : x <= y /\ y <= z => x <= z
  OBVIOUS
<1>11. s.column + step \in Int
  BY <1>1
<1>12. 0 <= s.column + step => MoveTo(s, s.row, k).column <= s.column + step
  BY <1>2, <1>4, <1>6, <1>8, <1>10, <1>11
<1>13. QED  BY <1>3, <1>4, <1>6, <1>7, <1>9, <1>12

\* A row is replaced.
WithRow(s, f) == [s EXCEPT !.cells[s.row] = f]
LEMMA RowFacts ==
    ASSUME NEW s \in Screens, NEW f \in [0 .. (Columns - 1) -> {Blank, Text, Guess}]
    PROVE  /\ WithRow(s, f) \in Screens
           /\ WithRow(s, f).row = s.row /\ WithRow(s, f).column = s.column
           /\ WithRow(s, f).cells[s.row] = f
           /\ \A r \in (1 .. Rows) \ {s.row} : WithRow(s, f).cells[r] = s.cells[r]
<1> DEFINE t == WithRow(s, f)
<1>1. s.row \in 1 .. Rows /\ s.column \in 0 .. Columns /\ s.cells \in Cells
  BY DEF Screens
<1> DEFINE g == [s.cells EXCEPT ![s.row] = f]
<1>2. g \in Cells /\ g[s.row] = f /\ \A r \in (1 .. Rows) \ {s.row} : g[r] = s.cells[r]
  BY <1>1 DEF Cells
<1>3. t = [cells |-> g, row |-> s.row, column |-> s.column]
  BY DEF Screens, WithRow
<1> HIDE DEF g, t
<1>4. t \in Screens
  BY <1>1, <1>2, <1>3 DEF Screens
<1>5. t.row = s.row /\ t.column = s.column /\ t.cells = g
  BY <1>3
<1>6. QED  BY <1>2, <1>4, <1>5 DEF t

\* A row is replaced and the cursor is on a cell again.
LEMMA RowMoved ==
    ASSUME NEW s \in Screens, NEW f \in [0 .. (Columns - 1) -> {Blank, Text, Guess}],
           NEW t, t = MoveTo(WithRow(s, f), s.row, s.column)
    PROVE  /\ t \in Screens /\ t.row = s.row /\ t.column = At(s)
           /\ \A r \in (1 .. Rows) \ {s.row} : t.cells[r] = s.cells[r]
           /\ t.cells[s.row] = f
<1>1. /\ WithRow(s, f) \in Screens
      /\ WithRow(s, f).row = s.row /\ WithRow(s, f).column = s.column
      /\ WithRow(s, f).cells[s.row] = f
      /\ \A r \in (1 .. Rows) \ {s.row} : WithRow(s, f).cells[r] = s.cells[r]
  BY RowFacts
<1>2. s.row \in 1 .. Rows /\ s.column \in Nat
  BY AtFacts
<1>3. /\ t \in Screens /\ t.cells = WithRow(s, f).cells /\ t.row = s.row
      /\ s.column >= Columns => t.column = Columns - 1
      /\ s.column < Columns => t.column = s.column
  BY <1>1, <1>2, MoveToFacts
<1>4. t.column = At(s)
  BY <1>2, <1>3, Bounds DEF At
<1>5. QED  BY <1>1, <1>3, <1>4

\* ICH.
LEMMA InsertFacts ==
    ASSUME NEW s \in Screens
    PROVE  /\ InsertCharacter(s) \in Screens
           /\ InsertCharacter(s).row = s.row /\ InsertCharacter(s).column = At(s)
           /\ \A r \in (1 .. Rows) \ {s.row} : InsertCharacter(s).cells[r] = s.cells[r]
           /\ \A c \in 0 .. (Columns - 1) :
                 InsertCharacter(s).cells[s.row][c] =
                    IF c < At(s) THEN s.cells[s.row][c]
                    ELSE IF c = At(s) THEN Blank ELSE s.cells[s.row][c - 1]
<1> DEFINE f == [c \in 0 .. (Columns - 1) |->
                    IF c < At(s) THEN s.cells[s.row][c]
                    ELSE IF c = At(s) THEN Blank ELSE s.cells[s.row][c - 1]]
<1>1. s.row \in 1 .. Rows /\ At(s) \in 0 .. (Columns - 1) /\ s.cells \in Cells
  BY AtFacts
<1>2. \A c \in 0 .. (Columns - 1) : s.cells[s.row][c] \in {Blank, Text, Guess}
  BY <1>1 DEF Cells
<1>3. \A c \in 0 .. (Columns - 1) : ~(c < At(s)) /\ c # At(s) => c - 1 \in 0 .. (Columns - 1)
  BY <1>1, Bounds
<1>4. f \in [0 .. (Columns - 1) -> {Blank, Text, Guess}]
  BY <1>2, <1>3
<1>5. InsertCharacter(s) = MoveTo(WithRow(s, f), s.row, s.column)
  BY DEF InsertCharacter, OnRow, WithRow
<1>6. \A c \in 0 .. (Columns - 1) :
         f[c] = IF c < At(s) THEN s.cells[s.row][c]
                ELSE IF c = At(s) THEN Blank ELSE s.cells[s.row][c - 1]
  OBVIOUS
<1> HIDE DEF f
<1>7. /\ InsertCharacter(s) \in Screens
      /\ InsertCharacter(s).row = s.row /\ InsertCharacter(s).column = At(s)
      /\ \A r \in (1 .. Rows) \ {s.row} : InsertCharacter(s).cells[r] = s.cells[r]
      /\ InsertCharacter(s).cells[s.row] = f
  BY <1>4, <1>5, RowMoved
<1>8. QED  BY <1>6, <1>7

\* DCH.
LEMMA DeleteFacts ==
    ASSUME NEW s \in Screens, NEW n \in Nat
    PROVE  /\ DeleteCharacters(s, n) \in Screens
           /\ DeleteCharacters(s, n).row = s.row /\ DeleteCharacters(s, n).column = At(s)
           /\ \A r \in (1 .. Rows) \ {s.row} : DeleteCharacters(s, n).cells[r] = s.cells[r]
           /\ \A c \in 0 .. (Columns - 1) :
                 DeleteCharacters(s, n).cells[s.row][c] =
                    IF c < At(s) THEN s.cells[s.row][c]
                    ELSE IF c + n < Columns THEN s.cells[s.row][c + n] ELSE Blank
<1> DEFINE f == [c \in 0 .. (Columns - 1) |->
                    IF c < At(s) THEN s.cells[s.row][c]
                    ELSE IF c + n < Columns THEN s.cells[s.row][c + n] ELSE Blank]
<1>1. s.row \in 1 .. Rows /\ At(s) \in 0 .. (Columns - 1) /\ s.cells \in Cells
  BY AtFacts
<1>2. \A c \in 0 .. (Columns - 1) : s.cells[s.row][c] \in {Blank, Text, Guess}
  BY <1>1 DEF Cells
<1>3. \A c \in 0 .. (Columns - 1) : c + n < Columns => c + n \in 0 .. (Columns - 1)
  BY <1>1, Bounds
<1>4. f \in [0 .. (Columns - 1) -> {Blank, Text, Guess}]
  BY <1>2, <1>3
<1>5. DeleteCharacters(s, n) = MoveTo(WithRow(s, f), s.row, s.column)
  BY DEF DeleteCharacters, OnRow, WithRow
<1>6. \A c \in 0 .. (Columns - 1) :
         f[c] = IF c < At(s) THEN s.cells[s.row][c]
                ELSE IF c + n < Columns THEN s.cells[s.row][c + n] ELSE Blank
  OBVIOUS
<1> HIDE DEF f
<1>7. /\ DeleteCharacters(s, n) \in Screens
      /\ DeleteCharacters(s, n).row = s.row /\ DeleteCharacters(s, n).column = At(s)
      /\ \A r \in (1 .. Rows) \ {s.row} : DeleteCharacters(s, n).cells[r] = s.cells[r]
      /\ DeleteCharacters(s, n).cells[s.row] = f
  BY <1>4, <1>5, RowMoved
<1>8. QED  BY <1>6, <1>7

\* The next line is on the screen.
LEMMA NextLineType ==
    ASSUME NEW s \in Screens
    PROVE  NextLine(s) \in Screens /\ NextLine(s).column = 0
<1>1. s.row \in 1 .. Rows /\ s.column \in 0 .. Columns /\ s.cells \in Cells
  BY DEF Screens
<1>2. CASE s.row < Rows
  <2>1. s.row + 1 \in 1 .. Rows /\ 0 \in Nat /\ ~(0 >= Columns)
    BY <1>1, <1>2, Bounds
  <2>2. MoveTo(s, s.row + 1, 0) \in Screens /\ (0 < Columns => MoveTo(s, s.row + 1, 0).column = 0)
    BY <2>1, MoveToFacts
  <2>3. NextLine(s) = MoveTo(s, s.row + 1, 0) /\ 0 < Columns
    BY <1>2, Bounds DEF NextLine
  <2>4. QED  BY <2>2, <2>3
<1>3. CASE ~(s.row < Rows)
  <2> DEFINE g == [r \in 1 .. Rows |-> IF r < Rows THEN s.cells[r + 1]
                                      ELSE [c \in 0 .. (Columns - 1) |-> Blank]]
  <2>1. [c \in 0 .. (Columns - 1) |-> Blank] \in [0 .. (Columns - 1) -> {Blank, Text, Guess}]
    OBVIOUS
  <2>2. \A r \in 1 .. Rows : r < Rows => r + 1 \in 1 .. Rows
    BY Bounds
  <2>3. g \in Cells
    BY <1>1, <2>1, <2>2 DEF Cells
  <2>4. NextLine(s) = [s EXCEPT !.column = 0, !.cells = g]
    BY <1>3 DEF NextLine
  <2> HIDE DEF g
  <2>5. 0 \in 0 .. Columns
    BY Bounds
  <2>6. QED  BY <2>3, <2>4, <2>5 DEF Screens
<1>4. QED  BY <1>2, <1>3

\* A character is written and the cursor steps on.
LEMMA PutFacts ==
    ASSUME NEW s \in Screens, NEW value \in {Blank, Text, Guess}, NEW width \in 0 .. 2
    PROVE  /\ Put(s, value, width) \in Screens
           /\ width = 1 /\ s.column < Columns =>
                 /\ Put(s, value, width).row = s.row
                 /\ Put(s, value, width).column = s.column + 1
                 /\ \A r \in 1 .. Rows, c \in 0 .. (Columns - 1) :
                       Put(s, value, width).cells[r][c] =
                          IF r = s.row /\ c = s.column THEN value ELSE s.cells[r][c]
<1> DEFINE start == IF s.column + width > Columns THEN NextLine(s) ELSE s
           after == IF start.column + width > Columns THEN Columns ELSE start.column + width
           f == [c \in 0 .. (Columns - 1) |->
                    IF \/ start.column <= c /\ c < after
                       \/ width = 0 /\ c = start.column - 1
                    THEN value ELSE start.cells[start.row][c]]
           t == WithRow(start, f)
<1>1. start \in Screens
  BY NextLineType
<1>2. Put(s, value, width) = [t EXCEPT !.column = after]
  BY DEF Put, OnRow, WithRow
<1>3. width = 1 /\ s.column < Columns => start = s
  BY AtFacts, Bounds
<1> HIDE DEF start
<1>4. /\ start.row \in 1 .. Rows /\ start.cells \in Cells
      /\ start.column \in Nat /\ start.column <= Columns
  BY <1>1, AtFacts
<1>5. \A c \in 0 .. (Columns - 1) : start.cells[start.row][c] \in {Blank, Text, Guess}
  BY <1>4 DEF Cells
<1>6. f \in [0 .. (Columns - 1) -> {Blank, Text, Guess}]
  BY <1>5
<1>7. after \in 0 .. Columns
  BY <1>4, Bounds
<1>8. width = 1 /\ start.column < Columns => after = start.column + 1
  BY <1>4, Bounds
<1> HIDE DEF after
<1>9. \A c \in 0 .. (Columns - 1) : width = 1 /\ start.column < Columns =>
         f[c] = IF c = start.column THEN value ELSE start.cells[start.row][c]
  BY <1>4, <1>8
<1> HIDE DEF f
<1>10. /\ t \in Screens /\ t.row = start.row
       /\ t.cells[start.row] = f
       /\ \A r \in (1 .. Rows) \ {start.row} : t.cells[r] = start.cells[r]
  BY <1>1, <1>6, RowFacts
<1> HIDE DEF t
<1>11. /\ Put(s, value, width) \in Screens
       /\ Put(s, value, width).row = t.row
       /\ Put(s, value, width).column = after
       /\ Put(s, value, width).cells = t.cells
  BY <1>2, <1>7, <1>10 DEF Screens
<1>12. ASSUME width = 1, s.column < Columns
       PROVE  /\ t.row = s.row /\ after = s.column + 1
              /\ \A r \in 1 .. Rows, c \in 0 .. (Columns - 1) :
                    t.cells[r][c] = IF r = s.row /\ c = s.column THEN value ELSE s.cells[r][c]
  <2>1. start = s
    BY <1>3, <1>12
  <2>2. \A c \in 0 .. (Columns - 1) : f[c] = IF c = s.column THEN value ELSE s.cells[s.row][c]
    BY <1>9, <1>12, <2>1
  <2>3. QED  BY <1>8, <1>10, <1>12, <2>1, <2>2
<1>13. QED  BY <1>11, <1>12

(***************************************************************************)
(* The span.                                                                *)
(***************************************************************************)
\* What is left of the pending actions after an acknowledgement is a part of them.
LEMMA UnacknowledgedFacts ==
    ASSUME NEW S, NEW frames \in Seq(S), NEW ack
    PROVE  /\ Unacknowledged(frames, ack) \in Seq(S)
           /\ Len(Unacknowledged(frames, ack)) <= Len(frames)
<1> DEFINE passed == {i \in 0 .. Len(frames) : \A j \in 1 .. i : frames[j] <= ack}
           left == {k \in 0 .. Len(frames) : Len(frames) - k \in passed}
           popped == CHOOSE i \in passed : \A j \in passed : j <= i
<1>1. Len(frames) \in Nat
  OBVIOUS
<1>2. 0 \in passed
  BY <1>1
<1>3. passed \subseteq 0 .. Len(frames)
  OBVIOUS
<1> HIDE DEF passed
<1>4. left \subseteq Nat /\ Len(frames) \in left
  BY <1>1, <1>2
<1>5. PICK k \in left : \A j \in left : ~(<<j, k>> \in OpToRel(<, Nat))
  BY <1>4, WFMin, NatLessThanWellFounded
<1>6. \A j \in left : ~(j < k)
  BY <1>4, <1>5 DEF OpToRel
<1>7. Len(frames) - k \in passed /\ \A j \in passed : j <= Len(frames) - k
  <2>1. Len(frames) - k \in passed /\ k \in Nat
    BY <1>4, <1>5
  <2>2. ASSUME NEW j \in passed PROVE j <= Len(frames) - k
    <3>1. j \in Nat /\ j <= Len(frames) /\ Len(frames) - (Len(frames) - j) = j
      BY <1>1, <1>3
    <3>2. Len(frames) - j \in left
      BY <1>1, <1>3, <3>1
    <3>3. ~(Len(frames) - j < k)
      BY <1>6, <3>2
    <3>4. QED  BY <1>1, <2>1, <3>1, <3>3
  <2>3. QED  BY <2>1, <2>2
<1>8. popped \in 0 .. Len(frames)
  BY <1>3, <1>7
<1>9. Unacknowledged(frames, ack) = SubSeq(frames, popped + 1, Len(frames))
  BY DEF Unacknowledged, passed
<1> HIDE DEF popped
<1>10. \A i \in (popped + 1) .. Len(frames) : frames[i] \in S
  BY <1>8
<1>11. /\ SubSeq(frames, popped + 1, Len(frames)) \in Seq(S)
       /\ Len(SubSeq(frames, popped + 1, Len(frames))) =
             IF popped + 1 <= Len(frames) THEN Len(frames) - (popped + 1) + 1 ELSE 0
  BY <1>1, <1>8, <1>10
<1>12. \A n \in Nat : \A p \in 0 .. n : (IF p + 1 <= n THEN n - (p + 1) + 1 ELSE 0) <= n
  OBVIOUS
<1>13. QED  BY <1>1, <1>8, <1>9, <1>11, <1>12

\* What an offer comes to.
LEMMA OutcomeFacts ==
    ASSUME NEW action \in {"Printable", "Backspace", "Left", "Right", "Barrier"}, NEW context,
           NEW o, o = Outcome(frame, action, context)
    PROVE  /\ o \in {"none", "barrier", "insert", "overwrite", "delete", "left", "right"}
           /\ o \notin {"none", "barrier"} =>
                 /\ ~reconciliation_required /\ ~HistoryFull /\ action # "Barrier"
                 /\ ~(frame < highest_frame_id)
           /\ o \in {"insert", "overwrite"} => AtSpanEnd /\ Fits(Anchor(context), context)
           /\ o = "insert" => ~overwrite
           /\ o = "overwrite" => overwrite
           /\ o = "delete" => ~overwrite /\ cursor_offset # 0 /\ AtSpanEnd /\ ~LastAcknowledged
           /\ o = "left" => cursor_offset # 0
           /\ o = "right" => ~AtSpanEnd
<1>1. CASE action = "Barrier"
  BY <1>1 DEF Outcome
<1>2. CASE action = "Printable"
  BY <1>2 DEF Outcome
<1>3. CASE action = "Backspace"
  BY <1>3 DEF Outcome
<1>4. CASE action = "Left"
  BY <1>4 DEF Outcome
<1>5. CASE action = "Right"
  BY <1>5 DEF Outcome
<1>6. QED  BY <1>1, <1>2, <1>3, <1>4, <1>5

\* What the invariant says of the span, without the sequences.
LEMMA SpanFacts ==
    ASSUME IInv
    PROVE  /\ Len(pending) \in Nat /\ Len(predicted_ascii) \in Nat
           /\ cursor_offset \in Nat /\ cursor_offset <= Len(predicted_ascii)
           /\ rollback_cells \in Nat
           /\ Len(pending) <= MAXIMUM_PENDING_PREDICTIONS
           /\ Len(predicted_ascii) <= MAXIMUM_PENDING_PREDICTIONS
           /\ highest_frame_id \in Int /\ latest_acknowledgement \in Int
           /\ highest_frame_id \in {None} \cup 0 .. MaxFrame
           /\ latest_acknowledgement \in {None} \cup 0 .. MaxFrame
           /\ frame \in Nat /\ frame \in 0 .. MaxFrame
           /\ Context.row \in 1 .. Rows /\ Context.column \in 0 .. (Columns - 1)
           /\ Context.columns = Columns /\ Context # NoContext
<1>1. pending \in Seq(0 .. MaxFrame) /\ predicted_ascii \in Seq(PredictedCell)
  BY DEF IInv, SpanInv
<1>2. Len(pending) \in Nat /\ Len(predicted_ascii) \in Nat
  BY <1>1
<1>3. /\ cursor_offset \in 0 .. Len(predicted_ascii) /\ rollback_cells \in 0 .. Columns
      /\ highest_frame_id \in {None} \cup 0 .. MaxFrame
      /\ latest_acknowledgement \in {None} \cup 0 .. MaxFrame
      /\ Len(pending) <= MAXIMUM_PENDING_PREDICTIONS
      /\ Len(predicted_ascii) <= MAXIMUM_PENDING_PREDICTIONS
  BY DEF IInv, TypeOK, SpanType
<1>4. highest_frame_id \in Int /\ latest_acknowledgement \in Int
  BY <1>3, Bounds DEF None
<1>5. frame \in Nat /\ frame \in 0 .. MaxFrame
  BY Bounds DEF IInv, SpanInv
<1>6. authoritative.row \in 1 .. Rows /\ authoritative.column \in 0 .. (Columns - 1)
  BY Bounds DEF IInv, ModelInv, Screens
<1>7. /\ Context.row \in 1 .. Rows /\ Context.column \in 0 .. (Columns - 1)
      /\ Context.columns = Columns
  BY <1>6 DEF Context
<1>8. Context # NoContext
  <2>1. Context.row # -1
    BY <1>7, Bounds
  <2>2. QED  BY <2>1 DEF NoContext, None
<1>9. QED  BY <1>2, <1>3, <1>4, <1>5, <1>7, <1>8

\* The elements of a sequence.
LEMMA Elements ==
    ASSUME NEW S, NEW s \in Seq(S)
    PROVE  \A i \in 1 .. Len(s) : s[i] \in S
OBVIOUS

\* How the types of the span are shown.
LEMMA SpanTyped ==
    ASSUME pending' \in Seq(0 .. MaxFrame), Len(pending') <= MAXIMUM_PENDING_PREDICTIONS,
           predicted_ascii' \in Seq(PredictedCell),
           Len(predicted_ascii') <= MAXIMUM_PENDING_PREDICTIONS,
           cursor_offset' \in 0 .. Len(predicted_ascii'),
           highest_frame_id' \in {None} \cup 0 .. MaxFrame,
           latest_acknowledgement' \in {None} \cup 0 .. MaxFrame,
           rollback_cells' \in 0 .. Columns
    PROVE  SpanType'
<1>1. \A i \in 1 .. Len(pending') : pending'[i] \in 0 .. MaxFrame
  BY Elements, Zenon
<1>2. \A i \in 1 .. Len(predicted_ascii') : predicted_ascii'[i] \in PredictedCell
  BY Elements, Zenon
<1>3. QED  BY <1>1, <1>2 DEF SpanType, PredictedCell

\* An acknowledged cell stays, or the whole span goes.
CellsStay ==
    \A i \in 1 .. Len(predicted_ascii) :
        predicted_ascii[i].acknowledged =>
            (i <= Len(predicted_ascii') \/ <<predicted_ascii, pending>>' = <<<<>>, <<>>>>)

\* Steps that leave the span and the screen's cursor alone.
LEMMA SpanKept ==
    ASSUME IInv, UNCHANGED <<overwrite, spanVars>>,
           highest_frame_id' \in {highest_frame_id, frame}, latest_acknowledgement' = latest_acknowledgement,
           frame' \in {frame, frame + 1}, frame' <= MaxFrame,
           overlay_active => Context' = Context
    PROVE  SpanType' /\ SpanInv' /\ AcknowledgementsAgree' /\ CellsStay
<1> USE DEF spanVars
<1>1. UNCHANGED <<pending, predicted_ascii, cursor_offset, rollback_cells, overlay_active,
                  reconciliation_required, line_context>>
  OBVIOUS
<1>2. highest_frame_id' \in {None} \cup 0 .. MaxFrame
  BY SpanFacts
<1>3. SpanType'
  BY <1>1, <1>2 DEF IInv, TypeOK, SpanType
<1>4. SpanInv'
  <2>1. /\ frame' \in 1 .. MaxFrame /\ highest_frame_id' <= frame'
        /\ latest_acknowledgement' < frame'
    BY SpanFacts, Bounds DEF IInv, SpanInv
  <2>2. QED  BY <1>1, <2>1 DEF IInv, SpanInv
<1>5. AcknowledgementsAgree'
  BY <1>1 DEF IInv, AcknowledgementsAgree
<1>6. CellsStay
  <2>1. Len(predicted_ascii) \in Nat
    BY SpanFacts
  <2>2. QED  BY <1>1, <2>1 DEF CellsStay
<1>7. QED  BY <1>3, <1>4, <1>5, <1>6

\* invalidate_span.
LEMMA SpanInvalidated ==
    ASSUME IInv, InvalidateSpan, UNCHANGED <<overwrite, latest_acknowledgement, frame, authoritative>>,
           highest_frame_id' \in {highest_frame_id, frame},
           overlay_active => line_context' = line_context
    PROVE  SpanType' /\ SpanInv' /\ AcknowledgementsAgree' /\ CellsStay
<1>1. /\ pending' = <<>> /\ predicted_ascii' = <<>> /\ cursor_offset' = 0
      /\ reconciliation_required' <=> (reconciliation_required \/ overlay_active)
      /\ UNCHANGED <<rollback_cells, overlay_active>>
  BY DEF InvalidateSpan
<1>2. highest_frame_id' \in {None} \cup 0 .. MaxFrame /\ highest_frame_id' <= frame
  BY SpanFacts DEF IInv, SpanInv
<1>3. Context' = Context
  BY DEF Context
<1>4. SpanType'
  <2>1. Len(<<>>) = 0 /\ <<>> \in Seq(0 .. MaxFrame) /\ <<>> \in Seq(PredictedCell)
    OBVIOUS
  <2>2. rollback_cells' \in 0 .. Columns
    BY <1>1 DEF IInv, TypeOK, SpanType
  <2>3. QED  BY <1>1, <1>2, <2>1, <2>2, SpanFacts, SpanTyped, Bounds
<1>5. SpanInv'
  <2>1. ~reconciliation_required' => rollback_cells' = 0
    BY <1>1 DEF IInv, SpanInv
  <2>2. Len(<<>>) = 0 /\ <<>> \in Seq(0 .. MaxFrame) /\ <<>> \in Seq(PredictedCell)
    OBVIOUS
  <2>3. QED  BY <1>1, <1>2, <1>3, <2>1, <2>2 DEF IInv, SpanInv
<1>6. AcknowledgementsAgree'
  BY <1>1 DEF AcknowledgementsAgree
<1>7. CellsStay
  BY <1>1 DEF CellsStay
<1>8. QED  BY <1>4, <1>5, <1>6, <1>7

\* An action joins the pending ones.
LEMMA PendingGrows ==
    ASSUME IInv, ~HistoryFull, pending' = Append(pending, frame)
    PROVE  pending' \in Seq(0 .. MaxFrame) /\ Len(pending') <= MAXIMUM_PENDING_PREDICTIONS
<1>1. pending \in Seq(0 .. MaxFrame) /\ frame \in 0 .. MaxFrame
  BY SpanFacts DEF IInv, SpanInv
<1>2. pending' \in Seq(0 .. MaxFrame) /\ Len(pending') = Len(pending) + 1
  BY <1>1
<1>3. Len(pending) \in Nat /\ ~(Len(pending) >= MAXIMUM_PENDING_PREDICTIONS)
  BY SpanFacts DEF HistoryFull
<1>4. QED  BY <1>2, <1>3, Bounds

\* A predicted character.
LEMMA SpanPrintable ==
    ASSUME IInv, UNCHANGED <<overwrite, latest_acknowledgement, frame, authoritative>>,
           highest_frame_id' \in {highest_frame_id, frame},
           ~HistoryFull, ~reconciliation_required, AtSpanEnd, Fits(Anchor(Context), Context),
           PredictPrintable(frame, Context), pending' = Append(pending, frame),
           overlay_active' = TRUE, UNCHANGED reconciliation_required
    PROVE  SpanType' /\ SpanInv' /\ AcknowledgementsAgree' /\ CellsStay
<1> DEFINE x == [frame_id |-> frame, acknowledged |-> FALSE]
           n == Len(predicted_ascii)
<1>1. /\ predicted_ascii' = Append(predicted_ascii, x)
      /\ cursor_offset' = cursor_offset + 1 /\ rollback_cells' = rollback_cells + 1
      /\ line_context' = Context
      /\ Context.column + cursor_offset < Context.columns - 1
  BY DEF PredictPrintable, Fits
<1>2. /\ n \in Nat /\ cursor_offset = n /\ rollback_cells = n
      /\ ~(n >= MAXIMUM_PENDING_PREDICTIONS)
  BY SpanFacts DEF IInv, SpanInv, AtSpanEnd, HistoryFull
<1>3. x \in PredictedCell /\ predicted_ascii \in Seq(PredictedCell)
  BY SpanFacts DEF PredictedCell, IInv, SpanInv
<1>4. /\ predicted_ascii' \in Seq(PredictedCell) /\ Len(predicted_ascii') = n + 1
      /\ predicted_ascii'[n + 1] = x
      /\ \A i \in 1 .. n : predicted_ascii'[i] = predicted_ascii[i]
  <2> HIDE DEF x
  <2>1. QED  BY <1>1, <1>3
<1>5. /\ pending' \in Seq(0 .. MaxFrame) /\ Len(pending') <= MAXIMUM_PENDING_PREDICTIONS
  BY PendingGrows
<1> HIDE DEF n
<1>6. /\ Context.column \in Nat /\ Context.column + (n + 1) < Columns /\ n + 1 \in 0 .. Columns
      /\ n + 1 <= MAXIMUM_PENDING_PREDICTIONS
  BY <1>1, <1>2, SpanFacts, Bounds
<1>7. highest_frame_id' \in {None} \cup 0 .. MaxFrame /\ highest_frame_id' <= frame
  BY SpanFacts DEF IInv, SpanInv
<1>8. SpanType'
  <2>1. cursor_offset' \in 0 .. Len(predicted_ascii') /\ rollback_cells' \in 0 .. Columns
    BY <1>1, <1>2, <1>4, <1>6
  <2>2. QED  BY <1>4, <1>5, <1>6, <1>7, <2>1, SpanFacts, SpanTyped
<1>9. SpanInv'
  <2>1. Context' = Context
    BY DEF Context
  <2>2. rollback_cells' = Len(predicted_ascii') /\ Context.column + rollback_cells' < Columns
    BY <1>1, <1>2, <1>4, <1>6
  <2>3. QED  BY <1>1, <1>4, <1>5, <1>7, <2>1, <2>2 DEF IInv, SpanInv
<1>10. AcknowledgementsAgree'
  <2>1. ~(frame <= latest_acknowledgement)
    BY SpanFacts DEF IInv, SpanInv
  <2>2. ~x.acknowledged /\ x.frame_id = frame
    OBVIOUS
  <2> HIDE DEF x
  <2>3. ASSUME NEW i \in 1 .. n + 1
        PROVE  predicted_ascii'[i].acknowledged <=>
                  predicted_ascii'[i].frame_id <= latest_acknowledgement
    <3>1. CASE i = n + 1
      BY <1>4, <2>1, <2>2, <3>1
    <3>2. CASE i # n + 1
      <4>1. i \in 1 .. n
        BY <1>2, <3>2
      <4>2. QED  BY <1>4, <4>1 DEF IInv, AcknowledgementsAgree, n
    <3>3. QED  BY <3>1, <3>2
  <2>4. QED  BY <1>4, <2>3 DEF AcknowledgementsAgree
<1>11. CellsStay
  <2>1. \A i \in 1 .. n : i <= n + 1
    BY <1>2
  <2>2. QED  BY <1>4, <2>1 DEF CellsStay, n
<1>12. QED  BY <1>8, <1>9, <1>10, <1>11

\* A cancelled character.
LEMMA SpanBackspace ==
    ASSUME IInv, UNCHANGED <<overwrite, latest_acknowledgement, frame, authoritative>>,
           highest_frame_id' \in {highest_frame_id, frame},
           ~HistoryFull, ~reconciliation_required, AtSpanEnd, cursor_offset # 0,
           ~LastAcknowledged, PredictBackspace, pending' = Append(pending, frame),
           overlay_active' = TRUE, UNCHANGED reconciliation_required
    PROVE  /\ SpanType' /\ SpanInv' /\ AcknowledgementsAgree' /\ CellsStay
           /\ overlay_active /\ rollback_cells > 0 /\ rollback_cells' = rollback_cells - 1
<1> DEFINE n == Len(predicted_ascii)
<1>1. /\ predicted_ascii' = SubSeq(predicted_ascii, 1, n - 1)
      /\ cursor_offset' = cursor_offset - 1
      /\ rollback_cells' = (IF rollback_cells = 0 THEN 0 ELSE rollback_cells - 1)
      /\ line_context' = line_context
  BY DEF PredictBackspace, Front
<1>2. /\ n \in Nat /\ n > 0 /\ cursor_offset = n /\ rollback_cells = n
      /\ n <= MAXIMUM_PENDING_PREDICTIONS
  BY SpanFacts DEF IInv, SpanInv, AtSpanEnd
<1>3. predicted_ascii \in Seq(PredictedCell)
  BY DEF IInv, SpanInv
<1>4. /\ predicted_ascii' \in Seq(PredictedCell) /\ Len(predicted_ascii') = n - 1
      /\ \A i \in 1 .. (n - 1) : predicted_ascii'[i] = predicted_ascii[i]
  <2>1. \A i \in 1 .. (n - 1) : predicted_ascii[i] \in PredictedCell
    BY <1>3
  <2>2. /\ SubSeq(predicted_ascii, 1, n - 1) \in Seq(PredictedCell)
        /\ Len(SubSeq(predicted_ascii, 1, n - 1)) = IF 1 <= n - 1 THEN (n - 1) - 1 + 1 ELSE 0
        /\ \A i \in 1 .. (n - 1) : SubSeq(predicted_ascii, 1, n - 1)[i] = predicted_ascii[i]
    BY <1>2, <1>3, <2>1
  <2> HIDE DEF n
  <2>3. (IF 1 <= n - 1 THEN (n - 1) - 1 + 1 ELSE 0) = n - 1
    BY <1>2
  <2>4. QED  BY <1>1, <2>2, <2>3
<1>5. /\ pending' \in Seq(0 .. MaxFrame) /\ Len(pending') <= MAXIMUM_PENDING_PREDICTIONS
  BY PendingGrows
<1>6. highest_frame_id' \in {None} \cup 0 .. MaxFrame /\ highest_frame_id' <= frame
  BY SpanFacts DEF IInv, SpanInv
<1>7. overlay_active /\ line_context = Context /\ Context.column + n < Columns
  <2>1. overlay_active
    BY <1>2 DEF IInv, SpanInv
  <2>2. QED  BY <1>2, <2>1 DEF IInv, SpanInv
<1>8. predicted_ascii # <<>>
  BY <1>2
<1> HIDE DEF n
<1>9. rollback_cells > 0 /\ rollback_cells' = rollback_cells - 1
  BY <1>1, <1>2
<1>10. SpanType'
  <2>1. /\ cursor_offset' \in 0 .. Len(predicted_ascii') /\ rollback_cells' \in 0 .. Columns
        /\ Len(predicted_ascii') <= MAXIMUM_PENDING_PREDICTIONS
    BY <1>1, <1>2, <1>4, <1>7, SpanFacts, Bounds
  <2>2. QED  BY <1>4, <1>5, <1>6, <2>1, SpanFacts, SpanTyped
<1>11. SpanInv'
  <2>1. Context' = Context
    BY DEF Context
  <2>2. rollback_cells' = Len(predicted_ascii') /\ Context.column + rollback_cells' < Columns
    BY <1>1, <1>2, <1>4, <1>7, SpanFacts, Bounds
  <2>3. QED  BY <1>1, <1>4, <1>5, <1>6, <1>7, <2>1, <2>2 DEF IInv, SpanInv
<1>12. AcknowledgementsAgree'
  <2>1. \A i \in 1 .. (n - 1) : i \in 1 .. n
    BY <1>2
  <2>2. QED  BY <1>4, <2>1 DEF IInv, AcknowledgementsAgree, n
<1>13. CellsStay
  <2>1. ~(predicted_ascii[n].frame_id <= latest_acknowledgement)
    BY <1>8 DEF LastAcknowledged, Last, n
  <2>2. ~predicted_ascii[n].acknowledged
    <3>1. n \in 1 .. n
      BY <1>2
    <3>2. QED  BY <2>1, <3>1 DEF IInv, AcknowledgementsAgree, n
  <2>3. \A i \in 1 .. n : i = n \/ i <= n - 1
    BY <1>2
  <2>4. QED  BY <1>4, <2>2, <2>3 DEF CellsStay, n
<1>14. QED  BY <1>7, <1>9, <1>10, <1>11, <1>12, <1>13

\* A cursor movement inside the span.
LEMMA SpanMove ==
    ASSUME IInv, UNCHANGED <<overwrite, latest_acknowledgement, frame, authoritative>>,
           highest_frame_id' \in {highest_frame_id, frame}, NEW step \in {-1, 1},
           ~HistoryFull, ~reconciliation_required,
           step = -1 => cursor_offset # 0, step = 1 => ~AtSpanEnd,
           PredictMove(step), pending' = Append(pending, frame),
           overlay_active' = TRUE, UNCHANGED reconciliation_required
    PROVE  /\ SpanType' /\ SpanInv' /\ AcknowledgementsAgree' /\ CellsStay
           /\ overlay_active /\ cursor_offset + step \in Nat
           /\ cursor_offset + step <= rollback_cells
<1>1. UNCHANGED <<predicted_ascii, rollback_cells, line_context>> /\ cursor_offset' = cursor_offset + step
  BY DEF PredictMove
<1>2. cursor_offset + step \in 0 .. Len(predicted_ascii) /\ Len(predicted_ascii) \in Nat
  <2>1. cursor_offset \in Nat /\ cursor_offset <= Len(predicted_ascii) /\ Len(predicted_ascii) \in Nat
    BY SpanFacts
  <2>2. step = 1 => cursor_offset # Len(predicted_ascii)
    BY DEF AtSpanEnd
  <2>3. \A a \in Nat, b \in Nat :
           a <= b /\ (step = -1 => a # 0) /\ (step = 1 => a # b) => a + step \in 0 .. b
    OBVIOUS
  <2>4. QED  BY <2>1, <2>2, <2>3, Zenon
<1>3. /\ pending' \in Seq(0 .. MaxFrame) /\ Len(pending') <= MAXIMUM_PENDING_PREDICTIONS
  BY PendingGrows
<1>4. highest_frame_id' \in {None} \cup 0 .. MaxFrame /\ highest_frame_id' <= frame
  BY SpanFacts DEF IInv, SpanInv
<1>5. rollback_cells = Len(predicted_ascii)
  BY DEF IInv, SpanInv
<1>6. overlay_active
  <2>1. rollback_cells # 0
    <3>1. cursor_offset \in Nat /\ cursor_offset <= Len(predicted_ascii)
      BY SpanFacts
    <3>2. \A a \in Nat, b \in Nat : a <= b /\ a + step \in 0 .. b => b # 0
      OBVIOUS
    <3>3. QED  BY <1>2, <1>5, <3>1, <3>2, Zenon
  <2>2. QED  BY <2>1 DEF IInv, SpanInv
<1>7. SpanType'
  <2>1. /\ predicted_ascii' \in Seq(PredictedCell) /\ rollback_cells' \in 0 .. Columns
    BY <1>1 DEF IInv, SpanInv, TypeOK, SpanType
  <2>2. Len(predicted_ascii') <= MAXIMUM_PENDING_PREDICTIONS
    BY <1>1, SpanFacts
  <2>3. cursor_offset' \in 0 .. Len(predicted_ascii')
    BY <1>1, <1>2
  <2>4. QED  BY <1>3, <1>4, <2>1, <2>2, <2>3, SpanFacts, SpanTyped
<1>8. SpanInv'
  <2>1. Context' = Context
    BY DEF Context
  <2>2. QED  BY <1>1, <1>3, <1>4, <1>6, <2>1 DEF IInv, SpanInv
<1>9. AcknowledgementsAgree'
  BY <1>1 DEF IInv, AcknowledgementsAgree
<1>10. CellsStay
  BY <1>1, <1>2 DEF CellsStay
<1>11. cursor_offset + step \in Nat /\ cursor_offset + step <= rollback_cells
  BY <1>2, <1>5
<1>12. QED  BY <1>6, <1>7, <1>8, <1>9, <1>10, <1>11

\* offer_for_frame_with_context: the span after it, and what the screen must match.
LEMMA OfferSpan ==
    ASSUME IInv, NEW action \in {"Printable", "Backspace", "Left", "Right", "Barrier"},
           NEW context, action = "Barrier" \/ context = Context,
           Offer(frame, action, context), UNCHANGED <<frame, authoritative>>,
           NEW o, o = Outcome(frame, action, context)
    PROVE  /\ SpanType' /\ SpanInv' /\ AcknowledgementsAgree' /\ CellsStay
           /\ overwrite' = overwrite
           /\ o \in {"none", "barrier", "insert", "overwrite", "delete", "left", "right"}
           /\ o = "none" => UNCHANGED <<cursor_offset, rollback_cells, overlay_active,
                                        reconciliation_required>>
           /\ o = "barrier" =>
                 /\ UNCHANGED <<rollback_cells, overlay_active>>
                 /\ overlay_active => reconciliation_required'
                 /\ ~overlay_active => cursor_offset' = 0 /\ cursor_offset = 0
           /\ o \notin {"none", "barrier"} => ~reconciliation_required /\ overlay_active'
           /\ o \in {"insert", "overwrite"} =>
                 /\ cursor_offset' = cursor_offset + 1 /\ rollback_cells' = rollback_cells + 1
                 /\ cursor_offset = rollback_cells
                 /\ authoritative.column + cursor_offset < Columns - 1
           /\ o = "insert" => ~overwrite
           /\ o = "overwrite" => overwrite
           /\ o = "delete" =>
                 /\ ~overwrite /\ overlay_active
                 /\ cursor_offset' = cursor_offset - 1 /\ rollback_cells' = rollback_cells - 1
                 /\ cursor_offset = rollback_cells /\ rollback_cells > 0
           /\ o \in {"left", "right"} =>
                 /\ overlay_active /\ UNCHANGED rollback_cells
                 /\ cursor_offset' = cursor_offset + (IF o = "left" THEN -1 ELSE 1)
                 /\ cursor_offset' \in Nat /\ cursor_offset' <= rollback_cells
<1>1. /\ o \in {"none", "barrier", "insert", "overwrite", "delete", "left", "right"}
      /\ o \notin {"none", "barrier"} =>
            /\ ~reconciliation_required /\ ~HistoryFull /\ action # "Barrier"
            /\ ~(frame < highest_frame_id)
      /\ o \in {"insert", "overwrite"} => AtSpanEnd /\ Fits(Anchor(context), context)
      /\ o = "insert" => ~overwrite
      /\ o = "overwrite" => overwrite
      /\ o = "delete" => ~overwrite /\ cursor_offset # 0 /\ AtSpanEnd /\ ~LastAcknowledged
      /\ o = "left" => cursor_offset # 0
      /\ o = "right" => ~AtSpanEnd
  BY OutcomeFacts
<1>2. /\ highest_frame_id' \in {highest_frame_id, frame}
      /\ UNCHANGED <<overwrite, latest_acknowledgement>>
      /\ \/ o = "none" /\ UNCHANGED spanVars
         \/ /\ o = "barrier" /\ InvalidateSpan
            /\ line_context' \in {Anchor(context), line_context}
            /\ action = "Barrier" => line_context' = line_context
         \/ o \notin {"none", "barrier"} /\ Predict(frame, context, o)
  BY DEF Offer
<1>3. CASE o = "none"
  <2>1. UNCHANGED spanVars /\ Context' = Context
    BY <1>2, <1>3 DEF Context
  <2>2. frame' \in {frame, frame + 1} /\ frame' <= MaxFrame
    BY SpanFacts, Bounds
  <2>3. QED  BY <1>2, <1>3, <2>1, <2>2, SpanKept DEF spanVars
<1>4. CASE o = "barrier"
  <2>1. InvalidateSpan /\ line_context' \in {Anchor(context), line_context}
    BY <1>2, <1>4
  <2>2. overlay_active => line_context' = line_context
    <3>1. overlay_active => line_context = Context /\ Context # NoContext
      BY SpanFacts DEF IInv, SpanInv
    <3>2. QED  BY <2>1, <3>1 DEF Anchor
  <2>3. SpanType' /\ SpanInv' /\ AcknowledgementsAgree' /\ CellsStay
    BY <1>2, <2>1, <2>2, SpanInvalidated
  <2>4. /\ UNCHANGED <<rollback_cells, overlay_active>> /\ cursor_offset' = 0
        /\ overlay_active => reconciliation_required'
    BY <2>1 DEF InvalidateSpan
  <2>5. ~overlay_active => cursor_offset = 0
    <3>1. ~overlay_active => rollback_cells = 0 /\ ~reconciliation_required
      BY DEF IInv, SpanInv
    <3>2. ~reconciliation_required => rollback_cells = Len(predicted_ascii)
      BY DEF IInv, SpanInv
    <3>3. cursor_offset \in Nat /\ cursor_offset <= Len(predicted_ascii)
      BY SpanFacts
    <3>4. \A a \in Nat : a <= 0 => a = 0
      OBVIOUS
    <3>5. QED  BY <3>1, <3>2, <3>3, <3>4
  <2>6. QED  BY <1>2, <1>4, <2>3, <2>4, <2>5
<1>5. CASE o \notin {"none", "barrier"}
  <2>1. /\ Predict(frame, context, o) /\ context = Context
        /\ pending' = Append(pending, frame) /\ overlay_active' = TRUE
        /\ UNCHANGED reconciliation_required
        /\ ~HistoryFull /\ ~reconciliation_required
    BY <1>1, <1>2, <1>5 DEF Predict
  <2>2. rollback_cells = Len(predicted_ascii)
    BY <2>1 DEF IInv, SpanInv
  <2>3. CASE o \in {"insert", "overwrite"}
    <3>1. PredictPrintable(frame, Context) /\ AtSpanEnd /\ Fits(Anchor(Context), Context)
      BY <1>1, <2>1, <2>3 DEF Predict
    <3>2. SpanType' /\ SpanInv' /\ AcknowledgementsAgree' /\ CellsStay
      BY <1>2, <2>1, <3>1, SpanPrintable
    <3>3. /\ cursor_offset' = cursor_offset + 1 /\ rollback_cells' = rollback_cells + 1
          /\ cursor_offset = rollback_cells
          /\ authoritative.column + cursor_offset < Columns - 1
      BY <2>2, <3>1 DEF PredictPrintable, Fits, AtSpanEnd, Context
    <3>4. QED  BY <1>1, <1>2, <2>1, <2>3, <3>2, <3>3
  <2>4. CASE o = "delete"
    <3>1. PredictBackspace
      BY <2>1, <2>4 DEF Predict
    <3>2. /\ SpanType' /\ SpanInv' /\ AcknowledgementsAgree' /\ CellsStay
          /\ overlay_active /\ rollback_cells > 0 /\ rollback_cells' = rollback_cells - 1
      BY <1>1, <1>2, <2>1, <2>4, <3>1, SpanBackspace
    <3>3. cursor_offset' = cursor_offset - 1 /\ cursor_offset = rollback_cells
      BY <1>1, <2>2, <2>4, <3>1 DEF PredictBackspace, AtSpanEnd
    <3>4. QED  BY <1>1, <1>2, <2>1, <2>4, <3>2, <3>3
  <2>5. CASE o \in {"left", "right"}
    <3> DEFINE step == IF o = "left" THEN -1 ELSE 1
    <3>1. /\ PredictMove(step) /\ step \in {-1, 1}
          /\ step = -1 => cursor_offset # 0
          /\ step = 1 => ~AtSpanEnd
      BY <1>1, <2>1, <2>5 DEF Predict
    <3>2. cursor_offset' = cursor_offset + step /\ UNCHANGED rollback_cells
      BY <3>1 DEF PredictMove
    <3> HIDE DEF step
    <3>3. /\ SpanType' /\ SpanInv' /\ AcknowledgementsAgree' /\ CellsStay
          /\ overlay_active /\ cursor_offset + step \in Nat
          /\ cursor_offset + step <= rollback_cells
      BY <1>2, <2>1, <3>1, SpanMove
    <3>4. QED  BY <1>1, <1>2, <2>1, <2>5, <3>2, <3>3 DEF step
  <2>6. QED  BY <1>1, <1>5, <2>3, <2>4, <2>5
<1>6. QED  BY <1>3, <1>4, <1>5

\* take_reconciliation, when the cursor of the screen may move.
LEMMA TakeSpan ==
    ASSUME IInv, TakeReconciliation, UNCHANGED frame
    PROVE  /\ SpanType' /\ SpanInv' /\ AcknowledgementsAgree' /\ CellsStay
           /\ overwrite' = overwrite
           /\ ~overlay_active' /\ ~reconciliation_required'
           /\ cursor_offset' = 0 /\ rollback_cells' = 0
<1>1. /\ UNCHANGED <<overwrite, highest_frame_id, latest_acknowledgement>>
      /\ IF Reconciliation = "none" THEN UNCHANGED spanVars
         ELSE /\ pending' = <<>> /\ predicted_ascii' = <<>> /\ cursor_offset' = 0
              /\ overlay_active' = FALSE /\ reconciliation_required' = FALSE
              /\ line_context' = NoContext
              /\ rollback_cells' = 0
  BY DEF TakeReconciliation
<1>2. Reconciliation = "none" <=> ~overlay_active
  BY DEF Reconciliation, IInv, SpanInv
<1>3. CASE ~overlay_active
  <2>1. UNCHANGED spanVars
    BY <1>1, <1>2, <1>3
  <2>2. frame' \in {frame, frame + 1} /\ frame' <= MaxFrame
    BY SpanFacts, Bounds
  <2>3. SpanType' /\ SpanInv' /\ AcknowledgementsAgree' /\ CellsStay
    BY <1>1, <1>3, <2>1, <2>2, SpanKept
  <2>4. ~reconciliation_required /\ rollback_cells = 0 /\ predicted_ascii = <<>>
    BY <1>3 DEF IInv, SpanInv
  <2>5. cursor_offset = 0
    <3>1. cursor_offset \in 0 .. Len(predicted_ascii)
      BY DEF IInv, TypeOK, SpanType
    <3>2. Len(predicted_ascii) = 0
      BY <2>4
    <3>3. QED  BY <3>1, <3>2
  <2>6. QED  BY <1>1, <1>3, <2>1, <2>3, <2>4, <2>5 DEF spanVars
<1>4. CASE overlay_active
  <2>1. /\ pending' = <<>> /\ predicted_ascii' = <<>> /\ cursor_offset' = 0
        /\ ~overlay_active' /\ ~reconciliation_required' /\ rollback_cells' = 0
    BY <1>1, <1>2, <1>4
  <2>2. Len(<<>>) = 0 /\ <<>> \in Seq(0 .. MaxFrame) /\ <<>> \in Seq(PredictedCell)
    OBVIOUS
  <2>3. SpanType'
    <3>1. 0 \in 0 .. Columns /\ 0 \in 0 .. 0 /\ 0 <= MAXIMUM_PENDING_PREDICTIONS
      BY Bounds
    <3>2. QED  BY <1>1, <2>1, <2>2, <3>1, SpanFacts, SpanTyped
  <2>4. SpanInv'
    BY <1>1, <2>1, <2>2 DEF IInv, SpanInv
  <2>5. AcknowledgementsAgree' /\ CellsStay
    BY <2>1, <2>2 DEF AcknowledgementsAgree, CellsStay
  <2>6. QED  BY <1>1, <2>1, <2>3, <2>4, <2>5
<1>5. QED  BY <1>3, <1>4

\* acknowledge.
LEMMA AcknowledgeSpan ==
    ASSUME IInv, NEW ack \in 0 .. (frame - 1), Acknowledge(ack), UNCHANGED <<frame, authoritative>>
    PROVE  SpanType' /\ SpanInv' /\ AcknowledgementsAgree' /\ CellsStay
<1>1. UNCHANGED <<overwrite, cursor_offset, rollback_cells, overlay_active,
                  reconciliation_required, line_context, highest_frame_id>>
  BY DEF Acknowledge
<1>2. CASE ~Counts(ack)
  <2>1. UNCHANGED <<latest_acknowledgement, pending, predicted_ascii>>
    BY <1>2 DEF Acknowledge
  <2>2. frame' \in {frame, frame + 1} /\ frame' <= MaxFrame
    BY SpanFacts, Bounds
  <2>3. QED  BY <1>1, <2>1, <2>2, SpanKept DEF spanVars, Context
<1>3. CASE Counts(ack)
  <2> DEFINE n == Len(predicted_ascii)
             Marked(p) == [p EXCEPT !.acknowledged = @ \/ p.frame_id <= ack]
  <2>1. /\ latest_acknowledgement' = ack
        /\ pending' = Unacknowledged(pending, ack)
        /\ predicted_ascii' = [i \in 1 .. n |-> Marked(predicted_ascii[i])]
    BY <1>3 DEF Acknowledge
  <2>2. /\ ack \in Nat /\ ack \in 0 .. MaxFrame /\ ack < frame /\ latest_acknowledgement < ack
        /\ latest_acknowledgement \in Int
    BY <1>3, SpanFacts, Bounds DEF Counts
  <2>3. n \in Nat /\ \A i \in 1 .. n : predicted_ascii[i] \in PredictedCell
    BY SpanFacts, Elements DEF IInv, SpanInv
  <2>4. ASSUME NEW p \in PredictedCell
        PROVE  /\ Marked(p) \in PredictedCell /\ Marked(p).frame_id = p.frame_id
               /\ Marked(p).acknowledged <=> p.acknowledged \/ p.frame_id <= ack
    <3>1. p.frame_id \in 0 .. MaxFrame /\ p.acknowledged \in BOOLEAN
      BY DEF PredictedCell
    <3>2. Marked(p) = [frame_id |-> p.frame_id, acknowledged |-> p.acknowledged \/ p.frame_id <= ack]
      BY DEF PredictedCell
    <3>3. (p.acknowledged \/ p.frame_id <= ack) \in BOOLEAN
      BY Zenon
    <3>4. QED  BY <3>1, <3>2, <3>3 DEF PredictedCell
  <2> HIDE DEF Marked, n
  <2>5. /\ predicted_ascii' \in Seq(PredictedCell) /\ Len(predicted_ascii') = n
        /\ \A i \in 1 .. n : predicted_ascii'[i] = Marked(predicted_ascii[i])
    BY <2>1, <2>3, <2>4
  <2>6. /\ pending' \in Seq(0 .. MaxFrame) /\ Len(pending') <= MAXIMUM_PENDING_PREDICTIONS
    <3>1. pending \in Seq(0 .. MaxFrame)
      BY DEF IInv, SpanInv
    <3>2. pending' \in Seq(0 .. MaxFrame) /\ Len(pending') <= Len(pending)
      BY <2>1, <3>1, UnacknowledgedFacts
    <3>3. Len(pending) \in Nat /\ Len(pending) <= MAXIMUM_PENDING_PREDICTIONS
      BY SpanFacts
    <3>4. Len(pending') \in Nat
      BY <3>2
    <3>5. \A a \in Nat, b \in Nat, d \in Nat : a <= b /\ b <= d => a <= d
      OBVIOUS
    <3>6. QED  BY <3>2, <3>3, <3>4, <3>5, Bounds, Zenon
  <2>7. SpanType'
    <3>1. cursor_offset' \in 0 .. n /\ n <= MAXIMUM_PENDING_PREDICTIONS /\ rollback_cells' \in 0 .. Columns
      BY <1>1 DEF IInv, TypeOK, SpanType, n
    <3>2. QED  BY <1>1, <2>1, <2>2, <2>5, <2>6, <3>1, SpanFacts, SpanTyped
  <2>8. SpanInv'
    <3>1. ~overlay_active => predicted_ascii' = <<>>
      <4>1. ~overlay_active => n = 0
        BY DEF IInv, SpanInv, n
      <4>2. n = 0 => predicted_ascii' = <<>>
        BY <2>5
      <4>3. QED  BY <4>1, <4>2
    <3>2. ~reconciliation_required => rollback_cells = n
      BY DEF IInv, SpanInv, n
    <3>3. Context' = Context
      BY DEF Context
    <3>4. QED  BY <1>1, <2>1, <2>2, <2>5, <2>6, <3>1, <3>2, <3>3 DEF IInv, SpanInv
  <2>9. AcknowledgementsAgree'
    <3>1. ASSUME NEW i \in 1 .. n
          PROVE  predicted_ascii'[i].acknowledged <=> predicted_ascii'[i].frame_id <= ack
      <4>1. predicted_ascii[i].acknowledged <=> predicted_ascii[i].frame_id <= latest_acknowledgement
        BY DEF IInv, AcknowledgementsAgree, n
      <4>2. predicted_ascii[i].frame_id \in Nat
        BY <2>3, Bounds DEF PredictedCell
      <4>3. predicted_ascii[i].frame_id <= latest_acknowledgement => predicted_ascii[i].frame_id <= ack
        BY <2>2, <4>2
      <4>4. QED  BY <2>3, <2>4, <2>5, <4>1, <4>3
    <3>2. QED  BY <2>1, <2>5, <3>1 DEF AcknowledgementsAgree
  <2>10. CellsStay
    BY <2>3, <2>5 DEF CellsStay, n
  <2>11. QED  BY <2>7, <2>8, <2>9, <2>10
<1>4. QED  BY <1>2, <1>3

(***************************************************************************)
(* The screens.                                                             *)
(***************************************************************************)
\* What the invariant says of the two screens.
LEMMA ScreenFacts ==
    ASSUME IInv
    PROVE  /\ authoritative \in Screens /\ real \in Screens /\ Cleared(real) \in Screens
           /\ authoritative.row \in 1 .. Rows /\ authoritative.column \in 0 .. (Columns - 1)
           /\ authoritative.column \in Nat
           /\ \A r \in 1 .. Rows, c \in 0 .. (Columns - 1) : authoritative.cells[r][c] # Guess
           /\ SpoiledCleared \subseteq {"width", "pushed", "repainted"}
<1>1. Repainted \subseteq {"width", "pushed", "repainted"}
  BY DEF Repainted
<1>2. QED  BY <1>1, Bounds DEF IInv, ModelInv, Screens, Cleared, SpoiledCleared

\* What is shown in the two modes of prediction.
ShownInv ==
    /\ overwrite => OverwriteInv
    /\ ~overwrite => InsertInv

\* Putting the parts of the invariant together.
LEMMA Assembled ==
    ASSUME SpanType', SpanInv', AcknowledgementsAgree', ModelInv', ShownInv'
    PROVE  IInv'
BY DEF IInv, TypeOK, ModelInv, Screens, ShownInv

\* Every edit leaves a screen.
LEMMA EditedType ==
    ASSUME NEW s \in Screens, NEW width \in 0 .. 2,
           NEW o \in {"none", "barrier", "insert", "overwrite", "delete", "left", "right"}
    PROVE  Edited(s, o, width) \in Screens
<1>1. Guess \in {Blank, Text, Guess} /\ 1 \in {-1, 1} /\ -1 \in {-1, 1} /\ 1 \in Nat
  OBVIOUS
<1>2. CASE o \in {"none", "barrier"}
  BY <1>2 DEF Edited
<1>3. CASE o = "insert"
  <2>1. Edited(s, o, width) = Put(InsertCharacter(s), Guess, width) /\ InsertCharacter(s) \in Screens
    BY <1>3, InsertFacts DEF Edited
  <2>2. QED  BY <1>1, <2>1, PutFacts
<1>4. CASE o = "overwrite"
  <2>1. Edited(s, o, width) = Put(s, Guess, width)
    BY <1>4 DEF Edited
  <2>2. QED  BY <1>1, <2>1, PutFacts
<1>5. CASE o = "delete"
  <2>1. Edited(s, o, width) = DeleteCharacters(Step(s, -1), 1) /\ Step(s, -1) \in Screens
    BY <1>1, <1>5, StepFacts DEF Edited
  <2>2. QED  BY <1>1, <2>1, DeleteFacts
<1>6. CASE o \in {"left", "right"}
  <2>1. Edited(s, o, width) \in {Step(s, -1), Step(s, 1)}
    BY <1>6 DEF Edited
  <2>2. QED  BY <1>1, <2>1, StepFacts
<1>7. QED  BY <1>2, <1>3, <1>4, <1>5, <1>6

\* Only a character that takes another number of cells, or pushes text over the margin,
\* spoils the rollback.
LEMMA SpoilsFacts ==
    ASSUME NEW s, NEW width \in 0 .. 2,
           NEW o \in {"none", "barrier", "insert", "overwrite", "delete", "left", "right"}
    PROVE  /\ Spoils(s, o, width) \subseteq {"width", "pushed"}
           /\ o # "insert" => Spoils(s, o, width) \subseteq {"width"}
           /\ o \notin {"insert", "overwrite"} => Spoils(s, o, width) = {}
           /\ o \in {"insert", "overwrite"} /\ "width" \notin Spoils(s, o, width) => width = 1
           /\ o = "insert" /\ "pushed" \notin Spoils(s, o, width) =>
                 s.cells[s.row][Columns - 1] = Blank
BY DEF Spoils

\* A forwarded key, when predictions overwrite.
LEMMA KeyOverwrite ==
    ASSUME IInv, overwrite, UNCHANGED <<overwrite, authoritative>>, ~local_notice_active',
           NEW width \in 0 .. 2,
           NEW o \in {"none", "barrier", "insert", "overwrite", "delete", "left", "right"},
           real' = Edited(Cleared(real), o, width),
           spoiled' = SpoiledCleared \cup Spoils(Cleared(real), o, width),
           o = "none" => UNCHANGED <<cursor_offset, rollback_cells, overlay_active,
                                     reconciliation_required>>,
           o = "barrier" => UNCHANGED overlay_active /\ (overlay_active => reconciliation_required'),
           o \notin {"none", "barrier"} => ~reconciliation_required /\ overlay_active',
           o \in {"insert", "overwrite"} =>
              /\ cursor_offset' = cursor_offset + 1 /\ cursor_offset = rollback_cells
              /\ authoritative.column + cursor_offset < Columns - 1,
           o \notin {"insert", "delete"},
           o \in {"left", "right"} =>
              /\ overlay_active /\ cursor_offset' = cursor_offset + (IF o = "left" THEN -1 ELSE 1)
              /\ cursor_offset' \in Nat
    PROVE  OverwriteInv'
<1> DEFINE s == Cleared(real)
           q == SpoiledCleared
<1>1. /\ s \in Screens /\ s.column \in Nat /\ s.column <= Columns
      /\ authoritative.column \in Nat /\ authoritative.row \in 1 .. Rows
  BY ScreenFacts, AtFacts
<1>2. /\ overlay_active \/ s = authoritative
      /\ q \subseteq {"width"}
      /\ q = {} => \A r \in 1 .. Rows : s.cells[r][Columns - 1] # Guess
  <2>1. OverwriteInv
    BY DEF IInv
  <2>2. Columns - 1 \in 0 .. (Columns - 1)
    BY Bounds
  <2>3. QED  BY <2>1, <2>2, ScreenFacts
             DEF OverwriteInv, MarginRespected, Cleared, SpoiledCleared, Repainted
<1>3. cursor_offset \in Nat /\ (~overlay_active => rollback_cells = 0)
  BY SpanFacts DEF IInv, SpanInv
<1>4. q = {} /\ overlay_active /\ ~reconciliation_required =>
         s.column <= authoritative.column + cursor_offset
  <2>1. authoritative.column <= authoritative.column + cursor_offset
    BY <1>1, <1>3
  <2>2. QED  BY <2>1 DEF IInv, OverwriteInv, Cleared, SpoiledCleared
<1>5. /\ spoiled' = q \cup Spoils(s, o, width)
      /\ Spoils(s, o, width) \subseteq {"width"}
      /\ o # "overwrite" => Spoils(s, o, width) = {}
      /\ o = "overwrite" /\ "width" \notin Spoils(s, o, width) => width = 1
  BY SpoilsFacts
<1> HIDE DEF s, q
<1>6. spoiled' \subseteq {"width"}
  BY <1>2, <1>5
<1>7. spoiled' \subseteq {"pushed"} => spoiled' = {}
  BY <1>6
<1>8. CASE o \in {"none", "barrier"}
  <2>1. real' = s /\ spoiled' = q
    BY <1>5, <1>8 DEF Edited, s
  <2>2. overlay_active' = overlay_active
    BY <1>8
  <2>3. spoiled' = {} /\ overlay_active' /\ ~reconciliation_required' =>
           real'.column <= authoritative'.column + cursor_offset'
    <3>1. CASE o = "none"
      <4>1. UNCHANGED <<cursor_offset, reconciliation_required, authoritative>>
        BY <3>1
      <4>2. QED  BY <1>4, <2>1, <2>2, <4>1
    <3>2. CASE o = "barrier"
      BY <2>2, <3>2
    <3>3. QED  BY <1>8, <3>1, <3>2
  <2>4. QED  BY <1>2, <1>6, <1>7, <2>1, <2>2, <2>3 DEF OverwriteInv, MarginRespected
<1>9. CASE o = "overwrite"
  <2>1. real' = Put(s, Guess, width)
    BY <1>9 DEF Edited, s
  <2>2. ASSUME spoiled' = {}
        PROVE  /\ \A r \in 1 .. Rows : real'.cells[r][Columns - 1] # Guess
               /\ real'.column <= authoritative.column + cursor_offset'
    <3>1. q = {} /\ width = 1
      BY <1>5, <1>9, <2>2
    <3>2. s.column <= authoritative.column + cursor_offset /\ s.column < Columns - 1
      <4>1. s.column <= authoritative.column + cursor_offset
        BY <1>1, <1>2, <1>3, <1>4, <1>9, <3>1
      <4>2. QED  BY <1>1, <1>3, <1>9, <4>1, Bounds
    <3>3. s.column < Columns /\ width \in 0 .. 2
      BY <1>1, <3>2, Bounds
    <3>4. /\ real'.column = s.column + 1
          /\ \A r \in 1 .. Rows, c \in 0 .. (Columns - 1) :
                real'.cells[r][c] = IF r = s.row /\ c = s.column THEN Guess ELSE s.cells[r][c]
      BY <1>1, <2>1, <3>1, <3>3, PutFacts
    <3>5. Columns - 1 \in 0 .. (Columns - 1) /\ Columns - 1 # s.column
      BY <1>1, <3>2, Bounds
    <3>6. \A r \in 1 .. Rows : real'.cells[r][Columns - 1] # Guess
      BY <1>2, <3>1, <3>4, <3>5
    <3>7. real'.column <= authoritative.column + cursor_offset'
      BY <1>1, <1>3, <1>9, <3>2, <3>4
    <3>8. QED  BY <3>6, <3>7
  <2>3. QED  BY <1>6, <1>7, <1>9, <2>2 DEF OverwriteInv, MarginRespected
<1>10. CASE o \in {"left", "right"}
  <2> DEFINE step == IF o = "left" THEN -1 ELSE 1
  <2>1. real' = Step(s, step) /\ step \in {-1, 1} /\ spoiled' = q
    BY <1>5, <1>10 DEF Edited, s
  <2>2. /\ overlay_active /\ cursor_offset' = cursor_offset + step /\ cursor_offset' \in Nat
        /\ q = {} => s.column <= authoritative.column + cursor_offset
    BY <1>4, <1>10
  <2> HIDE DEF step
  <2>3. /\ real' \in Screens /\ real'.cells = s.cells
        /\ s.column + step < 0 => real'.column = 0
        /\ 0 <= s.column + step => real'.column <= s.column + step
    BY <1>1, <2>1, StepFacts
  <2>4. q = {} => real'.column <= authoritative.column + cursor_offset'
    <3>1. real'.column \in Nat
      BY <2>3, AtFacts
    <3>2. QED  BY <1>1, <1>3, <2>1, <2>2, <2>3, <3>1
  <2>5. QED  BY <1>2, <1>6, <1>7, <1>10, <2>1, <2>3, <2>4 DEF OverwriteInv, MarginRespected
<1>11. QED  BY <1>8, <1>9, <1>10

\* When no inserted cell has to be taken away, the authoritative screen is in place.
LEMMA RepaintedInPlace ==
    ASSUME IInv, ~overwrite, Repainted \subseteq {"pushed"}
    PROVE  /\ GuessesInPlace(authoritative) /\ CursorInPlace(authoritative)
           /\ TextInPlace(authoritative) /\ Repainted = {}
<1>1. rollback_cells = 0 /\ Repainted = {}
  BY DEF Repainted
<1>2. /\ authoritative.column \in Nat /\ authoritative.column <= Columns
      /\ \A r \in 1 .. Rows, c \in 0 .. (Columns - 1) : authoritative.cells[r][c] # Guess
  BY ScreenFacts, Bounds
<1>3. ~reconciliation_required => cursor_offset = 0
  <2>1. ~reconciliation_required => rollback_cells = Len(predicted_ascii)
    BY DEF IInv, SpanInv
  <2>2. cursor_offset \in Nat /\ cursor_offset <= Len(predicted_ascii)
    BY SpanFacts
  <2>3. \A x \in Nat : x <= 0 => x = 0
    OBVIOUS
  <2>4. QED  BY <1>1, <2>1, <2>2, <2>3
<1>4. \A c \in authoritative.column .. (Columns - 1) : c + 0 = c /\ c + 0 < Columns
  BY <1>2, Bounds
<1>5. TextInPlace(authoritative)
  BY <1>1, <1>4 DEF TextInPlace
<1>6. CursorInPlace(authoritative)
  BY <1>2, <1>3 DEF CursorInPlace
<1>7. QED  BY <1>1, <1>2, <1>5, <1>6 DEF GuessesInPlace

\* What clear_local_notice leaves on the terminal, when predictions insert.
LEMMA ClearedInPlace ==
    ASSUME IInv, ~overwrite
    PROVE  /\ SpoiledCleared \subseteq {"pushed"} =>
                 GuessesInPlace(Cleared(real)) /\ CursorInPlace(Cleared(real))
           /\ SpoiledCleared = {} => TextInPlace(Cleared(real))
<1>1. CASE local_notice_active
  <2>1. Cleared(real) = authoritative /\ SpoiledCleared = Repainted
    BY <1>1 DEF Cleared, SpoiledCleared
  <2>2. SpoiledCleared = {} => SpoiledCleared \subseteq {"pushed"}
    OBVIOUS
  <2>3. QED  BY <2>1, <2>2, RepaintedInPlace
<1>2. CASE ~local_notice_active
  <2>1. Cleared(real) = real /\ SpoiledCleared = spoiled
    BY <1>2 DEF Cleared, SpoiledCleared
  <2>2. QED  BY <1>2, <2>1 DEF IInv, InsertInv
<1>3. QED  BY <1>1, <1>2

\* An inserted guess pushes what follows it one cell on.
LEMMA InsertInPlace ==
    ASSUME IInv, UNCHANGED authoritative, NEW s \in Screens,
           real' = Edited(s, "insert", 1),
           GuessesInPlace(s), CursorInPlace(s), ~reconciliation_required,
           cursor_offset' = cursor_offset + 1, rollback_cells' = rollback_cells + 1,
           cursor_offset = rollback_cells,
           authoritative.column + cursor_offset < Columns - 1
    PROVE  /\ GuessesInPlace(real)' /\ CursorInPlace(real)'
           /\ TextInPlace(s) /\ s.cells[s.row][Columns - 1] = Blank => TextInPlace(real)'
<1> DEFINE a == authoritative
           k == a.column + rollback_cells
           t == InsertCharacter(s)
<1>1. /\ a \in Screens /\ a.row \in 1 .. Rows /\ a.column \in Nat /\ a.column < Columns
      /\ rollback_cells \in Nat
  BY ScreenFacts, SpanFacts, Bounds
<1>2. k < Columns - 1 /\ k \in Nat /\ s.row = a.row /\ s.column = k
  BY <1>1 DEF CursorInPlace
<1>3. real' = Put(t, Guess, 1)
  BY DEF Edited
<1>4. /\ t \in Screens /\ t.row = a.row /\ t.column = k
      /\ \A r \in (1 .. Rows) \ {a.row} : t.cells[r] = s.cells[r]
      /\ \A c \in 0 .. (Columns - 1) :
            t.cells[a.row][c] = IF c < k THEN s.cells[a.row][c]
                                ELSE IF c = k THEN Blank ELSE s.cells[a.row][c - 1]
  <2>1. s.column < Columns
    BY <1>2, Bounds
  <2>2. At(s) = k
    BY <1>2, <2>1, AtFacts
  <2>3. QED  BY <1>2, <2>2, InsertFacts
<1> HIDE DEF t
<1>5. /\ real'.row = a.row /\ real'.column = k + 1
      /\ \A r \in 1 .. Rows, c \in 0 .. (Columns - 1) :
            real'.cells[r][c] = IF r = a.row /\ c = k THEN Guess ELSE t.cells[r][c]
  <2>1. 1 \in 0 .. 2 /\ t.column < Columns /\ Guess \in {Blank, Text, Guess}
    BY <1>2, <1>4, Bounds
  <2>2. QED  BY <1>3, <1>4, <2>1, PutFacts
<1>6. \A r, c : GuessPlace(r, c)' <=> r = a.row /\ a.column <= c /\ c < k + 1
  BY <1>1, <1>2 DEF GuessPlace
<1>7. \A r, c : GuessPlace(r, c) <=> r = a.row /\ a.column <= c /\ c < k
  BY DEF GuessPlace
<1>8. a.column <= k /\ real'.column = a.column + cursor_offset'
  BY <1>1, <1>2, <1>5
<1>9. \A c \in Nat : /\ c + rollback_cells' = c + rollback_cells + 1
                     /\ a.column <= c => k <= c + rollback_cells
  BY <1>1
<1> HIDE DEF k
<1>10. ASSUME NEW r \in 1 .. Rows, NEW c \in 0 .. (Columns - 1), r # a.row \/ c < k
       PROVE  real'.cells[r][c] = s.cells[r][c]
  BY <1>2, <1>4, <1>5, <1>10
<1>11. ASSUME NEW c \in 0 .. (Columns - 1), k < c
       PROVE  /\ real'.cells[a.row][c] = s.cells[a.row][c - 1]
              /\ c - 1 \in 0 .. (Columns - 1) /\ c - 1 >= k
  <2>1. ~(c < k) /\ c # k
    BY <1>2, <1>11
  <2>2. c - 1 \in 0 .. (Columns - 1) /\ c - 1 >= k
    BY <1>2, <1>11, Bounds
  <2>3. QED  BY <1>1, <1>4, <1>5, <2>1, <2>2
<1>12. ASSUME NEW r \in 1 .. Rows, NEW c \in 0 .. (Columns - 1), real'.cells[r][c] = Guess
       PROVE  r = a.row /\ a.column <= c /\ c < k + 1
  <2>1. CASE r # a.row \/ c < k
    <3>1. GuessPlace(r, c)
      BY <1>10, <1>12, <2>1 DEF GuessesInPlace
    <3>2. QED  BY <1>2, <1>7, <3>1
  <2>2. CASE r = a.row /\ c = k
    BY <1>2, <1>8, <2>2
  <2>3. CASE r = a.row /\ k < c
    <3>1. GuessPlace(a.row, c - 1)
      BY <1>1, <1>11, <1>12, <2>3 DEF GuessesInPlace
    <3>2. QED  BY <1>2, <1>7, <1>11, <2>3, <3>1
  <2>4. QED  BY <1>2, <2>1, <2>2, <2>3
<1>13. GuessesInPlace(real)'
  BY <1>6, <1>12 DEF GuessesInPlace
<1>14. CursorInPlace(real)'
  BY <1>5, <1>8 DEF CursorInPlace
<1>15. ASSUME TextInPlace(s), s.cells[s.row][Columns - 1] = Blank PROVE TextInPlace(real)'
  <2>1. ASSUME NEW r \in 1 .. Rows, NEW c \in 0 .. (Columns - 1), r # a.row \/ c < a.column
        PROVE  real'.cells[r][c] = a.cells[r][c]
    <3>1. r # a.row \/ c < k
      BY <1>1, <1>2, <1>8, <2>1
    <3>2. QED  BY <1>10, <1>15, <2>1, <3>1 DEF TextInPlace
  <2>2. ASSUME NEW c \in a.column .. (Columns - 1)
        PROVE  IF c + rollback_cells' < Columns
               THEN real'.cells[a.row][c + rollback_cells'] = a.cells[a.row][c]
               ELSE a.cells[a.row][c] = Blank
    <3> DEFINE d == c + rollback_cells
    <3>1. c \in Nat /\ c + rollback_cells' = d + 1 /\ k <= d /\ d \in Nat /\ c + rollback_cells = d
      BY <1>1, <1>9
    <3>2. IF c + rollback_cells < Columns
          THEN s.cells[a.row][c + rollback_cells] = a.cells[a.row][c]
          ELSE a.cells[a.row][c] = Blank
      BY <1>15 DEF TextInPlace
    <3> HIDE DEF d
    <3>3. CASE d + 1 < Columns
      <4>1. d + 1 \in 0 .. (Columns - 1) /\ k < d + 1 /\ d + 1 - 1 = d /\ d < Columns
        BY <1>2, <3>1, <3>3, Bounds
      <4>2. real'.cells[a.row][d + 1] = s.cells[a.row][d]
        <5> DEFINE e == d + 1
        <5>1. e \in 0 .. (Columns - 1) /\ k < e /\ e - 1 = d
          BY <3>1, <4>1
        <5> HIDE DEF e
        <5>2. real'.cells[a.row][e] = s.cells[a.row][e - 1]
          BY <1>11, <5>1
        <5>3. QED  BY <5>1, <5>2 DEF e
      <4>3. QED  BY <3>1, <3>2, <3>3, <4>1, <4>2
    <3>4. CASE ~(d + 1 < Columns)
      <4>1. d < Columns => d = Columns - 1
        BY <3>1, <3>4, Bounds
      <4>2. a.cells[a.row][c] = Blank
        BY <1>2, <1>15, <3>1, <3>2, <4>1
      <4>3. QED  BY <3>1, <3>4, <4>2
    <3>5. QED  BY <3>3, <3>4
  <2>3. QED  BY <2>1, <2>2 DEF TextInPlace
<1>16. QED  BY <1>13, <1>14, <1>15

\* A cancelled guess lets what follows it come back.
LEMMA DeleteInPlace ==
    ASSUME IInv, UNCHANGED authoritative, NEW s \in Screens, NEW width,
           real' = Edited(s, "delete", width),
           GuessesInPlace(s), CursorInPlace(s), ~reconciliation_required, overlay_active,
           cursor_offset' = cursor_offset - 1, rollback_cells' = rollback_cells - 1,
           cursor_offset = rollback_cells, rollback_cells > 0
    PROVE  /\ GuessesInPlace(real)' /\ CursorInPlace(real)'
           /\ TextInPlace(s) => TextInPlace(real)'
<1> DEFINE a == authoritative
           k == a.column + rollback_cells - 1
           t == Step(s, -1)
<1>1. /\ a \in Screens /\ a.row \in 1 .. Rows /\ a.column \in Nat /\ a.column < Columns
      /\ rollback_cells \in Nat
  BY ScreenFacts, SpanFacts, Bounds
<1>2. /\ k < Columns - 1 /\ k \in Nat /\ a.column <= k
      /\ s.row = a.row /\ s.column = k + 1 /\ k = a.column + cursor_offset'
  <2>1. /\ s.row = a.row /\ s.column = a.column + rollback_cells
        /\ a.column + rollback_cells < Columns
    BY DEF CursorInPlace, IInv, SpanInv, Context
  <2>2. \A x \in Nat, n \in Nat, m \in Nat : n > 0 /\ x + n < m =>
           /\ x + n - 1 < m - 1 /\ x + n - 1 \in Nat /\ x <= x + n - 1
           /\ x + n = x + n - 1 + 1 /\ x + n - 1 = x + (n - 1)
    OBVIOUS
  <2>3. /\ k < Columns - 1 /\ k \in Nat /\ a.column <= k
        /\ a.column + rollback_cells = k + 1 /\ k = a.column + (rollback_cells - 1)
    BY <1>1, <2>1, <2>2, Bounds, Zenon
  <2>4. QED  BY <2>1, <2>3, Zenon
<1>3. real' = DeleteCharacters(t, 1)
  BY DEF Edited
<1>4. \A c \in Nat : /\ c + rollback_cells' = c + rollback_cells - 1
                     /\ a.column <= c => k <= c + rollback_cells - 1
                                         /\ c + rollback_cells - 1 \in Nat
  BY <1>1
<1>5. \A r, c : GuessPlace(r, c)' <=> r = a.row /\ a.column <= c /\ c < k
  BY <1>1, <1>2 DEF GuessPlace
<1>6. \A r, c : GuessPlace(r, c) <=> r = a.row /\ a.column <= c /\ c < k + 1
  BY <1>1 DEF GuessPlace
<1> HIDE DEF k
<1>7. t \in Screens /\ t.cells = s.cells /\ t.row = a.row /\ t.column = k /\ At(t) = k
  <2>1. /\ 0 <= s.column + (-1) /\ s.column + (-1) < Columns /\ s.column + (-1) = k
        /\ s.column < Columns /\ k < Columns
    BY <1>2, Bounds
  <2>2. t \in Screens /\ t.cells = s.cells /\ t.row = a.row /\ t.column = k
    BY <1>2, <2>1, StepFacts
  <2> HIDE DEF t
  <2>3. QED  BY <2>1, <2>2, AtFacts
<1> HIDE DEF t
<1>8. /\ real'.row = a.row /\ real'.column = k
      /\ \A r \in (1 .. Rows) \ {a.row} : real'.cells[r] = s.cells[r]
      /\ \A c \in 0 .. (Columns - 1) :
            real'.cells[a.row][c] = IF c < k THEN s.cells[a.row][c]
                                    ELSE IF c + 1 < Columns THEN s.cells[a.row][c + 1]
                                    ELSE Blank
  <2>1. /\ DeleteCharacters(t, 1).row = t.row /\ DeleteCharacters(t, 1).column = At(t)
        /\ \A r \in (1 .. Rows) \ {t.row} : DeleteCharacters(t, 1).cells[r] = t.cells[r]
        /\ \A c \in 0 .. (Columns - 1) :
              DeleteCharacters(t, 1).cells[t.row][c] =
                 IF c < At(t) THEN t.cells[t.row][c]
                 ELSE IF c + 1 < Columns THEN t.cells[t.row][c + 1] ELSE Blank
    <3>1. 1 \in Nat
      OBVIOUS
    <3>2. QED  BY <1>7, <3>1, DeleteFacts
  <2>2. QED  BY <1>3, <1>7, <2>1
<1>9. ASSUME NEW r \in 1 .. Rows, NEW c \in 0 .. (Columns - 1), r # a.row \/ c < k
      PROVE  real'.cells[r][c] = s.cells[r][c]
  BY <1>8, <1>9
<1>10. ASSUME NEW c \in 0 .. (Columns - 1), ~(c < k)
       PROVE  \/ /\ real'.cells[a.row][c] = Blank /\ ~(c + 1 < Columns)
              \/ /\ c + 1 \in 0 .. (Columns - 1) /\ ~GuessPlace(a.row, c + 1)
                 /\ real'.cells[a.row][c] = s.cells[a.row][c + 1]
  <2>1. CASE c + 1 < Columns
    <3>1. c + 1 \in 0 .. (Columns - 1) /\ ~(c + 1 < k + 1)
      BY <1>2, <1>10, <2>1, Bounds
    <3>2. QED  BY <1>6, <1>8, <1>10, <2>1, <3>1
  <2>2. CASE ~(c + 1 < Columns)
    BY <1>8, <1>10, <2>2
  <2>3. QED  BY <2>1, <2>2
<1>11. ASSUME NEW r \in 1 .. Rows, NEW c \in 0 .. (Columns - 1), real'.cells[r][c] = Guess
       PROVE  r = a.row /\ a.column <= c /\ c < k
  <2>1. CASE r # a.row \/ c < k
    <3>1. GuessPlace(r, c)
      BY <1>9, <1>11, <2>1 DEF GuessesInPlace
    <3>2. QED  BY <1>6, <2>1, <3>1
  <2>2. CASE r = a.row /\ ~(c < k)
    BY <1>1, <1>10, <1>11, <2>2 DEF GuessesInPlace, Blank, Guess
  <2>3. QED  BY <2>1, <2>2
<1>12. GuessesInPlace(real)'
  BY <1>5, <1>11 DEF GuessesInPlace
<1>13. CursorInPlace(real)'
  BY <1>2, <1>8 DEF CursorInPlace
<1>14. ASSUME TextInPlace(s) PROVE TextInPlace(real)'
  <2>1. ASSUME NEW r \in 1 .. Rows, NEW c \in 0 .. (Columns - 1), r # a.row \/ c < a.column
        PROVE  real'.cells[r][c] = a.cells[r][c]
    <3>1. r # a.row \/ c < k
      BY <1>1, <1>2, <2>1
    <3>2. QED  BY <1>9, <1>14, <2>1, <3>1 DEF TextInPlace
  <2>2. ASSUME NEW c \in a.column .. (Columns - 1)
        PROVE  IF c + rollback_cells' < Columns
               THEN real'.cells[a.row][c + rollback_cells'] = a.cells[a.row][c]
               ELSE a.cells[a.row][c] = Blank
    <3> DEFINE d == c + rollback_cells - 1
    <3>1. /\ c \in Nat /\ c + rollback_cells' = d /\ k <= d /\ d \in Nat
          /\ c + rollback_cells = d + 1
      BY <1>1, <1>4
    <3>2. IF c + rollback_cells < Columns
          THEN s.cells[a.row][c + rollback_cells] = a.cells[a.row][c]
          ELSE a.cells[a.row][c] = Blank
      BY <1>14 DEF TextInPlace
    <3> HIDE DEF d
    <3>3. CASE d < Columns
      <4>1. d \in 0 .. (Columns - 1) /\ ~(d < k)
        BY <1>2, <3>1, <3>3, Bounds
      <4>2. \/ real'.cells[a.row][d] = Blank /\ ~(d + 1 < Columns)
            \/ d + 1 < Columns /\ real'.cells[a.row][d] = s.cells[a.row][d + 1]
        <5>1. d + 1 \in 0 .. (Columns - 1) => d + 1 < Columns
          BY Bounds
        <5>2. QED  BY <1>10, <4>1, <5>1
      <4>3. real'.cells[a.row][d] = a.cells[a.row][c]
        BY <3>1, <3>2, <4>2
      <4>4. QED  BY <3>1, <3>3, <4>3
    <3>4. CASE ~(d < Columns)
      <4>1. ~(d + 1 < Columns)
        BY <3>1, <3>4, Bounds
      <4>2. QED  BY <3>1, <3>2, <3>4, <4>1
    <3>5. QED  BY <3>3, <3>4
  <2>3. QED  BY <2>1, <2>2 DEF TextInPlace
<1>15. QED  BY <1>12, <1>13, <1>14

\* A cursor movement stays inside the span.
LEMMA MoveInPlace ==
    ASSUME IInv, UNCHANGED authoritative, NEW s \in Screens, NEW width, NEW o \in {"left", "right"},
           real' = Edited(s, o, width),
           CursorInPlace(s), ~reconciliation_required, overlay_active, UNCHANGED rollback_cells,
           cursor_offset' = cursor_offset + (IF o = "left" THEN -1 ELSE 1),
           cursor_offset' \in Nat, cursor_offset' <= rollback_cells
    PROVE  /\ GuessesInPlace(s) => GuessesInPlace(real)'
           /\ CursorInPlace(real)'
           /\ TextInPlace(s) => TextInPlace(real)'
<1> DEFINE a == authoritative
           step == IF o = "left" THEN -1 ELSE 1
<1>1. real' = Step(s, step) /\ step \in {-1, 1} /\ cursor_offset' = cursor_offset + step
  BY DEF Edited
<1> HIDE DEF step
<1>2. /\ 0 <= s.column + step /\ s.column + step < Columns /\ s.column < Columns
      /\ s.column + step = a.column + cursor_offset' /\ s.row = a.row
  <2>1. /\ s.column = a.column + cursor_offset /\ s.row = a.row
        /\ a.column + rollback_cells < Columns
    BY DEF CursorInPlace, IInv, SpanInv, Context
  <2>2. \A x \in Nat, n \in Nat, m \in Nat, w \in Nat :
           n + step \in Nat /\ n + step <= m /\ x + m < w =>
              /\ 0 <= x + n + step /\ x + n + step < w
              /\ x + n + step = x + (n + step)
    BY <1>1
  <2>3. /\ a.column \in Nat /\ cursor_offset \in Nat /\ rollback_cells \in Nat
        /\ cursor_offset <= rollback_cells
    BY ScreenFacts, SpanFacts DEF IInv, SpanInv
  <2>4. /\ 0 <= a.column + cursor_offset + step /\ a.column + cursor_offset + step < Columns
        /\ a.column + cursor_offset + step = a.column + (cursor_offset + step)
    <3>1. cursor_offset + step \in Nat /\ cursor_offset + step <= rollback_cells
      BY <1>1
    <3>2. QED  BY <2>1, <2>2, <2>3, <3>1, Bounds, Zenon
  <2>5. a.column + cursor_offset < Columns
    BY <2>1, <2>3, Bounds
  <2>6. QED  BY <1>1, <2>1, <2>4, <2>5, Zenon
<1>3. real'.cells = s.cells /\ real'.row = a.row /\ real'.column = a.column + cursor_offset'
  BY <1>1, <1>2, StepFacts
<1>4. \A r, c : GuessPlace(r, c)' <=> GuessPlace(r, c)
  BY DEF GuessPlace
<1>5. GuessesInPlace(s) => GuessesInPlace(real)'
  BY <1>3, <1>4 DEF GuessesInPlace
<1>6. CursorInPlace(real)'
  BY <1>3 DEF CursorInPlace
<1>7. TextInPlace(s) => TextInPlace(real)'
  BY <1>3 DEF TextInPlace
<1>8. QED  BY <1>5, <1>6, <1>7

\* A forwarded key, when predictions insert.
LEMMA KeyInsert ==
    ASSUME IInv, ~overwrite, UNCHANGED authoritative, ~local_notice_active',
           NEW width \in 0 .. 2,
           NEW o \in {"none", "barrier", "insert", "overwrite", "delete", "left", "right"},
           real' = Edited(Cleared(real), o, width),
           spoiled' = SpoiledCleared \cup Spoils(Cleared(real), o, width),
           o = "none" => UNCHANGED <<cursor_offset, rollback_cells, overlay_active,
                                     reconciliation_required>>,
           o = "barrier" =>
              /\ UNCHANGED <<rollback_cells, overlay_active>>
              /\ overlay_active => reconciliation_required'
              /\ ~overlay_active => cursor_offset' = 0 /\ cursor_offset = 0,
           o \notin {"none", "barrier"} => ~reconciliation_required /\ overlay_active',
           o # "overwrite",
           o = "insert" =>
              /\ cursor_offset' = cursor_offset + 1 /\ rollback_cells' = rollback_cells + 1
              /\ cursor_offset = rollback_cells
              /\ authoritative.column + cursor_offset < Columns - 1,
           o = "delete" =>
              /\ cursor_offset' = cursor_offset - 1 /\ rollback_cells' = rollback_cells - 1
              /\ cursor_offset = rollback_cells /\ rollback_cells > 0 /\ overlay_active,
           o \in {"left", "right"} =>
              /\ overlay_active /\ UNCHANGED rollback_cells
              /\ cursor_offset' = cursor_offset + (IF o = "left" THEN -1 ELSE 1)
              /\ cursor_offset' \in Nat /\ cursor_offset' <= rollback_cells
    PROVE  InsertInv'
<1> DEFINE s == Cleared(real)
           q == SpoiledCleared
<1>1. /\ s \in Screens
      /\ q \subseteq {"pushed"} => GuessesInPlace(s) /\ CursorInPlace(s)
      /\ q = {} => TextInPlace(s)
  BY ScreenFacts, ClearedInPlace
<1>2. /\ spoiled' = q \cup Spoils(s, o, width)
      /\ o # "insert" => Spoils(s, o, width) = {}
      /\ o = "insert" /\ "width" \notin Spoils(s, o, width) => width = 1
      /\ o = "insert" /\ "pushed" \notin Spoils(s, o, width) => s.cells[s.row][Columns - 1] = Blank
  BY SpoilsFacts
<1>3. real' = Edited(s, o, width)
  OBVIOUS
<1> HIDE DEF s, q
<1>4. /\ spoiled' \subseteq {"pushed"} => q \subseteq {"pushed"}
      /\ spoiled' = {} => q = {} /\ spoiled' \subseteq {"pushed"}
  BY <1>2
<1>5. SUFFICES ASSUME spoiled' \subseteq {"pushed"}
               PROVE  /\ GuessesInPlace(real)' /\ CursorInPlace(real)'
                      /\ spoiled' = {} => TextInPlace(real)'
  BY <1>4 DEF InsertInv
<1>6. GuessesInPlace(s) /\ CursorInPlace(s) /\ (spoiled' = {} => TextInPlace(s))
  BY <1>1, <1>4, <1>5
<1>7. CASE o \in {"none", "barrier"}
  <2>1. real' = s /\ rollback_cells' = rollback_cells
    BY <1>3, <1>7 DEF Edited
  <2>2. \A r, c : GuessPlace(r, c)' <=> GuessPlace(r, c)
    BY <2>1 DEF GuessPlace
  <2>3. CursorInPlace(real)'
    <3>1. CASE o = "none"
      <4>1. UNCHANGED <<cursor_offset, reconciliation_required>>
        BY <3>1
      <4>2. QED  BY <1>6, <2>1, <4>1 DEF CursorInPlace
    <3>2. CASE o = "barrier"
      <4>1. ~reconciliation_required' =>
               ~reconciliation_required /\ cursor_offset' = 0 /\ cursor_offset = 0
        BY <3>2 DEF IInv, SpanInv
      <4>2. QED  BY <1>6, <2>1, <4>1 DEF CursorInPlace
    <3>3. QED  BY <1>7, <3>1, <3>2
  <2>4. GuessesInPlace(real)'
    BY <1>6, <2>1, <2>2 DEF GuessesInPlace
  <2>5. TextInPlace(s) => TextInPlace(real)'
    BY <2>1 DEF TextInPlace
  <2>6. QED  BY <1>6, <2>3, <2>4, <2>5
<1>8. CASE o = "insert"
  <2>1. /\ ~reconciliation_required
        /\ cursor_offset' = cursor_offset + 1 /\ rollback_cells' = rollback_cells + 1
        /\ cursor_offset = rollback_cells
        /\ authoritative.column + cursor_offset < Columns - 1
    BY <1>8
  <2>2. real' = Edited(s, "insert", 1)
    BY <1>2, <1>3, <1>5, <1>8
  <2>3. spoiled' = {} => s.cells[s.row][Columns - 1] = Blank
    BY <1>2, <1>8
  <2>4. /\ GuessesInPlace(real)' /\ CursorInPlace(real)'
        /\ TextInPlace(s) /\ s.cells[s.row][Columns - 1] = Blank => TextInPlace(real)'
    BY <1>1, <1>6, <2>1, <2>2, InsertInPlace
  <2>5. QED  BY <1>6, <2>3, <2>4
<1>9. CASE o = "delete"
  <2>1. /\ ~reconciliation_required /\ overlay_active
        /\ cursor_offset' = cursor_offset - 1 /\ rollback_cells' = rollback_cells - 1
        /\ cursor_offset = rollback_cells /\ rollback_cells > 0
        /\ real' = Edited(s, "delete", width)
    BY <1>3, <1>9
  <2>2. QED  BY <1>1, <1>6, <2>1, DeleteInPlace
<1>10. CASE o \in {"left", "right"}
  <2>1. /\ ~reconciliation_required /\ overlay_active /\ UNCHANGED rollback_cells
        /\ cursor_offset' = cursor_offset + (IF o = "left" THEN -1 ELSE 1)
        /\ cursor_offset' \in Nat /\ cursor_offset' <= rollback_cells
    BY <1>10
  <2>2. QED  BY <1>1, <1>3, <1>6, <1>10, <2>1, MoveInPlace
<1>11. QED  BY <1>7, <1>8, <1>9, <1>10

\* What is offered to the predictor is shown.
LEMMA OfferInv ==
    ASSUME IInv, NEW action \in {"Printable", "Backspace", "Left", "Right", "Barrier"},
           NEW context, action = "Barrier" \/ context = Context,
           Offer(frame, action, context), UNCHANGED <<frame, authoritative>>,
           NEW width \in 0 .. 2,
           real' = Edited(Cleared(real), Outcome(frame, action, context), width),
           spoiled' = SpoiledCleared
                         \cup Spoils(Cleared(real), Outcome(frame, action, context), width),
           ~local_notice_active'
    PROVE  IInv' /\ CellsStay
<1> DEFINE o == Outcome(frame, action, context)
<1>1. /\ SpanType' /\ SpanInv' /\ AcknowledgementsAgree' /\ CellsStay
      /\ overwrite' = overwrite
      /\ o \in {"none", "barrier", "insert", "overwrite", "delete", "left", "right"}
      /\ o = "none" => UNCHANGED <<cursor_offset, rollback_cells, overlay_active,
                                   reconciliation_required>>
      /\ o = "barrier" =>
            /\ UNCHANGED <<rollback_cells, overlay_active>>
            /\ overlay_active => reconciliation_required'
            /\ ~overlay_active => cursor_offset' = 0 /\ cursor_offset = 0
      /\ o \notin {"none", "barrier"} => ~reconciliation_required /\ overlay_active'
      /\ o \in {"insert", "overwrite"} =>
            /\ cursor_offset' = cursor_offset + 1 /\ rollback_cells' = rollback_cells + 1
            /\ cursor_offset = rollback_cells
            /\ authoritative.column + cursor_offset < Columns - 1
      /\ o = "insert" => ~overwrite
      /\ o = "overwrite" => overwrite
      /\ o = "delete" =>
            /\ ~overwrite /\ overlay_active
            /\ cursor_offset' = cursor_offset - 1 /\ rollback_cells' = rollback_cells - 1
            /\ cursor_offset = rollback_cells /\ rollback_cells > 0
      /\ o \in {"left", "right"} =>
            /\ overlay_active /\ UNCHANGED rollback_cells
            /\ cursor_offset' = cursor_offset + (IF o = "left" THEN -1 ELSE 1)
            /\ cursor_offset' \in Nat /\ cursor_offset' <= rollback_cells
  BY OfferSpan
<1> HIDE DEF o
<1>2. /\ real' = Edited(Cleared(real), o, width)
      /\ spoiled' = SpoiledCleared \cup Spoils(Cleared(real), o, width)
  BY DEF o
<1>3. ModelInv'
  <2>1. real' \in Screens
    BY <1>1, <1>2, ScreenFacts, EditedType
  <2>2. Spoils(Cleared(real), o, width) \subseteq {"width", "pushed"}
    BY <1>1, SpoilsFacts
  <2>3. spoiled' \subseteq {"width", "pushed", "repainted"}
    BY <1>2, <2>2, ScreenFacts
  <2>4. QED  BY <1>1, <2>1, <2>3 DEF IInv, ModelInv
<1>4. ASSUME overwrite PROVE OverwriteInv'
  BY <1>1, <1>2, <1>4, KeyOverwrite
<1>5. ASSUME ~overwrite PROVE InsertInv'
  BY <1>1, <1>2, <1>5, KeyInsert
<1>6. ShownInv'
  BY <1>1, <1>4, <1>5 DEF ShownInv
<1>7. QED  BY <1>1, <1>3, <1>6, Assembled

\* A forwarded key.
LEMMA KeyInv ==
    ASSUME IInv, NEW action \in {"Printable", "Backspace", "Left", "Right", "Barrier"},
           NEW width \in 0 .. 2, Key(action, width)
    PROVE  IInv' /\ CellsStay
BY OfferInv DEF Key

\* Paste, mouse and focus events.
LEMMA OtherInputInv ==
    ASSUME IInv, OtherInput
    PROVE  IInv' /\ CellsStay
<1> DEFINE o == Outcome(frame, "Barrier", NoContext)
<1>1. o \in {"none", "barrier"} /\ 1 \in 0 .. 2
  BY DEF Outcome
<1>2. Offer(frame, "Barrier", NoContext) /\ UNCHANGED <<frame, authoritative>> /\ ~local_notice_active'
  BY DEF OtherInput
<1> HIDE DEF o
<1>3. real' = Edited(Cleared(real), o, 1)
  BY <1>1 DEF Edited, OtherInput
<1>4. Spoils(Cleared(real), o, 1) = {}
  BY <1>1, SpoilsFacts
<1>5. spoiled' = SpoiledCleared \cup Spoils(Cleared(real), o, 1)
  BY <1>4 DEF OtherInput
<1>6. QED  BY <1>1, <1>2, <1>3, <1>5, OfferInv DEF o

(***************************************************************************)
(* Taking the prediction back.                                              *)
(***************************************************************************)
\* reconcile_prediction, cell by cell.
LEMMA ReconciledFacts ==
    ASSUME IInv, NEW s \in Screens
    PROVE  /\ Reconciled(s) \in Screens
           /\ ~overlay_active => Reconciled(s) = s
           /\ overlay_active /\ overwrite => Reconciled(s) = authoritative
           /\ overlay_active /\ ~overwrite =>
                 /\ Reconciled(s).row = authoritative.row
                 /\ Reconciled(s).column = authoritative.column
                 /\ \A r \in (1 .. Rows) \ {authoritative.row} :
                       Reconciled(s).cells[r] = s.cells[r]
                 /\ \A c \in 0 .. (Columns - 1) :
                       Reconciled(s).cells[authoritative.row][c] =
                          IF c < authoritative.column THEN s.cells[authoritative.row][c]
                          ELSE IF c + rollback_cells < Columns
                               THEN s.cells[authoritative.row][c + rollback_cells]
                          ELSE Blank
<1> DEFINE a == authoritative
<1>1. /\ reconciliation_required => overlay_active
      /\ overlay_active => line_context = Context /\ Context # NoContext
  BY SpanFacts DEF IInv, SpanInv
<1>2. a \in Screens /\ a.row \in 1 .. Rows /\ a.column \in Nat /\ a.column < Columns
  BY ScreenFacts, Bounds
<1>3. CASE ~overlay_active
  BY <1>1, <1>3 DEF Reconciled, Reconciliation
<1>4. CASE overlay_active /\ overwrite
  BY <1>1, <1>2, <1>4 DEF Reconciled, Reconciliation
<1>5. CASE overlay_active /\ ~overwrite
  <2> DEFINE m == MoveTo(s, a.row, a.column)
  <2>1. Reconciled(s) = IF rollback_cells = 0 THEN m ELSE DeleteCharacters(m, rollback_cells)
    BY <1>1, <1>5 DEF Reconciled, Reconciliation, RolledBack, Context
  <2>2. m \in Screens /\ m.cells = s.cells /\ m.row = a.row /\ m.column = a.column /\ At(m) = a.column
    <3>1. m \in Screens /\ m.cells = s.cells /\ m.row = a.row /\ m.column = a.column
      BY <1>2, MoveToFacts
    <3> HIDE DEF m
    <3>2. QED  BY <1>2, <3>1, AtFacts
  <2> HIDE DEF m
  <2>3. rollback_cells \in Nat
    BY SpanFacts
  <2>4. CASE rollback_cells = 0
    <3>1. \A c \in 0 .. (Columns - 1) : c + 0 = c /\ c + 0 < Columns
      BY Bounds
    <3>2. QED  BY <1>5, <2>1, <2>2, <2>4, <3>1
  <2>5. CASE rollback_cells # 0
    <3> DEFINE d == DeleteCharacters(m, rollback_cells)
    <3>1. /\ d \in Screens /\ d.row = m.row /\ d.column = At(m)
          /\ \A r \in (1 .. Rows) \ {m.row} : d.cells[r] = m.cells[r]
          /\ \A c \in 0 .. (Columns - 1) :
                d.cells[m.row][c] =
                   IF c < At(m) THEN m.cells[m.row][c]
                   ELSE IF c + rollback_cells < Columns THEN m.cells[m.row][c + rollback_cells]
                   ELSE Blank
      BY <2>2, <2>3, DeleteFacts
    <3>2. Reconciled(s) = d
      BY <2>1, <2>5
    <3> HIDE DEF d
    <3>3. QED  BY <1>5, <2>2, <3>1, <3>2
  <2>6. QED  BY <2>4, <2>5
<1>6. QED  BY <1>3, <1>4, <1>5

\* When predictions insert, the cells taken away are the guesses, and what they pushed
\* away comes back.
LEMMA InsertedTakenBack ==
    ASSUME IInv, ~overwrite, NEW s \in Screens, GuessesInPlace(s), CursorInPlace(s)
    PROVE  /\ Reconciled(s).row = authoritative.row
           /\ Reconciled(s).column = authoritative.column
           /\ \A r \in 1 .. Rows, c \in 0 .. (Columns - 1) : Reconciled(s).cells[r][c] # Guess
           /\ TextInPlace(s) => Reconciled(s) = authoritative
<1> DEFINE a == authoritative
           R == Reconciled(s)
<1>1. /\ a \in Screens /\ a.row \in 1 .. Rows /\ a.column \in Nat
      /\ a.column < Columns
  BY ScreenFacts, Bounds
<1>2. rollback_cells \in Nat
  BY SpanFacts
<1>3. R \in Screens
  BY ReconciledFacts
<1>4. R.row = a.row /\ R.column = a.column
  <2>1. CASE ~overlay_active
    <3>1. R = s /\ ~reconciliation_required /\ predicted_ascii = <<>>
      BY <2>1, ReconciledFacts DEF IInv, SpanInv
    <3>2. cursor_offset = 0
      <4>1. cursor_offset \in 0 .. Len(predicted_ascii) /\ Len(predicted_ascii) = 0
        BY <3>1 DEF IInv, TypeOK, SpanType
      <4>2. QED  BY <4>1
    <3>3. QED  BY <1>1, <3>1, <3>2 DEF CursorInPlace
  <2>2. CASE overlay_active
    BY <2>2, ReconciledFacts
  <2>3. QED  BY <2>1, <2>2
<1>5. /\ \A r \in (1 .. Rows) \ {a.row} : R.cells[r] = s.cells[r]
      /\ \A c \in 0 .. (Columns - 1) :
            R.cells[a.row][c] = IF c < a.column THEN s.cells[a.row][c]
                                ELSE IF c + rollback_cells < Columns
                                     THEN s.cells[a.row][c + rollback_cells]
                                ELSE Blank
  <2>1. CASE ~overlay_active
    <3>1. R = s /\ rollback_cells = 0
      BY <2>1, ReconciledFacts DEF IInv, SpanInv
    <3>2. \A c \in 0 .. (Columns - 1) : c + 0 = c /\ c + 0 < Columns
      BY Bounds
    <3>3. QED  BY <3>1, <3>2
  <2>2. CASE overlay_active
    BY <2>2, ReconciledFacts
  <2>3. QED  BY <2>1, <2>2
<1> HIDE DEF R
<1>6. ASSUME NEW r \in 1 .. Rows, NEW c \in 0 .. (Columns - 1), r # a.row \/ c < a.column
      PROVE  R.cells[r][c] = s.cells[r][c] /\ ~GuessPlace(r, c)
  BY <1>1, <1>5, <1>6 DEF GuessPlace
<1>7. ASSUME NEW c \in 0 .. (Columns - 1), ~(c < a.column)
      PROVE  \/ R.cells[a.row][c] = Blank /\ ~(c + rollback_cells < Columns)
             \/ /\ c + rollback_cells < Columns
                /\ c + rollback_cells \in 0 .. (Columns - 1)
                /\ ~GuessPlace(a.row, c + rollback_cells)
                /\ R.cells[a.row][c] = s.cells[a.row][c + rollback_cells]
  <2>1. CASE c + rollback_cells < Columns
    <3>1. /\ c + rollback_cells \in 0 .. (Columns - 1)
          /\ ~(c + rollback_cells < a.column + rollback_cells)
      BY <1>1, <1>2, <1>7, <2>1, Bounds
    <3>2. QED  BY <1>5, <1>7, <2>1, <3>1 DEF GuessPlace
  <2>2. CASE ~(c + rollback_cells < Columns)
    BY <1>5, <1>7, <2>2
  <2>3. QED  BY <2>1, <2>2
<1>8. ASSUME NEW r \in 1 .. Rows, NEW c \in 0 .. (Columns - 1)
      PROVE  R.cells[r][c] # Guess
  <2>1. CASE r # a.row \/ c < a.column
    BY <1>6, <2>1 DEF GuessesInPlace
  <2>2. CASE r = a.row /\ ~(c < a.column)
    BY <1>1, <1>7, <2>2 DEF GuessesInPlace, Blank, Guess
  <2>3. QED  BY <2>1, <2>2
<1>9. ASSUME TextInPlace(s), NEW r \in 1 .. Rows, NEW c \in 0 .. (Columns - 1)
      PROVE  R.cells[r][c] = a.cells[r][c]
  <2>1. CASE r # a.row \/ c < a.column
    BY <1>6, <1>9, <2>1 DEF TextInPlace
  <2>2. CASE r = a.row /\ ~(c < a.column)
    <3>1. c \in a.column .. (Columns - 1)
      BY <1>1, <2>2
    <3>2. IF c + rollback_cells < Columns
          THEN s.cells[a.row][c + rollback_cells] = a.cells[a.row][c]
          ELSE a.cells[a.row][c] = Blank
      BY <1>9, <3>1 DEF TextInPlace
    <3>3. QED  BY <1>7, <2>2, <3>2
  <2>3. QED  BY <2>1, <2>2
<1>10. TextInPlace(s) => R = a
  BY <1>1, <1>3, <1>4, <1>9, ScreenEqual
<1>11. QED  BY <1>4, <1>8, <1>10 DEF R

\* Where a terminal settles: on the authoritative screen, and with inserting predictions
\* as far as nothing spoiled the rollback.
Settled(screen, q) ==
    /\ screen \in Screens /\ q \subseteq {"width", "pushed", "repainted"}
    /\ overwrite => screen = authoritative /\ q \subseteq {"width"}
    /\ ~overwrite =>
          /\ q \subseteq {"pushed"} =>
                /\ screen.row = authoritative.row /\ screen.column = authoritative.column
                /\ \A r \in 1 .. Rows, c \in 0 .. (Columns - 1) : screen.cells[r][c] # Guess
          /\ q = {} => screen = authoritative

\* When predictions overwrite, nothing is left of them.
LEMMA OverwrittenTakenBack ==
    ASSUME IInv, overwrite
    PROVE  /\ Reconciled(Cleared(real)) = authoritative
           /\ Cleared(Reconciled(real)) = authoritative
           /\ spoiled \subseteq {"width"} /\ SpoiledCleared \subseteq {"width"}
<1>1. authoritative \in Screens /\ real \in Screens /\ Cleared(real) \in Screens
  BY ScreenFacts
<1>2. /\ local_notice_active \/ overlay_active \/ real = authoritative
      /\ spoiled \subseteq {"width"} /\ SpoiledCleared \subseteq {"width"}
  BY DEF IInv, OverwriteInv, SpoiledCleared, Repainted
<1>3. CASE overlay_active
  <2>1. Reconciled(Cleared(real)) = authoritative /\ Reconciled(real) = authoritative
    BY <1>1, <1>3, ReconciledFacts
  <2>2. QED  BY <1>2, <2>1 DEF Cleared
<1>4. CASE ~overlay_active
  <2>1. Reconciled(Cleared(real)) = Cleared(real) /\ Reconciled(real) = real
    BY <1>1, <1>4, ReconciledFacts
  <2>2. QED  BY <1>2, <1>4, <2>1 DEF Cleared
<1>5. QED  BY <1>3, <1>4

\* The notice is cleared, then the prediction is taken back.
LEMMA SettledClearedFirst ==
    ASSUME IInv, NEW q, q \in {{}, SpoiledCleared}, ~overwrite => q = SpoiledCleared
    PROVE  Settled(Reconciled(Cleared(real)), q)
<1> DEFINE s == Cleared(real)
<1>1. s \in Screens /\ q \subseteq {"width", "pushed", "repainted"} /\ authoritative \in Screens
  BY ScreenFacts
<1>2. Reconciled(s) \in Screens
  BY <1>1, ReconciledFacts
<1>3. ASSUME overwrite PROVE Reconciled(s) = authoritative /\ q \subseteq {"width"}
  BY <1>3, OverwrittenTakenBack
<1>4. ASSUME ~overwrite, q \subseteq {"pushed"}
      PROVE  /\ Reconciled(s).row = authoritative.row
             /\ Reconciled(s).column = authoritative.column
             /\ \A r \in 1 .. Rows, c \in 0 .. (Columns - 1) : Reconciled(s).cells[r][c] # Guess
             /\ q = {} => Reconciled(s) = authoritative
  <2>1. GuessesInPlace(s) /\ CursorInPlace(s) /\ (q = {} => TextInPlace(s))
    BY <1>4, ClearedInPlace
  <2> HIDE DEF s
  <2>2. QED  BY <1>1, <1>4, <2>1, InsertedTakenBack
<1> HIDE DEF s
<1>5. q = {} => q \subseteq {"pushed"}
  OBVIOUS
<1>6. Settled(Reconciled(s), q)
  BY <1>1, <1>2, <1>3, <1>4, <1>5 DEF Settled
<1>7. QED  BY <1>6 DEF s

\* The prediction is taken back, then the notice is cleared.
LEMMA SettledClearedLast ==
    ASSUME IInv, NEW q, q \in {{}, spoiled},
           ~overwrite => q = IF local_notice_active THEN {} ELSE spoiled
    PROVE  Settled(Cleared(Reconciled(real)), q)
<1> DEFINE R == Cleared(Reconciled(real))
<1>1. real \in Screens /\ authoritative \in Screens /\ Reconciled(real) \in Screens
  BY ScreenFacts, ReconciledFacts
<1>2. R \in Screens /\ q \subseteq {"width", "pushed", "repainted"}
  BY <1>1 DEF Cleared, IInv, ModelInv
<1>3. ASSUME overwrite PROVE R = authoritative /\ q \subseteq {"width"}
  BY <1>3, OverwrittenTakenBack
<1>4. ASSUME ~overwrite, q \subseteq {"pushed"}
      PROVE  /\ R.row = authoritative.row /\ R.column = authoritative.column
             /\ \A r \in 1 .. Rows, c \in 0 .. (Columns - 1) : R.cells[r][c] # Guess
             /\ q = {} => R = authoritative
  <2>1. CASE local_notice_active
    <3>1. R = authoritative
      BY <2>1 DEF Cleared
    <3>2. QED  BY <3>1, ScreenFacts
  <2>2. CASE ~local_notice_active
    <3>1. R = Reconciled(real) /\ q = spoiled
      BY <1>4, <2>2 DEF Cleared
    <3> HIDE DEF R
    <3>2. GuessesInPlace(real) /\ CursorInPlace(real) /\ (q = {} => TextInPlace(real))
      BY <1>4, <2>2, <3>1 DEF IInv, InsertInv
    <3>3. QED  BY <1>1, <1>4, <3>1, <3>2, InsertedTakenBack
  <2>3. QED  BY <2>1, <2>2
<1> HIDE DEF R
<1>5. q = {} => q \subseteq {"pushed"}
  OBVIOUS
<1>6. Settled(R, q)
  BY <1>2, <1>3, <1>4, <1>5 DEF Settled
<1>7. QED  BY <1>6 DEF R

\* A terminal that has settled keeps the invariant.
LEMMA ShownSettled ==
    ASSUME ModelInv', ~local_notice_active', ~overlay_active', ~reconciliation_required',
           cursor_offset' = 0, rollback_cells' = 0, Settled(real, spoiled)'
    PROVE  ShownInv'
<1>1. /\ \A r \in 1 .. Rows, c \in 0 .. (Columns - 1) : authoritative'.cells[r][c] # Guess
      /\ authoritative'.column \in Nat /\ Columns - 1 \in 0 .. (Columns - 1)
  BY Bounds DEF ModelInv, Screens
<1>2. ASSUME overwrite' PROVE OverwriteInv'
  BY <1>1, <1>2 DEF OverwriteInv, MarginRespected, Settled
<1>3. ASSUME ~overwrite' PROVE InsertInv'
  <2>1. authoritative'.column = authoritative'.column + cursor_offset'
    BY <1>1
  <2>2. spoiled' \subseteq {"pushed"} => GuessesInPlace(real)' /\ CursorInPlace(real)'
    BY <1>3, <2>1 DEF GuessesInPlace, CursorInPlace, Settled
  <2>3. spoiled' = {} => TextInPlace(real)'
    <3>1. \A c \in authoritative'.column .. (Columns - 1) :
             c + rollback_cells' = c /\ c + rollback_cells' < Columns
      BY <1>1, Bounds
    <3>2. spoiled' = {} => real' = authoritative'
      BY <1>3 DEF Settled
    <3>3. QED  BY <3>1, <3>2 DEF TextInPlace
  <2>4. QED  BY <2>2, <2>3 DEF InsertInv
<1>4. QED  BY <1>2, <1>3 DEF ShownInv

\* Only predictions that overwrite are taken back by a redraw.
LEMMA RedrawOverwrites ==
    ASSUME IInv, ~overwrite
    PROVE  Reconciliation # "redraw"
<1>1. /\ reconciliation_required => overlay_active
      /\ overlay_active => line_context = Context /\ Context # NoContext
  BY SpanFacts DEF IInv, SpanInv
<1>2. QED  BY <1>1 DEF Reconciliation

\* A resize event.
LEMMA ResizeInv ==
    ASSUME IInv, ResizeEvent
    PROVE  IInv' /\ CellsStay
<1>1. /\ TakeReconciliation /\ real' = Reconciled(Cleared(real)) /\ ~local_notice_active'
      /\ UNCHANGED <<authoritative, frame>>
      /\ spoiled' = IF Reconciliation = "redraw" THEN {} ELSE SpoiledCleared
  BY DEF ResizeEvent
<1>2. /\ SpanType' /\ SpanInv' /\ AcknowledgementsAgree' /\ CellsStay
      /\ overwrite' = overwrite
      /\ ~overlay_active' /\ ~reconciliation_required'
      /\ cursor_offset' = 0 /\ rollback_cells' = 0
  BY <1>1, TakeSpan
<1>3. ~overwrite => spoiled' = SpoiledCleared
  BY <1>1, RedrawOverwrites
<1>4. Settled(real', spoiled')
  BY <1>1, <1>3, SettledClearedFirst
<1>5. Settled(real, spoiled)'
  BY <1>1, <1>2, <1>4 DEF Settled
<1>6. ModelInv'
  BY <1>1, <1>4 DEF IInv, ModelInv, Settled
<1>7. ShownInv'
  BY <1>1, <1>2, <1>5, <1>6, ShownSettled
<1>8. QED  BY <1>2, <1>6, <1>7, Assembled

\* Server output.
LEMMA OutputInv ==
    ASSUME IInv, NEW row \in 1 .. Rows, NEW column \in 0 .. (Columns - 1),
           NEW value \in {Blank, Text}, NEW position \in (1 .. Rows) \X (0 .. (Columns - 1)),
           Output(row, column, value, position)
    PROVE  IInv' /\ CellsStay
<1> DEFINE R == Cleared(Reconciled(real))
<1>2. PICK p \in 1 .. Rows, q \in 0 .. (Columns - 1) : p = position[1] /\ q = position[2]
  OBVIOUS
<1> DEFINE Painted(s) == MoveTo(Put(MoveTo(s, row, column), value, 1), p, q)
<1>1. /\ authoritative' = Painted(authoritative) /\ real' = Painted(R)
      /\ spoiled' = IF local_notice_active \/ Reconciliation = "redraw" THEN {} ELSE spoiled
      /\ ~local_notice_active' /\ TakeReconciliation /\ UNCHANGED frame
  BY <1>2 DEF Output
<1>3. Settled(R, spoiled')
  <2>1. ~overwrite => spoiled' = IF local_notice_active THEN {} ELSE spoiled
    BY <1>1, RedrawOverwrites
  <2>2. QED  BY <1>1, <2>1, SettledClearedLast
<1>0. ASSUME NEW s \in Screens
      PROVE  /\ Painted(s) \in Screens /\ Painted(s).row = p /\ Painted(s).column = q
             /\ \A r \in 1 .. Rows, c \in 0 .. (Columns - 1) :
                   Painted(s).cells[r][c] = IF r = row /\ c = column THEN value ELSE s.cells[r][c]
  <2> DEFINE m == MoveTo(s, row, column)
             t == Put(m, value, 1)
  <2>1. column \in Nat /\ column < Columns /\ q \in Nat /\ q < Columns
    BY Bounds
  <2>2. m \in Screens /\ m.cells = s.cells /\ m.row = row /\ m.column = column
    BY <2>1, MoveToFacts
  <2> HIDE DEF m
  <2>3. /\ t \in Screens
        /\ \A r \in 1 .. Rows, c \in 0 .. (Columns - 1) :
              t.cells[r][c] = IF r = m.row /\ c = m.column THEN value ELSE m.cells[r][c]
    <3>1. 1 \in 0 .. 2 /\ value \in {Blank, Text, Guess} /\ m.column < Columns
      BY <2>1, <2>2
    <3>2. QED  BY <2>2, <3>1, PutFacts
  <2>4. Painted(s) = MoveTo(t, p, q)
    BY DEF m
  <2> HIDE DEF t, Painted
  <2>5. /\ Painted(s) \in Screens /\ Painted(s).cells = t.cells
        /\ Painted(s).row = p /\ Painted(s).column = q
    <3>1. /\ MoveTo(t, p, q) \in Screens /\ MoveTo(t, p, q).cells = t.cells
          /\ MoveTo(t, p, q).row = p /\ MoveTo(t, p, q).column = q
      BY <2>1, <2>3, MoveToFacts
    <3>2. QED  BY <2>4, <3>1
  <2>6. QED  BY <2>2, <2>3, <2>5
<1> HIDE DEF R, Painted
<1>4. /\ SpanType' /\ SpanInv' /\ AcknowledgementsAgree' /\ CellsStay
      /\ overwrite' = overwrite
      /\ ~overlay_active' /\ ~reconciliation_required'
      /\ cursor_offset' = 0 /\ rollback_cells' = 0
  BY <1>1, TakeSpan
<1>5. /\ authoritative \in Screens
      /\ \A r \in 1 .. Rows, c \in 0 .. (Columns - 1) : authoritative.cells[r][c] # Guess
      /\ value # Guess
  BY ScreenFacts DEF Blank, Text, Guess
<1>6. /\ authoritative' \in Screens /\ authoritative'.row = p /\ authoritative'.column = q
      /\ \A r \in 1 .. Rows, c \in 0 .. (Columns - 1) :
            authoritative'.cells[r][c] =
               IF r = row /\ c = column THEN value ELSE authoritative.cells[r][c]
  BY <1>0, <1>1, <1>5
<1>7. /\ real' \in Screens /\ real'.row = p /\ real'.column = q
      /\ \A r \in 1 .. Rows, c \in 0 .. (Columns - 1) :
            real'.cells[r][c] = IF r = row /\ c = column THEN value ELSE R.cells[r][c]
  BY <1>0, <1>1, <1>3 DEF Settled
<1>8. ModelInv'
  <2>1. authoritative'.column < Columns
    BY <1>6, Bounds
  <2>2. spoiled' \subseteq {"width", "pushed", "repainted"}
    BY <1>3 DEF Settled
  <2>3. \A r \in 1 .. Rows, c \in 0 .. (Columns - 1) : authoritative'.cells[r][c] # Guess
    BY <1>5, <1>6
  <2>4. QED  BY <1>6, <1>7, <2>1, <2>2, <2>3 DEF ModelInv
<1>9. R = authoritative => real' = authoritative'
  BY <1>1
<1>10. Settled(real, spoiled)'
  <2>1. overwrite => R = authoritative /\ spoiled' \subseteq {"width"}
    BY <1>3 DEF Settled
  <2>2. ~overwrite =>
           /\ spoiled' \subseteq {"pushed"} =>
                 \A r \in 1 .. Rows, c \in 0 .. (Columns - 1) : real'.cells[r][c] # Guess
           /\ spoiled' = {} => R = authoritative
    BY <1>3, <1>5, <1>7 DEF Settled
  <2>3. spoiled' \subseteq {"width", "pushed", "repainted"}
    BY <1>3 DEF Settled
  <2>4. QED  BY <1>4, <1>6, <1>7, <1>9, <2>1, <2>2, <2>3 DEF Settled
<1>11. ShownInv'
  BY <1>1, <1>4, <1>8, <1>10, ShownSettled
<1>12. QED  BY <1>4, <1>8, <1>11, Assembled

(***************************************************************************)
(* Local commands, acknowledgements and the runtime.                         *)
(***************************************************************************)
\* What the predictor holds does not change.
LEMMA PredictorKept ==
    ASSUME IInv, UNCHANGED <<predictionVars, authoritative>>,
           frame' \in {frame, frame + 1}, frame' <= MaxFrame
    PROVE  /\ SpanType' /\ SpanInv' /\ AcknowledgementsAgree' /\ CellsStay
           /\ UNCHANGED <<overwrite, cursor_offset, rollback_cells, overlay_active,
                          reconciliation_required>>
<1>1. UNCHANGED <<overwrite, spanVars, highest_frame_id, latest_acknowledgement>> /\ Context' = Context
  BY DEF predictionVars, Context
<1>2. QED  BY <1>1, SpanKept DEF spanVars

\* The help.
LEMMA HelpInv ==
    ASSUME IInv, Help
    PROVE  IInv' /\ CellsStay
<1> DEFINE s == Cleared(real)
           f == [c \in 0 .. (Columns - 1) |-> Text]
           g == [s.cells EXCEPT ![1] = f]
<1>1. /\ real' = [s EXCEPT !.cells[1] = f] /\ spoiled' = SpoiledCleared
      /\ local_notice_active' /\ UNCHANGED <<predictionVars, authoritative, frame>>
  BY DEF Help
<1>2. /\ SpanType' /\ SpanInv' /\ AcknowledgementsAgree' /\ CellsStay
      /\ UNCHANGED <<overwrite, cursor_offset, rollback_cells, overlay_active,
                     reconciliation_required>>
  <2>1. frame' \in {frame, frame + 1} /\ frame' <= MaxFrame
    BY <1>1, SpanFacts, Bounds
  <2>2. QED  BY <1>1, <2>1, PredictorKept
<1>3. s \in Screens /\ s.cells \in Cells /\ s.row \in 1 .. Rows /\ s.column \in 0 .. Columns
  BY ScreenFacts DEF Screens
<1>4. f \in [0 .. (Columns - 1) -> {Blank, Text, Guess}] /\ \A c \in 0 .. (Columns - 1) : f[c] = Text
  OBVIOUS
<1>5. 1 \in 1 .. Rows /\ Columns - 1 \in 0 .. (Columns - 1)
  BY Bounds
<1> HIDE DEF f
<1>6. /\ g \in Cells /\ g[1] = f
      /\ \A r \in 1 .. Rows : r # 1 => g[r] = s.cells[r]
  <2> HIDE DEF s
  <2>1. QED  BY <1>3, <1>4, <1>5 DEF Cells
<1>7. real' = [cells |-> g, row |-> s.row, column |-> s.column]
  <2> HIDE DEF s
  <2>1. QED  BY <1>1, <1>3 DEF Screens
<1> HIDE DEF g
<1>8. real' \in Screens /\ real'.cells = g /\ real'.column = s.column
  <2> HIDE DEF s
  <2>1. QED  BY <1>3, <1>6, <1>7 DEF Screens
<1>9. ModelInv'
  BY <1>1, <1>2, <1>8, ScreenFacts DEF IInv, ModelInv
<1>10. ASSUME overwrite PROVE OverwriteInv'
  <2>1. OverwriteInv
    BY <1>10 DEF IInv
  <2>2. /\ SpoiledCleared \subseteq {"width"}
        /\ SpoiledCleared = {} => \A r \in 1 .. Rows : s.cells[r][Columns - 1] # Guess
    BY <1>5, <1>10, <2>1, ScreenFacts
       DEF OverwriteInv, MarginRespected, Cleared, SpoiledCleared, Repainted
  <2>3. MarginRespected'
    <3>1. SpoiledCleared \subseteq {"pushed"} => SpoiledCleared = {}
      BY <2>2
    <3>2. ASSUME SpoiledCleared = {}, NEW r \in 1 .. Rows PROVE g[r][Columns - 1] # Guess
      <4>1. CASE r = 1
        BY <1>4, <1>5, <1>6, <4>1 DEF Text, Guess
      <4>2. CASE r # 1
        BY <1>6, <2>2, <3>2, <4>2
      <4>3. QED  BY <4>1, <4>2
    <3>3. QED  BY <1>1, <1>8, <3>1, <3>2 DEF MarginRespected
  <2>4. SpoiledCleared = {} /\ overlay_active /\ ~reconciliation_required =>
           s.column <= authoritative.column + cursor_offset
    <3>1. authoritative.column <= authoritative.column + cursor_offset
      BY ScreenFacts, SpanFacts
    <3>2. QED  BY <2>1, <3>1 DEF OverwriteInv, Cleared, SpoiledCleared
  <2>5. QED  BY <1>1, <1>2, <1>8, <2>2, <2>3, <2>4 DEF OverwriteInv
<1>11. ASSUME ~overwrite PROVE InsertInv'
  <2>1. ASSUME spoiled' \subseteq {"pushed"}, NEW r \in 1 .. Rows, NEW c \in 0 .. (Columns - 1),
               real'.cells[r][c] = Guess
        PROVE  GuessPlace(r, c)
    <3>1. GuessesInPlace(s)
      BY <1>1, <1>11, <2>1, ClearedInPlace
    <3>2. r # 1
      BY <1>4, <1>6, <1>8, <2>1 DEF Text, Guess
    <3>3. s.cells[r][c] = Guess
      BY <1>6, <1>8, <2>1, <3>2
    <3>4. QED  BY <3>1, <3>3 DEF GuessesInPlace
  <2>2. \A r, c : GuessPlace(r, c)' <=> GuessPlace(r, c)
    BY <1>1, <1>2 DEF GuessPlace
  <2>3. QED  BY <1>1, <2>1, <2>2 DEF InsertInv, GuessesInPlace
<1>12. ShownInv'
  BY <1>2, <1>10, <1>11 DEF ShownInv
<1>13. QED  BY <1>2, <1>9, <1>12, Assembled

\* A suspension.
LEMMA SuspendInv ==
    ASSUME IInv, Suspend
    PROVE  IInv' /\ CellsStay
<1>1. /\ real' = authoritative /\ spoiled' = Repainted
      /\ UNCHANGED <<predictionVars, authoritative, frame>>
  BY DEF Suspend
<1>2. /\ SpanType' /\ SpanInv' /\ AcknowledgementsAgree' /\ CellsStay
      /\ UNCHANGED <<overwrite, cursor_offset, rollback_cells, overlay_active,
                     reconciliation_required>>
  <2>1. frame' \in {frame, frame + 1} /\ frame' <= MaxFrame
    BY <1>1, SpanFacts, Bounds
  <2>2. QED  BY <1>1, <2>1, PredictorKept
<1>3. ModelInv'
  <2>1. Repainted \subseteq {"width", "pushed", "repainted"}
    BY DEF Repainted
  <2>2. QED  BY <1>1, <1>2, <2>1 DEF IInv, ModelInv
<1>4. ASSUME overwrite PROVE OverwriteInv'
  <2>1. Columns - 1 \in 0 .. (Columns - 1) /\ authoritative.column <= authoritative.column + cursor_offset
    BY ScreenFacts, SpanFacts, Bounds
  <2>2. Repainted = {}
    BY <1>4 DEF Repainted
  <2>3. QED  BY <1>1, <1>2, <2>1, <2>2, ScreenFacts DEF OverwriteInv, MarginRespected
<1>5. ASSUME ~overwrite PROVE InsertInv'
  <2>1. Repainted = {} => Repainted \subseteq {"pushed"}
    OBVIOUS
  <2>2. Repainted \subseteq {"pushed"} =>
           /\ GuessesInPlace(authoritative) /\ CursorInPlace(authoritative)
           /\ TextInPlace(authoritative)
    BY <1>5, RepaintedInPlace
  <2>3. /\ GuessesInPlace(authoritative) => GuessesInPlace(real)'
        /\ CursorInPlace(authoritative) => CursorInPlace(real)'
        /\ TextInPlace(authoritative) => TextInPlace(real)'
    <3>1. \A r, c : GuessPlace(r, c)' <=> GuessPlace(r, c)
      BY <1>1, <1>2 DEF GuessPlace
    <3>2. QED  BY <1>1, <1>2, <3>1 DEF GuessesInPlace, CursorInPlace, TextInPlace
  <2>4. QED  BY <1>1, <2>1, <2>2, <2>3 DEF InsertInv
<1>6. ShownInv'
  BY <1>2, <1>4, <1>5 DEF ShownInv
<1>7. QED  BY <1>2, <1>3, <1>6, Assembled

\* Nothing is written on the terminal.
LEMMA ShownKept ==
    ASSUME IInv, UNCHANGED <<overwrite, cursor_offset, rollback_cells, overlay_active,
                             reconciliation_required, screenVars>>
    PROVE  ModelInv' /\ ShownInv'
<1>1. UNCHANGED <<authoritative, real, local_notice_active, spoiled>>
  BY DEF screenVars
<1>2. ModelInv'
  BY <1>1 DEF IInv, ModelInv
<1>3. ASSUME overwrite PROVE OverwriteInv'
  BY <1>1, <1>3 DEF IInv, OverwriteInv, MarginRespected
<1>4. ASSUME ~overwrite PROVE InsertInv'
  BY <1>1, <1>4 DEF IInv, InsertInv, GuessesInPlace, CursorInPlace, TextInPlace, GuessPlace
<1>5. QED  BY <1>2, <1>3, <1>4 DEF ShownInv

\* An acknowledgement.
LEMMA EchoAckInv ==
    ASSUME IInv, NEW ack \in 0 .. (frame - 1), EchoAck(ack)
    PROVE  IInv' /\ CellsStay
<1>1. Acknowledge(ack) /\ UNCHANGED <<screenVars, frame, authoritative>>
  BY DEF EchoAck, screenVars
<1>2. SpanType' /\ SpanInv' /\ AcknowledgementsAgree' /\ CellsStay
  BY <1>1, AcknowledgeSpan
<1>3. UNCHANGED <<overwrite, cursor_offset, rollback_cells, overlay_active, reconciliation_required>>
  BY <1>1 DEF Acknowledge
<1>4. ModelInv' /\ ShownInv'
  BY <1>1, <1>3, ShownKept
<1>5. QED  BY <1>2, <1>4, Assembled

\* A frame is sent, or nothing happens.
LEMMA QuietInv ==
    ASSUME IInv, UNCHANGED <<predictionVars, screenVars>>,
           \/ frame' = frame
           \/ frame < MaxFrame /\ frame' = frame + 1
    PROVE  IInv' /\ CellsStay
<1>1. frame' \in {frame, frame + 1} /\ frame' <= MaxFrame /\ UNCHANGED authoritative
  BY SpanFacts, Bounds DEF screenVars
<1>2. /\ SpanType' /\ SpanInv' /\ AcknowledgementsAgree' /\ CellsStay
      /\ UNCHANGED <<overwrite, cursor_offset, rollback_cells, overlay_active,
                     reconciliation_required>>
  BY <1>1, PredictorKept
<1>3. ModelInv' /\ ShownInv'
  BY <1>2, ShownKept
<1>4. QED  BY <1>2, <1>3, Assembled

\* The round trip is measured.
LEMMA RoundTripInv ==
    ASSUME IInv, NEW is_slow \in BOOLEAN, RoundTrip(is_slow)
    PROVE  IInv' /\ CellsStay
<1>1. /\ UNCHANGED <<overwrite, spanVars, highest_frame_id, latest_acknowledgement>>
      /\ UNCHANGED <<screenVars, authoritative, frame>> /\ Context' = Context
  BY DEF RoundTrip, SetRoundTrip, screenVars, Context
<1>2. frame' \in {frame, frame + 1} /\ frame' <= MaxFrame
  BY <1>1, SpanFacts, Bounds
<1>3. SpanType' /\ SpanInv' /\ AcknowledgementsAgree' /\ CellsStay
  BY <1>1, <1>2, SpanKept
<1>4. ModelInv' /\ ShownInv'
  BY <1>1, ShownKept DEF spanVars
<1>5. QED  BY <1>3, <1>4, Assembled

(***************************************************************************)
(* The theorems.                                                            *)
(***************************************************************************)
LEMMA InitInv == Init => IInv
<1> SUFFICES ASSUME Init PROVE IInv
  OBVIOUS
<1> DEFINE f == [c \in 0 .. (Columns - 1) |-> Blank]
           g == [r \in 1 .. Rows |-> f]
<1>1. /\ overwrite \in BOOLEAN /\ pending = <<>> /\ predicted_ascii = <<>>
      /\ cursor_offset = 0 /\ rollback_cells = 0
      /\ highest_frame_id = -1 /\ latest_acknowledgement = -1
      /\ ~overlay_active /\ ~reconciliation_required /\ frame = 1 /\ ~local_notice_active
      /\ spoiled = {}
      /\ authoritative = [cells |-> g, row |-> 1, column |-> 0] /\ real = authoritative
  BY Bounds DEF Init, PredictionInit, None
<1>2. /\ 1 \in 1 .. Rows /\ 0 \in 0 .. (Columns - 1) /\ Columns - 1 \in 0 .. (Columns - 1)
      /\ 1 \in 1 .. MaxFrame /\ 0 \in 0 .. Columns
  BY Bounds
<1>3. /\ f \in [0 .. (Columns - 1) -> {Blank, Text, Guess}]
      /\ \A c \in 0 .. (Columns - 1) : f[c] = Blank
  OBVIOUS
<1> HIDE DEF f
<1>4. g \in Cells /\ \A r \in 1 .. Rows : g[r] = f
  BY <1>3 DEF Cells
<1> HIDE DEF g
<1>5. /\ authoritative \in Screens /\ authoritative.cells = g
      /\ authoritative.row = 1 /\ authoritative.column = 0
  BY <1>1, <1>2, <1>4 DEF Screens
<1>6. \A r \in 1 .. Rows, c \in 0 .. (Columns - 1) :
         authoritative.cells[r][c] = Blank /\ authoritative.cells[r][c] # Guess
  BY <1>3, <1>4, <1>5 DEF Blank, Guess
<1>7. ModelInv
  <2>1. authoritative.column < Columns
    BY <1>5, Bounds
  <2>2. QED  BY <1>1, <1>2, <1>5, <1>6, <2>1 DEF ModelInv
<1>8. Len(<<>>) = 0 /\ <<>> \in Seq(0 .. MaxFrame) /\ <<>> \in Seq(PredictedCell)
  OBVIOUS
<1>9. SpanType
  BY <1>1, <1>2, <1>8, Bounds DEF SpanType, None
<1>10. SpanInv
  BY <1>1, <1>2, <1>8, Bounds DEF SpanInv
<1>11. AcknowledgementsAgree
  BY <1>1, <1>8 DEF AcknowledgementsAgree
<1>12. OverwriteInv
  BY <1>1, <1>2, <1>6 DEF OverwriteInv, MarginRespected
<1>13. InsertInv
  <2>1. \A c \in 0 .. (Columns - 1) : c + 0 = c /\ c + 0 < Columns
    BY Bounds
  <2>2. 0 + 0 = 0
    OBVIOUS
  <2>3. TextInPlace(real)
    BY <1>1, <1>5, <2>1 DEF TextInPlace
  <2>4. GuessesInPlace(real) /\ CursorInPlace(real)
    BY <1>1, <1>5, <1>6, <2>2 DEF GuessesInPlace, CursorInPlace
  <2>5. QED  BY <2>3, <2>4 DEF InsertInv
<1>14. QED  BY <1>1, <1>5, <1>7, <1>9, <1>10, <1>11, <1>12, <1>13 DEF IInv, TypeOK, Screens

LEMMA NextInv == IInv /\ [Next]_vars => IInv' /\ CellsStay
<1> SUFFICES ASSUME IInv, [Next]_vars PROVE IInv' /\ CellsStay
  OBVIOUS
<1>1. CASE \/ \E width \in 0 .. 2 : Key("Printable", width)
           \/ \E action \in {"Backspace", "Left", "Right", "Barrier"} : Key(action, 1)
  BY <1>1, KeyInv
<1>2. CASE OtherInput
  BY <1>2, OtherInputInv
<1>3. CASE ResizeEvent
  BY <1>3, ResizeInv
<1>4. CASE Help
  BY <1>4, HelpInv
<1>5. CASE Suspend
  BY <1>5, SuspendInv
<1>6. CASE \E row \in 1 .. Rows, column \in 0 .. (Columns - 1), value \in {Blank, Text},
              position \in (1 .. Rows) \X (0 .. (Columns - 1)) :
                 Output(row, column, value, position)
  BY <1>6, OutputInv
<1>7. CASE \E ack \in 0 .. (frame - 1) : EchoAck(ack)
  BY <1>7, EchoAckInv
<1>8. CASE SendFrame
  BY <1>8, QuietInv DEF SendFrame
<1>9. CASE \E is_slow \in BOOLEAN : RoundTrip(is_slow)
  BY <1>9, RoundTripInv
<1>10. CASE UNCHANGED vars
  <2>1. UNCHANGED <<predictionVars, screenVars>>
    BY <1>10 DEF vars
  <2>2. frame' = frame
    BY <1>10 DEF vars
  <2>3. QED  BY <2>1, <2>2, QuietInv
<1>11. QED  BY <1>1, <1>2, <1>3, <1>4, <1>5, <1>6, <1>7, <1>8, <1>9, <1>10 DEF Next

\* Where the span stands on the screen and what is shown beside it is kept by every key,
\* server output, acknowledgement and local command.
THEOREM Invariance == Spec => []IInv
<1>1. Init => IInv
  BY InitInv
<1>2. IInv /\ [Next]_vars => IInv'
  BY NextInv
<1>3. QED  BY <1>1, <1>2, PTL DEF Spec

\* The span never outgrows MAXIMUM_PENDING_PREDICTIONS or the row, the cursor offset
\* stays inside the span, and both screens keep their size.
THEOREM TypeCorrect == Spec => []TypeOK
<1>1. IInv => TypeOK
  BY DEF IInv
<1>2. QED  BY <1>1, Invariance, PTL

\* The acknowledged flag of a cell and the acknowledged frame number never disagree,
\* whatever acknowledgements come late, twice or out of order.
THEOREM AcknowledgementsConsistent == Spec => []AcknowledgementsAgree
<1>1. IInv => AcknowledgementsAgree
  BY DEF IInv
<1>2. QED  BY <1>1, Invariance, PTL

\* A key never takes a single acknowledged cell away.
THEOREM AcknowledgedProtected == Spec => AcknowledgedCellsStay
<1>1. IInv /\ [Next]_vars => [CellsStay]_vars
  BY NextInv
<1>2. Spec => [][CellsStay]_vars
  BY <1>1, Invariance, PTL DEF Spec
<1>3. QED  BY <1>2, PTL DEF AcknowledgedCellsStay, CellsStay

\* On a screen of any size and for a span of any length no guess stands in the last
\* column, as long as every guess took one cell and no inserting span was repainted over.
THEOREM MarginSafe == Spec => []MarginRespected
<1>1. ASSUME IInv PROVE MarginRespected
  <2>1. CASE overwrite
    BY <1>1, <2>1 DEF IInv, OverwriteInv
  <2>2. CASE ~overwrite
    <3>1. spoiled \subseteq {"pushed"} => GuessesInPlace(real)
      BY <1>1, <2>2 DEF IInv, InsertInv
    <3>2. /\ overlay_active => authoritative.column + rollback_cells < Columns
          /\ ~overlay_active => rollback_cells = 0
          /\ authoritative.column \in Nat /\ authoritative.column < Columns
          /\ rollback_cells \in Nat
      BY <1>1, ScreenFacts, SpanFacts, Bounds DEF IInv, SpanInv, Context
    <3>3. Columns - 1 \in 0 .. (Columns - 1) /\ ~(Columns - 1 < authoritative.column + rollback_cells)
      BY <3>2, Bounds
    <3>4. QED  BY <3>1, <3>3 DEF GuessesInPlace, GuessPlace, MarginRespected
  <2>3. QED  BY <1>1, <2>1, <2>2 DEF IInv, SpanInv
<1>2. QED  BY <1>1, Invariance, PTL

\* Taking the prediction back gives exactly the authoritative screen: always when
\* predictions overwrite, and when they insert, at the end of a line and inside it, with
\* the help and suspensions, unless a guess did not take one cell, text was pushed over
\* the margin or an inserting span was repainted over.
THEOREM RollbackExact == Spec => []RollbackIsExact
<1>1. ASSUME IInv PROVE RollbackIsExact
  <2>1. SUFFICES ASSUME overwrite \/ spoiled = {}, ~local_notice_active
                 PROVE  Reconciled(real) = authoritative
    BY DEF RollbackIsExact, Exact
  <2>2. Cleared(Reconciled(real)) = Reconciled(real)
    BY <2>1 DEF Cleared
  <2>3. Settled(Cleared(Reconciled(real)), spoiled)
    BY <1>1, <2>1, SettledClearedLast
  <2>4. QED  BY <1>1, <2>1, <2>2, <2>3 DEF Settled, IInv, SpanInv
<1>2. QED  BY <1>1, Invariance, PTL
=============================================================================
