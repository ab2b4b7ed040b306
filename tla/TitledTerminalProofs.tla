----------------------- MODULE TitledTerminalProofs -----------------------
(***************************************************************************)
(* Proofs about the title filter in the terminal guard (TitledTerminal): for *)
(* any output of the server, any bounds on commands and titles and any       *)
(* suspensions, nothing but the titles changes, and the titles shown are the *)
(* server's, with the prefix, until the filter misreads a byte.              *)
(*                                                                         *)
(* The invariant TitledInv stands here and not in the model: it speaks of all *)
(* sequences of bytes, which TLC does not enumerate.                         *)
(***************************************************************************)
EXTENDS TitledTerminal, SequenceTheorems, NaturalsInduction, WellFoundedInduction,
        TLAPS

Modes == {"Ground", "Lead", "Escape", "Osc", "OscEscape"}
Byte == STRING \cup {"ESC", "OSC", "ST", "CAN", "BEL", "]", "semi", "bs", "lead",
                     "0", "1", "2", "shell", "[mosh]"}
Bytes == Seq(Byte)
Terminals == [mode : Modes, osc : Bytes, text : Bytes, others : Seq(Bytes),
              titled : BOOLEAN, icon : Bytes, window : Bytes]

\* One byte, with no limit to a title.
Step(term, byte) == ReadByte(term, byte, NoLimit)

(***************************************************************************)
(* The reading of a sequence, one byte at a time.  It is a recursive function: *)
(* that there is one, and that it depends on the bytes read so far only, is    *)
(* shown by induction.                                                       *)
(***************************************************************************)
LEMMA Induction ==
    ASSUME NEW S, 0 \in S, \A n \in Nat : n \in S => n + 1 \in S
    PROVE  Nat \subseteq S
<1> DEFINE T == Nat \ S
<1> SUFFICES ASSUME T # {} PROVE FALSE
  OBVIOUS
<1>1. PICK k \in T : \A j \in T : ~(<<j, k>> \in OpToRel(<, Nat))
  BY WFMin, NatLessThanWellFounded
<1>2. \A j \in T : ~(j < k)
  BY <1>1 DEF OpToRel
<1>3. k \in Nat /\ k # 0
  BY <1>1
<1>4. k - 1 \in Nat /\ k - 1 < k /\ (k - 1) + 1 = k
  BY <1>3
<1>5. k - 1 \in S
  BY <1>2, <1>4
<1>6. QED  BY <1>1, <1>4, <1>5

(***************************************************************************)
(* Sequences of bytes.                                                      *)
(***************************************************************************)
LEMMA Symbols ==
    /\ "ESC" \in Byte /\ "OSC" \in Byte /\ "ST" \in Byte /\ "CAN" \in Byte /\ "BEL" \in Byte
    /\ "]" \in Byte /\ "semi" \in Byte /\ "bs" \in Byte /\ "lead" \in Byte
    /\ "0" \in Byte /\ "1" \in Byte /\ "2" \in Byte /\ "shell" \in Byte /\ "[mosh]" \in Byte
BY DEF Byte

LEMMA Lengths == \A s \in Bytes : Len(s) \in Nat
BY DEF Bytes

LEMMA Join ==
    \A s, t \in Bytes :
       /\ s \o t \in Bytes /\ Len(s \o t) = Len(s) + Len(t)
       /\ \A i \in 1..Len(s) : (s \o t)[i] = s[i]
       /\ \A i \in 1..Len(t) : (s \o t)[Len(s) + i] = t[i]
<1> SUFFICES ASSUME NEW s \in Bytes, NEW t \in Bytes
             PROVE  /\ s \o t \in Bytes /\ Len(s \o t) = Len(s) + Len(t)
                    /\ \A i \in 1..Len(s) : (s \o t)[i] = s[i]
                    /\ \A i \in 1..Len(t) : (s \o t)[Len(s) + i] = t[i]
  OBVIOUS
<1> DEFINE j == s \o t
<1>1. /\ j \in Bytes /\ Len(j) = Len(s) + Len(t)
      /\ \A i \in 1 .. Len(s) + Len(t) : j[i] = IF i <= Len(s) THEN s[i] ELSE t[i - Len(s)]
  BY ConcatProperties DEF Bytes
<1> HIDE DEF j
<1>2. Len(s) \in Nat /\ Len(t) \in Nat
  BY Lengths
<1>3. ASSUME NEW i \in 1..Len(t) PROVE j[Len(s) + i] = t[i]
  <2>1. Len(s) + i \in 1 .. Len(s) + Len(t) /\ ~(Len(s) + i <= Len(s)) /\ (Len(s) + i) - Len(s) = i
    BY <1>2
  <2> DEFINE k == Len(s) + i
  <2>2. k \in 1 .. Len(s) + Len(t) /\ ~(k <= Len(s)) /\ k - Len(s) = i
    BY <2>1
  <2> HIDE DEF k
  <2>3. j[k] = t[i]
    BY <1>1, <2>2
  <2>4. QED  BY <2>3 DEF k
<1>4. ASSUME NEW i \in 1..Len(s) PROVE j[i] = s[i]
  BY <1>1, <1>2
<1>5. QED  BY <1>1, <1>3, <1>4 DEF j

LEMMA Joined == \A s, t, u \in Bytes : (s \o t) \o u = s \o (t \o u)
BY ConcatAssociative DEF Bytes

LEMMA Unjoined == <<>> \in Bytes /\ \A s \in Bytes : s \o <<>> = s /\ <<>> \o s = s
BY ConcatEmptySeq DEF Bytes

LEMMA Longer ==
    \A s \in Bytes : \A b \in Byte :
       /\ Append(s, b) \in Bytes /\ Len(Append(s, b)) = Len(s) + 1
       /\ \A i \in 1..Len(s) : Append(s, b)[i] = s[i]
       /\ Append(s, b)[Len(s) + 1] = b
       /\ <<b>> \in Bytes /\ Append(s, b) = s \o <<b>>
<1> SUFFICES ASSUME NEW s \in Bytes, NEW b \in Byte
             PROVE  /\ Append(s, b) \in Bytes /\ Len(Append(s, b)) = Len(s) + 1
                    /\ \A i \in 1..Len(s) : Append(s, b)[i] = s[i]
                    /\ Append(s, b)[Len(s) + 1] = b
                    /\ <<b>> \in Bytes /\ Append(s, b) = s \o <<b>>
  OBVIOUS
<1>1. /\ Append(s, b) \in Bytes /\ Len(Append(s, b)) = Len(s) + 1
      /\ \A i \in 1..Len(s) : Append(s, b)[i] = s[i]
      /\ Append(s, b)[Len(s) + 1] = b
  BY AppendProperties DEF Bytes
<1>2. <<b>> \in Bytes
  BY DEF Bytes
<1>3. Append(s, b) = s \o <<b>>
  BY Zenon, AppendIsConcat DEF Bytes
<1>4. QED  BY <1>1, <1>2, <1>3

LEMMA JoinLonger ==
    \A s, t \in Bytes : \A b \in Byte : Append(s \o t, b) = s \o Append(t, b)
<1> SUFFICES ASSUME NEW s \in Bytes, NEW t \in Bytes, NEW b \in Byte
             PROVE  Append(s \o t, b) = s \o Append(t, b)
  OBVIOUS
<1> DEFINE e == <<b>>
<1>1. e \in Bytes /\ Append(s \o t, b) = (s \o t) \o e /\ Append(t, b) = t \o e
  BY Join, Longer
<1> HIDE DEF e
<1>2. (s \o t) \o e = s \o (t \o e)
  BY <1>1, Joined
<1>3. QED  BY Zenon, <1>1, <1>2

LEMMA JoinEscape ==
    \A s \in Bytes : \A b \in Byte :
       /\ s \o <<"ESC", b>> = Append(Append(s, "ESC"), b)
       /\ Append(Append(s, "ESC"), b) \in Bytes
<1> SUFFICES ASSUME NEW s \in Bytes, NEW b \in Byte
             PROVE  /\ s \o <<"ESC", b>> = Append(Append(s, "ESC"), b)
                    /\ Append(Append(s, "ESC"), b) \in Bytes
  OBVIOUS
<1> DEFINE e == <<"ESC">>
<1>1. e \in Bytes /\ <<"ESC", b>> = Append(e, b) /\ Append(s, "ESC") = s \o e
  <2>1. e \in Bytes /\ Append(s, "ESC") = s \o e
    BY Longer, Symbols
  <2>2. <<"ESC", b>> = Append(e, b)
    OBVIOUS
  <2>3. QED  BY <2>1, <2>2
<1> HIDE DEF e
<1>2. Append(s \o e, b) = s \o Append(e, b) /\ s \o e \in Bytes /\ Append(s \o e, b) \in Bytes
  BY <1>1, JoinLonger, Join, Longer
<1>3. QED  BY Zenon, <1>1, <1>2

\* The first n bytes of a sequence.
LEMMA FirstBytes ==
    ASSUME NEW s \in Bytes
    PROVE  /\ SubSeq(s, 1, 0) = <<>> /\ SubSeq(s, 1, Len(s)) = s
           /\ \A n \in 0..(Len(s) - 1) :
                 /\ SubSeq(s, 1, n) \in Bytes /\ s[n + 1] \in Byte
                 /\ SubSeq(s, 1, n + 1) = Append(SubSeq(s, 1, n), s[n + 1])
BY DEF Bytes

\* A function that reads the first N of the bytes.
Reads(term, bytes, N, f) ==
    f = [n \in 0..N |-> IF n = 0 THEN term ELSE Step(f[n - 1], bytes[n])]

LEMMA ReadsExists ==
    ASSUME NEW term, NEW bytes
    PROVE  \A N \in Nat : \E f : Reads(term, bytes, N, f)
<1> DEFINE S == {N \in Nat : \E f : Reads(term, bytes, N, f)}
<1>1. 0 \in S
  <2> DEFINE f == [n \in 0..0 |-> term]
  <2>1. f = [n \in 0..0 |-> IF n = 0 THEN term ELSE Step(f[n - 1], bytes[n])]
    <3>1. \A n \in 0..0 : n = 0
      OBVIOUS
    <3>2. QED  BY <3>1
  <2> HIDE DEF f
  <2>2. QED  BY <2>1 DEF Reads
<1>2. ASSUME NEW N \in Nat, N \in S
      PROVE  N + 1 \in S
  <2>1. PICK f : Reads(term, bytes, N, f)
    BY <1>2
  <2> DEFINE e == Step(f[N], bytes[N + 1])
             g == [n \in 0..(N + 1) |-> IF n = N + 1 THEN e ELSE f[n]]
             h == [n \in 0..(N + 1) |->
                     IF n = 0 THEN term ELSE Step(g[n - 1], bytes[n])]
  <2>2. /\ \A n \in 0..(N + 1) : n = N + 1 \/ (n \in 0..N /\ n # N + 1)
        /\ \A n \in 0..N : n # 0 => n - 1 \in 0..N /\ n - 1 \in 0..(N + 1) /\ n - 1 # N + 1
        /\ N \in 0..(N + 1) /\ N # N + 1 /\ N + 1 # 0 /\ (N + 1) - 1 = N
        /\ N + 1 \in 0..(N + 1) /\ 0..N \subseteq 0..(N + 1)
    OBVIOUS
  <2>3. \A n \in 0..N : f[n] = IF n = 0 THEN term ELSE Step(f[n - 1], bytes[n])
    BY <2>1 DEF Reads
  <2>4. g[N + 1] = e /\ \A n \in 0..N : g[n] = f[n]
    <3>1. g[N + 1] = e
      BY <2>2
    <3>2. ASSUME NEW n \in 0..N PROVE g[n] = f[n]
      BY <2>2
    <3>3. QED  BY <3>1, <3>2
  <2>5. ASSUME NEW n \in 0..(N + 1) PROVE g[n] = h[n]
    <3>1. CASE n = N + 1
      <4>1. h[n] = Step(g[N], bytes[N + 1])
        BY Zenon, <2>2, <3>1
      <4>2. g[N] = f[N]
        BY <2>4
      <4>3. QED  BY Zenon, <2>4, <3>1, <4>1, <4>2
    <3>2. CASE n \in 0..N /\ n = 0
      BY Zenon, <2>2, <2>3, <2>4, <3>2
    <3>3. CASE n \in 0..N /\ n # 0
      <4>1. h[n] = Step(g[n - 1], bytes[n])
        BY Zenon, <3>3
      <4>2. g[n - 1] = f[n - 1]
        BY Zenon, <2>2, <2>4, <3>3
      <4>3. f[n] = Step(f[n - 1], bytes[n])
        BY Zenon, <2>3, <3>3
      <4>4. QED  BY Zenon, <2>4, <3>3, <4>1, <4>2, <4>3
    <3>4. QED  BY Zenon, <2>2, <3>1, <3>2, <3>3
  <2>6. g = h
    BY Zenon, <2>5
  <2>7. Reads(term, bytes, N + 1, g)
    BY Zenon, <2>6 DEF Reads
  <2> HIDE DEF g
  <2>8. N + 1 \in Nat
    OBVIOUS
  <2>9. QED  BY <2>7, <2>8
<1> HIDE DEF S
<1>3. Nat \subseteq S
  BY Zenon, <1>1, <1>2, Induction
<1>4. QED  BY <1>3 DEF S

\* What was read depends on what is read only.
LEMMA ReadsAgree ==
    ASSUME NEW term, NEW s, NEW t, NEW M \in Nat, NEW N \in Nat, NEW f, NEW g,
           Reads(term, s, M, f), Reads(term, t, N, g), M <= N,
           \A n \in 1..M : s[n] = t[n]
    PROVE  f[M] = g[M]
<1> DEFINE S == {n \in Nat : n <= M => f[n] = g[n]}
<1>1. \A n \in 0..M : f[n] = IF n = 0 THEN term ELSE Step(f[n - 1], s[n])
  BY DEF Reads
<1>2. \A n \in 0..N : g[n] = IF n = 0 THEN term ELSE Step(g[n - 1], t[n])
  BY DEF Reads
<1>3. 0 \in S
  <2>1. 0 \in 0..M /\ 0 \in 0..N
    OBVIOUS
  <2>2. QED  BY <1>1, <1>2, <2>1
<1>4. ASSUME NEW n \in Nat, n \in S
      PROVE  n + 1 \in S
  <2> SUFFICES ASSUME n + 1 <= M PROVE f[n + 1] = g[n + 1]
    OBVIOUS
  <2>1. /\ n + 1 \in 0..M /\ n + 1 \in 0..N /\ n + 1 # 0 /\ (n + 1) - 1 = n /\ n + 1 \in 1..M
        /\ n <= M
    OBVIOUS
  <2>2. f[n + 1] = Step(f[n], s[n + 1]) /\ g[n + 1] = Step(g[n], t[n + 1])
    BY <1>1, <1>2, <2>1
  <2>3. f[n] = g[n] /\ s[n + 1] = t[n + 1]
    BY <1>4, <2>1
  <2>4. QED  BY <2>2, <2>3
<1> HIDE DEF S
<1>5. Nat \subseteq S
  BY Zenon, <1>3, <1>4, Induction
<1>6. QED  BY <1>5 DEF S

LEMMA ReadingReads ==
    ASSUME NEW term, NEW bytes, Len(bytes) \in Nat
    PROVE  \E f : Reads(term, bytes, Len(bytes), f) /\ Reading(term, bytes) = f[Len(bytes)]
<1> DEFINE f == CHOOSE f : Reads(term, bytes, Len(bytes), f)
<1>1. Reads(term, bytes, Len(bytes), f)
  BY ReadsExists
<1>2. Reading(term, bytes) = f[Len(bytes)]
  BY DEF Reading, Reads, Step
<1>3. QED  BY <1>1, <1>2

LEMMA ReadingNothing == \A term : Reading(term, <<>>) = term
<1> SUFFICES ASSUME NEW term PROVE Reading(term, <<>>) = term
  OBVIOUS
<1>1. Len(<<>>) = 0
  OBVIOUS
<1>2. PICK f : Reads(term, <<>>, 0, f) /\ Reading(term, <<>>) = f[0]
  BY <1>1, ReadingReads
<1>3. QED  BY <1>2 DEF Reads

\* One more byte is read after all the others.
LEMMA ReadingMore ==
    ASSUME NEW term, NEW E, NEW bytes \in Seq(E), NEW b \in E
    PROVE  Reading(term, Append(bytes, b)) = Step(Reading(term, bytes), b)
<1> DEFINE N == Len(bytes)
           more == Append(bytes, b)
<1>1. /\ N \in Nat /\ Len(more) = N + 1 /\ N + 1 \in Nat /\ N <= N + 1
      /\ \A n \in 1..N : bytes[n] = more[n]
      /\ more[N + 1] = b
  OBVIOUS
<1>2. N + 1 \in 0..(N + 1) /\ N + 1 # 0 /\ (N + 1) - 1 = N
  <2>1. \A n \in Nat : n + 1 \in 0..(n + 1) /\ n + 1 # 0 /\ (n + 1) - 1 = n
    OBVIOUS
  <2>2. QED  BY Zenon, <1>1, <2>1
<1> HIDE DEF N, more
<1>3. PICK f : Reads(term, bytes, N, f) /\ Reading(term, bytes) = f[N]
  BY <1>1, ReadingReads DEF N
<1>4. PICK g : Reads(term, more, N + 1, g) /\ Reading(term, more) = g[N + 1]
  BY <1>1, ReadingReads
<1>5. f[N] = g[N]
  BY <1>1, <1>3, <1>4, ReadsAgree
<1>6. g[N + 1] = Step(g[N], more[N + 1])
  BY <1>2, <1>4 DEF Reads
<1>7. QED  BY <1>1, <1>3, <1>4, <1>5, <1>6 DEF more

LEMMA ReadingOneMore ==
    \A t : \A s \in Bytes : \A b \in Byte : Reading(t, Append(s, b)) = Step(Reading(t, s), b)
BY ReadingMore DEF Bytes

\* A sequence is read one part after the other.
LEMMA ReadingJoined ==
    ASSUME NEW t, NEW s \in Bytes, NEW u \in Bytes
    PROVE  Reading(t, s \o u) = Reading(Reading(t, s), u)
<1> DEFINE first(n) == SubSeq(u, 1, n)
           P(n) == Reading(t, s \o first(n)) = Reading(Reading(t, s), first(n))
           S == {n \in Nat : n <= Len(u) => P(n)}
<1>1. Len(u) \in Nat /\ first(0) = <<>> /\ first(Len(u)) = u
  BY FirstBytes, Lengths
<1>2. 0 \in S
  <2>1. s \o <<>> = s
    BY Unjoined
  <2>2. \A v : Reading(v, <<>>) = v
    BY ReadingNothing
  <2>3. P(0)
    BY Zenon, <1>1, <2>1, <2>2
  <2>4. QED  BY <2>3
<1>3. ASSUME NEW n \in Nat, n \in S
      PROVE  n + 1 \in S
  <2> SUFFICES ASSUME n + 1 <= Len(u) PROVE P(n + 1)
    OBVIOUS
  <2> DEFINE b == u[n + 1]
             f == first(n)
  <2>1. n \in 0..(Len(u) - 1) /\ n <= Len(u)
    BY <1>1
  <2>2. f \in Bytes /\ b \in Byte /\ first(n + 1) = Append(f, b)
    BY <2>1, FirstBytes
  <2>3. Reading(t, s \o f) = Reading(Reading(t, s), f)
    BY <1>3, <2>1
  <2> HIDE DEF b, f
  <2>4. s \o f \in Bytes /\ Append(s \o f, b) = s \o Append(f, b)
    BY <2>2, Join, JoinLonger
  <2>5. Reading(t, Append(s \o f, b)) = Step(Reading(t, s \o f), b)
    BY <2>2, <2>4, ReadingOneMore
  <2>6. Reading(Reading(t, s), Append(f, b)) = Step(Reading(Reading(t, s), f), b)
    BY <2>2, ReadingOneMore
  <2>7. QED  BY Zenon, <2>2, <2>3, <2>4, <2>5, <2>6
<1> HIDE DEF S
<1>4. Nat \subseteq S
  BY Zenon, <1>2, <1>3, Induction
<1>5. P(Len(u))
  BY <1>1, <1>4 DEF S
<1>6. QED  BY Zenon, <1>1, <1>5

(***************************************************************************)
(* The terminal inside a control.                                           *)
(***************************************************************************)
\* The terminal in another mode, with another control begun.
At(t, mode, osc) ==
    [mode |-> mode, osc |-> osc, text |-> t.text, others |-> t.others,
     titled |-> t.titled, icon |-> t.icon, window |-> t.window]

LEMMA AtType ==
    ASSUME NEW t \in Terminals, NEW m \in Modes, NEW o \in Bytes
    PROVE  /\ At(t, m, o) \in Terminals
           /\ At(t, m, o).mode = m /\ At(t, m, o).osc = o
           /\ At(t, m, o).text = t.text /\ At(t, m, o).others = t.others
           /\ At(t, m, o).titled = t.titled
           /\ At(t, m, o).icon = t.icon /\ At(t, m, o).window = t.window
BY DEF At, Terminals

LEMMA AtItself ==
    ASSUME NEW t \in Terminals
    PROVE  At(t, t.mode, t.osc) = t
BY DEF At, Terminals

LEMMA AtAgain ==
    ASSUME NEW t, NEW m, NEW o, NEW n, NEW p
    PROVE  At(At(t, m, o), n, p) = At(t, n, p)
BY DEF At

\* What changes the mode and the control begun, and nothing else.
LEMMA ExceptMode ==
    ASSUME NEW t \in Terminals, NEW m, NEW o
    PROVE  /\ [t EXCEPT !.mode = m] = At(t, m, t.osc)
           /\ [t EXCEPT !.mode = m, !.osc = o] = At(t, m, o)
<1>1. [t EXCEPT !.mode = m] = At(t, m, t.osc)
  BY DEF At, Terminals
<1>2. [t EXCEPT !.mode = m, !.osc = o] = [At(t, m, t.osc) EXCEPT !.osc = o]
  BY <1>1
<1>3. [At(t, m, t.osc) EXCEPT !.osc = o] = At(t, m, o)
  BY DEF At
<1>4. QED  BY <1>1, <1>2, <1>3

LEMMA ModesDiffer ==
    /\ "Ground" \in Modes /\ "Lead" \in Modes /\ "Escape" \in Modes /\ "Osc" \in Modes
    /\ "OscEscape" \in Modes
BY DEF Modes

\* The start of a control.
LEMMA StepGround ==
    ASSUME NEW t \in Terminals, t.mode = "Ground", NEW limit
    PROVE  /\ ReadByte(t, "ESC", limit) = At(t, "Escape", t.osc)
           /\ ReadByte(t, "OSC", limit) = At(t, "Osc", t.osc)
BY ExceptMode DEF ReadByte

LEMMA StepEscape ==
    ASSUME NEW t \in Terminals, t.mode = "Escape", NEW limit
    PROVE  ReadByte(t, "]", limit) = At(t, "Osc", t.osc)
BY ExceptMode DEF ReadByte

\* A byte of a control.
LEMMA StepOsc ==
    ASSUME NEW t \in Terminals, t.mode = "Osc", NEW limit, NEW b \in Byte,
           b \notin {"BEL", "ST", "CAN"}
    PROVE  ReadByte(t, b, limit) =
              IF b = "ESC" THEN At(t, "OscEscape", t.osc) ELSE At(t, "Osc", Append(t.osc, b))
<1> DEFINE o == Append(t.osc, b)
<1>1. ReadByte(t, b, limit) = ReadOsc(t, b, limit)
  BY DEF ReadByte
<1>2. ReadOsc(t, b, limit) =
        IF b = "ESC" THEN [t EXCEPT !.mode = "OscEscape"]
        ELSE [t EXCEPT !.mode = "Osc", !.osc = o]
  BY DEF ReadOsc, Continues, Terminators, Terminals
<1> HIDE DEF o
<1>3. /\ [t EXCEPT !.mode = "OscEscape"] = At(t, "OscEscape", t.osc)
      /\ [t EXCEPT !.mode = "Osc"] = At(t, "Osc", t.osc)
  BY ExceptMode
<1>4. [t EXCEPT !.mode = "Osc", !.osc = o] = [At(t, "Osc", t.osc) EXCEPT !.osc = o]
  BY <1>3
<1>5. [At(t, "Osc", t.osc) EXCEPT !.osc = o] = At(t, "Osc", o)
  BY DEF At
<1>6. QED  BY <1>1, <1>2, <1>3, <1>4, <1>5 DEF o

LEMMA StepOscEscape ==
    ASSUME NEW t \in Terminals, t.mode = "OscEscape", NEW limit, NEW b \in Byte,
           b \notin {"BEL", "ST", "CAN", "ESC", "bs"}
    PROVE  ReadByte(t, b, limit) = At(t, "Osc", t.osc \o <<"ESC", b>>)
<1> DEFINE o == t.osc \o <<"ESC", b>>
<1>1. ReadByte(t, b, limit) = ReadOsc(t, b, limit)
  BY DEF ReadByte
<1>2. ReadOsc(t, b, limit) = [t EXCEPT !.mode = "Osc", !.osc = o]
  BY DEF ReadOsc, Continues, Terminators, Terminals
<1> HIDE DEF o
<1>3. [t EXCEPT !.mode = "Osc"] = At(t, "Osc", t.osc)
  BY ExceptMode
<1>4. [t EXCEPT !.mode = "Osc", !.osc = o] = [At(t, "Osc", t.osc) EXCEPT !.osc = o]
  BY <1>3
<1>5. [At(t, "Osc", t.osc) EXCEPT !.osc = o] = At(t, "Osc", o)
  BY DEF At
<1>6. QED  BY <1>1, <1>2, <1>3, <1>4, <1>5 DEF o

LEMMA StepEscapeAgain ==
    ASSUME NEW t \in Terminals, t.mode = "OscEscape", NEW limit
    PROVE  ReadByte(t, "ESC", limit) = At(t, "OscEscape", t.osc)
<1>1. ReadByte(t, "ESC", limit) = ReadOsc(t, "ESC", limit)
  BY DEF ReadByte
<1>2. ReadOsc(t, "ESC", limit) = [t EXCEPT !.mode = "OscEscape"]
  BY DEF ReadOsc, Continues, Terminators
<1>3. QED  BY Zenon, <1>1, <1>2, ExceptMode

(***************************************************************************)
(* Bytes that do not end the control they are in.                           *)
(***************************************************************************)
\* No terminator, no cancellation, and no escape but one that a byte follows which neither
\* ends the control nor is an escape.
Clean(bytes) ==
    \A i \in 1..Len(bytes) :
       /\ bytes[i] \notin {"BEL", "ST", "CAN"}
       /\ bytes[i] = "ESC" => i < Len(bytes) /\ bytes[i + 1] \notin {"ESC", "bs"}

LEMMA CleanEmpty == Clean(<<>>)
BY DEF Clean

LEMMA CleanAppend ==
    ASSUME NEW s \in Bytes, Clean(s), NEW b \in Byte, b \notin {"BEL", "ST", "CAN", "ESC"}
    PROVE  Append(s, b) \in Bytes /\ Clean(Append(s, b))
BY DEF Clean, Bytes

LEMMA CleanEscape ==
    ASSUME NEW s \in Bytes, Clean(s), NEW b \in Byte,
           b \notin {"BEL", "ST", "CAN", "ESC", "bs"}
    PROVE  LET e == Append(Append(s, "ESC"), b) IN e \in Bytes /\ Clean(e)
<1> DEFINE e == Append(Append(s, "ESC"), b)
<1>1. /\ e \in Bytes /\ Len(e) = Len(s) + 2 /\ Len(s) \in Nat
      /\ \A i \in 1..Len(s) : e[i] = s[i]
      /\ e[Len(s) + 1] = "ESC" /\ e[Len(s) + 2] = b
  <2> DEFINE d == Append(s, "ESC")
  <2>1. /\ d \in Bytes /\ Len(d) = Len(s) + 1 /\ Len(s) \in Nat
        /\ \A i \in 1..Len(s) : d[i] = s[i]
        /\ d[Len(s) + 1] = "ESC"
    BY Longer, Lengths, Symbols
  <2> HIDE DEF d
  <2>2. /\ Append(d, b) \in Bytes /\ Len(Append(d, b)) = Len(d) + 1
        /\ \A i \in 1..Len(d) : Append(d, b)[i] = d[i]
        /\ Append(d, b)[Len(d) + 1] = b
    BY <2>1, Longer
  <2>3. QED  BY <2>1, <2>2 DEF d
<1>2. \A i \in 1..Len(e) : i \in 1..Len(s) \/ i = Len(s) + 1 \/ i = Len(s) + 2
  BY <1>1
<1> HIDE DEF e
<1>3. ASSUME NEW i \in 1..Len(e)
      PROVE  /\ e[i] \notin {"BEL", "ST", "CAN"}
             /\ e[i] = "ESC" => i < Len(e) /\ e[i + 1] \notin {"ESC", "bs"}
  <2>1. CASE i \in 1..Len(s)
    <3>1. e[i] = s[i] /\ e[i] \notin {"BEL", "ST", "CAN"}
      BY <1>1, <2>1 DEF Clean
    <3>2. e[i] = "ESC" => i + 1 \in 1..Len(s) /\ s[i + 1] \notin {"ESC", "bs"}
      BY <1>1, <2>1 DEF Clean
    <3>3. QED  BY <1>1, <2>1, <3>1, <3>2
  <2>2. CASE i = Len(s) + 1
    <3>1. i + 1 = Len(s) + 2 /\ i < Len(e)
      BY <1>1, <2>2
    <3>2. QED  BY <1>1, <2>2, <3>1
  <2>3. CASE i = Len(s) + 2
    BY <1>1, <2>3
  <2>4. QED  BY <1>2, <2>1, <2>2, <2>3
<1>4. Clean(e)
  BY <1>3 DEF Clean
<1>5. QED  BY <1>1, <1>4 DEF e

LEMMA CleanBefore ==
    ASSUME NEW s \in Bytes, Clean(s), NEW c \in Byte, c \notin {"BEL", "ST", "CAN", "ESC"}
    PROVE  <<c>> \o s \in Bytes /\ Clean(<<c>> \o s) /\ <<c>> \o s # s
<1> DEFINE p == <<c>>
           e == p \o s
<1>1. /\ e \in Bytes /\ Len(e) = Len(s) + 1 /\ Len(s) \in Nat
      /\ e[1] = c /\ \A i \in 1..Len(s) : e[i + 1] = s[i]
  <2>1. p \in Bytes /\ Len(p) = 1 /\ p[1] = c
    BY DEF Bytes
  <2>2. \A i \in Nat : 1 + i = i + 1
    OBVIOUS
  <2>3. Len(s) \in Nat
    BY Lengths
  <2> HIDE DEF p
  <2>4. 1 \in 1..Len(p)
    BY <2>1
  <2>5. /\ e \in Bytes /\ Len(e) = Len(p) + Len(s)
        /\ \A i \in 1..Len(p) : e[i] = p[i]
        /\ \A i \in 1..Len(s) : e[Len(p) + i] = s[i]
    BY <2>1, Join
  <2> HIDE DEF e
  <2>6. QED  BY <2>1, <2>2, <2>3, <2>4, <2>5
<1> HIDE DEF e
<1>2. ASSUME NEW i \in 1..Len(e)
      PROVE  /\ e[i] \notin {"BEL", "ST", "CAN"}
             /\ e[i] = "ESC" => i < Len(e) /\ e[i + 1] \notin {"ESC", "bs"}
  <2>1. CASE i = 1
    BY <1>1, <2>1
  <2>2. CASE i # 1
    <3>1. PICK j \in 1..Len(s) : i = j + 1
      BY <1>1, <2>2
    <3>2. e[i] = s[j] /\ e[i] \notin {"BEL", "ST", "CAN"}
      BY <1>1, <3>1 DEF Clean
    <3>3. e[i] = "ESC" => j + 1 \in 1..Len(s) /\ s[j + 1] \notin {"ESC", "bs"}
      BY <1>1, <3>1, <3>2 DEF Clean
    <3>4. e[i] = "ESC" => e[i + 1] = s[j + 1]
      BY <1>1, <3>1, <3>3
    <3>5. QED  BY <1>1, <3>1, <3>2, <3>3, <3>4
  <2>3. QED  BY <2>1, <2>2
<1>3. Clean(e)
  BY <1>2 DEF Clean
<1>4. e # s
  BY <1>1
<1>5. QED  BY <1>1, <1>3, <1>4 DEF e

\* The control goes on with such bytes.
LEMMA BodyRead ==
    ASSUME NEW t \in Terminals, t.mode = "Osc", NEW body \in Bytes, Clean(body)
    PROVE  Reading(t, body) = At(t, "Osc", t.osc \o body)
<1> DEFINE first(n) == SubSeq(body, 1, n)
           open(n) == n # 0 /\ body[n] = "ESC"
           P(n) == Reading(t, first(n)) =
                      IF open(n) THEN At(t, "OscEscape", t.osc \o first(n - 1))
                                 ELSE At(t, "Osc", t.osc \o first(n))
           S == {n \in Nat : n <= Len(body) => P(n)}
<1>1. t.osc \in Bytes /\ Len(body) \in Nat
  BY DEF Terminals, Bytes
<1>2. 0 \in S
  <2>1. first(0) = <<>> /\ t.osc \o <<>> = t.osc
    BY <1>1 DEF Bytes
  <2>2. Reading(t, <<>>) = t
    BY ReadingNothing
  <2>3. At(t, "Osc", t.osc) = t
    BY AtItself
  <2>4. P(0)
    BY Zenon, <2>1, <2>2, <2>3
  <2>5. QED  BY <2>4
<1>3. ASSUME NEW n \in Nat, n \in S
      PROVE  n + 1 \in S
  <2> SUFFICES ASSUME n + 1 <= Len(body) PROVE P(n + 1)
    OBVIOUS
  <2> DEFINE b == body[n + 1]
  <2>1. /\ n \in 0..(Len(body) - 1) /\ n + 1 # 0 /\ (n + 1) - 1 = n /\ n + 1 \in 1..Len(body)
        /\ n <= Len(body)
    BY <1>1
  <2>2. first(n) \in Bytes /\ b \in Byte /\ first(n + 1) = Append(first(n), b)
    BY <2>1, FirstBytes
  <2>3. b \notin {"BEL", "ST", "CAN"}
    BY <2>1 DEF Clean
  <2>4. open(n) => b \notin {"ESC", "bs"}
    <3>1. n # 0 => n \in 1..Len(body)
      BY <2>1
    <3>2. QED  BY <3>1 DEF Clean
  <2>5. P(n)
    BY <1>3, <2>1
  <2>6. Reading(t, first(n + 1)) = Step(Reading(t, first(n)), b)
    <3> HIDE DEF first, b
    <3>1. QED  BY <2>2, ReadingOneMore
  <2>7. open(n) => n - 1 \in 0..(Len(body) - 1) /\ (n - 1) + 1 = n
    BY <2>1
  <2>8. CASE ~open(n)
    <3> DEFINE o == t.osc \o first(n)
               u == At(t, "Osc", o)
    <3>1. o \in Bytes
      BY <1>1, <2>2, Join
    <3> HIDE DEF o
    <3>2. u \in Terminals /\ u.mode = "Osc" /\ u.osc = o
      BY <3>1, AtType, ModesDiffer
    <3>3. Step(u, b) = IF b = "ESC" THEN At(u, "OscEscape", u.osc)
                                    ELSE At(u, "Osc", Append(u.osc, b))
      <4> HIDE DEF u
      <4>1. QED  BY <2>2, <2>3, <3>2, StepOsc DEF Step
    <3>4. /\ At(u, "OscEscape", o) = At(t, "OscEscape", o)
          /\ At(u, "Osc", Append(o, b)) = At(t, "Osc", Append(o, b))
      BY AtAgain
    <3>5. Append(o, b) = t.osc \o first(n + 1)
      <4>1. Append(t.osc \o first(n), b) = t.osc \o Append(first(n), b)
        BY <1>1, <2>2, JoinLonger
      <4>2. QED  BY Zenon, <2>2, <4>1 DEF o
    <3>6. Reading(t, first(n)) = u
      BY Zenon, <2>5, <2>8 DEF o
    <3> HIDE DEF u, P
    <3>7. CASE b = "ESC"
      BY Zenon, <2>1, <2>6, <3>2, <3>3, <3>4, <3>6, <3>7 DEF P, o
    <3>8. CASE b # "ESC"
      BY Zenon, <2>6, <3>2, <3>3, <3>4, <3>5, <3>6, <3>8 DEF P, o
    <3>9. QED  BY <3>7, <3>8
  <2>9. CASE open(n)
    <3> DEFINE o == t.osc \o first(n - 1)
               u == At(t, "OscEscape", o)
    <3>1. first(n - 1) \in Bytes /\ first(n) = Append(first(n - 1), "ESC")
      BY <2>7, <2>9, FirstBytes
    <3>2. o \in Bytes
      BY <1>1, <3>1 DEF Bytes
    <3> HIDE DEF o
    <3>3. u \in Terminals /\ u.mode = "OscEscape" /\ u.osc = o
      BY <3>2, AtType, ModesDiffer
    <3>4. Step(u, b) = At(u, "Osc", u.osc \o <<"ESC", b>>)
      <4> HIDE DEF u
      <4>1. QED  BY <2>2, <2>3, <2>4, <2>9, <3>3, StepOscEscape DEF Step
    <3>5. At(u, "Osc", o \o <<"ESC", b>>) = At(t, "Osc", o \o <<"ESC", b>>)
      BY AtAgain
    <3>6. o \o <<"ESC", b>> = t.osc \o first(n + 1)
      <4> DEFINE f == first(n - 1)
      <4>1. f \in Bytes /\ first(n) = Append(f, "ESC") /\ o = t.osc \o f
        BY <3>1 DEF o
      <4> HIDE DEF f
      <4>2. o \o <<"ESC", b>> = Append(Append(o, "ESC"), b)
        BY <2>2, <3>2, JoinEscape, Symbols
      <4>3. Append(o, "ESC") = t.osc \o Append(f, "ESC") /\ Append(f, "ESC") \in Bytes
        <5>1. f \in Bytes /\ t.osc \in Bytes
          BY Zenon, <1>1, <4>1
        <5>2. Append(t.osc \o f, "ESC") = t.osc \o Append(f, "ESC")
          <6>1. "ESC" \in Byte
            BY Symbols
          <6>2. QED  BY Zenon, <5>1, <6>1, JoinLonger
        <5>3. Append(f, "ESC") \in Bytes
          BY <5>1, Longer, Symbols
        <5>4. QED  BY Zenon, <4>1, <5>2, <5>3
      <4>4. Append(t.osc \o Append(f, "ESC"), b) = t.osc \o Append(Append(f, "ESC"), b)
        BY <1>1, <2>2, <4>3, JoinLonger
      <4>5. QED  BY Zenon, <2>2, <4>1, <4>2, <4>3, <4>4
    <3>7. Reading(t, first(n)) = u
      BY Zenon, <2>5, <2>9 DEF o
    <3>8. b # "ESC"
      BY <2>4, <2>9
    <3> HIDE DEF u, P
    <3>9. QED
      BY Zenon, <2>6, <3>3, <3>4, <3>5, <3>6, <3>7, <3>8 DEF P
  <2>10. QED  BY <2>8, <2>9
<1>4. ~open(Len(body))
  BY <1>1 DEF Clean
<1> HIDE DEF S
<1>5. Nat \subseteq S
  BY Zenon, <1>2, <1>3, Induction
<1>6. P(Len(body))
  BY <1>1, <1>5 DEF S
<1>7. first(Len(body)) = body
  BY FirstBytes
<1>8. QED  BY Zenon, <1>4, <1>6, <1>7

(***************************************************************************)
(* The command of a control and its title.                                  *)
(***************************************************************************)
TitleFields == {<<>>, <<"0">>, <<"1">>, <<"2">>}
CommandOf(osc) == SubSeq(osc, 1, Separator(osc) - 1)
TitleOf(osc) == SubSeq(osc, Separator(osc) + 1, Len(osc))
HasSeparator(osc) == \E i \in 1..Len(osc) : osc[i] = "semi"

LEMMA SeparatorAt ==
    ASSUME NEW osc \in Bytes, NEW k \in 1..Len(osc), osc[k] = "semi",
           \A j \in 1..(k - 1) : osc[j] # "semi"
    PROVE  Separator(osc) = k /\ HasSeparator(osc)
<1> DEFINE Q(i) == osc[i] = "semi" /\ \A j \in 1..(i - 1) : osc[j] # "semi"
           i == CHOOSE i \in 1..Len(osc) : Q(i)
<1>1. HasSeparator(osc)
  BY DEF HasSeparator
<1>2. Separator(osc) = i
  BY <1>1 DEF Separator, HasSeparator
<1>3. i \in 1..Len(osc) /\ Q(i)
  BY Zenon
<1>4. i = k
  <2> HIDE DEF i
  <2>1. ~(i < k)
    BY <1>3
  <2>2. ~(k < i)
    BY <1>3
  <2>3. QED  BY <1>3, <2>1, <2>2
<1>5. QED  BY <1>1, <1>2, <1>4

LEMMA SeparatorFirst ==
    ASSUME NEW osc \in Bytes, HasSeparator(osc)
    PROVE  /\ Separator(osc) \in 1..Len(osc)
           /\ osc[Separator(osc)] = "semi"
           /\ \A j \in 1..(Separator(osc) - 1) : osc[j] # "semi"
<1> DEFINE T == {i \in Nat : i \in 1..Len(osc) /\ osc[i] = "semi"}
<1>1. T # {} /\ T \subseteq Nat
  BY DEF HasSeparator
<1>2. PICK k \in T : \A j \in T : ~(<<j, k>> \in OpToRel(<, Nat))
  BY <1>1, WFMin, NatLessThanWellFounded
<1>3. \A j \in T : ~(j < k)
  BY <1>2 DEF OpToRel
<1>4. k \in 1..Len(osc) /\ osc[k] = "semi"
  BY <1>2
<1>5. ASSUME NEW j \in 1..(k - 1) PROVE osc[j] # "semi"
  BY <1>3, <1>4
<1>6. Separator(osc) = k
  BY <1>4, <1>5, SeparatorAt
<1>7. QED  BY <1>4, <1>5, <1>6

LEMMA NoSeparator ==
    ASSUME NEW osc \in Bytes, ~HasSeparator(osc)
    PROVE  /\ Separator(osc) = Len(osc) + 1 /\ ~(Separator(osc) <= Len(osc))
           /\ Separator(osc) > Len(osc)
           /\ CommandOf(osc) = osc
<1>1. Separator(osc) = Len(osc) + 1
  BY DEF Separator, HasSeparator
<1>2. Len(osc) \in Nat /\ SubSeq(osc, 1, Len(osc)) = osc
  BY FirstBytes, Lengths
<1>3. (Len(osc) + 1) - 1 = Len(osc) /\ ~(Len(osc) + 1 <= Len(osc)) /\ Len(osc) + 1 > Len(osc)
  BY <1>2
<1>4. QED  BY Zenon, <1>1, <1>2, <1>3 DEF CommandOf

\* A part of a sequence, when more follows.
LEMMA PartKept ==
    ASSUME NEW s \in Bytes, NEW b \in Byte, NEW n \in 0..Len(s)
    PROVE  SubSeq(Append(s, b), 1, n) = SubSeq(s, 1, n)
<1>1. /\ Append(s, b) \in Bytes /\ Len(s) \in Nat /\ Len(Append(s, b)) = Len(s) + 1
      /\ \A i \in 1..Len(s) : Append(s, b)[i] = s[i]
  BY Longer, Lengths
<1> DEFINE a == Append(s, b)
<1> HIDE DEF a
<1>2. a \in Bytes /\ Len(a) = Len(s) + 1 /\ \A i \in 1..n : a[i] = s[i] /\ s[i] \in Byte
  <2>1. \A i \in 1..n : i \in 1..Len(s)
    BY <1>1
  <2>2. QED  BY <1>1, <2>1 DEF a, Bytes
<1>3. /\ SubSeq(a, 1, n) \in Bytes /\ Len(SubSeq(a, 1, n)) = n
      /\ \A i \in 1..n : SubSeq(a, 1, n)[i] = a[i]
  BY <1>1, <1>2, SubSeqProperties DEF Bytes
<1>4. /\ SubSeq(s, 1, n) \in Bytes /\ Len(SubSeq(s, 1, n)) = n
      /\ \A i \in 1..n : SubSeq(s, 1, n)[i] = s[i]
  BY <1>1, <1>2, SubSeqProperties DEF Bytes
<1> DEFINE x == SubSeq(a, 1, n)
           y == SubSeq(s, 1, n)
<1>5. /\ x \in Seq(Byte) /\ y \in Seq(Byte) /\ Len(x) = Len(y)
      /\ \A i \in 1..Len(x) : x[i] = y[i]
  BY <1>2, <1>3, <1>4 DEF Bytes
<1> HIDE DEF x, y
<1>6. x = y
  BY <1>5, SeqEqual
<1>7. QED  BY <1>6 DEF x, y, a

\* A control with a separator keeps its command, and its title grows.
LEMMA CommandKept ==
    ASSUME NEW osc \in Bytes, HasSeparator(osc), NEW b \in Byte
    PROVE  /\ HasSeparator(Append(osc, b)) /\ CommandOf(Append(osc, b)) = CommandOf(osc)
           /\ Separator(Append(osc, b)) = Separator(osc)
<1> DEFINE k == Separator(osc)
           a == Append(osc, b)
<1>1. k \in 1..Len(osc) /\ osc[k] = "semi" /\ \A j \in 1..(k - 1) : osc[j] # "semi"
  BY SeparatorFirst
<1>2. /\ a \in Bytes /\ Len(a) = Len(osc) + 1 /\ Len(osc) \in Nat
      /\ \A i \in 1..Len(osc) : a[i] = osc[i]
  BY Longer, Lengths
<1> HIDE DEF k, a
<1>3. k \in 1..Len(a) /\ a[k] = "semi" /\ k - 1 \in 0..Len(osc)
  BY <1>1, <1>2
<1>4. ASSUME NEW j \in 1..(k - 1) PROVE a[j] # "semi"
  BY <1>1, <1>2
<1>5. Separator(a) = k /\ HasSeparator(a)
  BY <1>2, <1>3, <1>4, SeparatorAt
<1>6. SubSeq(a, 1, k - 1) = SubSeq(osc, 1, k - 1)
  BY <1>3, PartKept DEF a
<1>7. QED  BY Zenon, <1>5, <1>6 DEF CommandOf, k, a

\* A control that is no title's does not become one.
LEMMA NoTitleKept ==
    ASSUME NEW osc \in Bytes, CommandOf(osc) \notin TitleFields, NEW b \in Byte
    PROVE  CommandOf(Append(osc, b)) \notin TitleFields
<1> DEFINE a == Append(osc, b)
<1>1. CASE HasSeparator(osc)
  BY Zenon, <1>1, CommandKept
<1>2. CASE ~HasSeparator(osc)
  <2>1. CommandOf(osc) = osc
    BY <1>2, NoSeparator
  <2>2. /\ a \in Bytes /\ Len(a) = Len(osc) + 1 /\ Len(osc) \in Nat
        /\ \A i \in 1..Len(osc) : a[i] = osc[i]
        /\ a[Len(osc) + 1] = b
    BY Longer, Lengths
  <2>3. osc # <<>> /\ Len(osc) # 0
    BY <2>1 DEF TitleFields, Bytes
  <2>4. CASE b = "semi"
    <3> DEFINE k == Len(osc) + 1
    <3>1. /\ k \in 1..Len(a) /\ a[k] = "semi" /\ Len(osc) \in 0..Len(osc)
          /\ k - 1 = Len(osc)
      BY <2>2, <2>4
    <3>2. ASSUME NEW j \in 1..(k - 1) PROVE a[j] # "semi"
      BY <1>2, <2>2 DEF HasSeparator
    <3> HIDE DEF k, a
    <3>3. Separator(a) = k
      BY <2>2, <3>1, <3>2, SeparatorAt
    <3>4. SubSeq(a, 1, Len(osc)) = SubSeq(osc, 1, Len(osc)) /\ SubSeq(osc, 1, Len(osc)) = osc
      BY <3>1, PartKept, FirstBytes DEF a
    <3>5. CommandOf(a) = osc
      BY Zenon, <3>1, <3>3, <3>4 DEF CommandOf
    <3>6. QED  BY Zenon, <2>1, <3>5 DEF a
  <2>5. CASE b # "semi"
    <3>1. ASSUME NEW j \in 1..Len(a) PROVE a[j] # "semi"
      <4>1. j \in 1..Len(osc) \/ j = Len(osc) + 1
        BY <2>2
      <4>2. QED  BY <1>2, <2>2, <2>5, <4>1 DEF HasSeparator
    <3>2. Len(a) >= 2
      BY <2>2, <2>3
    <3> HIDE DEF a
    <3>3. ~HasSeparator(a)
      BY <3>1 DEF HasSeparator
    <3>4. CommandOf(a) = a
      BY <2>2, <3>3, NoSeparator
    <3>5. Len(<<>>) = 0 /\ Len(<<"0">>) = 1 /\ Len(<<"1">>) = 1 /\ Len(<<"2">>) = 1
      OBVIOUS
    <3>6. a \notin TitleFields
      <4>1. a \in TitleFields => Len(a) = 0 \/ Len(a) = 1
        BY Zenon, <3>5 DEF TitleFields
      <4>2. ~(Len(a) = 0 \/ Len(a) = 1)
        BY <2>2, <3>2
      <4>3. QED  BY Zenon, <4>1, <4>2
    <3>7. QED  BY Zenon, <3>4, <3>6 DEF a
  <2>6. QED  BY <2>4, <2>5
<1>3. QED  BY <1>1, <1>2

\* The command and the title of a title's control.
LEMMA TitleParts ==
    ASSUME NEW field \in TitleFields, NEW title \in Bytes
    PROVE  LET osc == (field \o <<"semi">>) \o title
           IN  /\ osc \in Bytes /\ HasSeparator(osc)
               /\ CommandOf(osc) = field /\ TitleOf(osc) = title
<1> DEFINE semi == <<"semi">>
           head == field \o semi
           osc == head \o title
           k == Len(field) + 1
<1>1. /\ field \in Bytes /\ semi \in Bytes /\ Len(semi) = 1 /\ semi[1] = "semi"
      /\ \A i \in 1..Len(field) : field[i] # "semi"
  <2>1. semi \in Bytes /\ Len(semi) = 1 /\ semi[1] = "semi"
    BY Symbols DEF Bytes
  <2>2. ASSUME NEW d \in {"0", "1", "2"}, field = <<d>>
        PROVE  field \in Bytes /\ \A i \in 1..Len(field) : field[i] # "semi"
    <3>1. d \in Byte
      BY Symbols
    <3>2. QED  BY <2>2, <3>1 DEF Bytes
  <2>3. ASSUME field = <<>>
        PROVE  field \in Bytes /\ \A i \in 1..Len(field) : field[i] # "semi"
    <3>1. <<>> \in Bytes /\ Len(<<>>) = 0
      BY Unjoined
    <3>2. Len(field) = 0 /\ field \in Bytes
      BY <2>3, <3>1
    <3>3. QED  BY <3>2
  <2>4. field = <<>> \/ \E d \in {"0", "1", "2"} : field = <<d>>
    BY DEF TitleFields
  <2>5. QED  BY <2>1, <2>2, <2>3, <2>4
<1>2. Len(field) \in Nat /\ Len(title) \in Nat
  BY <1>1, Lengths
<1> HIDE DEF semi
<1>3. /\ head \in Bytes /\ Len(head) = k /\ head[k] = "semi"
      /\ \A i \in 1..Len(field) : head[i] = field[i]
  <2>1. /\ head \in Bytes /\ Len(head) = Len(field) + Len(semi)
        /\ \A i \in 1..Len(field) : head[i] = field[i]
        /\ \A i \in 1..Len(semi) : head[Len(field) + i] = semi[i]
    BY <1>1, Join
  <2>2. 1 \in 1..Len(semi)
    BY <1>1
  <2> HIDE DEF head
  <2>3. QED  BY <1>1, <2>1, <2>2
<1> HIDE DEF head
<1>4. /\ osc \in Bytes /\ Len(osc) = k + Len(title)
      /\ \A i \in 1..k : osc[i] = head[i]
      /\ \A i \in 1..Len(title) : osc[k + i] = title[i]
  <2>1. head \in Bytes /\ Len(head) = k
    BY <1>3
  <2> HIDE DEF k
  <2>2. /\ osc \in Bytes /\ Len(osc) = Len(head) + Len(title)
        /\ \A i \in 1..Len(head) : osc[i] = head[i]
        /\ \A i \in 1..Len(title) : osc[Len(head) + i] = title[i]
    BY <2>1, Join
  <2> HIDE DEF osc
  <2>3. QED  BY <2>1, <2>2
<1> HIDE DEF osc
<1>5. k \in 1..Len(osc) /\ k \in 1..k /\ k - 1 = Len(field) /\ k \in Nat
      /\ \A j \in 1..(k - 1) : j \in 1..k /\ j \in 1..Len(field)
  BY <1>2, <1>4
<1>6. osc[k] = "semi"
  BY <1>3, <1>4, <1>5
<1>7. \A j \in 1..(k - 1) : osc[j] = field[j] /\ osc[j] # "semi"
  BY <1>1, <1>3, <1>4, <1>5
<1> HIDE DEF k
<1>8. Separator(osc) = k /\ HasSeparator(osc)
  BY <1>4, <1>5, <1>6, <1>7, SeparatorAt
<1>9. SubSeq(osc, 1, k - 1) = field
  <2> DEFINE x == SubSeq(osc, 1, k - 1)
  <2>1. \A i \in 1..(k - 1) : osc[i] \in Byte
    BY <1>4, <1>5 DEF Bytes
  <2>2. x \in Seq(Byte) /\ Len(x) = k - 1 /\ \A i \in 1..(k - 1) : x[i] = osc[i]
    BY <1>2, <1>5, <2>1, SubSeqProperties
  <2> HIDE DEF x
  <2>3. field \in Seq(Byte) /\ Len(x) = Len(field) /\ \A i \in 1..Len(x) : x[i] = field[i]
    BY <1>1, <1>5, <1>7, <2>2 DEF Bytes
  <2>4. x = field
    BY <2>2, <2>3, SeqEqual
  <2>5. QED  BY <2>4 DEF x
<1>10. SubSeq(osc, k + 1, Len(osc)) = title
  <2> DEFINE x == SubSeq(osc, k + 1, Len(osc))
             n == Len(osc)
  <2>1. n \in Nat /\ n = k + Len(title) /\ \A i \in (k + 1)..n : osc[i] \in Byte
    BY <1>2, <1>4, <1>5 DEF Bytes
  <2> HIDE DEF n
  <2>2. /\ SubSeq(osc, k + 1, n) \in Seq(Byte)
        /\ Len(SubSeq(osc, k + 1, n)) = IF k + 1 <= n THEN n - (k + 1) + 1 ELSE 0
        /\ \A i \in 1..(n - (k + 1) + 1) : SubSeq(osc, k + 1, n)[i] = osc[(k + 1) + i - 1]
    <3>1. k + 1 \in Int /\ n \in Int
      BY <1>5, <2>1
    <3> DEFINE m == k + 1
    <3>2. m \in Int /\ \A i \in m..n : osc[i] \in Byte
      BY <2>1, <3>1
    <3> HIDE DEF m
    <3>3. /\ SubSeq(osc, m, n) \in Seq(Byte)
          /\ Len(SubSeq(osc, m, n)) = IF m <= n THEN n - m + 1 ELSE 0
          /\ \A i \in 1..(n - m + 1) : SubSeq(osc, m, n)[i] = osc[m + i - 1]
      BY <3>1, <3>2, SubSeqProperties
    <3>4. QED  BY <3>3 DEF m
  <2>3. x \in Seq(Byte) /\ Len(x) = Len(title)
    BY <1>2, <1>5, <2>1, <2>2 DEF n
  <2>4. \A i \in 1..Len(title) : x[i] = osc[k + i]
    <3>1. \A i \in 1..Len(title) : i \in 1..(n - (k + 1) + 1) /\ (k + 1) + i - 1 = k + i
      BY <1>2, <1>5, <2>1
    <3>2. QED  BY <2>2, <3>1 DEF n
  <2> HIDE DEF x
  <2>5. title \in Seq(Byte) /\ \A i \in 1..Len(x) : x[i] = title[i]
    BY <1>4, <2>3, <2>4 DEF Bytes
  <2>6. x = title
    BY <2>3, <2>5, SeqEqual
  <2>7. QED  BY <2>6 DEF x
<1>11. QED
  BY Zenon, <1>4, <1>8, <1>9, <1>10 DEF CommandOf, TitleOf, osc, head, semi

(***************************************************************************)
(* The end of a control.                                                    *)
(***************************************************************************)
\* The terminal when a control has ended.
LEMMA Done ==
    ASSUME NEW t \in Terminals
    PROVE  [t EXCEPT !.mode = "Ground", !.osc = <<>>] = At(t, "Ground", <<>>)
<1> DEFINE o == <<>>
<1> HIDE DEF o
<1>1. [t EXCEPT !.mode = "Ground"] = At(t, "Ground", t.osc)
  BY ExceptMode
<1>2. [t EXCEPT !.mode = "Ground", !.osc = o] = [At(t, "Ground", t.osc) EXCEPT !.osc = o]
  BY <1>1
<1>3. [At(t, "Ground", t.osc) EXCEPT !.osc = o] = At(t, "Ground", o)
  BY DEF At
<1>4. QED  BY Zenon, <1>2, <1>3 DEF o

LEMMA CanceledControl ==
    ASSUME NEW t \in Terminals, t.mode \in {"Osc", "OscEscape"}, NEW limit
    PROVE  ReadByte(t, "CAN", limit) = At(t, "Ground", <<>>)
<1>1. ReadByte(t, "CAN", limit) = ReadOsc(t, "CAN", limit)
  BY DEF ReadByte
<1>2. ReadOsc(t, "CAN", limit) = [t EXCEPT !.mode = "Ground", !.osc = <<>>]
  BY DEF ReadOsc, Continues, Terminators
<1>3. QED  BY Zenon, <1>1, <1>2, Done

LEMMA EndedControl ==
    ASSUME NEW t \in Terminals, t.mode \in {"Osc", "OscEscape"}, NEW limit, NEW b,
           b \in Terminators \/ (t.mode = "OscEscape" /\ b = "bs"), ~Continues(t, b)
    PROVE  ReadByte(t, b, limit) = Perform(t, limit)
BY DEF ReadByte, ReadOsc, Terminators

\* The byte belongs to a character of the control.
LEMMA ContinuedControl ==
    ASSUME NEW t \in Terminals, NEW limit, NEW b, Continues(t, b)
    PROVE  t.mode = "Osc" /\ b = "ST" /\ ReadByte(t, b, limit) = At(t, "Osc", Append(t.osc, b))
<1> DEFINE o == Append(t.osc, b)
<1>1. t.mode = "Osc" /\ b = "ST"
  BY DEF Continues
<1>2. ReadByte(t, b, limit) = [t EXCEPT !.osc = o]
  BY <1>1 DEF ReadByte, ReadOsc
<1> HIDE DEF o
<1>3. [t EXCEPT !.osc = o] = At(t, "Osc", o)
  BY <1>1 DEF At, Terminals
<1>4. QED  BY Zenon, <1>1, <1>2, <1>3 DEF o

\* What the terminal has performed.
Performed(t, others, titled, icon, window) ==
    [mode |-> "Ground", osc |-> <<>>, text |-> t.text, others |-> others,
     titled |-> titled, icon |-> icon, window |-> window]

LEMMA PerformOther ==
    ASSUME NEW t \in Terminals, NEW limit,
           ~HasSeparator(t.osc) \/ CommandOf(t.osc) \notin TitleFields
    PROVE  Perform(t, limit) =
              Performed(t, Append(t.others, t.osc), t.titled, t.icon, t.window)
<1> DEFINE done == [t EXCEPT !.mode = "Ground", !.osc = <<>>]
           more == Append(t.others, t.osc)
<1>1. t.osc \in Bytes
  BY DEF Terminals
<1>2. Separator(t.osc) > Len(t.osc) \/ CommandOf(t.osc) \notin TitleFields
  BY <1>1, NoSeparator
<1>3. done = At(t, "Ground", <<>>)
  BY Zenon, Done
<1>4. done.others = t.others
  BY <1>3 DEF At
<1> HIDE DEF done
<1>5. Perform(t, limit) = [done EXCEPT !.others = Append(done.others, t.osc)]
  BY <1>2 DEF Perform, done, CommandOf, TitleFields
<1>6. Perform(t, limit) = [At(t, "Ground", <<>>) EXCEPT !.others = more]
  BY Zenon, <1>3, <1>4, <1>5
<1> HIDE DEF more
<1>7. [At(t, "Ground", <<>>) EXCEPT !.others = more] =
         Performed(t, more, t.titled, t.icon, t.window)
  BY DEF At, Performed
<1>8. QED  BY Zenon, <1>6, <1>7 DEF more

\* A title is set, unless the limit forbids it.
LEMMA PerformTitle ==
    ASSUME NEW t \in Terminals, NEW limit \in Int, HasSeparator(t.osc),
           NEW field \in TitleFields, CommandOf(t.osc) = field,
           NEW title, TitleOf(t.osc) = title, Len(title) \in Nat
    PROVE  /\ (limit = NoLimit \/ Len(title) <= limit) =>
                 Perform(t, limit) =
                    Performed(t, t.others, TRUE, IF field = <<"2">> THEN t.icon ELSE title,
                                                 IF field = <<"1">> THEN t.window ELSE title)
           /\ (limit # NoLimit /\ Len(title) > limit) => Perform(t, limit) = At(t, "Ground", <<>>)
<1> DEFINE done == [t EXCEPT !.mode = "Ground", !.osc = <<>>]
           icon == IF field = <<"2">> THEN t.icon ELSE title
           window == IF field = <<"1">> THEN t.window ELSE title
<1>1. t.osc \in Bytes
  BY DEF Terminals
<1>2. ~(Separator(t.osc) > Len(t.osc))
  BY <1>1, SeparatorFirst, Lengths
<1>3. done = At(t, "Ground", <<>>)
  BY Zenon, Done
<1>4. done.icon = t.icon /\ done.window = t.window
  BY <1>3 DEF At
<1> HIDE DEF done
<1>5. Perform(t, limit) =
        IF limit # NoLimit /\ Len(title) > limit THEN done
        ELSE [done EXCEPT !.titled = TRUE,
                          !.icon = IF field = <<"2">> THEN done.icon ELSE title,
                          !.window = IF field = <<"1">> THEN done.window ELSE title]
  <2> DEFINE c == SubSeq(t.osc, 1, Separator(t.osc) - 1)
             w == SubSeq(t.osc, Separator(t.osc) + 1, Len(t.osc))
  <2>1. c = field /\ w = title
    BY DEF CommandOf, TitleOf
  <2>2. Perform(t, limit) =
          IF Separator(t.osc) > Len(t.osc) \/ c \notin {<<>>, <<"0">>, <<"1">>, <<"2">>}
          THEN [done EXCEPT !.others = Append(@, t.osc)]
          ELSE IF limit # NoLimit /\ Len(w) > limit THEN done
          ELSE [done EXCEPT !.titled = TRUE,
                            !.icon = IF c = <<"2">> THEN @ ELSE w,
                            !.window = IF c = <<"1">> THEN @ ELSE w]
    BY Zenon DEF Perform, done
  <2> HIDE DEF c, w
  <2>3. c \in {<<>>, <<"0">>, <<"1">>, <<"2">>}
    BY <2>1 DEF TitleFields
  <2>4. Perform(t, limit) =
          IF limit # NoLimit /\ Len(w) > limit THEN done
          ELSE [done EXCEPT !.titled = TRUE,
                            !.icon = IF c = <<"2">> THEN @ ELSE w,
                            !.window = IF c = <<"1">> THEN @ ELSE w]
    BY Zenon, <1>2, <2>2, <2>3
  <2>5. QED  BY Zenon, <2>1, <2>4
<1>6. Perform(t, limit) =
        IF limit # NoLimit /\ Len(title) > limit THEN At(t, "Ground", <<>>)
        ELSE [At(t, "Ground", <<>>) EXCEPT !.titled = TRUE, !.icon = icon, !.window = window]
  BY Zenon, <1>3, <1>4, <1>5
<1> HIDE DEF icon, window
<1>7. [At(t, "Ground", <<>>) EXCEPT !.titled = TRUE, !.icon = icon, !.window = window] =
         Performed(t, t.others, TRUE, icon, window)
  <2>1. PICK yes : yes = TRUE
    OBVIOUS
  <2>2. [At(t, "Ground", <<>>) EXCEPT !.titled = yes, !.icon = icon, !.window = window] =
           Performed(t, t.others, yes, icon, window)
    <3> DEFINE q == [At(t, "Ground", <<>>) EXCEPT !.titled = yes]
               r == [q EXCEPT !.icon = icon]
    <3>1. q = Performed(t, t.others, yes, t.icon, t.window)
      BY DEF At, Performed
    <3> HIDE DEF q
    <3>2. r = [Performed(t, t.others, yes, t.icon, t.window) EXCEPT !.icon = icon]
      BY Zenon, <3>1
    <3>3. r = Performed(t, t.others, yes, icon, t.window)
      BY <3>2 DEF Performed
    <3> HIDE DEF r
    <3>4. [r EXCEPT !.window = window] =
             [Performed(t, t.others, yes, icon, t.window) EXCEPT !.window = window]
      BY Zenon, <3>3
    <3>5. [r EXCEPT !.window = window] = Performed(t, t.others, yes, icon, window)
      BY <3>4 DEF Performed
    <3>6. [At(t, "Ground", <<>>) EXCEPT !.titled = yes, !.icon = icon, !.window = window] =
             [r EXCEPT !.window = window]
      BY DEF r, q
    <3>7. QED  BY Zenon, <3>5, <3>6
  <2>3. QED  BY Zenon, <2>1, <2>2
<1>8. ~(limit # NoLimit /\ Len(title) > limit) <=> limit = NoLimit \/ Len(title) <= limit
  OBVIOUS
<1>9. QED  BY Zenon, <1>6, <1>7, <1>8 DEF icon, window

(***************************************************************************)
(* The reading of whole controls.                                           *)
(***************************************************************************)
Idle(t) == t.mode = "Ground" /\ t.osc = <<>>
HeaderStart == {<<"OSC">>, <<"ESC", "]">>}

LEMMA PerformedType ==
    ASSUME NEW t \in Terminals, NEW others \in Seq(Bytes), NEW titled \in BOOLEAN,
           NEW icon \in Bytes, NEW window \in Bytes
    PROVE  /\ Performed(t, others, titled, icon, window) \in Terminals
           /\ Idle(Performed(t, others, titled, icon, window))
           /\ Performed(t, others, titled, icon, window).text = t.text
           /\ Performed(t, others, titled, icon, window).others = others
           /\ Performed(t, others, titled, icon, window).titled = titled
           /\ Performed(t, others, titled, icon, window).icon = icon
           /\ Performed(t, others, titled, icon, window).window = window
<1>1. "Ground" \in Modes /\ <<>> \in Bytes
  BY ModesDiffer, Unjoined
<1>2. QED  BY <1>1 DEF Performed, Terminals, Idle

LEMMA PerformedTitled ==
    ASSUME NEW t \in Terminals, NEW others \in Seq(Bytes), NEW icon \in Bytes, NEW window \in Bytes
    PROVE  /\ Performed(t, others, TRUE, icon, window) \in Terminals
           /\ Idle(Performed(t, others, TRUE, icon, window))
           /\ Performed(t, others, TRUE, icon, window).text = t.text
           /\ Performed(t, others, TRUE, icon, window).others = others
           /\ Performed(t, others, TRUE, icon, window).titled = TRUE
           /\ Performed(t, others, TRUE, icon, window).icon = icon
           /\ Performed(t, others, TRUE, icon, window).window = window
<1>1. PICK yes \in BOOLEAN : yes = TRUE
  OBVIOUS
<1>2. /\ Performed(t, others, yes, icon, window) \in Terminals
      /\ Idle(Performed(t, others, yes, icon, window))
      /\ Performed(t, others, yes, icon, window).text = t.text
      /\ Performed(t, others, yes, icon, window).others = others
      /\ Performed(t, others, yes, icon, window).titled = yes
      /\ Performed(t, others, yes, icon, window).icon = icon
      /\ Performed(t, others, yes, icon, window).window = window
  BY PerformedType
<1>3. QED  BY Zenon, <1>1, <1>2

LEMMA PerformType ==
    ASSUME NEW t \in Terminals, NEW limit \in Int
    PROVE  Perform(t, limit) \in Terminals /\ Idle(Perform(t, limit))
<1>1. /\ t.osc \in Bytes /\ t.others \in Seq(Bytes) /\ t.titled \in BOOLEAN
      /\ t.icon \in Bytes /\ t.window \in Bytes
  BY DEF Terminals
<1>2. CASE ~HasSeparator(t.osc) \/ CommandOf(t.osc) \notin TitleFields
  <2> DEFINE others == Append(t.others, t.osc)
  <2>1. others \in Seq(Bytes)
    BY <1>1
  <2>2. Perform(t, limit) = Performed(t, others, t.titled, t.icon, t.window)
    BY Zenon, <1>2, PerformOther
  <2> HIDE DEF others
  <2>3. /\ Performed(t, others, t.titled, t.icon, t.window) \in Terminals
        /\ Idle(Performed(t, others, t.titled, t.icon, t.window))
    BY <1>1, <2>1, PerformedType
  <2>4. QED  BY Zenon, <2>2, <2>3
<1>3. CASE HasSeparator(t.osc) /\ CommandOf(t.osc) \in TitleFields
  <2> DEFINE field == CommandOf(t.osc)
             title == TitleOf(t.osc)
             icon == IF field = <<"2">> THEN t.icon ELSE title
             window == IF field = <<"1">> THEN t.window ELSE title
  <2>1. title \in Bytes
    <3> DEFINE k == Separator(t.osc) + 1
               n == Len(t.osc)
    <3>1. k \in Int /\ n \in Nat /\ \A i \in k..n : i \in 1..n
      BY <1>1, <1>3, SeparatorFirst, Lengths
    <3> HIDE DEF k
    <3>2. \A i \in k..n : t.osc[i] \in Byte
      BY <1>1, <3>1 DEF Bytes
    <3> HIDE DEF n
    <3>3. SubSeq(t.osc, k, n) \in Seq(Byte)
      BY <3>1, <3>2, SubSeqProperties
    <3>4. QED  BY Zenon, <3>3 DEF TitleOf, Bytes, k, n
  <2>2. Len(title) \in Nat
    BY <2>1, Lengths
  <2>3. icon \in Bytes /\ window \in Bytes
    BY Zenon, <1>1, <2>1
  <2>4. (limit = NoLimit \/ Len(title) <= limit) \/ (limit # NoLimit /\ Len(title) > limit)
    BY <2>2
  <2> HIDE DEF title, field
  <2>5. \/ Perform(t, limit) = Performed(t, t.others, TRUE, icon, window)
        \/ Perform(t, limit) = At(t, "Ground", <<>>)
    BY Zenon, <1>3, <2>2, <2>4, PerformTitle DEF title, field
  <2> HIDE DEF icon, window
  <2>6. ASSUME Perform(t, limit) = Performed(t, t.others, TRUE, icon, window)
        PROVE  Perform(t, limit) \in Terminals /\ Idle(Perform(t, limit))
    <3>1. /\ Performed(t, t.others, TRUE, icon, window) \in Terminals
          /\ Idle(Performed(t, t.others, TRUE, icon, window))
      BY <1>1, <2>3, PerformedType
    <3>2. QED  BY Zenon, <2>6, <3>1
  <2>7. ASSUME Perform(t, limit) = At(t, "Ground", <<>>)
        PROVE  Perform(t, limit) \in Terminals /\ Idle(Perform(t, limit))
    BY <2>7, AtType, ModesDiffer, Unjoined DEF Idle
  <2>8. QED  BY <2>5, <2>6, <2>7
<1>4. QED  BY <1>2, <1>3

LEMMA StartRead ==
    ASSUME NEW t \in Terminals, Idle(t), NEW start \in HeaderStart
    PROVE  start \in Bytes /\ Reading(t, start) = At(t, "Osc", <<>>)
<1>1. <<>> \in Bytes
  BY Unjoined
<1>2. Reading(t, <<>>) = t
  BY ReadingNothing
<1>3. CASE start = <<"OSC">>
  <2>1. <<"OSC">> = Append(<<>>, "OSC")
    OBVIOUS
  <2>2. Reading(t, Append(<<>>, "OSC")) = Step(Reading(t, <<>>), "OSC")
    BY <1>1, ReadingOneMore, Symbols
  <2>3. Step(t, "OSC") = At(t, "Osc", t.osc)
    BY StepGround DEF Idle, Step
  <2>4. <<"OSC">> \in Bytes
    BY Symbols, Longer, <1>1
  <2>5. QED  BY Zenon, <1>2, <1>3, <2>1, <2>2, <2>3, <2>4 DEF Idle
<1>4. CASE start = <<"ESC", "]">>
  <2> DEFINE e == Append(<<>>, "ESC")
             u == At(t, "Escape", <<>>)
  <2>1. <<"ESC", "]">> = Append(e, "]")
    OBVIOUS
  <2>2. e \in Bytes /\ Append(e, "]") \in Bytes
    BY <1>1, Symbols, Longer
  <2>3. Reading(t, e) = Step(Reading(t, <<>>), "ESC")
    BY <1>1, ReadingOneMore, Symbols
  <2> HIDE DEF e
  <2>4. Reading(t, Append(e, "]")) = Step(Reading(t, e), "]")
    BY <2>2, ReadingOneMore, Symbols
  <2>5. Step(t, "ESC") = u
    BY StepGround DEF Idle, Step
  <2>6. u \in Terminals /\ u.mode = "Escape" /\ u.osc = <<>>
    BY <1>1, AtType, ModesDiffer
  <2>7. At(u, "Osc", <<>>) = At(t, "Osc", <<>>)
    BY AtAgain
  <2> HIDE DEF u
  <2>8. Step(u, "]") = At(u, "Osc", u.osc)
    BY <2>6, StepEscape DEF Step
  <2>9. QED  BY Zenon, <1>2, <1>4, <2>1, <2>2, <2>3, <2>4, <2>5, <2>6, <2>7, <2>8
<1>5. QED  BY <1>3, <1>4 DEF HeaderStart

\* A control as far as it is read.
LEMMA HeaderRead ==
    ASSUME NEW t \in Terminals, Idle(t), NEW start \in HeaderStart, NEW o \in Bytes, Clean(o)
    PROVE  Reading(t, start \o o) = At(t, "Osc", o)
<1> DEFINE u == At(t, "Osc", <<>>)
<1>1. start \in Bytes /\ Reading(t, start) = u
  BY StartRead
<1>2. u \in Terminals /\ u.mode = "Osc" /\ u.osc = <<>>
  BY Unjoined, AtType, ModesDiffer
<1>3. At(u, "Osc", o) = At(t, "Osc", o)
  BY AtAgain
<1> HIDE DEF u
<1>4. Reading(t, start \o o) = Reading(u, o)
  BY <1>1, ReadingJoined
<1>5. Reading(u, o) = At(u, "Osc", u.osc \o o)
  BY <1>2, BodyRead
<1>6. u.osc \o o = o
  BY <1>2, Unjoined
<1>7. QED  BY Zenon, <1>3, <1>4, <1>5, <1>6

\* A title control sets the titles that its command names.
LEMMA TitleRead ==
    ASSUME NEW t \in Terminals, Idle(t), NEW d \in {"0", "1", "2"},
           NEW title \in Bytes, Clean(title)
    PROVE  Reading(t, (<<"ESC", "]", d, "semi">> \o title) \o <<"BEL">>) =
              Performed(t, t.others, TRUE, IF d = "2" THEN t.icon ELSE title,
                                           IF d = "1" THEN t.window ELSE title)
<1> DEFINE start == <<"ESC", "]">>
           field == <<d>>
           semi == <<"semi">>
           bel == <<"BEL">>
           o == (field \o semi) \o title
           u == At(t, "Osc", o)
<1>1. /\ start \in HeaderStart /\ field \in TitleFields /\ field \in Bytes /\ semi \in Bytes
      /\ start \in Bytes /\ title \in Bytes
  BY Symbols, Longer, Unjoined, StartRead DEF HeaderStart, TitleFields
<1>2. o \in Bytes /\ HasSeparator(o) /\ CommandOf(o) = field /\ TitleOf(o) = title
  BY <1>1, TitleParts
<1>3. o = field \o (semi \o title)
  BY <1>1, Joined
<1>4. Clean(o)
  <2>1. semi \o title \in Bytes /\ Clean(semi \o title)
    BY CleanBefore, Symbols
  <2> DEFINE s == semi \o title
  <2> HIDE DEF s, semi
  <2>2. Clean(field \o s)
    BY <2>1, CleanBefore, Symbols DEF s
  <2>3. QED  BY Zenon, <1>3, <2>2 DEF s
<1>5. <<"ESC", "]", d, "semi">> = start \o (field \o semi)
  OBVIOUS
<1> HIDE DEF start, semi, bel
<1>6. (start \o (field \o semi)) \o title = start \o o
  <2> DEFINE head == field \o semi
  <2>1. head \in Bytes
    BY <1>1, Join
  <2> HIDE DEF head
  <2>2. (start \o head) \o title = start \o (head \o title)
    BY <1>1, <2>1, Joined
  <2>3. QED  BY Zenon, <2>2 DEF head
<1>7. field = <<"2">> <=> d = "2"
  OBVIOUS
<1>8. field = <<"1">> <=> d = "1"
  OBVIOUS
<1> HIDE DEF o, field
<1>9. start \o o \in Bytes /\ (start \o o) \o bel = Append(start \o o, "BEL")
  BY <1>1, <1>2, Join, Longer, Symbols DEF bel
<1>10. Reading(t, start \o o) = u
  BY <1>1, <1>2, <1>4, HeaderRead
<1>11. Reading(t, Append(start \o o, "BEL")) = Step(Reading(t, start \o o), "BEL")
  BY <1>9, ReadingOneMore, Symbols
<1>12. /\ u \in Terminals /\ u.mode = "Osc" /\ u.osc = o /\ u.others = t.others
       /\ u.icon = t.icon /\ u.window = t.window /\ u.text = t.text
  BY <1>2, AtType, ModesDiffer
<1> HIDE DEF u
<1>13. Step(u, "BEL") = Perform(u, NoLimit)
  BY <1>12, EndedControl DEF Step, Terminators, Continues
<1>14. Len(title) \in Nat /\ NoLimit \in Int
  BY Lengths DEF NoLimit
<1>15. Perform(u, NoLimit) =
         Performed(u, u.others, TRUE, IF field = <<"2">> THEN u.icon ELSE title,
                                      IF field = <<"1">> THEN u.window ELSE title)
  BY Zenon, <1>1, <1>2, <1>12, <1>14, PerformTitle
<1>16. ASSUME NEW i, NEW w
       PROVE  Performed(u, u.others, TRUE, i, w) = Performed(t, t.others, TRUE, i, w)
  BY Zenon, <1>12 DEF Performed
<1>17. QED
  BY Zenon, <1>5, <1>6, <1>7, <1>8, <1>9, <1>10, <1>11, <1>12, <1>13, <1>15, <1>16 DEF bel

\* What the filter emits sets both titles and nothing else.
LEMMA TitlesRead ==
    ASSUME NEW t \in Terminals, Idle(t), NEW icon \in Bytes, Clean(icon),
           NEW window \in Bytes, Clean(window)
    PROVE  Reading(t, EncodeTitles(icon, window)) = Performed(t, t.others, TRUE, icon, window)
<1> DEFINE control(d, title) == (<<"ESC", "]", d, "semi">> \o title) \o <<"BEL">>
<1>1. CASE icon = window
  <2>1. EncodeTitles(icon, window) = control("0", window)
    BY Zenon, <1>1 DEF EncodeTitles
  <2>2. Reading(t, control("0", window)) = Performed(t, t.others, TRUE, window, window)
    BY TitleRead
  <2>3. QED  BY Zenon, <1>1, <2>1, <2>2
<1>2. CASE icon # window
  <2> DEFINE a == control("1", icon)
             h == <<"ESC", "]", "2", "semi">>
             bel == <<"BEL">>
             u == Performed(t, t.others, TRUE, icon, t.window)
  <2>1. EncodeTitles(icon, window) = ((a \o h) \o window) \o bel
    BY Zenon, <1>2 DEF EncodeTitles
  <2>2. h \in Bytes /\ bel \in Bytes /\ <<"ESC", "]", "1", "semi">> \in Bytes
    BY Symbols DEF Bytes
  <2>3. a \in Bytes /\ h \o window \in Bytes
    <3> DEFINE g == <<"ESC", "]", "1", "semi">>
    <3>1. g \in Bytes
      BY <2>2
    <3> HIDE DEF g, bel, h
    <3>2. g \o icon \in Bytes
      BY <3>1, Join
    <3>3. (g \o icon) \o bel \in Bytes /\ h \o window \in Bytes
      BY <2>2, <3>2, Join
    <3>4. QED  BY Zenon, <3>3 DEF g, bel
  <2>4. Reading(t, a) = u
    BY TitleRead
  <2>5. Reading(u, control("2", window)) = Performed(u, u.others, TRUE, u.icon, window)
    <3>1. t.others \in Seq(Bytes) /\ t.window \in Bytes
      BY DEF Terminals
    <3>2. u \in Terminals /\ Idle(u)
      BY <3>1, PerformedType
    <3> HIDE DEF u
    <3>3. QED  BY <3>2, TitleRead
  <2>6. Performed(u, u.others, TRUE, u.icon, window) = Performed(t, t.others, TRUE, icon, window)
    BY DEF Performed
  <2> HIDE DEF a, h, bel, u
  <2>7. (a \o h) \o window = a \o (h \o window)
    <3>1. a \in Bytes /\ h \in Bytes
      BY Zenon, <2>2, <2>3
    <3>2. QED  BY <3>1, Joined
  <2>8. (a \o (h \o window)) \o bel = a \o ((h \o window) \o bel)
    <3> DEFINE v == h \o window
    <3>1. v \in Bytes /\ a \in Bytes /\ bel \in Bytes
      BY Zenon, <2>2, <2>3
    <3> HIDE DEF v
    <3>2. (a \o v) \o bel = a \o (v \o bel)
      BY <3>1, Joined
    <3>3. QED  BY Zenon, <3>2 DEF v
  <2>9. (h \o window) \o bel \in Bytes
    BY <2>2, <2>3, Join
  <2>10. Reading(t, a \o ((h \o window) \o bel)) = Reading(Reading(t, a), (h \o window) \o bel)
    BY <2>3, <2>9, ReadingJoined
  <2>11. QED
    BY Zenon, <2>1, <2>4, <2>5, <2>6, <2>7, <2>8, <2>10 DEF h, bel
<1>3. QED  BY <1>1, <1>2

(***************************************************************************)
(* One byte, outside of controls and inside.                                *)
(***************************************************************************)
\* The terminal when it has printed.
Printed(t, mode, text) ==
    [mode |-> mode, osc |-> t.osc, text |-> text, others |-> t.others,
     titled |-> t.titled, icon |-> t.icon, window |-> t.window]

LEMMA PrintedType ==
    ASSUME NEW t \in Terminals, NEW m \in Modes, NEW text \in Bytes
    PROVE  /\ Printed(t, m, text) \in Terminals
           /\ Printed(t, m, text).mode = m /\ Printed(t, m, text).osc = t.osc
           /\ Printed(t, m, text).text = text /\ Printed(t, m, text).others = t.others
           /\ Printed(t, m, text).titled = t.titled
           /\ Printed(t, m, text).icon = t.icon /\ Printed(t, m, text).window = t.window
BY DEF Printed, Terminals

LEMMA ReadGround ==
    ASSUME NEW t \in Terminals, t.mode = "Ground", NEW b \in Byte, NEW limit
    PROVE  ReadByte(t, b, limit) =
              IF b = "ESC" THEN At(t, "Escape", t.osc)
              ELSE IF b = "OSC" THEN At(t, "Osc", t.osc)
              ELSE Printed(t, IF b = "lead" THEN "Lead" ELSE "Ground", Append(t.text, b))
<1> DEFINE text == Append(t.text, b)
<1>1. CASE b \in {"ESC", "OSC"}
  BY <1>1, StepGround
<1>2. CASE b = "lead"
  <2>1. ReadByte(t, b, limit) = [t EXCEPT !.mode = "Lead", !.text = text]
    BY <1>2 DEF ReadByte
  <2> HIDE DEF text
  <2>2. [t EXCEPT !.mode = "Lead"] = Printed(t, "Lead", t.text)
    BY DEF Printed, Terminals
  <2>3. [t EXCEPT !.mode = "Lead", !.text = text]
        = [Printed(t, "Lead", t.text) EXCEPT !.text = text]
    BY <2>2
  <2>4. [Printed(t, "Lead", t.text) EXCEPT !.text = text] = Printed(t, "Lead", text)
    BY DEF Printed
  <2>5. QED  BY <1>2, <2>1, <2>3, <2>4 DEF text
<1>3. CASE b \notin {"ESC", "OSC", "lead"}
  <2>1. ReadByte(t, b, limit) = [t EXCEPT !.text = text]
    BY <1>3 DEF ReadByte
  <2> HIDE DEF text
  <2>2. [t EXCEPT !.text = text] = Printed(t, "Ground", text)
    BY DEF Printed, Terminals
  <2>3. QED  BY <1>3, <2>1, <2>2 DEF text
<1>4. QED  BY <1>1, <1>2, <1>3

LEMMA ReadLead ==
    ASSUME NEW t \in Terminals, t.mode = "Lead", NEW b \in Byte, NEW limit
    PROVE  ReadByte(t, b, limit) =
              Printed(t, IF b = "lead" THEN "Lead" ELSE "Ground", Append(t.text, b))
<1> DEFINE text == Append(t.text, b)
           m == IF b = "lead" THEN "Lead" ELSE "Ground"
<1>1. ReadByte(t, b, limit) = [t EXCEPT !.mode = m, !.text = text]
  BY DEF ReadByte
<1> HIDE DEF text, m
<1>2. [t EXCEPT !.mode = m] = Printed(t, m, t.text)
  BY DEF Printed, Terminals
<1>3. [t EXCEPT !.mode = m, !.text = text] = [Printed(t, m, t.text) EXCEPT !.text = text]
  BY <1>2
<1>4. [Printed(t, m, t.text) EXCEPT !.text = text] = Printed(t, m, text)
  BY DEF Printed
<1>5. QED  BY <1>1, <1>3, <1>4 DEF text, m

LEMMA ReadEscape ==
    ASSUME NEW t \in Terminals, t.mode = "Escape", NEW b \in Byte, NEW limit
    PROVE  ReadByte(t, b, limit) =
              IF b = "]" THEN At(t, "Osc", t.osc)
              ELSE IF b = "ESC" THEN t
              ELSE Printed(t, "Ground", t.text \o <<"ESC", b>>)
<1> DEFINE text == t.text \o <<"ESC", b>>
<1>1. CASE b = "]"
  BY <1>1, StepEscape
<1>2. CASE b = "ESC"
  BY <1>2 DEF ReadByte
<1>3. CASE b \notin {"]", "ESC"}
  <2>1. ReadByte(t, b, limit) = [t EXCEPT !.mode = "Ground", !.text = text]
    BY <1>3 DEF ReadByte
  <2> HIDE DEF text
  <2>2. [t EXCEPT !.mode = "Ground"] = Printed(t, "Ground", t.text)
    BY DEF Printed, Terminals
  <2>3. [t EXCEPT !.mode = "Ground", !.text = text]
        = [Printed(t, "Ground", t.text) EXCEPT !.text = text]
    BY <2>2
  <2>4. [Printed(t, "Ground", t.text) EXCEPT !.text = text] = Printed(t, "Ground", text)
    BY DEF Printed
  <2>5. QED  BY Zenon, <1>3, <2>1, <2>3, <2>4 DEF text
<1>4. QED  BY <1>1, <1>2, <1>3

\* Bytes that the terminal reads leave it a terminal, and only an escape or the first byte
\* of a character leaves it waiting for the next one.
LEMMA ReadByteType ==
    ASSUME NEW t \in Terminals, NEW b \in Byte, NEW limit \in Int
    PROVE  LET r == ReadByte(t, b, limit)
           IN  /\ r \in Terminals
               /\ r.mode \in {"Escape", "OscEscape"} => b = "ESC"
               /\ r.mode = "Lead" => b = "lead"
               /\ t.mode = "Ground" => r.osc = t.osc
               /\ t.mode # "Ground" /\ r.mode = "Ground" => r.osc = <<>> \/ r.osc = t.osc
<1> DEFINE r == ReadByte(t, b, limit)
           G(u) == /\ u \in Terminals
                   /\ u.mode \in {"Escape", "OscEscape"} => b = "ESC"
                   /\ u.mode = "Lead" => b = "lead"
                   /\ t.mode = "Ground" => u.osc = t.osc
                   /\ t.mode # "Ground" /\ u.mode = "Ground" => u.osc = <<>> \/ u.osc = t.osc
<1>1. /\ t.osc \in Bytes /\ t.text \in Bytes /\ t.mode \in Modes /\ t.others \in Seq(Bytes)
      /\ t.titled \in BOOLEAN /\ t.icon \in Bytes /\ t.window \in Bytes
  BY DEF Terminals
<1>2. /\ Append(t.text, b) \in Bytes /\ t.text \o <<"ESC", b>> \in Bytes
      /\ Append(t.osc, b) \in Bytes /\ t.osc \o <<"ESC", b>> \in Bytes
  <2>1. ASSUME NEW x \in Bytes PROVE Append(x, b) \in Bytes /\ x \o <<"ESC", b>> \in Bytes
    <3>1. Append(x, b) \in Bytes
      BY Longer
    <3>2. x \o <<"ESC", b>> \in Bytes
      BY Zenon, JoinEscape
    <3>3. QED  BY <3>1, <3>2
  <2>2. QED  BY Zenon, <1>1, <2>1
<1>3. <<>> \in Bytes
  BY Unjoined
<1> HIDE DEF r
<1>A. ASSUME NEW m \in Modes, r = At(t, m, t.osc)
      PROVE  r \in Terminals /\ r.mode = m /\ r.osc = t.osc
  <2>1. LET a == At(t, m, t.osc) IN a \in Terminals /\ a.mode = m /\ a.osc = t.osc
    BY <1>1, AtType
  <2>2. QED  BY Zenon, <1>A, <2>1
<1>B. ASSUME NEW m \in Modes, NEW text \in Bytes, r = Printed(t, m, text)
      PROVE  r \in Terminals /\ r.mode = m /\ r.osc = t.osc
  <2>1. LET a == Printed(t, m, text) IN a \in Terminals /\ a.mode = m /\ a.osc = t.osc
    BY PrintedType
  <2>2. QED  BY Zenon, <1>B, <2>1
<1>4. CASE t.mode = "Ground"
  <2>1. CASE b = "ESC"
    <3>1. r = At(t, "Escape", t.osc)
      BY <1>4, <2>1, ReadGround DEF r
    <3>2. r \in Terminals /\ r.mode = "Escape" /\ r.osc = t.osc
      BY <1>A, <3>1, ModesDiffer
    <3>3. QED  BY <1>4, <2>1, <3>2 DEF r
  <2>2. CASE b = "OSC"
    <3>1. r = At(t, "Osc", t.osc)
      BY <1>4, <2>2, ReadGround DEF r
    <3>2. r \in Terminals /\ r.mode = "Osc" /\ r.osc = t.osc
      BY <1>A, <3>1, ModesDiffer
    <3>3. QED  BY <1>4, <2>2, <3>2 DEF r
  <2>3. CASE b \notin {"ESC", "OSC"}
    <3> DEFINE m == IF b = "lead" THEN "Lead" ELSE "Ground"
               text == Append(t.text, b)
    <3>1. r = Printed(t, m, text)
      BY <1>4, <2>3, ReadGround DEF r
    <3>2. m \in Modes
      BY ModesDiffer
    <3>3. m # "Escape" /\ m # "OscEscape" /\ (m = "Lead" => b = "lead")
      OBVIOUS
    <3> HIDE DEF m, text
    <3>4. r \in Terminals /\ r.mode = m /\ r.osc = t.osc
      BY <1>2, <1>B, <3>1, <3>2 DEF text
    <3>5. QED  BY Zenon, <1>4, <3>3, <3>4 DEF r
  <2>4. QED  BY <2>1, <2>2, <2>3
<1>5. CASE t.mode = "Lead"
  <2> DEFINE m == IF b = "lead" THEN "Lead" ELSE "Ground"
             text == Append(t.text, b)
  <2>1. r = Printed(t, m, text)
    BY <1>5, ReadLead DEF r
  <2>2. m \in Modes /\ m # "Escape" /\ m # "OscEscape" /\ (m = "Lead" => b = "lead")
    BY ModesDiffer
  <2> HIDE DEF m, text
  <2>3. r \in Terminals /\ r.mode = m /\ r.osc = t.osc
    BY <1>2, <1>B, <2>1, <2>2 DEF text
  <2>4. QED  BY Zenon, <1>5, <2>2, <2>3 DEF r
<1>6. CASE t.mode = "Escape"
  <2>1. CASE b = "]"
    <3>1. r = At(t, "Osc", t.osc)
      BY <1>6, <2>1, ReadEscape DEF r
    <3>2. r \in Terminals /\ r.mode = "Osc" /\ r.osc = t.osc
      BY <1>A, <3>1, ModesDiffer
    <3>3. QED  BY <1>6, <2>1, <3>2 DEF r
  <2>2. CASE b = "ESC"
    <3>1. r = t
      BY <1>6, <2>2, ReadEscape DEF r
    <3>2. QED  BY Zenon, <1>6, <2>2, <3>1 DEF r
  <2>3. CASE b \notin {"]", "ESC"}
    <3> DEFINE text == t.text \o <<"ESC", b>>
    <3>1. r = Printed(t, "Ground", text)
      BY <1>6, <2>3, ReadEscape DEF r
    <3> HIDE DEF text
    <3>2. r \in Terminals /\ r.mode = "Ground" /\ r.osc = t.osc
      BY <1>2, <1>B, <3>1, ModesDiffer DEF text
    <3>3. QED  BY Zenon, <1>6, <3>2 DEF r
  <2>4. QED  BY <2>1, <2>2, <2>3
<1>7. CASE t.mode \in {"Osc", "OscEscape"}
  <2>1. CASE b = "CAN"
    <3>1. r = At(t, "Ground", <<>>)
      BY <1>7, <2>1, CanceledControl DEF r
    <3>2. QED  BY <1>3, <1>7, <2>1, <3>1, AtType, ModesDiffer DEF r
  <2>2. CASE (b \in Terminators \/ (t.mode = "OscEscape" /\ b = "bs")) /\ ~Continues(t, b)
    <3>1. r = Perform(t, limit)
      BY <1>7, <2>2, EndedControl DEF r
    <3>2. r \in Terminals /\ Idle(r)
      BY <3>1, PerformType
    <3>3. QED  BY <1>7, <3>2 DEF Idle, r
  <2>3. CASE b # "CAN" /\ b \notin Terminators /\ t.mode = "Osc"
    <3>1. r = IF b = "ESC" THEN At(t, "OscEscape", t.osc) ELSE At(t, "Osc", Append(t.osc, b))
      BY <2>3, StepOsc DEF Terminators, r
    <3> DEFINE o == Append(t.osc, b)
    <3> HIDE DEF o
    <3>2. CASE b = "ESC"
      <4>1. r = At(t, "OscEscape", t.osc)
        BY <3>1, <3>2
      <4>2. r \in Terminals /\ r.mode = "OscEscape" /\ r.osc = t.osc
        BY <1>A, <4>1, ModesDiffer
      <4>3. QED  BY <2>3, <3>2, <4>2 DEF r
    <3>3. CASE b # "ESC"
      <4>1. r = At(t, "Osc", o)
        BY <3>1, <3>3 DEF o
      <4>2. o \in Bytes
        BY <1>2 DEF o
      <4>3. r \in Terminals /\ r.mode = "Osc" /\ t.mode = "Osc"
        BY <2>3, <4>1, <4>2, AtType, ModesDiffer
      <4>4. QED  BY <4>3 DEF r
    <3>4. QED  BY <3>2, <3>3
  <2>4. CASE b \notin {"CAN", "bs"} /\ b \notin Terminators /\ t.mode = "OscEscape"
    <3>1. CASE b = "ESC"
      <4>1. r = At(t, "OscEscape", t.osc)
        BY <2>4, <3>1, StepEscapeAgain DEF r
      <4>2. r \in Terminals /\ r.mode = "OscEscape" /\ r.osc = t.osc
        BY <1>A, <4>1, ModesDiffer
      <4>3. QED  BY <2>4, <3>1, <4>2 DEF r
    <3>2. CASE b # "ESC"
      <4> DEFINE o == t.osc \o <<"ESC", b>>
      <4>1. r = At(t, "Osc", o)
        BY <2>4, <3>2, StepOscEscape DEF Terminators, r
      <4>2. o \in Bytes
        BY <1>2
      <4> HIDE DEF o
      <4>3. r \in Terminals /\ r.mode = "Osc" /\ t.mode = "OscEscape"
        BY <2>4, <4>1, <4>2, AtType, ModesDiffer
      <4>4. QED  BY <4>3 DEF r
    <3>3. QED  BY <3>1, <3>2
  <2>5. CASE Continues(t, b)
    <3> DEFINE o == Append(t.osc, b)
    <3>1. t.mode = "Osc" /\ r = At(t, "Osc", o)
      BY <2>5, ContinuedControl DEF r
    <3>2. o \in Bytes
      BY <1>2
    <3> HIDE DEF o
    <3>3. r \in Terminals /\ r.mode = "Osc"
      BY <3>1, <3>2, AtType, ModesDiffer
    <3>4. QED  BY <3>1, <3>3 DEF r
  <2>6. QED  BY <1>7, <2>1, <2>2, <2>3, <2>4, <2>5
<1>8. QED  BY <1>1, <1>4, <1>5, <1>6, <1>7 DEF Modes

(***************************************************************************)
(* The filter.                                                              *)
(***************************************************************************)
\* The filter in another state, or with other titles.
In(f, state) ==
    [policy |-> f.policy, state |-> state, initialized |-> f.initialized,
     icon |-> f.icon, window |-> f.window, prefix_active |-> f.prefix_active,
     displayed |-> f.displayed]

IsFilter(f) ==
    /\ f = In(f, f.state)
    /\ f.policy \in Policies /\ f.initialized \in BOOLEAN /\ f.prefix_active \in BOOLEAN
    /\ f.icon \in Bytes /\ f.window \in Bytes

LEMMA InFields ==
    ASSUME NEW f, NEW state
    PROVE  /\ In(f, state).policy = f.policy /\ In(f, state).state = state
           /\ In(f, state).initialized = f.initialized
           /\ In(f, state).icon = f.icon /\ In(f, state).window = f.window
           /\ In(f, state).prefix_active = f.prefix_active
           /\ In(f, state).displayed = f.displayed
BY DEF In

LEMMA InType ==
    ASSUME NEW f, IsFilter(f), NEW state
    PROVE  IsFilter(In(f, state))
<1>1. In(f, state) = In(In(f, state), In(f, state).state)
  BY DEF In
<1> DEFINE g == In(f, state)
<1>2. /\ g.policy = f.policy /\ g.initialized = f.initialized
      /\ g.icon = f.icon /\ g.window = f.window /\ g.prefix_active = f.prefix_active
  BY InFields
<1> HIDE DEF g
<1>3. g = In(g, g.state)
  BY Zenon, <1>1 DEF g
<1>4. IsFilter(g)
  BY <1>2, <1>3 DEF IsFilter
<1>5. QED  BY Zenon, <1>4 DEF g

LEMMA MovedIn ==
    ASSUME NEW f, IsFilter(f), NEW state, NEW out
    PROVE  Moved(f, state, out) = Result(In(f, state), out)
<1>1. [f EXCEPT !.state = state] = [In(f, f.state) EXCEPT !.state = state]
  BY Zenon DEF IsFilter
<1>2. [In(f, f.state) EXCEPT !.state = state] = In(f, state)
  BY DEF In
<1>3. QED  BY Zenon, <1>1, <1>2 DEF Moved

LEMMA ResultParts ==
    \A f, out : Result(f, out).filter = f /\ Result(f, out).out = out
BY DEF Result

\* Which operator a state leads to.
LEMMA Process ==
    ASSUME NEW f, f.policy = "MoshPrefix", NEW b
    PROVE  /\ f.state = Ground => ProcessByte(f, b) = InGround(f, b)
           /\ f.state = Escape => ProcessByte(f, b) = InEscape(f, b)
           /\ \A x, p : f.state = OscHeader(x, p) => ProcessByte(f, b) = InOscHeader(f, b)
           /\ \A c, x, p : f.state = Title(c, x, p) => ProcessByte(f, b) = InTitle(f, b)
           /\ \A p : f.state = PassthroughOsc(p) => ProcessByte(f, b) = InPassthroughOsc(f, b)
           /\ \A p : f.state = DiscardTitle(p) => ProcessByte(f, b) = InDiscardTitle(f, b)
<1>1. f.state.mode = "Ground" => ProcessByte(f, b) = InGround(f, b)
  BY DEF ProcessByte
<1>2. f.state.mode = "Escape" => ProcessByte(f, b) = InEscape(f, b)
  BY DEF ProcessByte
<1>3. f.state.mode = "OscHeader" => ProcessByte(f, b) = InOscHeader(f, b)
  BY DEF ProcessByte
<1>4. f.state.mode = "Title" => ProcessByte(f, b) = InTitle(f, b)
  BY DEF ProcessByte
<1>5. f.state.mode = "PassthroughOsc" => ProcessByte(f, b) = InPassthroughOsc(f, b)
  BY DEF ProcessByte
<1>6. f.state.mode = "DiscardTitle" => ProcessByte(f, b) = InDiscardTitle(f, b)
  BY DEF ProcessByte
<1>7. /\ Ground.mode = "Ground" /\ Escape.mode = "Escape"
      /\ \A x, p : OscHeader(x, p).mode = "OscHeader"
      /\ \A c, x, p : Title(c, x, p).mode = "Title"
      /\ \A p : PassthroughOsc(p).mode = "PassthroughOsc"
      /\ \A p : DiscardTitle(p).mode = "DiscardTitle"
  BY DEF Ground, Escape, OscHeader, Title, PassthroughOsc, DiscardTitle
<1>8. QED  BY Zenon, <1>1, <1>2, <1>3, <1>4, <1>5, <1>6, <1>7

(***************************************************************************)
(* The titles that the filter emits.                                        *)
(***************************************************************************)
\* The filter when it has emitted its titles.
Emitted(f) ==
    [policy |-> f.policy, state |-> f.state, initialized |-> f.initialized,
     icon |-> f.icon, window |-> f.window, prefix_active |-> f.prefix_active,
     displayed |-> IF f.initialized THEN Displayed(f) ELSE f.displayed]

LEMMA EmittedType ==
    ASSUME NEW f, IsFilter(f)
    PROVE  /\ IsFilter(Emitted(f))
           /\ Emitted(f).policy = f.policy /\ Emitted(f).state = f.state
           /\ Emitted(f).initialized = f.initialized
           /\ Emitted(f).icon = f.icon /\ Emitted(f).window = f.window
           /\ Emitted(f).prefix_active = f.prefix_active
           /\ Emitted(f).displayed = IF f.initialized THEN Displayed(f) ELSE f.displayed
<1> DEFINE d == IF f.initialized THEN Displayed(f) ELSE f.displayed
           e == [policy |-> f.policy, state |-> f.state, initialized |-> f.initialized,
                 icon |-> f.icon, window |-> f.window, prefix_active |-> f.prefix_active,
                 displayed |-> d]
<1>1. Emitted(f) = e
  BY Zenon DEF Emitted
<1> HIDE DEF d
<1>2. /\ e = In(e, e.state) /\ e.policy = f.policy /\ e.state = f.state
      /\ e.initialized = f.initialized /\ e.icon = f.icon /\ e.window = f.window
      /\ e.prefix_active = f.prefix_active /\ e.displayed = d
  BY DEF In
<1> HIDE DEF e
<1>3. IsFilter(e)
  BY <1>2 DEF IsFilter
<1>4. QED  BY Zenon, <1>1, <1>2, <1>3 DEF d

LEMMA DisplayedClean ==
    ASSUME NEW f, IsFilter(f), Clean(f.icon), Clean(f.window)
    PROVE  /\ Displayed(f)[1] \in Bytes /\ Clean(Displayed(f)[1])
           /\ Displayed(f)[2] \in Bytes /\ Clean(Displayed(f)[2])
<1> DEFINE w == IF f.prefix_active THEN MoshPrefix \o f.window ELSE f.window
           i == IF f.prefix_active /\ f.icon = f.window THEN w ELSE f.icon
<1>1. Displayed(f)[1] = i /\ Displayed(f)[2] = w
  BY DEF Displayed
<1>2. MoshPrefix \o f.window \in Bytes /\ Clean(MoshPrefix \o f.window)
  BY CleanBefore, Symbols DEF IsFilter, MoshPrefix
<1>3. w \in Bytes /\ Clean(w)
  BY Zenon, <1>2 DEF IsFilter
<1> HIDE DEF w
<1>4. i \in Bytes /\ Clean(i)
  BY Zenon, <1>3 DEF IsFilter
<1>5. QED  BY Zenon, <1>1, <1>3, <1>4

LEMMA EmitFilter ==
    ASSUME NEW f, IsFilter(f)
    PROVE  EmitTitles(f) =
              Result(Emitted(f),
                     IF ~f.initialized \/ f.displayed = Displayed(f) THEN <<>>
                     ELSE EncodeTitles(Displayed(f)[1], Displayed(f)[2]))
<1> DEFINE titles == Displayed(f)
<1> HIDE DEF titles
<1>1. EmitTitles(f) =
        IF ~f.initialized \/ f.displayed = titles THEN Result(f, <<>>)
        ELSE Result([f EXCEPT !.displayed = titles], EncodeTitles(titles[1], titles[2]))
  BY Zenon DEF EmitTitles, titles
<1>2. [f EXCEPT !.displayed = titles] =
        [policy |-> f.policy, state |-> f.state, initialized |-> f.initialized,
         icon |-> f.icon, window |-> f.window, prefix_active |-> f.prefix_active,
         displayed |-> titles]
  <2>1. [f EXCEPT !.displayed = titles] = [In(f, f.state) EXCEPT !.displayed = titles]
    BY Zenon DEF IsFilter
  <2>2. QED  BY <2>1 DEF In
<1>3. CASE ~f.initialized \/ f.displayed = titles
  <2>1. Emitted(f) = f
    <3>1. (IF f.initialized THEN titles ELSE f.displayed) = f.displayed
      BY <1>3
    <3>2. Emitted(f) = In(f, f.state)
      BY Zenon, <3>1 DEF Emitted, In, titles
    <3>3. QED  BY Zenon, <3>2 DEF IsFilter
  <2>2. QED  BY Zenon, <1>1, <1>3, <2>1 DEF titles
<1>4. CASE ~(~f.initialized \/ f.displayed = titles)
  <2>1. (IF f.initialized THEN titles ELSE f.displayed) = titles
    BY <1>4
  <2>2. Emitted(f) = [f EXCEPT !.displayed = titles]
    BY Zenon, <1>2, <2>1 DEF Emitted, titles
  <2>3. QED  BY Zenon, <1>1, <1>4, <2>2 DEF titles
<1>5. QED  BY <1>3, <1>4

\* What the terminal shows when the filter has emitted its titles.
LEMMA EmitRead ==
    ASSUME NEW f, IsFilter(f), Clean(f.icon), Clean(f.window),
           NEW s \in Terminals, Idle(s)
    PROVE  LET u == Reading(s, EmitTitles(f).out)
           IN  /\ u \in Terminals /\ Idle(u) /\ u.text = s.text /\ u.others = s.others
               /\ ~f.initialized => u = s
               /\ f.initialized =>
                     \/ u.icon = Displayed(f)[1] /\ u.window = Displayed(f)[2]
                     \/ f.displayed = Displayed(f) /\ u = s
<1> DEFINE out == IF ~f.initialized \/ f.displayed = Displayed(f) THEN <<>>
                  ELSE EncodeTitles(Displayed(f)[1], Displayed(f)[2])
           u == Reading(s, out)
           i == Displayed(f)[1]
           w == Displayed(f)[2]
<1>1. EmitTitles(f).out = out
  <2> HIDE DEF out
  <2>1. EmitTitles(f) = Result(Emitted(f), out)
    BY Zenon, EmitFilter DEF out
  <2>2. QED  BY Zenon, <2>1, ResultParts
<1>2. CASE ~f.initialized \/ f.displayed = Displayed(f)
  <2>1. out = <<>>
    BY Zenon, <1>2
  <2>2. u = s
    BY Zenon, <2>1, ReadingNothing
  <2> HIDE DEF out, u
  <2>3. QED  BY Zenon, <1>1, <1>2, <2>2 DEF u
<1>3. CASE ~(~f.initialized \/ f.displayed = Displayed(f))
  <2>1. out = EncodeTitles(i, w)
    BY Zenon, <1>3
  <2>2. i \in Bytes /\ Clean(i) /\ w \in Bytes /\ Clean(w)
    BY DisplayedClean
  <2> HIDE DEF out, i, w
  <2>3. u = Performed(s, s.others, TRUE, i, w)
    BY Zenon, <2>1, <2>2, TitlesRead
  <2>4. s.others \in Seq(Bytes)
    BY DEF Terminals
  <2> DEFINE p == Performed(s, s.others, TRUE, i, w)
  <2>5. /\ p \in Terminals /\ Idle(p) /\ p.text = s.text /\ p.others = s.others
        /\ p.icon = i /\ p.window = w
    <3>1. p \in Terminals
      BY <2>2, <2>4, PerformedTitled
    <3>2. Idle(p)
      BY <2>2, <2>4, PerformedTitled
    <3>3. p.text = s.text /\ p.others = s.others /\ p.icon = i /\ p.window = w
      BY DEF Performed
    <3>4. QED  BY Zenon, <3>1, <3>2, <3>3
  <2> HIDE DEF p, u
  <2>6. QED  BY Zenon, <1>1, <1>3, <2>3, <2>5 DEF p, u, i, w
<1>4. QED  BY <1>2, <1>3

(***************************************************************************)
(* How the two terminals are related, for each state of the filter.          *)
(***************************************************************************)
OscMode(pending) == IF pending THEN "OscEscape" ELSE "Osc"
Semi == <<"semi">>
CommandField(command, field) ==
    \/ command = "IconAndWindow" /\ field \in {<<>>, <<"0">>}
    \/ command = "Icon" /\ field = <<"1">>
    \/ command = "Window" /\ field = <<"2">>

AtGround(s, d) ==
    /\ s.mode = d.mode /\ s.mode \in {"Ground", "Lead"}
    /\ s.osc = <<>> /\ d.osc = <<>>

InEscapeOf(s, d) == Idle(s) /\ d.mode = "Escape" /\ d.osc = <<>>

\* What is held back is the control that the other terminal has begun.
InHeaderOf(x, p, s, d) ==
    /\ Idle(s) /\ d.mode = OscMode(p)
    /\ Clean(d.osc) /\ ~HasSeparator(d.osc)
    /\ \E start \in HeaderStart : x = start \o d.osc

InTitleOf(c, x, p, s, d) ==
    /\ Idle(s) /\ d.mode = OscMode(p)
    /\ x \in Bytes /\ Clean(x) /\ Len(x) <= MAX_REMOTE_TITLE_BYTES
    /\ \E field \in TitleFields : CommandField(c, field) /\ d.osc = (field \o Semi) \o x

InPassthroughOf(p, s, d) ==
    /\ s.mode = OscMode(p) /\ d.mode = OscMode(p) /\ s.osc = d.osc
    /\ CommandOf(d.osc) \notin TitleFields

InDiscardOf(p, s, d) ==
    /\ Idle(s) /\ d.mode = OscMode(p)
    /\ \E field \in TitleFields, title \in Bytes :
          Len(title) > MAX_REMOTE_TITLE_BYTES /\ d.osc = (field \o Semi) \o title

Follows(state, s, d) ==
    \/ state = Ground /\ AtGround(s, d)
    \/ state = Escape /\ InEscapeOf(s, d)
    \/ \E x \in Bytes, p \in BOOLEAN : state = OscHeader(x, p) /\ InHeaderOf(x, p, s, d)
    \/ \E c \in Commands, x \in Bytes, p \in BOOLEAN :
          state = Title(c, x, p) /\ InTitleOf(c, x, p, s, d)
    \/ \E p \in BOOLEAN : state = PassthroughOsc(p) /\ InPassthroughOf(p, s, d)
    \/ \E p \in BOOLEAN : state = DiscardTitle(p) /\ InDiscardOf(p, s, d)

\* The same text and the same controls; the same titles as before.
Alike(s, d) == s.text = d.text /\ s.others = d.others
Kept(t, u) == u.titled = t.titled /\ u.icon = t.icon /\ u.window = t.window

\* The next byte is one that the filter reads as the terminal does.
Ahead(d, b) ==
    /\ d.mode = "Lead" => b \notin {"ESC", "OSC"}
    /\ ~Continues(d, b)
    /\ d.mode = "Escape" => b # "ESC"
    /\ d.mode = "OscEscape" => b \notin {"ESC", "BEL", "ST"}

\* A byte that changes the state of the filter and no title.
Calm(f, b, s, d) ==
    \E state, out :
       /\ ProcessByte(f, b) = Result(In(f, state), out)
       /\ Reading(s, out) \in Terminals
       /\ Follows(state, Reading(s, out), ReadByte(d, b, MAX_REMOTE_TITLE_BYTES))
       /\ Alike(Reading(s, out), ReadByte(d, b, MAX_REMOTE_TITLE_BYTES))
       /\ Kept(s, Reading(s, out))
       /\ Kept(d, ReadByte(d, b, MAX_REMOTE_TITLE_BYTES))

LEMMA Calmly ==
    ASSUME NEW f, NEW b, NEW s, NEW d, NEW state, NEW out, NEW t, NEW u,
           ProcessByte(f, b) = Result(In(f, state), out),
           t = Reading(s, out), u = ReadByte(d, b, MAX_REMOTE_TITLE_BYTES),
           t \in Terminals, Follows(state, t, u), Alike(t, u), Kept(s, t), Kept(d, u)
    PROVE  Calm(f, b, s, d)
BY Zenon DEF Calm

LEMMA AtKept ==
    ASSUME NEW t \in Terminals, NEW m \in Modes, NEW o \in Bytes
    PROVE  Kept(t, At(t, m, o))
BY AtType DEF Kept

LEMMA AtAlike ==
    ASSUME NEW s \in Terminals, NEW d \in Terminals, Alike(s, d),
           NEW m \in Modes, NEW o \in Bytes, NEW n \in Modes, NEW p \in Bytes
    PROVE  Alike(At(s, m, o), At(d, n, p)) /\ Alike(s, At(d, n, p))
BY AtType DEF Alike

LEMMA PrintedAlike ==
    ASSUME NEW s \in Terminals, NEW d \in Terminals, Alike(s, d), NEW m \in Modes,
           NEW text \in Bytes
    PROVE  /\ Alike(Printed(s, m, text), Printed(d, m, text))
           /\ Kept(s, Printed(s, m, text)) /\ Kept(d, Printed(d, m, text))
BY PrintedType DEF Alike, Kept

\* One byte more of a control that goes on.
LEMMA OscGoesOn ==
    ASSUME NEW t \in Terminals, NEW p \in BOOLEAN, t.mode = OscMode(p), NEW limit,
           NEW b \in Byte, b \notin {"BEL", "ST", "CAN"}, ~(p /\ b \in {"bs", "ESC"})
    PROVE  LET o == IF p THEN Append(t.osc, "ESC") ELSE t.osc
           IN  ReadByte(t, b, limit) =
                  IF b = "ESC" THEN At(t, "OscEscape", t.osc) ELSE At(t, "Osc", Append(o, b))
<1>1. t.osc \in Bytes
  BY DEF Terminals
<1>2. CASE p
  <2>1. t.mode = "OscEscape" /\ b \notin {"BEL", "ST", "CAN", "ESC", "bs"}
    BY <1>2 DEF OscMode
  <2>2. ReadByte(t, b, limit) = At(t, "Osc", t.osc \o <<"ESC", b>>)
    BY Zenon, <2>1, StepOscEscape
  <2>3. t.osc \o <<"ESC", b>> = Append(Append(t.osc, "ESC"), b)
    BY Zenon, <1>1, JoinEscape
  <2>4. QED  BY Zenon, <1>2, <2>1, <2>2, <2>3
<1>3. CASE ~p
  <2>1. t.mode = "Osc"
    BY <1>3 DEF OscMode
  <2>2. ReadByte(t, b, limit) =
          IF b = "ESC" THEN At(t, "OscEscape", t.osc) ELSE At(t, "Osc", Append(t.osc, b))
    BY Zenon, <2>1, StepOsc
  <2>3. QED  BY Zenon, <1>3, <2>2
<1>4. QED  BY <1>2, <1>3

\* One byte is read at once.
LEMMA ReadOne ==
    ASSUME NEW t, NEW b \in Byte
    PROVE  Reading(t, <<b>>) = Step(t, b)
<1>1. <<b>> = Append(<<>>, b)
  OBVIOUS
<1>2. Reading(t, Append(<<>>, b)) = Step(Reading(t, <<>>), b)
  BY Unjoined, ReadingOneMore
<1>3. QED  BY Zenon, <1>1, <1>2, ReadingNothing

\* A header has begun.
LEMMA HeaderBegins ==
    ASSUME NEW x \in HeaderStart, x \in Bytes, NEW s, Idle(s),
           NEW u, u.mode = "Osc", u.osc = <<>>
    PROVE  Follows(OscHeader(x, FALSE), s, u)
<1>1. x \o <<>> = x
  BY Unjoined
<1>2. ~HasSeparator(<<>>)
  BY DEF HasSeparator
<1>3. OscMode(FALSE) = "Osc"
  BY DEF OscMode
<1>4. InHeaderOf(x, FALSE, s, u)
  BY Zenon, <1>1, <1>2, <1>3, CleanEmpty DEF InHeaderOf
<1>5. QED  BY Zenon, <1>4 DEF Follows

(***************************************************************************)
(* What a byte does in each state.                                          *)
(***************************************************************************)
LEMMA GroundByte ==
    ASSUME NEW f, IsFilter(f), f.policy = "MoshPrefix", f.state = Ground,
           NEW s \in Terminals, NEW d \in Terminals, AtGround(s, d), Alike(s, d),
           NEW b \in Byte, Ahead(d, b)
    PROVE  Calm(f, b, s, d)
<1> DEFINE limit == MAX_REMOTE_TITLE_BYTES
<1>1. ProcessByte(f, b) = InGround(f, b)
  BY Process
<1>2. Reading(s, <<>>) = s /\ Kept(s, s)
  BY ReadingNothing DEF Kept
<1>3. <<>> \in Bytes /\ s.text = d.text /\ s.text \in Bytes
  BY Unjoined DEF Alike, Terminals
<1>4. CASE b = "ESC"
  <2> DEFINE u == At(d, "Escape", <<>>)
  <2>1. d.mode = "Ground" /\ d.osc = <<>> /\ Idle(s)
    BY <1>4 DEF AtGround, Ahead, Idle
  <2>2. ProcessByte(f, b) = Result(In(f, Escape), <<>>)
    BY Zenon, <1>1, <1>4, MovedIn DEF InGround
  <2>3. ReadByte(d, b, limit) = u
    BY <1>4, <2>1, ReadGround
  <2>4. u.mode = "Escape" /\ u.osc = <<>> /\ Alike(s, u) /\ Kept(d, u)
    BY <1>3, AtType, AtAlike, AtKept, ModesDiffer
  <2> HIDE DEF u
  <2>5. Follows(Escape, s, u)
    BY <2>1, <2>4 DEF Follows, InEscapeOf
  <2>6. QED  BY Zenon, <1>2, <2>2, <2>3, <2>4, <2>5, Calmly
<1>5. CASE b = "OSC"
  <2> DEFINE u == At(d, "Osc", <<>>)
             x == <<"OSC">>
  <2>1. d.mode = "Ground" /\ d.osc = <<>> /\ Idle(s)
    BY <1>5 DEF AtGround, Ahead, Idle
  <2>2. ProcessByte(f, b) = Result(In(f, OscHeader(x, FALSE)), <<>>)
    BY Zenon, <1>1, <1>5, MovedIn DEF InGround
  <2>3. ReadByte(d, b, limit) = u
    BY <1>5, <2>1, ReadGround
  <2>4. u.mode = "Osc" /\ u.osc = <<>> /\ Alike(s, u) /\ Kept(d, u)
    BY <1>3, AtType, AtAlike, AtKept, ModesDiffer
  <2>5. Follows(OscHeader(x, FALSE), s, u)
    <3>1. x \in HeaderStart /\ x \in Bytes
      BY Longer, Symbols, <1>3 DEF HeaderStart
    <3> HIDE DEF u, x
    <3>2. QED  BY Zenon, <2>1, <2>4, <3>1, HeaderBegins
  <2> HIDE DEF u
  <2>6. QED  BY Zenon, <1>2, <2>2, <2>3, <2>4, <2>5, Calmly
<1>6. CASE b \notin {"ESC", "OSC"}
  <2> DEFINE m == IF b = "lead" THEN "Lead" ELSE "Ground"
             text == Append(s.text, b)
             t == Printed(s, m, text)
             u == Printed(d, m, text)
  <2>1. ProcessByte(f, b) = Result(In(f, Ground), <<b>>)
    BY Zenon, <1>1, <1>6, MovedIn DEF InGround
  <2>2. m \in Modes /\ m \in {"Ground", "Lead"} /\ text \in Bytes
    BY <1>3, Longer, ModesDiffer
  <2>3. \A l : ReadByte(s, b, l) = t
    <3>1. CASE s.mode = "Ground"
      BY <1>6, <3>1, ReadGround DEF AtGround
    <3>2. CASE s.mode = "Lead"
      BY <3>2, ReadLead DEF AtGround
    <3>3. QED  BY <3>1, <3>2 DEF AtGround
  <2>4. ReadByte(d, b, limit) = u
    <3>1. CASE d.mode = "Ground"
      BY <1>3, <1>6, <3>1, ReadGround
    <3>2. CASE d.mode = "Lead"
      BY <1>3, <3>2, ReadLead
    <3>3. QED  BY <3>1, <3>2 DEF AtGround
  <2>5. Reading(s, <<b>>) = t
    BY Zenon, <2>3, ReadOne DEF Step
  <2> HIDE DEF m, text
  <2>6. /\ t \in Terminals /\ t.mode = m /\ t.osc = <<>>
        /\ u.mode = m /\ u.osc = <<>>
    BY <2>2, PrintedType DEF AtGround
  <2>7. Alike(t, u) /\ Kept(s, t) /\ Kept(d, u)
    BY <2>2, PrintedAlike
  <2> HIDE DEF t, u
  <2>8. Follows(Ground, t, u)
    BY Zenon, <2>2, <2>6 DEF Follows, AtGround
  <2>9. QED  BY Zenon, <2>1, <2>4, <2>5, <2>6, <2>7, <2>8, Calmly
<1>7. QED  BY <1>4, <1>5, <1>6

LEMMA EscapeByte ==
    ASSUME NEW f, IsFilter(f), f.policy = "MoshPrefix", f.state = Escape,
           NEW s \in Terminals, NEW d \in Terminals, InEscapeOf(s, d), Alike(s, d),
           NEW b \in Byte, Ahead(d, b)
    PROVE  Calm(f, b, s, d)
<1> DEFINE limit == MAX_REMOTE_TITLE_BYTES
<1>1. ProcessByte(f, b) = InEscape(f, b)
  BY Process
<1>2. Reading(s, <<>>) = s /\ Kept(s, s)
  BY ReadingNothing DEF Kept
<1>3. /\ <<>> \in Bytes /\ s.text = d.text /\ s.text \in Bytes
      /\ Idle(s) /\ d.mode = "Escape" /\ d.osc = <<>> /\ b # "ESC"
  BY Unjoined DEF Alike, Terminals, InEscapeOf, Ahead
<1>4. CASE b = "]"
  <2> DEFINE u == At(d, "Osc", <<>>)
             x == <<"ESC", "]">>
  <2>1. ProcessByte(f, b) = Result(In(f, OscHeader(x, FALSE)), <<>>)
    BY Zenon, <1>1, <1>4, MovedIn DEF InEscape
  <2>2. ReadByte(d, b, limit) = u
    BY <1>3, <1>4, ReadEscape
  <2>3. u.mode = "Osc" /\ u.osc = <<>> /\ Alike(s, u) /\ Kept(d, u)
    BY <1>3, AtType, AtAlike, AtKept, ModesDiffer
  <2>4. Follows(OscHeader(x, FALSE), s, u)
    <3>1. x \in HeaderStart
      BY DEF HeaderStart
    <3>2. x \in Bytes
      BY <1>3, <3>1, StartRead
    <3> HIDE DEF u, x
    <3>3. QED  BY Zenon, <1>3, <2>3, <3>1, <3>2, HeaderBegins
  <2> HIDE DEF u
  <2>5. QED  BY Zenon, <1>2, <2>1, <2>2, <2>3, <2>4, Calmly
<1>5. CASE b # "]"
  <2> DEFINE text == s.text \o <<"ESC", b>>
             v == At(s, "Escape", <<>>)
             t == Printed(v, "Ground", text)
             u == Printed(d, "Ground", text)
  <2>1. ProcessByte(f, b) = Result(In(f, Ground), <<"ESC", b>>)
    BY Zenon, <1>1, <1>5, MovedIn DEF InEscape
  <2>2. text \in Bytes
    BY Zenon, <1>3, JoinEscape
  <2>3. ReadByte(d, b, limit) = u
    BY <1>3, <1>5, ReadEscape
  <2>4. /\ v \in Terminals /\ v.mode = "Escape" /\ v.osc = <<>> /\ v.text = s.text
        /\ v.others = s.others /\ v.titled = s.titled /\ v.icon = s.icon /\ v.window = s.window
    BY <1>3, AtType, ModesDiffer
  <2>5. Reading(s, <<"ESC", b>>) = t
    <3> DEFINE e == Append(<<>>, "ESC")
    <3>1. <<"ESC", b>> = Append(e, b)
      OBVIOUS
    <3>2. e \in Bytes
      BY <1>3, Longer, Symbols
    <3>3. Reading(s, e) = Step(Reading(s, <<>>), "ESC")
      BY <1>3, ReadingOneMore, Symbols
    <3> HIDE DEF e
    <3>4. Reading(s, Append(e, b)) = Step(Reading(s, e), b)
      BY <3>2, ReadingOneMore
    <3>5. Step(s, "ESC") = v
      BY <1>3, StepGround DEF Idle, Step
    <3> HIDE DEF v
    <3>6. Step(v, b) = Printed(v, "Ground", v.text \o <<"ESC", b>>)
      BY <1>3, <1>5, <2>4, ReadEscape DEF Step
    <3>7. QED  BY Zenon, <1>2, <2>4, <3>1, <3>3, <3>4, <3>5, <3>6
  <2> HIDE DEF v, text
  <2>6. Alike(v, d)
    BY <2>4 DEF Alike
  <2>7. /\ t \in Terminals /\ t.mode = "Ground" /\ t.osc = <<>>
        /\ u.mode = "Ground" /\ u.osc = <<>>
    <3>1. t \in Terminals /\ t.mode = "Ground" /\ t.osc = v.osc
      <4>1. v \in Terminals /\ text \in Bytes /\ "Ground" \in Modes
        BY Zenon, <2>2, <2>4, ModesDiffer
      <4>2. QED  BY <4>1, PrintedType
    <3>2. u.mode = "Ground" /\ u.osc = d.osc
      BY <2>2, PrintedType, ModesDiffer
    <3>3. QED  BY <1>3, <2>4, <3>1, <3>2
  <2>8. Alike(t, u) /\ Kept(v, t) /\ Kept(d, u)
    BY <2>2, <2>4, <2>6, PrintedAlike, ModesDiffer
  <2>9. Kept(s, t)
    BY <2>4, <2>8 DEF Kept
  <2> HIDE DEF t, u
  <2>10. Follows(Ground, t, u)
    BY Zenon, <2>7 DEF Follows, AtGround
  <2>11. QED  BY Zenon, <2>1, <2>3, <2>5, <2>7, <2>8, <2>9, <2>10, Calmly
<1>6. QED  BY <1>4, <1>5

\* The parts of a header.
LEMMA HeaderParts ==
    ASSUME NEW start \in HeaderStart, NEW o \in Bytes
    PROVE  LET x == start \o o
           IN  /\ x \in Bytes /\ OscCommandLength(x) = Len(o)
               /\ SubSeq(x, Introducer(x) + 1, Len(x)) = o
<1> DEFINE x == start \o o
           k == Len(start)
           n == Len(x)
<1>1. /\ start \in Bytes /\ k \in Nat /\ Len(o) \in Nat /\ 1 \in 1..k
      /\ (start[1] = "ESC" <=> k = 2) /\ k \in {1, 2}
  <2>1. CASE start = <<"OSC">>
    <3>1. start \in Bytes
      BY <2>1, Symbols DEF Bytes
    <3>2. k = 1 /\ start[1] = "OSC"
      BY <2>1
    <3>3. QED  BY <3>1, <3>2, Lengths
  <2>2. CASE start = <<"ESC", "]">>
    <3>1. start \in Bytes
      BY <2>2, Symbols DEF Bytes
    <3>2. k = 2 /\ start[1] = "ESC"
      BY <2>2
    <3>3. QED  BY <3>1, <3>2, Lengths
  <2>3. QED  BY <2>1, <2>2 DEF HeaderStart
<1>2. /\ x \in Bytes /\ n = k + Len(o)
      /\ \A i \in 1..k : x[i] = start[i]
      /\ \A i \in 1..Len(o) : x[k + i] = o[i]
  BY <1>1, Join
<1> HIDE DEF x, k, n
<1>3. x[1] = start[1]
  BY <1>1, <1>2
<1>4. Introducer(x) = k
  BY <1>1, <1>3 DEF Introducer
<1>5. OscCommandLength(x) = Len(o)
  BY <1>1, <1>2, <1>4 DEF OscCommandLength, n
<1>6. SubSeq(x, k + 1, n) = o
  <2> DEFINE m == k + 1
             y == SubSeq(x, m, n)
  <2>1. m \in Int /\ n \in Int /\ \A i \in m..n : x[i] \in Byte
    <3>1. \A i \in m..n : i \in 1..n
      BY <1>1, <1>2
    <3>2. QED  BY <1>1, <1>2, <3>1 DEF n, Bytes
  <2> HIDE DEF m
  <2>2. /\ y \in Seq(Byte) /\ Len(y) = IF m <= n THEN n - m + 1 ELSE 0
        /\ \A i \in 1..(n - m + 1) : y[i] = x[m + i - 1]
    BY <2>1, SubSeqProperties
  <2> HIDE DEF y
  <2>3. Len(y) = Len(o)
    BY <1>1, <1>2, <2>2 DEF m
  <2>4. \A i \in 1..Len(o) : y[i] = o[i]
    <3>1. \A i \in 1..Len(o) : i \in 1..(n - m + 1) /\ m + i - 1 = k + i
      BY <1>1, <1>2 DEF m
    <3>2. QED  BY <1>2, <2>2, <3>1
  <2>5. o \in Seq(Byte)
    BY DEF Bytes
  <2>6. y = o
    BY <2>2, <2>3, <2>4, <2>5, SeqEqual
  <2>7. QED  BY <2>6 DEF y, m
<1>7. QED  BY Zenon, <1>2, <1>4, <1>5, <1>6 DEF x, n

\* The command of a header, where there is one.
LEMMA HeaderCommand ==
    ASSUME NEW start \in HeaderStart, NEW o \in Bytes
    PROVE  LET x == start \o o
           IN  /\ TitleCommand(x) # {} <=> o \in TitleFields
               /\ \A c \in TitleCommand(x) : c \in Commands /\ CommandField(c, o)
<1> DEFINE x == start \o o
<1>1. SubSeq(x, Introducer(x) + 1, Len(x)) = o
  BY HeaderParts
<1> HIDE DEF x
<1>2. TitleCommand(x) = CASE o \in {<<>>, <<"0">>} -> {"IconAndWindow"}
                          [] o = <<"1">> -> {"Icon"}
                          [] o = <<"2">> -> {"Window"}
                          [] OTHER -> {}
  BY Zenon, <1>1 DEF TitleCommand
<1>3. <<"1">> \notin {<<>>, <<"0">>} /\ <<"2">> \notin {<<>>, <<"0">>, <<"1">>}
  OBVIOUS
<1>4. /\ o \in {<<>>, <<"0">>} => TitleCommand(x) = {"IconAndWindow"}
      /\ o = <<"1">> => TitleCommand(x) = {"Icon"}
      /\ o = <<"2">> => TitleCommand(x) = {"Window"}
      /\ o \notin TitleFields => TitleCommand(x) = {}
  BY <1>2, <1>3 DEF TitleFields
<1>5. /\ TitleCommand(x) # {} <=> o \in TitleFields
      /\ \A c \in TitleCommand(x) : c \in Commands /\ CommandField(c, o)
  BY <1>4 DEF TitleFields, CommandField, Commands
<1>6. QED  BY Zenon, <1>5 DEF x

\* A control that has not come to its separator and is longer than any title's.
LEMMA LongHeader ==
    ASSUME NEW o \in Bytes, ~HasSeparator(o), Len(o) >= 2
    PROVE  CommandOf(o) \notin TitleFields
<1>1. CommandOf(o) = o
  BY NoSeparator
<1>2. Len(<<>>) = 0 /\ Len(<<"0">>) = 1 /\ Len(<<"1">>) = 1 /\ Len(<<"2">>) = 1
  OBVIOUS
<1>3. o \in TitleFields => Len(o) = 0 \/ Len(o) = 1
  BY Zenon, <1>2 DEF TitleFields
<1>4. Len(o) # 0 /\ Len(o) # 1
  <2>1. Len(o) \in Nat
    BY Lengths
  <2>2. QED  BY <2>1
<1>5. QED  BY Zenon, <1>1, <1>3, <1>4

LEMMA NoSeparatorMore ==
    ASSUME NEW o \in Bytes, ~HasSeparator(o), NEW b \in Byte, b # "semi"
    PROVE  ~HasSeparator(Append(o, b))
<1> DEFINE a == Append(o, b)
<1>1. /\ Len(a) = Len(o) + 1 /\ Len(o) \in Nat /\ a[Len(o) + 1] = b
      /\ \A i \in 1..Len(o) : a[i] = o[i]
  BY Longer, Lengths
<1> HIDE DEF a
<1>2. ASSUME NEW i \in 1..Len(a) PROVE a[i] # "semi"
  <2>1. i \in 1..Len(o) \/ i = Len(o) + 1
    BY <1>1
  <2>2. QED  BY <1>1, <2>1 DEF HasSeparator
<1>3. ~HasSeparator(a)
  BY <1>2 DEF HasSeparator
<1>4. QED  BY Zenon, <1>3 DEF a

\* What is held back and one byte more, read at once.
LEMMA HeldRead ==
    ASSUME NEW s \in Terminals, Idle(s), NEW start \in HeaderStart, NEW o \in Bytes, Clean(o),
           NEW p \in BOOLEAN
    PROVE  LET h == IF p THEN Append(start \o o, "ESC") ELSE start \o o
               v == At(s, OscMode(p), o)
           IN  /\ h \in Bytes /\ v \in Terminals
               /\ \A b \in Byte : Reading(s, Append(h, b)) = Step(v, b)
<1> DEFINE x == start \o o
           h == IF p THEN Append(x, "ESC") ELSE x
           v == At(s, OscMode(p), o)
           w == At(s, "Osc", o)
<1>1. x \in Bytes
  BY HeaderParts
<1>2. Reading(s, x) = w
  BY HeaderRead
<1> HIDE DEF x
<1>3. w \in Terminals /\ w.mode = "Osc" /\ w.osc = o
  BY AtType, ModesDiffer
<1>4. h \in Bytes /\ Reading(s, h) = v
  <2>1. CASE p
    <3>1. Append(x, "ESC") \in Bytes
      BY <1>1, Longer, Symbols
    <3>2. Reading(s, Append(x, "ESC")) = Step(Reading(s, x), "ESC")
      BY <1>1, ReadingOneMore, Symbols
    <3>3. At(w, "OscEscape", o) = At(s, "OscEscape", o)
      BY AtAgain
    <3> HIDE DEF w
    <3>4. Step(w, "ESC") = At(w, "OscEscape", w.osc)
      <4>1. "ESC" \notin {"BEL", "ST", "CAN"} /\ "ESC" \in Byte
        BY Symbols
      <4>2. QED  BY <1>3, <4>1, StepOsc DEF Step
    <3>5. v = At(s, "OscEscape", o)
      BY Zenon, <2>1 DEF OscMode
    <3>6. QED  BY Zenon, <1>2, <1>3, <2>1, <3>1, <3>2, <3>3, <3>4, <3>5
  <2>2. CASE ~p
    <3>1. v = w
      BY Zenon, <2>2 DEF OscMode
    <3>2. QED  BY Zenon, <1>1, <1>2, <2>2, <3>1
  <2>3. QED  BY <2>1, <2>2
<1>5. v \in Terminals
  <2>1. OscMode(p) \in Modes
    BY ModesDiffer DEF OscMode
  <2>2. QED  BY <2>1, AtType
<1> HIDE DEF h, v
<1>6. ASSUME NEW b \in Byte PROVE Reading(s, Append(h, b)) = Step(v, b)
  <2>1. Reading(s, Append(h, b)) = Step(Reading(s, h), b)
    BY <1>4, ReadingOneMore
  <2>2. QED  BY Zenon, <1>4, <2>1
<1>7. QED  BY Zenon, <1>4, <1>5, <1>6 DEF h, v, x

\* What ends a control, as both the filter and the terminal see it.
LEMMA Ends ==
    ASSUME NEW p \in BOOLEAN, NEW t, t.mode = OscMode(p), NEW b,
           EndsOsc(p, b), b # "CAN"
    PROVE  b \in Terminators \/ (t.mode = "OscEscape" /\ b = "bs")
BY DEF EndsOsc, OscMode

LEMMA GoesOn ==
    ASSUME NEW p \in BOOLEAN, NEW d, d.mode = OscMode(p), NEW b, Ahead(d, b), ~EndsOsc(p, b)
    PROVE  b \notin {"BEL", "ST", "CAN"} /\ ~(p /\ b \in {"bs", "ESC"})
BY DEF EndsOsc, OscMode, Ahead, Terminators

\* Both terminals are idle again after the same control, which is no title's.
LEMMA OthersEnd ==
    ASSUME NEW t \in Terminals, NEW d \in Terminals, Alike(t, d), t.osc = d.osc,
           ~HasSeparator(d.osc) \/ CommandOf(d.osc) \notin TitleFields,
           NEW p \in BOOLEAN, t.mode = OscMode(p), d.mode = OscMode(p),
           NEW b \in Byte, EndsOsc(p, b), ~Continues(d, b), NEW limit \in Int
    PROVE  LET t2 == Step(t, b)
               d2 == ReadByte(d, b, limit)
           IN  /\ t2 \in Terminals /\ Alike(t2, d2) /\ Kept(t, t2) /\ Kept(d, d2)
               /\ Idle(t2) /\ Idle(d2)
<1> DEFINE t2 == Step(t, b)
           d2 == ReadByte(d, b, limit)
<1>1. t.mode \in {"Osc", "OscEscape"} /\ d.mode \in {"Osc", "OscEscape"} /\ <<>> \in Bytes
  BY Unjoined DEF OscMode
<1>2. CASE b = "CAN"
  <2>1. t2 = At(t, "Ground", <<>>) /\ d2 = At(d, "Ground", <<>>)
    BY Zenon, <1>1, <1>2, CanceledControl DEF Step
  <2> DEFINE x == At(t, "Ground", <<>>)
             y == At(d, "Ground", <<>>)
  <2>2. x \in Terminals /\ Idle(x) /\ Kept(t, x)
    BY <1>1, AtType, AtKept, ModesDiffer DEF Idle
  <2>3. Idle(y) /\ Kept(d, y)
    BY <1>1, AtType, AtKept, ModesDiffer DEF Idle
  <2>4. Alike(x, y)
    BY <1>1, AtAlike, ModesDiffer
  <2>5. QED  BY Zenon, <2>1, <2>2, <2>3, <2>4
<1>3. CASE b # "CAN"
  <2> DEFINE others == Append(d.others, d.osc)
             x == Performed(t, others, t.titled, t.icon, t.window)
             y == Performed(d, others, d.titled, d.icon, d.window)
  <2>1. t2 = Perform(t, NoLimit) /\ d2 = Perform(d, limit)
    <3>1. b \in Terminators \/ (t.mode = "OscEscape" /\ b = "bs")
      BY <1>3, Ends
    <3>2. b \in Terminators \/ (d.mode = "OscEscape" /\ b = "bs")
      BY <1>3, Ends
    <3>3. ~Continues(t, b)
      BY Zenon DEF Continues
    <3>4. QED  BY Zenon, <1>1, <3>1, <3>2, <3>3, EndedControl DEF Step
  <2>2. t.others = d.others
    BY DEF Alike
  <2>3. t2 = x /\ d2 = y
    BY Zenon, <2>1, <2>2, PerformOther
  <2>4. /\ d.others \in Seq(Bytes) /\ d.osc \in Bytes
        /\ t.titled \in BOOLEAN /\ t.icon \in Bytes /\ t.window \in Bytes
        /\ d.titled \in BOOLEAN /\ d.icon \in Bytes /\ d.window \in Bytes
    BY DEF Terminals
  <2>5. others \in Seq(Bytes)
    BY <2>4
  <2> HIDE DEF others
  <2>6. x \in Terminals /\ Idle(x)
    BY <2>4, <2>5, PerformedType
  <2>7. y \in Terminals /\ Idle(y)
    BY <2>4, <2>5, PerformedType
  <2>8. Alike(x, y) /\ Kept(t, x) /\ Kept(d, y)
    BY DEF Alike, Kept, Performed
  <2>9. QED  BY Zenon, <2>3, <2>6, <2>7, <2>8
<1>4. QED  BY <1>2, <1>3

LEMMA GoingOn ==
    ASSUME NEW t \in Terminals, NEW o, t.osc = o, NEW p \in BOOLEAN, t.mode = OscMode(p),
           NEW limit, NEW b \in Byte, b \notin {"BEL", "ST", "CAN"}, ~(p /\ b \in {"bs", "ESC"})
    PROVE  /\ b = "ESC" => ReadByte(t, b, limit) = At(t, "OscEscape", o)
           /\ b # "ESC" => ReadByte(t, b, limit) =
                 At(t, "Osc", Append(IF p THEN Append(o, "ESC") ELSE o, b))
<1>1. LET q == IF p THEN Append(t.osc, "ESC") ELSE t.osc
      IN  ReadByte(t, b, limit) =
             IF b = "ESC" THEN At(t, "OscEscape", t.osc) ELSE At(t, "Osc", Append(q, b))
  BY Zenon, OscGoesOn
<1>2. QED  BY Zenon, <1>1

LEMMA HeaderByte ==
    ASSUME NEW f, IsFilter(f), f.policy = "MoshPrefix",
           NEW x \in Bytes, NEW p \in BOOLEAN, f.state = OscHeader(x, p),
           NEW s \in Terminals, NEW d \in Terminals, InHeaderOf(x, p, s, d), Alike(s, d),
           NEW b \in Byte, Ahead(d, b)
    PROVE  Calm(f, b, s, d)
<1> DEFINE limit == MAX_REMOTE_TITLE_BYTES
           o == d.osc
           h == IF p THEN Append(x, "ESC") ELSE x
           q == IF p THEN Append(o, "ESC") ELSE o
           v == At(s, OscMode(p), o)
<1>1. PICK start \in HeaderStart : x = start \o o
  BY DEF InHeaderOf
<1>2. /\ Idle(s) /\ d.mode = OscMode(p) /\ Clean(o) /\ ~HasSeparator(o)
      /\ o \in Bytes /\ limit \in Int /\ OscMode(p) \in Modes
      /\ ~Continues(d, b)
  BY FilterAssumption, ModesDiffer DEF InHeaderOf, Terminals, OscMode, Ahead
<1>3. h \in Bytes /\ v \in Terminals /\ \A c \in Byte : Reading(s, Append(h, c)) = Step(v, c)
  <2>1. LET g == IF p THEN Append(start \o o, "ESC") ELSE start \o o
        IN  g \in Bytes /\ v \in Terminals /\ \A c \in Byte : Reading(s, Append(g, c)) = Step(v, c)
    <3>1. Idle(s) /\ o \in Bytes /\ Clean(o)
      BY <1>2
    <3> HIDE DEF o
    <3>2. QED  BY Zenon, <3>1, HeldRead
  <2>2. QED  BY Zenon, <1>1, <2>1
<1>4. /\ v.mode = OscMode(p) /\ v.osc = o /\ Alike(v, d)
      /\ Kept(s, v)
  BY <1>2, AtType, AtKept DEF Alike
<1>5. start \in Bytes /\ q \in Bytes /\ h = start \o q
  <2>1. start \in Bytes
    BY <1>2, StartRead
  <2>2. CASE p
    <3>1. Append(o, "ESC") \in Bytes
      BY <1>2, Longer, Symbols
    <3>2. start \in Bytes /\ o \in Bytes /\ "ESC" \in Byte
      BY <1>2, <2>1, Symbols
    <3>3. Append(start \o o, "ESC") = start \o Append(o, "ESC")
      BY Zenon, <3>2, JoinLonger
    <3>4. QED  BY Zenon, <1>1, <2>1, <2>2, <3>1, <3>3
  <2>3. CASE ~p
    BY Zenon, <1>1, <1>2, <2>1, <2>3
  <2>4. QED  BY <2>2, <2>3
<1>6. ProcessByte(f, b) = IF EndsOsc(p, b) THEN Moved(f, Ground, Append(h, b))
                          ELSE LongerHeader(f, h, b)
  <2>1. ProcessByte(f, b) = InOscHeader(f, b)
    BY Process
  <2>2. f.state.pending = p /\ f.state.bytes = x
    BY DEF OscHeader
  <2>3. HeaderBytes(f.state) = h
    BY Zenon, <2>2 DEF HeaderBytes
  <2>4. QED  BY Zenon, <2>1, <2>2, <2>3 DEF InOscHeader
<1> HIDE DEF h, q, v
<1>7. CASE EndsOsc(p, b)
  <2> DEFINE t2 == Step(v, b)
             d2 == ReadByte(d, b, limit)
  <2>1. ProcessByte(f, b) = Result(In(f, Ground), Append(h, b))
    BY Zenon, <1>6, <1>7, MovedIn
  <2>2. t2 = Reading(s, Append(h, b))
    BY Zenon, <1>3
  <2>3. /\ t2 \in Terminals /\ Alike(t2, d2) /\ Kept(v, t2) /\ Kept(d, d2)
        /\ Idle(t2) /\ Idle(d2)
    BY Zenon, <1>2, <1>3, <1>4, <1>7, OthersEnd
  <2> HIDE DEF t2, d2
  <2>4. Kept(s, t2)
    BY Zenon, <1>4, <2>3 DEF Kept
  <2>5. Follows(Ground, t2, d2)
    BY <2>3 DEF Follows, AtGround, Idle
  <2>6. QED  BY Zenon, <2>1, <2>2, <2>3, <2>4, <2>5, Calmly DEF d2
<1>8. CASE ~EndsOsc(p, b)
  <2> DEFINE d2 == ReadByte(d, b, limit)
             r == Append(q, b)
  <2>1. b \notin {"BEL", "ST", "CAN"} /\ ~(p /\ b \in {"bs", "ESC"})
    BY <1>2, <1>8, GoesOn
  <2>2. d2 = IF b = "ESC" THEN At(d, "OscEscape", o) ELSE At(d, "Osc", r)
    BY Zenon, <1>2, <2>1, OscGoesOn DEF q
  <2>3. Step(v, b) = IF b = "ESC" THEN At(v, "OscEscape", o) ELSE At(v, "Osc", r)
    <3>1. /\ b = "ESC" => Step(v, b) = At(v, "OscEscape", o)
          /\ b # "ESC" => Step(v, b) = At(v, "Osc", Append(IF p THEN Append(o, "ESC") ELSE o, b))
      <4>1. v \in Terminals /\ v.osc = o /\ v.mode = OscMode(p)
        BY Zenon, <1>3, <1>4
      <4> HIDE DEF o
      <4>2. QED  BY <4>1, <2>1, GoingOn DEF Step
    <3>2. QED  BY Zenon, <3>1 DEF q
  <2>4. r \in Bytes /\ Len(r) = Len(q) + 1 /\ Len(q) \in Nat
    BY <1>5, Longer, Lengths
  <2>5. ProcessByte(f, b) = LongerHeader(f, h, b)
    BY Zenon, <1>6, <1>8
  <2>6. Reading(s, <<>>) = s /\ Kept(s, s)
    BY ReadingNothing DEF Kept
  <2>7. /\ OscCommandLength(h) = Len(q) /\ (TitleCommand(h) # {} <=> q \in TitleFields)
        /\ \A c \in TitleCommand(h) : c \in Commands /\ CommandField(c, q)
    <3>1. /\ OscCommandLength(start \o q) = Len(q)
          /\ TitleCommand(start \o q) # {} <=> q \in TitleFields
          /\ \A c \in TitleCommand(start \o q) : c \in Commands /\ CommandField(c, q)
      BY Zenon, <1>5, HeaderParts, HeaderCommand
    <3>2. QED  BY Zenon, <1>5, <3>1
  <2> HIDE DEF d2, r
  <2>8. CASE b = "ESC"
    <3> DEFINE u == At(d, "OscEscape", o)
    <3>1. p = FALSE /\ h = x
      BY <2>1, <2>8 DEF h
    <3>2. LongerHeader(f, h, b) = Result(In(f, OscHeader(x, TRUE)), <<>>)
      BY Zenon, <2>8, <3>1, MovedIn DEF LongerHeader
    <3>3. d2 = u
      BY Zenon, <2>2, <2>8
    <3>4. u.mode = "OscEscape" /\ u.osc = o /\ Alike(s, u) /\ Kept(d, u)
      <4>1. o \in Bytes /\ "OscEscape" \in Modes
        BY Zenon, <1>2, ModesDiffer
      <4> HIDE DEF o
      <4>2. u.mode = "OscEscape" /\ u.osc = o
        BY <4>1, AtType
      <4>3. Kept(d, u)
        BY <4>1, AtKept
      <4>4. Alike(s, u)
        BY <4>1, AtAlike
      <4>5. QED  BY <4>2, <4>3, <4>4
    <3> HIDE DEF u
    <3>5. InHeaderOf(x, TRUE, s, u)
      <4>1. OscMode(TRUE) = "OscEscape"
        BY DEF OscMode
      <4>2. QED  BY Zenon, <1>1, <1>2, <3>4, <4>1 DEF InHeaderOf
    <3>6. Follows(OscHeader(x, TRUE), s, u)
      BY Zenon, <3>5 DEF Follows
    <3>7. QED  BY Zenon, <2>5, <2>6, <3>2, <3>3, <3>4, <3>6, Calmly DEF d2
  <2> DEFINE u == At(d, "Osc", r)
  <2>9. u.mode = "Osc" /\ u.osc = r /\ Alike(s, u) /\ Kept(d, u)
    BY <1>2, <2>4, AtType, AtAlike, AtKept, ModesDiffer
  <2>10. b # "ESC" => d2 = u
    BY Zenon, <2>2
  <2> HIDE DEF u
  <2>11. CASE b = "semi" /\ TitleCommand(h) # {}
    <3> DEFINE c == CHOOSE c \in TitleCommand(h) : TRUE
               st == Title(c, <<>>, FALSE)
    <3>1. c \in TitleCommand(h)
      BY <2>11
    <3>2. c \in Commands /\ CommandField(c, q) /\ q \in TitleFields
      BY Zenon, <2>7, <2>11, <3>1
    <3>3. b # "ESC" /\ b = "semi"
      BY <2>11
    <3>4. LongerHeader(f, h, b) = Result(In(f, st), <<>>)
      BY Zenon, <2>11, <3>3, MovedIn DEF LongerHeader
    <3> HIDE DEF c
    <3>5. u.osc = (q \o Semi) \o <<>>
      <4>1. r = q \o Semi /\ q \o Semi \in Bytes
        BY <1>5, <2>4, <3>3, Longer, Symbols DEF r, Semi
      <4>2. QED  BY <2>9, <4>1, Unjoined
    <3>6. InTitleOf(c, <<>>, FALSE, s, u)
      <4>1. OscMode(FALSE) = "Osc"
        BY DEF OscMode
      <4>2. <<>> \in Bytes /\ Len(<<>>) <= MAX_REMOTE_TITLE_BYTES
        BY FilterAssumption, Unjoined
      <4>3. QED  BY Zenon, <1>2, <2>9, <3>2, <3>5, <4>1, <4>2, CleanEmpty DEF InTitleOf
    <3>7. Follows(st, s, u)
      BY Zenon, <3>2, <3>6, Unjoined DEF Follows
    <3> HIDE DEF st
    <3>8. QED  BY Zenon, <2>5, <2>6, <2>9, <2>10, <3>3, <3>4, <3>7, Calmly DEF d2
  <2>12. CASE /\ ~(b = "semi" /\ TitleCommand(h) # {}) /\ b # "ESC"
              /\ b = "semi" \/ OscCommandLength(h) >= MAX_OSC_COMMAND_BYTES
    <3> DEFINE t == At(v, "Osc", r)
    <3>1. LongerHeader(f, h, b) = Result(In(f, PassthroughOsc(FALSE)), Append(h, b))
      BY Zenon, <2>12, MovedIn DEF LongerHeader
    <3>2. t = Reading(s, Append(h, b))
      BY Zenon, <1>3, <2>3, <2>12
    <3>3. t \in Terminals /\ t.mode = "Osc" /\ t.osc = r /\ Kept(v, t)
      BY <1>3, <2>4, AtType, AtKept, ModesDiffer
    <3>4. Alike(t, u)
      <4>1. Alike(At(v, "Osc", r), At(d, "Osc", r))
        BY <1>3, <1>4, <2>4, AtAlike, ModesDiffer
      <4>2. QED  BY Zenon, <4>1 DEF u
    <3> HIDE DEF t
    <3>5. Kept(s, t)
      BY Zenon, <1>4, <3>3 DEF Kept
    <3>6. CommandOf(r) \notin TitleFields
      <4>1. ~HasSeparator(q)
        <5>1. CASE p
          <6>1. "ESC" # "semi" /\ "ESC" \in Byte
            BY Symbols
          <6>2. ~HasSeparator(Append(o, "ESC"))
            BY <1>2, <6>1, NoSeparatorMore
          <6>3. QED  BY Zenon, <5>1, <6>2 DEF q
        <5>2. CASE ~p
          BY Zenon, <1>2, <5>2 DEF q
        <5>3. QED  BY <5>1, <5>2
      <4>2. CASE b = "semi"
        <5>1. q \notin TitleFields
          BY Zenon, <2>7, <2>12, <4>2
        <5>2. CommandOf(q) = q
          BY <1>5, <4>1, NoSeparator
        <5>3. CommandOf(q) \notin TitleFields
          BY Zenon, <5>1, <5>2
        <5>4. QED  BY <1>5, <5>3, NoTitleKept DEF r
      <4>3. CASE b # "semi"
        <5>1. ~HasSeparator(r)
          BY <1>5, <4>1, <4>3, NoSeparatorMore DEF r
        <5>2. Len(r) >= 2
          <6>1. Len(q) >= MAX_OSC_COMMAND_BYTES
            BY Zenon, <2>7, <2>12, <4>3
          <6>2. QED  BY <2>4, <6>1, FilterAssumption
        <5>3. QED  BY <2>4, <5>1, <5>2, LongHeader
      <4>4. QED  BY <4>2, <4>3
    <3>7. InPassthroughOf(FALSE, t, u)
      BY Zenon, <2>9, <3>3, <3>6 DEF InPassthroughOf, OscMode
    <3>8. Follows(PassthroughOsc(FALSE), t, u)
      BY Zenon, <3>7 DEF Follows
    <3>9. QED
      BY Zenon, <2>5, <2>9, <2>10, <2>12, <3>1, <3>2, <3>3, <3>4, <3>5, <3>8, Calmly DEF d2
  <2>13. CASE /\ ~(b = "semi" /\ TitleCommand(h) # {}) /\ b # "ESC"
              /\ ~(b = "semi" \/ OscCommandLength(h) >= MAX_OSC_COMMAND_BYTES)
    <3> DEFINE y == Append(h, b)
               st == OscHeader(y, FALSE)
    <3>1. LongerHeader(f, h, b) = Result(In(f, st), <<>>)
      BY Zenon, <2>13, MovedIn DEF LongerHeader
    <3>2. y = start \o r /\ y \in Bytes
      <4>1. Append(start \o q, b) = start \o Append(q, b)
        BY <1>5, JoinLonger
      <4>2. y \in Bytes
        BY <1>3, Longer
      <4>3. QED  BY Zenon, <1>5, <4>1, <4>2 DEF r
    <3>3. Clean(r) /\ ~HasSeparator(r)
      <4>1. b # "semi"
        BY <2>13
      <4>2. CASE p
        <5>1. r = Append(Append(o, "ESC"), b)
          BY Zenon, <4>2 DEF r, q
        <5>2. Clean(Append(Append(o, "ESC"), b))
          <6>1. b \notin {"BEL", "ST", "CAN", "ESC", "bs"}
            BY <2>1, <4>2
          <6>2. QED  BY Zenon, <1>2, <6>1, CleanEscape
        <5>3. "ESC" # "semi" /\ "ESC" \in Byte /\ Append(o, "ESC") \in Bytes
          BY <1>2, Symbols, Longer
        <5>4. ~HasSeparator(Append(o, "ESC"))
          BY <1>2, <5>3, NoSeparatorMore
        <5>5. ~HasSeparator(Append(Append(o, "ESC"), b))
          BY <4>1, <5>3, <5>4, NoSeparatorMore
        <5>6. QED  BY Zenon, <5>1, <5>2, <5>5
      <4>3. CASE ~p
        <5>1. r = Append(o, b)
          BY Zenon, <4>3 DEF r, q
        <5>2. Clean(Append(o, b))
          BY <1>2, <2>1, <2>13, CleanAppend
        <5>3. ~HasSeparator(Append(o, b))
          BY <1>2, <4>1, NoSeparatorMore
        <5>4. QED  BY Zenon, <5>1, <5>2, <5>3
      <4>4. QED  BY <4>2, <4>3
    <3> HIDE DEF y
    <3>4. InHeaderOf(y, FALSE, s, u)
      BY Zenon, <1>2, <2>9, <3>2, <3>3 DEF InHeaderOf, OscMode
    <3>5. Follows(st, s, u)
      BY Zenon, <3>2, <3>4 DEF Follows
    <3> HIDE DEF st
    <3>6. QED  BY Zenon, <2>5, <2>6, <2>9, <2>10, <2>13, <3>1, <3>5, Calmly DEF d2
  <2>14. QED  BY <2>8, <2>11, <2>12, <2>13
<1>9. QED  BY <1>7, <1>8


LEMMA PassthroughByte ==
    ASSUME NEW f, IsFilter(f), f.policy = "MoshPrefix",
           NEW p \in BOOLEAN, f.state = PassthroughOsc(p),
           NEW s \in Terminals, NEW d \in Terminals, InPassthroughOf(p, s, d), Alike(s, d),
           NEW b \in Byte, Ahead(d, b)
    PROVE  Calm(f, b, s, d)
<1> DEFINE limit == MAX_REMOTE_TITLE_BYTES
           o == d.osc
           q == IF p THEN Append(o, "ESC") ELSE o
           r == Append(q, b)
           t2 == Step(s, b)
           d2 == ReadByte(d, b, limit)
<1>1. /\ s.mode = OscMode(p) /\ d.mode = OscMode(p) /\ s.osc = o
      /\ CommandOf(o) \notin TitleFields /\ o \in Bytes /\ limit \in Int
  BY FilterAssumption DEF InPassthroughOf, Terminals
<1>0. ~Continues(d, b)
  BY DEF Ahead
<1>2. ProcessByte(f, b) =
        Moved(f, IF EndsOsc(p, b) THEN Ground ELSE PassthroughOsc(b = "ESC"), <<b>>)
  <2>1. ProcessByte(f, b) = InPassthroughOsc(f, b)
    BY Process
  <2>2. f.state.pending = p
    BY DEF PassthroughOsc
  <2>3. QED  BY Zenon, <2>1, <2>2 DEF InPassthroughOsc
<1>3. t2 = Reading(s, <<b>>)
  BY Zenon, ReadOne
<1>4. CASE EndsOsc(p, b)
  <2>1. ProcessByte(f, b) = Result(In(f, Ground), <<b>>)
    BY Zenon, <1>2, <1>4, MovedIn
  <2>2. /\ t2 \in Terminals /\ Alike(t2, d2) /\ Kept(s, t2) /\ Kept(d, d2)
        /\ Idle(t2) /\ Idle(d2)
    BY Zenon, <1>0, <1>1, <1>4, OthersEnd
  <2> HIDE DEF t2, d2
  <2>3. Follows(Ground, t2, d2)
    BY <2>2 DEF Follows, AtGround, Idle
  <2>4. QED  BY Zenon, <1>3, <2>1, <2>2, <2>3, Calmly DEF d2
<1>5. CASE ~EndsOsc(p, b)
  <2>1. b \notin {"BEL", "ST", "CAN"} /\ ~(p /\ b \in {"bs", "ESC"})
    BY <1>1, <1>5, GoesOn
  <2>2. /\ b = "ESC" => t2 = At(s, "OscEscape", o)
        /\ b # "ESC" => t2 = At(s, "Osc", r)
    <3> HIDE DEF o
    <3>1. QED  BY <1>1, <2>1, GoingOn DEF Step
  <2>3. /\ b = "ESC" => d2 = At(d, "OscEscape", o)
        /\ b # "ESC" => d2 = At(d, "Osc", r)
    <3>1. d.osc = o
      OBVIOUS
    <3> HIDE DEF o
    <3>2. QED  BY <1>1, <2>1, <3>1, GoingOn
  <2>4. q \in Bytes /\ r \in Bytes /\ CommandOf(r) \notin TitleFields
    <3>1. o \in Bytes /\ CommandOf(o) \notin TitleFields
      BY Zenon, <1>1
    <3> HIDE DEF o
    <3>2. q \in Bytes /\ CommandOf(q) \notin TitleFields
      <4>1. Append(o, "ESC") \in Bytes /\ CommandOf(Append(o, "ESC")) \notin TitleFields
        BY <3>1, Longer, Symbols, NoTitleKept
      <4>2. QED  BY Zenon, <3>1, <4>1
    <3> HIDE DEF q
    <3>3. QED  BY <3>2, Longer, NoTitleKept
  <2> HIDE DEF q, r, t2, d2
  <2>5. PICK m \in Modes, z \in Bytes :
           /\ t2 = At(s, m, z) /\ d2 = At(d, m, z) /\ m = OscMode(b = "ESC")
           /\ CommandOf(z) \notin TitleFields
    <3>1. CASE b = "ESC"
      <4>1. t2 = At(s, "OscEscape", o) /\ d2 = At(d, "OscEscape", o)
        BY Zenon, <2>2, <2>3, <3>1
      <4>2. OscMode(b = "ESC") = "OscEscape"
        BY Zenon, <3>1 DEF OscMode
      <4>3. QED  BY Zenon, <1>1, <4>1, <4>2, ModesDiffer
    <3>2. CASE b # "ESC"
      <4>1. t2 = At(s, "Osc", r) /\ d2 = At(d, "Osc", r)
        BY Zenon, <2>2, <2>3, <3>2
      <4>2. OscMode(b = "ESC") = "Osc"
        BY Zenon, <3>2 DEF OscMode
      <4>3. QED  BY Zenon, <2>4, <4>1, <4>2, ModesDiffer
    <3>3. QED  BY <3>1, <3>2
  <2> DEFINE t == At(s, m, z)
             u == At(d, m, z)
  <2>6. t \in Terminals /\ t.mode = m /\ t.osc = z /\ u.mode = m /\ u.osc = z
    BY AtType
  <2>7. Kept(s, t) /\ Kept(d, u)
    BY AtKept
  <2>8. Alike(t, u)
    BY AtAlike
  <2> HIDE DEF t, u
  <2>9. PICK e \in BOOLEAN : e = (b = "ESC")
    OBVIOUS
  <2>10. ProcessByte(f, b) = Result(In(f, PassthroughOsc(e)), <<b>>)
    <3>1. Moved(f, PassthroughOsc(e), <<b>>) = Result(In(f, PassthroughOsc(e)), <<b>>)
      BY Zenon, MovedIn
    <3>2. PassthroughOsc(e) = PassthroughOsc(b = "ESC")
      BY <2>9 DEF PassthroughOsc
    <3>3. ProcessByte(f, b) = Moved(f, PassthroughOsc(b = "ESC"), <<b>>)
      BY Zenon, <1>2, <1>5
    <3>4. QED  BY Zenon, <3>1, <3>2, <3>3
  <2>11. InPassthroughOf(e, t, u)
    BY Zenon, <2>5, <2>6, <2>9 DEF InPassthroughOf
  <2>12. Follows(PassthroughOsc(e), t, u)
    BY Zenon, <2>11 DEF Follows
  <2>13. t2 = t /\ d2 = u
    BY Zenon, <2>5 DEF t, u
  <2>14. QED  BY Zenon, <1>3, <2>6, <2>7, <2>8, <2>10, <2>12, <2>13, Calmly DEF d2
<1>6. QED  BY <1>4, <1>5

LEMMA DiscardByte ==
    ASSUME NEW f, IsFilter(f), f.policy = "MoshPrefix",
           NEW p \in BOOLEAN, f.state = DiscardTitle(p),
           NEW s \in Terminals, NEW d \in Terminals, InDiscardOf(p, s, d), Alike(s, d),
           NEW b \in Byte, Ahead(d, b)
    PROVE  Calm(f, b, s, d)
<1> DEFINE limit == MAX_REMOTE_TITLE_BYTES
           o == d.osc
           q == IF p THEN Append(o, "ESC") ELSE o
           r == Append(q, b)
           d2 == ReadByte(d, b, limit)
           LongTitle(osc) == \E field \in TitleFields, title \in Bytes :
              Len(title) > MAX_REMOTE_TITLE_BYTES /\ osc = (field \o Semi) \o title
<1>1. /\ Idle(s) /\ d.mode = OscMode(p) /\ o \in Bytes /\ limit \in Int /\ limit # NoLimit
      /\ LongTitle(o)
  <2>1. limit \in Int /\ limit # NoLimit
    BY FilterAssumption DEF NoLimit
  <2>2. QED  BY Zenon, <2>1 DEF InDiscardOf, Terminals
<1>2. ProcessByte(f, b) =
        Moved(f, IF EndsOsc(p, b) THEN Ground ELSE DiscardTitle(b = "ESC"), <<>>)
  <2>1. ProcessByte(f, b) = InDiscardTitle(f, b)
    BY Process
  <2>2. f.state.pending = p
    BY DEF DiscardTitle
  <2>3. QED  BY Zenon, <2>1, <2>2 DEF InDiscardTitle
<1>3. Reading(s, <<>>) = s /\ Kept(s, s)
  BY ReadingNothing DEF Kept
<1>4. CASE EndsOsc(p, b)
  <2> DEFINE u == At(d, "Ground", <<>>)
  <2>1. ProcessByte(f, b) = Result(In(f, Ground), <<>>)
    BY Zenon, <1>2, <1>4, MovedIn
  <2>2. d.mode \in {"Osc", "OscEscape"}
    BY Zenon, <1>1 DEF OscMode
  <2>3. d2 = u
    <3>1. CASE b = "CAN"
      BY Zenon, <2>2, <3>1, CanceledControl
    <3>2. CASE b # "CAN"
      <4>1. b \in Terminators \/ (d.mode = "OscEscape" /\ b = "bs")
        BY <1>1, <1>4, <3>2, Ends
      <4>2. d2 = Perform(d, limit)
        BY Zenon, <2>2, <4>1, EndedControl DEF Ahead
      <4>3. PICK field \in TitleFields, title \in Bytes :
               Len(title) > limit /\ o = (field \o Semi) \o title
        BY Zenon, <1>1
      <4>4. HasSeparator(o) /\ CommandOf(o) = field /\ TitleOf(o) = title
        BY Zenon, <4>3, TitleParts DEF Semi
      <4>5. Len(title) \in Nat
        BY Lengths
      <4>6. Perform(d, limit) = At(d, "Ground", <<>>)
        BY Zenon, <1>1, <4>3, <4>4, <4>5, PerformTitle
      <4>7. QED  BY Zenon, <4>2, <4>6
    <3>3. QED  BY <3>1, <3>2
  <2> HIDE DEF d2
  <2>4. u.mode = "Ground" /\ u.osc = <<>> /\ Alike(s, u) /\ Kept(d, u)
    BY Unjoined, AtType, AtAlike, AtKept, ModesDiffer
  <2> HIDE DEF u
  <2>5. Follows(Ground, s, u)
    BY <1>1, <2>4 DEF Follows, AtGround, Idle
  <2>6. QED  BY Zenon, <1>3, <2>1, <2>3, <2>4, <2>5, Calmly DEF d2
<1>5. CASE ~EndsOsc(p, b)
  <2>1. b \notin {"BEL", "ST", "CAN"} /\ ~(p /\ b \in {"bs", "ESC"})
    BY <1>1, <1>5, GoesOn
  <2>2. /\ b = "ESC" => d2 = At(d, "OscEscape", o)
        /\ b # "ESC" => d2 = At(d, "Osc", r)
    <3>1. d.osc = o /\ d.mode = OscMode(p)
      BY Zenon, <1>1
    <3> HIDE DEF o
    <3>2. QED  BY <2>1, <3>1, GoingOn
  <2> HIDE DEF o
  <2>3. ASSUME NEW x \in Bytes, LongTitle(x), NEW c \in Byte
        PROVE  Append(x, c) \in Bytes /\ LongTitle(Append(x, c))
    <3>1. PICK field \in TitleFields, title \in Bytes :
             Len(title) > MAX_REMOTE_TITLE_BYTES /\ x = (field \o Semi) \o title
      BY Zenon, <2>3
    <3> DEFINE y == Append(title, c)
               a == field \o Semi
    <3>2. a \in Bytes
      <4>1. field \in Bytes
        BY Symbols, Longer, Unjoined DEF TitleFields
      <4>2. Semi \in Bytes
        BY Symbols, Longer, Unjoined DEF Semi
      <4>3. QED  BY <4>1, <4>2, Join
    <3> HIDE DEF a
    <3>3. y \in Bytes /\ Len(y) = Len(title) + 1 /\ Len(title) \in Nat
      BY Longer, Lengths
    <3>4. Append(a \o title, c) = a \o y
      BY <3>2, JoinLonger
    <3>5. Append(x, c) \in Bytes
      BY Longer
    <3>6. Len(y) > MAX_REMOTE_TITLE_BYTES
      BY <3>1, <3>3, FilterAssumption
    <3> HIDE DEF y
    <3>7. QED  BY Zenon, <3>1, <3>3, <3>4, <3>5, <3>6 DEF a
  <2>4. q \in Bytes /\ LongTitle(q)
    <3>1. Append(o, "ESC") \in Bytes /\ LongTitle(Append(o, "ESC"))
      BY Zenon, <1>1, <2>3, Symbols
    <3>2. QED  BY Zenon, <1>1, <3>1
  <2> HIDE DEF q
  <2>5. r \in Bytes /\ LongTitle(r)
    BY Zenon, <2>3, <2>4
  <2> HIDE DEF r, d2
  <2>6. PICK m \in Modes, z \in Bytes :
           d2 = At(d, m, z) /\ m = OscMode(b = "ESC") /\ LongTitle(z)
    <3>1. CASE b = "ESC"
      <4>1. OscMode(b = "ESC") = "OscEscape"
        BY Zenon, <3>1 DEF OscMode
      <4>2. d2 = At(d, "OscEscape", o)
        BY Zenon, <2>2, <3>1
      <4>3. QED  BY Zenon, <1>1, <4>1, <4>2, ModesDiffer
    <3>2. CASE b # "ESC"
      <4>1. OscMode(b = "ESC") = "Osc"
        BY Zenon, <3>2 DEF OscMode
      <4>2. d2 = At(d, "Osc", r)
        BY Zenon, <2>2, <3>2
      <4>3. QED  BY Zenon, <2>5, <4>1, <4>2, ModesDiffer
    <3>3. QED  BY <3>1, <3>2
  <2> DEFINE u == At(d, m, z)
  <2>7. u.mode = m /\ u.osc = z
    BY AtType
  <2>8. Kept(d, u)
    BY AtKept
  <2>9. Alike(s, u)
    BY AtAlike
  <2> HIDE DEF u
  <2>10. PICK e \in BOOLEAN : e = (b = "ESC")
    OBVIOUS
  <2>11. ProcessByte(f, b) = Result(In(f, DiscardTitle(e)), <<>>)
    <3>1. Moved(f, DiscardTitle(e), <<>>) = Result(In(f, DiscardTitle(e)), <<>>)
      BY Zenon, MovedIn
    <3>2. DiscardTitle(e) = DiscardTitle(b = "ESC")
      BY <2>10 DEF DiscardTitle
    <3>3. ProcessByte(f, b) = Moved(f, DiscardTitle(b = "ESC"), <<>>)
      BY Zenon, <1>2, <1>5
    <3>4. QED  BY Zenon, <3>1, <3>2, <3>3
  <2>12. InDiscardOf(e, s, u)
    BY Zenon, <1>1, <2>6, <2>7, <2>10 DEF InDiscardOf
  <2>13. Follows(DiscardTitle(e), s, u)
    BY Zenon, <2>12 DEF Follows
  <2>14. d2 = u
    BY Zenon, <2>6 DEF u
  <2>15. QED  BY Zenon, <1>3, <2>8, <2>9, <2>11, <2>13, <2>14, Calmly DEF d2
<1>6. QED  BY <1>4, <1>5

EndsTitle(p, b) == (p /\ b = "bs") \/ b \in Terminators

\* A title that goes on, is cancelled, or gets too long.
LEMMA TitleGoesOn ==
    ASSUME NEW f, IsFilter(f), f.policy = "MoshPrefix",
           NEW c \in Commands, NEW x \in Bytes, NEW p \in BOOLEAN, f.state = Title(c, x, p),
           NEW s \in Terminals, NEW d \in Terminals, InTitleOf(c, x, p, s, d), Alike(s, d),
           NEW b \in Byte, Ahead(d, b), ~EndsTitle(p, b)
    PROVE  Calm(f, b, s, d)
<1> DEFINE limit == MAX_REMOTE_TITLE_BYTES
           full == TitleFull(x)
           y == IF p /\ ~full THEN Append(x, "ESC") ELSE x
           w == IF p THEN Append(x, "ESC") ELSE x
           z == Append(w, b)
           o == d.osc
           q == IF p THEN Append(o, "ESC") ELSE o
           r == Append(q, b)
           d2 == ReadByte(d, b, limit)
<1>1. /\ Idle(s) /\ d.mode = OscMode(p) /\ o \in Bytes /\ Clean(x)
      /\ Len(x) <= MAX_REMOTE_TITLE_BYTES
      /\ Len(x) \in Nat /\ MAX_REMOTE_TITLE_BYTES \in Nat
  <2>1. Len(x) \in Nat
    BY Lengths
  <2>2. QED  BY <2>1, FilterAssumption DEF InTitleOf, Terminals
<1>2. PICK field \in TitleFields : CommandField(c, field) /\ o = (field \o Semi) \o x
  BY Zenon DEF InTitleOf
<1>3. f.state.command = c /\ f.state.bytes = x /\ f.state.pending = p
  BY DEF Title
<1>4. ProcessByte(f, b) =
        IF b = "CAN" THEN Moved(f, Ground, <<>>)
        ELSE IF b = "ESC" THEN Moved(f, Title(c, y, TRUE), <<>>)
        ELSE IF (p /\ full) \/ TitleFull(y) THEN Moved(f, DiscardTitle(FALSE), <<>>)
        ELSE Moved(f, Title(c, Append(y, b), FALSE), <<>>)
  <2>1. ProcessByte(f, b) = InTitle(f, b)
    BY Process
  <2>2. ~(p /\ b = "bs") /\ b \notin Terminators
    BY Zenon DEF EndsTitle
  <2>3. QED  BY Zenon, <1>3, <2>1, <2>2 DEF InTitle
<1>5. Reading(s, <<>>) = s /\ Kept(s, s)
  BY ReadingNothing DEF Kept
<1>6. CASE b = "CAN"
  <2> DEFINE u == At(d, "Ground", <<>>)
  <2>1. ProcessByte(f, b) = Result(In(f, Ground), <<>>)
    BY Zenon, <1>4, <1>6, MovedIn
  <2>2. d2 = u
    <3>1. d.mode \in {"Osc", "OscEscape"}
      BY Zenon, <1>1 DEF OscMode
    <3>2. QED  BY Zenon, <1>6, <3>1, CanceledControl
  <2>3. u.mode = "Ground" /\ u.osc = <<>> /\ Alike(s, u) /\ Kept(d, u)
    BY Unjoined, AtType, AtAlike, AtKept, ModesDiffer
  <2> HIDE DEF u, d2
  <2>4. Follows(Ground, s, u)
    BY <1>1, <2>3 DEF Follows, AtGround, Idle
  <2>5. QED  BY Zenon, <1>5, <2>1, <2>2, <2>3, <2>4, Calmly DEF d2
<1>7. CASE b # "CAN"
  <2>1. b \notin {"BEL", "ST", "CAN"} /\ ~(p /\ b \in {"bs", "ESC"})
    BY <1>1, <1>7 DEF EndsTitle, Terminators, Ahead, OscMode
  <2>2. /\ b = "ESC" => d2 = At(d, "OscEscape", o)
        /\ b # "ESC" => d2 = At(d, "Osc", r)
    <3>1. d.osc = o /\ d.mode = OscMode(p)
      BY Zenon, <1>1
    <3> HIDE DEF o
    <3>2. QED  BY <2>1, <3>1, GoingOn
  <2> HIDE DEF o
  <2> DEFINE a == field \o Semi
  <2>3. a \in Bytes
    <3>1. field \in Bytes
      BY Symbols, Longer, Unjoined DEF TitleFields
    <3>2. Semi \in Bytes
      BY Symbols, Longer, Unjoined DEF Semi
    <3>3. QED  BY <3>1, <3>2, Join
  <2>4. o = a \o x
    BY Zenon, <1>2
  <2> HIDE DEF a
  <2>5. /\ w \in Bytes /\ q = a \o w /\ Len(w) \in Nat
        /\ p => Len(w) = Len(x) + 1
        /\ ~p => w = x
    <3>1. /\ Append(x, "ESC") \in Bytes /\ Len(Append(x, "ESC")) = Len(x) + 1
          /\ Append(a \o x, "ESC") = a \o Append(x, "ESC")
      <4>1. "ESC" \in Byte
        BY Symbols
      <4>2. Append(a \o x, "ESC") = a \o Append(x, "ESC")
        BY Zenon, <2>3, <4>1, JoinLonger
      <4>3. QED  BY <4>1, <4>2, Longer
    <3>2. w \in Bytes /\ q = a \o w
      BY Zenon, <2>4, <3>1
    <3>3. Len(w) \in Nat
      BY <3>2, Lengths
    <3>4. QED  BY Zenon, <3>1, <3>2, <3>3
  <2> HIDE DEF q
  <2>6. ~(p /\ full) => y = w
    BY Zenon
  <2> HIDE DEF w, y
  <2>7. z \in Bytes /\ Len(z) = Len(w) + 1 /\ r = a \o z /\ r \in Bytes
    <3>1. z \in Bytes /\ Len(z) = Len(w) + 1
      BY <2>5, Longer
    <3>2. Append(a \o w, b) = a \o z
      BY <2>3, <2>5, JoinLonger
    <3>3. a \o z \in Bytes
      BY <2>3, <3>1, Join
    <3>4. QED  BY Zenon, <2>5, <3>1, <3>2, <3>3
  <2> HIDE DEF z, r, d2
  <2>8. CASE b = "ESC"
    <3> DEFINE u == At(d, "OscEscape", o)
               st == Title(c, x, TRUE)
    <3>1. p = FALSE /\ y = x
      BY <2>1, <2>8 DEF y
    <3>2. ProcessByte(f, b) = Result(In(f, st), <<>>)
      BY Zenon, <1>4, <1>7, <2>8, <3>1, MovedIn
    <3>3. d2 = u
      BY Zenon, <2>2, <2>8
    <3>4. o \in Bytes /\ "OscEscape" \in Modes
      BY Zenon, <1>1, ModesDiffer
    <3>5. u.mode = "OscEscape" /\ u.osc = o
      BY <3>4, AtType
    <3>6. Kept(d, u)
      BY <3>4, AtKept
    <3>7. Alike(s, u)
      BY <3>4, AtAlike
    <3> HIDE DEF u
    <3>8. OscMode(TRUE) = "OscEscape"
      BY DEF OscMode
    <3>9. InTitleOf(c, x, TRUE, s, u)
      BY Zenon, <1>1, <1>2, <3>5, <3>8 DEF InTitleOf
    <3>10. Follows(st, s, u)
      BY Zenon, <3>9 DEF Follows
    <3> HIDE DEF st
    <3>11. QED  BY Zenon, <1>5, <3>2, <3>3, <3>6, <3>7, <3>10, Calmly DEF d2
  <2>9. CASE b # "ESC"
    <3> DEFINE u == At(d, "Osc", r)
    <3>1. d2 = u
      BY Zenon, <2>2, <2>9
    <3>2. r \in Bytes /\ "Osc" \in Modes
      BY Zenon, <2>7, ModesDiffer
    <3>3. u.mode = "Osc" /\ u.osc = r
      BY <3>2, AtType
    <3>4. Kept(d, u)
      BY <3>2, AtKept
    <3>5. Alike(s, u)
      BY <3>2, AtAlike
    <3> HIDE DEF u
    <3>6. OscMode(FALSE) = "Osc"
      BY DEF OscMode
    <3>7. CASE (p /\ full) \/ TitleFull(y)
      <4> DEFINE st == DiscardTitle(FALSE)
      <4>1. ProcessByte(f, b) = Result(In(f, st), <<>>)
        BY Zenon, <1>4, <1>7, <2>9, <3>7, MovedIn
      <4>2. Len(z) > MAX_REMOTE_TITLE_BYTES
        <5>1. CASE p /\ full
          <6>1. Len(x) >= MAX_REMOTE_TITLE_BYTES
            BY <5>1 DEF TitleFull
          <6>2. QED  BY <1>1, <2>5, <2>7, <5>1, <6>1
        <5>2. CASE ~(p /\ full)
          <6>1. TitleFull(w)
            BY Zenon, <2>6, <3>7, <5>2
          <6>2. Len(w) >= MAX_REMOTE_TITLE_BYTES
            BY <6>1 DEF TitleFull
          <6>3. QED  BY <1>1, <2>5, <2>7, <6>2
        <5>3. QED  BY <5>1, <5>2
      <4>3. InDiscardOf(FALSE, s, u)
        BY Zenon, <1>1, <2>7, <3>3, <3>6, <4>2 DEF InDiscardOf, a
      <4>4. Follows(st, s, u)
        BY Zenon, <4>3 DEF Follows
      <4> HIDE DEF st
      <4>5. QED  BY Zenon, <1>5, <3>1, <3>4, <3>5, <4>1, <4>4, Calmly DEF d2
    <3>8. CASE ~((p /\ full) \/ TitleFull(y))
      <4> DEFINE st == Title(c, z, FALSE)
      <4>1. y = w
        BY Zenon, <2>6, <3>8
      <4>2. ProcessByte(f, b) = Result(In(f, st), <<>>)
        BY Zenon, <1>4, <1>7, <2>9, <3>8, <4>1, MovedIn DEF z
      <4>3. Len(z) <= MAX_REMOTE_TITLE_BYTES
        <5>1. ~(Len(w) >= MAX_REMOTE_TITLE_BYTES)
          BY Zenon, <3>8, <4>1 DEF TitleFull
        <5>2. QED  BY <1>1, <2>5, <2>7, <5>1
      <4>4. Clean(z)
        <5>1. CASE p
          <6>1. b \notin {"BEL", "ST", "CAN", "ESC", "bs"}
            BY <2>1, <5>1
          <6>2. Clean(Append(Append(x, "ESC"), b))
            BY Zenon, <1>1, <6>1, CleanEscape
          <6>3. QED  BY Zenon, <5>1, <6>2 DEF z, w
        <5>2. CASE ~p
          <6>1. Clean(Append(x, b))
            BY <1>1, <2>1, <2>9, CleanAppend
          <6>2. QED  BY Zenon, <5>2, <6>1 DEF z, w
        <5>3. QED  BY <5>1, <5>2
      <4>5. InTitleOf(c, z, FALSE, s, u)
        <5>1. u.osc = (field \o Semi) \o z
          BY Zenon, <2>7, <3>3 DEF a
        <5>2. QED  BY Zenon, <1>1, <1>2, <2>7, <3>3, <3>6, <4>3, <4>4, <5>1 DEF InTitleOf
      <4>6. Follows(st, s, u)
        BY Zenon, <2>7, <4>5 DEF Follows
      <4> HIDE DEF st
      <4>7. QED  BY Zenon, <1>5, <3>1, <3>4, <3>5, <4>2, <4>6, Calmly DEF d2
    <3>9. QED  BY <3>7, <3>8
  <2>10. QED  BY <2>8, <2>9
<1>8. QED  BY <1>6, <1>7

(***************************************************************************)
(* The titles.                                                              *)
(***************************************************************************)
\* The titles of the filter are those of the server, and they are displayed.
TitlesFollow(f, s, d, held) ==
    /\ d.titled = f.initialized /\ d.icon = f.icon /\ d.window = f.window
    /\ Clean(f.icon) /\ Clean(f.window)
    /\ f.prefix_active = (held = "Active")
    /\ f.displayed = IF f.initialized THEN Displayed(f) ELSE <<>>
    /\ f.initialized /\ held # "Suspended" =>
          s.icon = Displayed(f)[1] /\ s.window = Displayed(f)[2]
    /\ ~f.initialized => s.window \in {<<>>, <<"shell">>}

LEMMA DisplayedSame ==
    ASSUME NEW f, NEW g, g.prefix_active = f.prefix_active, g.icon = f.icon, g.window = f.window
    PROVE  Displayed(g) = Displayed(f)
BY Zenon DEF Displayed

LEMMA DisplayedPair == \A f : Displayed(f) # <<>>
BY DEF Displayed

\* The filter emits its titles, when they are not on display already.
LEMMA Emission ==
    ASSUME NEW h, IsFilter(h), Clean(h.icon), Clean(h.window), NEW s \in Terminals, Idle(s),
           h.initialized /\ h.displayed = Displayed(h) =>
              s.icon = Displayed(h)[1] /\ s.window = Displayed(h)[2]
    PROVE  /\ EmitTitles(h).filter = Emitted(h)
           /\ LET u == Reading(s, EmitTitles(h).out)
              IN  /\ u \in Terminals /\ Idle(u) /\ u.text = s.text /\ u.others = s.others
                  /\ ~h.initialized => u = s
                  /\ h.initialized => u.icon = Displayed(h)[1] /\ u.window = Displayed(h)[2]
<1> DEFINE u == Reading(s, EmitTitles(h).out)
<1>1. EmitTitles(h).filter = Emitted(h)
  <2>1. \E out : EmitTitles(h) = Result(Emitted(h), out)
    BY EmitFilter
  <2>2. QED  BY Zenon, <2>1, ResultParts
<1>2. /\ u \in Terminals /\ Idle(u) /\ u.text = s.text /\ u.others = s.others
      /\ ~h.initialized => u = s
      /\ h.initialized =>
            \/ u.icon = Displayed(h)[1] /\ u.window = Displayed(h)[2]
            \/ h.displayed = Displayed(h) /\ u = s
  BY Zenon, EmitRead
<1> HIDE DEF u
<1>3. h.initialized => u.icon = Displayed(h)[1] /\ u.window = Displayed(h)[2]
  BY Zenon, <1>2
<1>4. QED  BY Zenon, <1>1, <1>2, <1>3 DEF u

\* What a byte does to the filter and to both terminals.
Followed(f, b, s, d) ==
    LET g == ProcessByte(f, b).filter
        t == Reading(s, ProcessByte(f, b).out)
        u == ReadByte(d, b, MAX_REMOTE_TITLE_BYTES)
    IN  /\ IsFilter(g) /\ g.policy = "MoshPrefix" /\ t \in Terminals
        /\ Follows(g.state, t, u) /\ Alike(t, u) /\ TitlesFollow(g, t, u, "Active")

LEMMA CalmFollowed ==
    ASSUME NEW f, IsFilter(f), f.policy = "MoshPrefix", NEW b, NEW s, NEW d,
           Calm(f, b, s, d), TitlesFollow(f, s, d, "Active")
    PROVE  Followed(f, b, s, d)
<1> DEFINE u == ReadByte(d, b, MAX_REMOTE_TITLE_BYTES)
<1>1. PICK state, out :
         /\ ProcessByte(f, b) = Result(In(f, state), out)
         /\ Reading(s, out) \in Terminals
         /\ Follows(state, Reading(s, out), u)
         /\ Alike(Reading(s, out), u)
         /\ Kept(s, Reading(s, out))
         /\ Kept(d, u)
  BY Zenon DEF Calm
<1> DEFINE t == Reading(s, out)
           g == In(f, state)
<1>2. ProcessByte(f, b).filter = g /\ ProcessByte(f, b).out = out
  BY ZenonT(40), <1>1, ResultParts
<1>3. /\ g.policy = f.policy /\ g.state = state /\ g.initialized = f.initialized
      /\ g.icon = f.icon /\ g.window = f.window
      /\ g.prefix_active = f.prefix_active /\ g.displayed = f.displayed
  BY ZenonT(40), InFields
<1>4. IsFilter(g)
  BY Zenon, InType
<1> HIDE DEF t, g, u
<1>5. Displayed(g) = Displayed(f)
  BY Zenon, <1>3, DisplayedSame
<1>6. /\ u.titled = d.titled /\ u.icon = d.icon /\ u.window = d.window
      /\ t.icon = s.icon /\ t.window = s.window
  BY Zenon, <1>1 DEF Kept, t
<1>7. TitlesFollow(g, t, u, "Active")
  BY Zenon, <1>3, <1>5, <1>6 DEF TitlesFollow
<1>8. QED  BY Zenon, <1>1, <1>2, <1>3, <1>4, <1>7 DEF Followed, t, u

\* The filter with the titles that a control sets.
Retitled(f, icon, window) ==
    [policy |-> f.policy, state |-> Ground, initialized |-> TRUE,
     icon |-> icon, window |-> window, prefix_active |-> f.prefix_active,
     displayed |-> f.displayed]

LEMMA TitleSet ==
    ASSUME NEW f, IsFilter(f), NEW c \in Commands, NEW x \in Bytes, NEW p \in BOOLEAN,
           f.state = Title(c, x, p)
    PROVE  TitleEnds(f) = EmitTitles(Retitled(f, IF c = "Window" THEN f.icon ELSE x,
                                                 IF c = "Icon" THEN f.window ELSE x))
<1> DEFINE icon == IF c = "Window" THEN f.icon ELSE x
           window == IF c = "Icon" THEN f.window ELSE x
           g == [f EXCEPT !.initialized = TRUE, !.icon = icon, !.window = window]
           h == [g EXCEPT !.state = Ground]
<1>1. f.state.command = c /\ f.state.bytes = x
  BY DEF Title
<1>T. PICK yes : yes = TRUE
  OBVIOUS
<1>2. SetRemoteTitle(f, c, x) = g
  BY DEF SetRemoteTitle, IsFilter, In
<1>3. h = Retitled(f, icon, window)
  <2> HIDE DEF icon, window
  <2> DEFINE R(i, w, st) ==
               [policy |-> f.policy, state |-> st, initialized |-> yes,
                icon |-> i, window |-> w, prefix_active |-> f.prefix_active,
                displayed |-> f.displayed]
             g1 == [f EXCEPT !.initialized = yes]
             g2 == [g1 EXCEPT !.icon = icon]
             g3 == [g2 EXCEPT !.window = window]
  <2>1. g1 = R(f.icon, f.window, f.state)
    BY DEF IsFilter, In
  <2> HIDE DEF g1
  <2>2. g2 = R(icon, f.window, f.state)
    BY <2>1
  <2> HIDE DEF g2
  <2>3. g3 = R(icon, window, f.state)
    BY <2>2
  <2> HIDE DEF g3
  <2>4. [g3 EXCEPT !.state = Ground] = R(icon, window, Ground)
    BY <2>3
  <2>5. R(icon, window, Ground) = Retitled(f, icon, window)
    BY Zenon, <1>T DEF Retitled
  <2>6. g = g3
    BY Zenon, <1>T DEF g3, g2, g1
  <2> HIDE DEF g
  <2>7. QED  BY Zenon, <2>4, <2>5, <2>6
<1> HIDE DEF g
<1>4. TitleEnds(f) = EmitTitles(h)
  BY Zenon, <1>1, <1>2 DEF TitleEnds
<1>5. QED  BY Zenon, <1>3, <1>4

LEMMA TitleEnded ==
    ASSUME NEW f, IsFilter(f), f.policy = "MoshPrefix",
           NEW c \in Commands, NEW x \in Bytes, NEW p \in BOOLEAN, f.state = Title(c, x, p),
           NEW d, d.mode = OscMode(p), NEW b \in Byte, Ahead(d, b), EndsTitle(p, b)
    PROVE  ProcessByte(f, b) = TitleEnds(f)
<1>1. ProcessByte(f, b) = InTitle(f, b)
  BY Process
<1>2. f.state.command = c /\ f.state.bytes = x /\ f.state.pending = p
  BY DEF Title
<1>3. CASE p /\ b = "bs"
  BY Zenon, <1>1, <1>2, <1>3 DEF InTitle
<1>4. CASE ~(p /\ b = "bs")
  <2>1. ~p /\ b \in Terminators
    BY <1>4 DEF EndsTitle, Ahead, OscMode, Terminators
  <2>2. InTitle(f, b) = TitleEnds([f EXCEPT !.state.bytes = x])
    BY Zenon, <1>2, <2>1 DEF InTitle
  <2>3. [f EXCEPT !.state.bytes = x] = f
    <3>1. [f.state EXCEPT !.bytes = x] = f.state
      BY DEF Title
    <3>2. [f EXCEPT !.state = f.state] = f
      BY DEF IsFilter, In
    <3>3. QED  BY Zenon, <3>1, <3>2
  <2>4. QED  BY Zenon, <1>1, <2>2, <2>3
<1>5. QED  BY <1>3, <1>4

LEMMA TitleFollowed ==
    ASSUME NEW f, IsFilter(f), f.policy = "MoshPrefix",
           NEW c \in Commands, NEW x \in Bytes, NEW p \in BOOLEAN, f.state = Title(c, x, p),
           NEW s \in Terminals, NEW d \in Terminals, InTitleOf(c, x, p, s, d), Alike(s, d),
           TitlesFollow(f, s, d, "Active"),
           NEW b \in Byte, Ahead(d, b), EndsTitle(p, b)
    PROVE  Followed(f, b, s, d)
<1> DEFINE limit == MAX_REMOTE_TITLE_BYTES
           icon == IF c = "Window" THEN f.icon ELSE x
           window == IF c = "Icon" THEN f.window ELSE x
           h == Retitled(f, icon, window)
           e == Emitted(h)
           t == Reading(s, EmitTitles(h).out)
           u == Performed(d, d.others, TRUE, icon, window)
           o == d.osc
<1>1. /\ Idle(s) /\ d.mode = OscMode(p) /\ Clean(x) /\ Len(x) <= limit /\ limit \in Int
      /\ Len(x) \in Nat
  <2>1. Len(x) \in Nat
    BY Lengths
  <2>2. QED  BY <2>1, FilterAssumption DEF InTitleOf
<1>2. PICK field \in TitleFields : CommandField(c, field) /\ o = (field \o Semi) \o x
  BY Zenon DEF InTitleOf
<1>3. (field = <<"2">> <=> c = "Window") /\ (field = <<"1">> <=> c = "Icon")
  <2>1. <<>> # <<"1">> /\ <<>> # <<"2">>
    OBVIOUS
  <2>2. <<"0">> # <<"1">> /\ <<"0">> # <<"2">> /\ <<"1">> # <<"2">>
    <3>1. \A a, a2 : <<a>> = <<a2>> => a = a2
      OBVIOUS
    <3>2. "0" # "1" /\ "0" # "2" /\ "1" # "2"
      OBVIOUS
    <3>3. QED  BY Zenon, <3>1, <3>2
  <2>3. "IconAndWindow" # "Icon" /\ "IconAndWindow" # "Window" /\ "Icon" # "Window"
    OBVIOUS
  <2>4. \/ c = "IconAndWindow" /\ field \in {<<>>, <<"0">>}
        \/ c = "Icon" /\ field = <<"1">>
        \/ c = "Window" /\ field = <<"2">>
    BY Zenon, <1>2 DEF CommandField
  <2>5. QED  BY Zenon, <2>1, <2>2, <2>3, <2>4
<1>4. d.icon = f.icon /\ d.window = f.window
  BY Zenon DEF TitlesFollow
<1>5. ReadByte(d, b, limit) = u
  <2>1. d.mode \in {"Osc", "OscEscape"} /\ (b \in Terminators \/ (d.mode = "OscEscape" /\ b = "bs"))
    BY <1>1 DEF OscMode, EndsTitle
  <2>2. ReadByte(d, b, limit) = Perform(d, limit)
    BY Zenon, <2>1, EndedControl DEF Ahead
  <2>3. HasSeparator(o) /\ CommandOf(o) = field /\ TitleOf(o) = x
    BY Zenon, <1>2, TitleParts DEF Semi
  <2>4. Perform(d, limit) =
          Performed(d, d.others, TRUE, IF field = <<"2">> THEN d.icon ELSE x,
                                       IF field = <<"1">> THEN d.window ELSE x)
    BY Zenon, <1>1, <2>3, PerformTitle
  <2>5. (IF field = <<"2">> THEN d.icon ELSE x) = icon
    BY Zenon, <1>3, <1>4
  <2>6. (IF field = <<"1">> THEN d.window ELSE x) = window
    BY Zenon, <1>3, <1>4
  <2>7. QED  BY Zenon, <2>2, <2>4, <2>5, <2>6
<1>6. ProcessByte(f, b) = EmitTitles(h)
  <2>1. ProcessByte(f, b) = TitleEnds(f)
    BY Zenon, <1>1, TitleEnded
  <2>2. QED  BY Zenon, <2>1, TitleSet
<1>7. icon \in Bytes /\ window \in Bytes /\ Clean(icon) /\ Clean(window)
  BY Zenon, <1>1 DEF IsFilter, TitlesFollow
<1> HIDE DEF icon, window
<1>8. /\ h.policy = f.policy /\ h.state = Ground /\ h.initialized
      /\ h.icon = icon /\ h.window = window /\ h.prefix_active = f.prefix_active
      /\ h.displayed = f.displayed
  BY DEF Retitled
<1>9. IsFilter(h)
  <2>1. f.policy \in Policies /\ f.prefix_active \in BOOLEAN
    BY Zenon DEF IsFilter
  <2>2. h = In(h, h.state)
    BY DEF Retitled, In
  <2>3. h.initialized \in BOOLEAN
    BY DEF Retitled
  <2> HIDE DEF h
  <2>4. QED  BY Zenon, <1>7, <1>8, <2>1, <2>2, <2>3 DEF IsFilter
<1> HIDE DEF h
<1>10. h.displayed = Displayed(h) => s.icon = Displayed(h)[1] /\ s.window = Displayed(h)[2]
  <2>1. HAVE h.displayed = Displayed(h)
  <2>2. f.displayed # <<>>
    BY Zenon, <1>8, <2>1, DisplayedPair
  <2>3. "Active" # "Suspended"
    OBVIOUS
  <2>4. f.initialized /\ f.displayed = Displayed(f)
        /\ s.icon = Displayed(f)[1] /\ s.window = Displayed(f)[2]
    BY Zenon, <2>2, <2>3 DEF TitlesFollow
  <2>5. QED  BY Zenon, <1>8, <2>1, <2>4
<1>11. /\ EmitTitles(h).filter = e
       /\ t \in Terminals /\ Idle(t) /\ t.text = s.text /\ t.others = s.others
       /\ t.icon = Displayed(h)[1] /\ t.window = Displayed(h)[2]
  BY Zenon, <1>1, <1>7, <1>8, <1>9, <1>10, Emission
<1>12. /\ IsFilter(e) /\ e.policy = h.policy /\ e.state = h.state
       /\ e.initialized = h.initialized /\ e.icon = h.icon /\ e.window = h.window
       /\ e.prefix_active = h.prefix_active /\ e.displayed = Displayed(h)
  BY Zenon, <1>8, <1>9, EmittedType
<1>13. /\ u \in Terminals /\ Idle(u) /\ u.text = d.text /\ u.others = d.others
       /\ u.titled = TRUE /\ u.icon = icon /\ u.window = window
  <2>1. d.others \in Seq(Bytes)
    BY DEF Terminals
  <2>2. icon \in Bytes /\ window \in Bytes
    BY Zenon, <1>7
  <2>3. PICK yes \in BOOLEAN : yes = TRUE
    OBVIOUS
  <2> DEFINE a == Performed(d, d.others, yes, icon, window)
  <2>4. /\ a \in Terminals /\ Idle(a) /\ a.text = d.text /\ a.others = d.others
        /\ a.titled = yes /\ a.icon = icon /\ a.window = window
    BY <2>1, <2>2, PerformedType
  <2>5. QED  BY Zenon, <2>3, <2>4
<1> HIDE DEF e, t, u
<1>14. Alike(t, u)
  BY Zenon, <1>11, <1>13 DEF Alike
<1>15. Follows(Ground, t, u)
  BY <1>11, <1>13 DEF Follows, AtGround, Idle
<1>16. Displayed(e) = Displayed(h)
  BY Zenon, <1>12, DisplayedSame
<1>17. TitlesFollow(e, t, u, "Active")
  <2>1. e.initialized = TRUE
    BY Zenon, <1>8, <1>9, <1>12 DEF IsFilter
  <2>2. f.prefix_active = ("Active" = "Active")
    BY Zenon DEF TitlesFollow
  <2>3. u.titled = e.initialized /\ u.icon = e.icon /\ u.window = e.window
    BY Zenon, <1>8, <1>12, <1>13, <2>1
  <2>4. Clean(e.icon) /\ Clean(e.window) /\ e.prefix_active = ("Active" = "Active")
    BY Zenon, <1>7, <1>8, <1>12, <2>2
  <2>5. e.displayed = IF e.initialized THEN Displayed(e) ELSE <<>>
    BY Zenon, <1>12, <1>16, <2>1
  <2>6. t.icon = Displayed(e)[1] /\ t.window = Displayed(e)[2]
    BY Zenon, <1>11, <1>16
  <2>7. QED  BY Zenon, <2>1, <2>3, <2>4, <2>5, <2>6 DEF TitlesFollow
<1>18. ProcessByte(f, b).filter = e /\ Reading(s, ProcessByte(f, b).out) = t
  BY Zenon, <1>6, <1>11 DEF t
<1>19. e.policy = "MoshPrefix" /\ e.state = Ground
  BY Zenon, <1>8, <1>12
<1>20. QED
  BY Zenon, <1>5, <1>11, <1>12, <1>14, <1>15, <1>17, <1>18, <1>19 DEF Followed

\* The filter and the terminals, one byte later.
LEMMA ByteFollowed ==
    ASSUME NEW f, IsFilter(f), f.policy = "MoshPrefix",
           NEW s \in Terminals, NEW d \in Terminals, Follows(f.state, s, d), Alike(s, d),
           TitlesFollow(f, s, d, "Active"), NEW b \in Byte, Ahead(d, b)
    PROVE  Followed(f, b, s, d)
<1>1. CASE f.state = Ground /\ AtGround(s, d)
  BY Zenon, <1>1, GroundByte, CalmFollowed
<1>2. CASE f.state = Escape /\ InEscapeOf(s, d)
  BY Zenon, <1>2, EscapeByte, CalmFollowed
<1>3. ASSUME NEW x \in Bytes, NEW p \in BOOLEAN, f.state = OscHeader(x, p), InHeaderOf(x, p, s, d)
      PROVE  Followed(f, b, s, d)
  BY Zenon, <1>3, HeaderByte, CalmFollowed
<1>4. ASSUME NEW c \in Commands, NEW x \in Bytes, NEW p \in BOOLEAN,
             f.state = Title(c, x, p), InTitleOf(c, x, p, s, d)
      PROVE  Followed(f, b, s, d)
  <2>1. CASE EndsTitle(p, b)
    BY Zenon, <1>4, <2>1, TitleFollowed
  <2>2. CASE ~EndsTitle(p, b)
    BY Zenon, <1>4, <2>2, TitleGoesOn, CalmFollowed
  <2>3. QED  BY <2>1, <2>2
<1>5. ASSUME NEW p \in BOOLEAN, f.state = PassthroughOsc(p), InPassthroughOf(p, s, d)
      PROVE  Followed(f, b, s, d)
  BY Zenon, <1>5, PassthroughByte, CalmFollowed
<1>6. ASSUME NEW p \in BOOLEAN, f.state = DiscardTitle(p), InDiscardOf(p, s, d)
      PROVE  Followed(f, b, s, d)
  BY Zenon, <1>6, DiscardByte, CalmFollowed
<1>7. QED  BY Zenon, <1>1, <1>2, <1>3, <1>4, <1>5, <1>6 DEF Follows

(***************************************************************************)
(* Two terminals that read the same bytes.                                  *)
(***************************************************************************)
Same(s, d) == s.mode = d.mode /\ s.osc = d.osc /\ Alike(s, d)
Quiet(t) == t.mode \notin {"Osc", "OscEscape"} => t.osc = <<>>

LEMMA SameAt ==
    ASSUME NEW s \in Terminals, NEW d \in Terminals, Alike(s, d), NEW m \in Modes, NEW o \in Bytes,
           m \in {"Osc", "OscEscape"} \/ o = <<>>
    PROVE  Same(At(s, m, o), At(d, m, o)) /\ Quiet(At(s, m, o)) /\ At(s, m, o) \in Terminals
<1> DEFINE t == At(s, m, o)
           u == At(d, m, o)
<1>1. t \in Terminals /\ t.mode = m /\ t.osc = o
  BY AtType
<1>2. u.mode = m /\ u.osc = o
  BY AtType
<1>3. Alike(t, u)
  BY AtAlike
<1> HIDE DEF t, u
<1>4. QED  BY <1>1, <1>2, <1>3 DEF Same, Quiet, t, u

LEMMA SamePrinted ==
    ASSUME NEW s \in Terminals, NEW d \in Terminals, Alike(s, d), s.osc = <<>>, d.osc = <<>>,
           NEW m \in Modes, NEW text \in Bytes
    PROVE  /\ Same(Printed(s, m, text), Printed(d, m, text)) /\ Quiet(Printed(s, m, text))
           /\ Printed(s, m, text) \in Terminals
<1> DEFINE t == Printed(s, m, text)
           u == Printed(d, m, text)
<1>1. t \in Terminals /\ t.mode = m /\ t.osc = <<>>
  BY PrintedType
<1>2. u.mode = m /\ u.osc = <<>>
  BY PrintedType
<1>3. Alike(t, u)
  BY PrintedAlike
<1> HIDE DEF t, u
<1>4. QED  BY Zenon, <1>1, <1>2, <1>3 DEF Same, Quiet, t, u

LEMMA SamePerformed ==
    ASSUME NEW s \in Terminals, NEW d \in Terminals, Same(s, d)
    PROVE  /\ Same(Perform(s, NoLimit), Perform(d, NoLimit)) /\ Quiet(Perform(s, NoLimit))
           /\ Perform(s, NoLimit) \in Terminals
<1> DEFINE t == Perform(s, NoLimit)
           u == Perform(d, NoLimit)
           o == d.osc
<1>1. NoLimit \in Int
  BY DEF NoLimit
<1>2. t \in Terminals /\ Idle(t)
  BY <1>1, PerformType
<1>3. u \in Terminals /\ Idle(u)
  BY <1>1, PerformType
<1>4. s.osc = o /\ s.text = d.text /\ s.others = d.others /\ o \in Bytes
  <2>1. o \in Bytes
    BY DEF Terminals
  <2>2. QED  BY Zenon, <2>1 DEF Same, Alike
<1>5. t.text = u.text /\ t.others = u.others
  <2>1. CASE ~HasSeparator(o) \/ CommandOf(o) \notin TitleFields
    <3>1. t = Performed(s, Append(s.others, s.osc), s.titled, s.icon, s.window)
      BY Zenon, <1>4, <2>1, PerformOther
    <3>2. u = Performed(d, Append(d.others, d.osc), d.titled, d.icon, d.window)
      BY Zenon, <1>4, <2>1, PerformOther
    <3> HIDE DEF t, u
    <3>3. t.text = s.text /\ t.others = Append(s.others, s.osc)
      BY <3>1 DEF Performed
    <3>4. u.text = d.text /\ u.others = Append(d.others, d.osc)
      BY <3>2 DEF Performed
    <3>5. QED  BY Zenon, <1>4, <3>3, <3>4
  <2>2. CASE HasSeparator(o) /\ CommandOf(o) \in TitleFields
    <3> DEFINE title == TitleOf(o)
               field == CommandOf(o)
    <3>1. Len(title) \in Nat
      <4> DEFINE k == Separator(o) + 1
                 n == Len(o)
      <4>1. k \in Int /\ n \in Nat /\ \A i \in k..n : i \in 1..n
        BY <1>4, <2>2, SeparatorFirst, Lengths
      <4> HIDE DEF k
      <4>2. \A i \in k..n : o[i] \in Byte
        BY <1>4, <4>1 DEF Bytes
      <4> HIDE DEF n
      <4>3. SubSeq(o, k, n) \in Seq(Byte)
        BY <4>1, <4>2, SubSeqProperties
      <4>4. title \in Bytes
        BY Zenon, <4>3 DEF TitleOf, Bytes, k, n
      <4> HIDE DEF title
      <4>5. QED  BY <4>4, Lengths
    <3> HIDE DEF title, field
    <3>2. \E i, w : t = Performed(s, s.others, TRUE, i, w)
      <4>1. /\ HasSeparator(s.osc) /\ field \in TitleFields /\ CommandOf(s.osc) = field
            /\ TitleOf(s.osc) = title
        BY Zenon, <1>4, <2>2 DEF title, field
      <4>2. Perform(s, NoLimit) =
              Performed(s, s.others, TRUE, IF field = <<"2">> THEN s.icon ELSE title,
                                           IF field = <<"1">> THEN s.window ELSE title)
        BY Zenon, <1>1, <3>1, <4>1, PerformTitle
      <4>3. QED  BY Zenon, <4>2
    <3>3. \E i, w : u = Performed(d, d.others, TRUE, i, w)
      <4>1. /\ HasSeparator(d.osc) /\ field \in TitleFields /\ CommandOf(d.osc) = field
            /\ TitleOf(d.osc) = title
        BY Zenon, <1>4, <2>2 DEF title, field
      <4>2. Perform(d, NoLimit) =
              Performed(d, d.others, TRUE, IF field = <<"2">> THEN d.icon ELSE title,
                                           IF field = <<"1">> THEN d.window ELSE title)
        BY Zenon, <1>1, <3>1, <4>1, PerformTitle
      <4>3. QED  BY Zenon, <4>2
    <3> HIDE DEF t, u
    <3>4. t.text = s.text /\ t.others = s.others
      BY <3>2 DEF Performed
    <3>5. u.text = d.text /\ u.others = d.others
      BY <3>3 DEF Performed
    <3>6. QED  BY Zenon, <1>4, <3>4, <3>5
  <2>3. QED  BY <2>1, <2>2
<1> HIDE DEF t, u
<1>6. QED  BY Zenon, <1>2, <1>3, <1>5 DEF Same, Quiet, Idle, Alike, t, u

LEMMA SameStep ==
    ASSUME NEW s \in Terminals, NEW d \in Terminals, Same(s, d), Quiet(s),
           NEW b \in Byte
    PROVE  /\ Same(Step(s, b), Step(d, b)) /\ Quiet(Step(s, b)) /\ Step(s, b) \in Terminals
<1> DEFINE m == d.mode
           t == Step(s, b)
           u == Step(d, b)
           G == Same(t, u) /\ Quiet(t) /\ t \in Terminals
<1> SUFFICES G
  OBVIOUS
<1>1. /\ s.mode = m /\ m \in Modes /\ s.osc = d.osc /\ d.osc \in Bytes
      /\ s.text = d.text /\ d.text \in Bytes /\ Alike(s, d) /\ <<>> \in Bytes
  BY Unjoined DEF Same, Alike, Terminals
<1>2. /\ Append(d.text, b) \in Bytes /\ d.text \o <<"ESC", b>> \in Bytes
  <2>1. d.text \in Bytes
    BY Zenon, <1>1
  <2>2. Append(d.text, b) \in Bytes
    BY <2>1, Longer
  <2>3. d.text \o <<"ESC", b>> \in Bytes
    BY Zenon, <2>1, JoinEscape
  <2>4. QED  BY <2>2, <2>3
<1>A. ASSUME NEW n \in Modes, NEW o \in Bytes, n \in {"Osc", "OscEscape"} \/ o = <<>>,
             t = At(s, n, o), u = At(d, n, o)
      PROVE  G
  <2> HIDE DEF t, u
  <2>1. Same(At(s, n, o), At(d, n, o)) /\ Quiet(At(s, n, o)) /\ At(s, n, o) \in Terminals
    BY Zenon, <1>1, <1>A, SameAt
  <2>2. QED  BY Zenon, <1>A, <2>1
<1>B. ASSUME NEW n \in Modes, NEW text \in Bytes, s.osc = <<>>, d.osc = <<>>,
             t = Printed(s, n, text), u = Printed(d, n, text)
      PROVE  G
  <2> HIDE DEF t, u
  <2>1. /\ Same(Printed(s, n, text), Printed(d, n, text)) /\ Quiet(Printed(s, n, text))
        /\ Printed(s, n, text) \in Terminals
    BY Zenon, <1>1, <1>B, SamePrinted
  <2>2. QED  BY Zenon, <1>B, <2>1
<1>3. m \in {"Ground", "Lead", "Escape"} => s.osc = <<>> /\ d.osc = <<>>
  BY <1>1 DEF Quiet
<1>4. CASE m = "Ground"
  <2> DEFINE n == IF b = "lead" THEN "Lead" ELSE "Ground"
             text == Append(d.text, b)
  <2>1. /\ b = "ESC" => t = At(s, "Escape", <<>>) /\ u = At(d, "Escape", <<>>)
        /\ b = "OSC" => t = At(s, "Osc", <<>>) /\ u = At(d, "Osc", <<>>)
        /\ b \notin {"ESC", "OSC"} => t = Printed(s, n, text) /\ u = Printed(d, n, text)
    <3>1. s.mode = "Ground" /\ d.mode = "Ground" /\ s.osc = <<>> /\ d.osc = <<>> /\ s.text = d.text
      BY Zenon, <1>1, <1>3, <1>4
    <3>2. t = IF b = "ESC" THEN At(s, "Escape", s.osc)
              ELSE IF b = "OSC" THEN At(s, "Osc", s.osc)
              ELSE Printed(s, n, Append(s.text, b))
      BY Zenon, <3>1, ReadGround DEF Step
    <3>3. u = IF b = "ESC" THEN At(d, "Escape", d.osc)
              ELSE IF b = "OSC" THEN At(d, "Osc", d.osc)
              ELSE Printed(d, n, text)
      BY Zenon, <3>1, ReadGround DEF Step
    <3> HIDE DEF t, u
    <3>4. "ESC" # "OSC"
      OBVIOUS
    <3>5. QED  BY Zenon, <3>1, <3>2, <3>3, <3>4
  <2>2. n \in Modes /\ text \in Bytes
    BY Zenon, <1>2, ModesDiffer
  <2> HIDE DEF t, u, n, text
  <2>3. QED  BY Zenon, <1>1, <1>3, <1>4, <1>A, <1>B, <2>1, <2>2, ModesDiffer
<1>5. CASE m = "Lead"
  <2> DEFINE n == IF b = "lead" THEN "Lead" ELSE "Ground"
             text == Append(d.text, b)
  <2>1. s.mode = "Lead" /\ d.mode = "Lead" /\ s.osc = <<>> /\ d.osc = <<>> /\ s.text = d.text
    BY Zenon, <1>1, <1>3, <1>5
  <2>2. t = Printed(s, n, text) /\ u = Printed(d, n, text)
    BY Zenon, <2>1, ReadLead DEF Step
  <2>3. n \in Modes
    BY Zenon, ModesDiffer
  <2> HIDE DEF t, u, n, text
  <2>4. QED  BY Zenon, <1>2, <1>B, <2>1, <2>2, <2>3 DEF text
<1>6. CASE m = "Escape"
  <2> DEFINE text == d.text \o <<"ESC", b>>
  <2>1. /\ s.mode = "Escape" /\ d.mode = "Escape" /\ s.osc = <<>> /\ d.osc = <<>>
        /\ s.text = d.text
    BY Zenon, <1>1, <1>3, <1>6
  <2>2. /\ b = "]" => t = At(s, "Osc", <<>>) /\ u = At(d, "Osc", <<>>)
        /\ b = "ESC" => t = s /\ u = d
        /\ b \notin {"]", "ESC"} => t = Printed(s, "Ground", text) /\ u = Printed(d, "Ground", text)
    <3>1. t = IF b = "]" THEN At(s, "Osc", s.osc) ELSE IF b = "ESC" THEN s
              ELSE Printed(s, "Ground", s.text \o <<"ESC", b>>)
      BY Zenon, <2>1, ReadEscape DEF Step
    <3>2. u = IF b = "]" THEN At(d, "Osc", d.osc) ELSE IF b = "ESC" THEN d
              ELSE Printed(d, "Ground", text)
      BY Zenon, <2>1, ReadEscape DEF Step
    <3> HIDE DEF t, u
    <3>3. "]" # "ESC"
      OBVIOUS
    <3>4. QED  BY Zenon, <2>1, <3>1, <3>2, <3>3
  <2> HIDE DEF t, u, text
  <2>3. text \in Bytes
    BY Zenon, <1>2 DEF text
  <2>4. QED  BY Zenon, <1>1, <1>A, <1>B, <2>1, <2>2, <2>3, ModesDiffer
<1>7. CASE m \in {"Osc", "OscEscape"}
  <2> DEFINE o == d.osc
  <2>1. PICK p \in BOOLEAN : d.mode = OscMode(p) /\ s.mode = OscMode(p)
    <3>1. d.mode = OscMode(TRUE) \/ d.mode = OscMode(FALSE)
      BY <1>7 DEF OscMode
    <3>2. QED  BY Zenon, <1>1, <3>1
  <2>2. CASE b = "CAN"
    <3>1. t = At(s, "Ground", <<>>) /\ u = At(d, "Ground", <<>>)
      BY Zenon, <1>1, <1>7, <2>2, CanceledControl DEF Step
    <3> HIDE DEF t, u
    <3>2. QED  BY Zenon, <1>1, <1>A, <3>1, ModesDiffer
  <2>3. CASE b # "CAN" /\ EndsOsc(p, b) /\ ~Continues(d, b)
    <3>1. b \in Terminators \/ (d.mode = "OscEscape" /\ b = "bs")
      BY <2>1, <2>3, Ends
    <3>2. t = Perform(s, NoLimit) /\ u = Perform(d, NoLimit)
      <4>1. ~Continues(s, b)
        BY Zenon, <1>1, <2>3 DEF Continues
      <4>2. QED  BY Zenon, <1>1, <1>7, <2>3, <3>1, <4>1, EndedControl DEF Step
    <3> HIDE DEF t, u
    <3>3. QED  BY Zenon, <3>2, SamePerformed
  <2>4. CASE ~EndsOsc(p, b) /\ ~(p /\ b = "ESC")
    <3> DEFINE r == Append(IF p THEN Append(o, "ESC") ELSE o, b)
    <3>1. b \notin {"BEL", "ST", "CAN"} /\ ~(p /\ b \in {"bs", "ESC"})
      BY <2>4 DEF EndsOsc, Terminators
    <3>2. s.osc = o /\ d.osc = o /\ o \in Bytes
      BY Zenon, <1>1
    <3> HIDE DEF o
    <3>3. /\ b = "ESC" => t = At(s, "OscEscape", o)
          /\ b # "ESC" => t = At(s, "Osc", r)
      BY <2>1, <3>1, <3>2, GoingOn DEF Step
    <3>4. /\ b = "ESC" => u = At(d, "OscEscape", o)
          /\ b # "ESC" => u = At(d, "Osc", r)
      BY <2>1, <3>1, <3>2, GoingOn DEF Step
    <3>5. r \in Bytes
      <4>1. Append(o, "ESC") \in Bytes
        BY <3>2, Longer, Symbols
      <4> DEFINE q == IF p THEN Append(o, "ESC") ELSE o
      <4>2. q \in Bytes
        BY Zenon, <3>2, <4>1
      <4> HIDE DEF q
      <4>3. Append(q, b) \in Bytes
        BY <4>2, Longer
      <4>4. QED  BY Zenon, <4>3 DEF q
    <3> HIDE DEF r, t, u
    <3>6. QED  BY Zenon, <1>A, <3>2, <3>3, <3>4, <3>5, ModesDiffer
  <2>5. CASE p /\ b = "ESC"
    <3>1. s.mode = "OscEscape" /\ d.mode = "OscEscape"
      BY <2>1, <2>5 DEF OscMode
    <3>2. t = At(s, "OscEscape", s.osc) /\ u = At(d, "OscEscape", d.osc)
      BY Zenon, <2>5, <3>1, StepEscapeAgain DEF Step
    <3> HIDE DEF t, u
    <3>3. QED  BY Zenon, <1>1, <1>A, <3>2, ModesDiffer
  <2>6. CASE Continues(d, b)
    <3> DEFINE r == Append(o, b)
    <3>1. Continues(s, b) /\ s.osc = o /\ o \in Bytes
      BY Zenon, <1>1, <2>6 DEF Continues
    <3>2. t = At(s, "Osc", r) /\ u = At(d, "Osc", r)
      BY Zenon, <2>6, <3>1, ContinuedControl DEF Step
    <3>3. r \in Bytes
      BY <3>1, Longer
    <3> HIDE DEF t, u, r
    <3>4. QED  BY Zenon, <1>A, <3>2, <3>3, ModesDiffer
  <2>7. QED  BY Zenon, <2>2, <2>3, <2>4, <2>5, <2>6
<1>8. QED  BY <1>1, <1>4, <1>5, <1>6, <1>7 DEF Modes

(***************************************************************************)
(* The prefix is taken away and put back.                                   *)
(***************************************************************************)
LEMMA FollowsIdle ==
    ASSUME NEW state, NEW s, NEW d, NEW t, Follows(state, s, d), Idle(s), Idle(t)
    PROVE  Follows(state, t, d)
<1>1. CASE state = Ground /\ AtGround(s, d)
  BY <1>1 DEF Follows, AtGround, Idle
<1>2. CASE state = Escape /\ InEscapeOf(s, d)
  BY Zenon, <1>2 DEF Follows, InEscapeOf
<1>3. ASSUME NEW x \in Bytes, NEW p \in BOOLEAN, state = OscHeader(x, p), InHeaderOf(x, p, s, d)
      PROVE  Follows(state, t, d)
  <2>1. InHeaderOf(x, p, t, d)
    BY Zenon, <1>3 DEF InHeaderOf
  <2>2. QED  BY Zenon, <1>3, <2>1 DEF Follows
<1>4. ASSUME NEW c \in Commands, NEW x \in Bytes, NEW p \in BOOLEAN,
             state = Title(c, x, p), InTitleOf(c, x, p, s, d)
      PROVE  Follows(state, t, d)
  <2>1. InTitleOf(c, x, p, t, d)
    BY Zenon, <1>4 DEF InTitleOf
  <2>2. QED  BY Zenon, <1>4, <2>1 DEF Follows
<1>5. ASSUME NEW p \in BOOLEAN, state = PassthroughOsc(p), InPassthroughOf(p, s, d)
      PROVE  Follows(state, t, d)
  <2>1. s.mode = OscMode(p) /\ s.mode = "Ground"
    BY Zenon, <1>5 DEF InPassthroughOf, Idle
  <2>2. QED  BY <2>1 DEF OscMode
<1>6. ASSUME NEW p \in BOOLEAN, state = DiscardTitle(p), InDiscardOf(p, s, d)
      PROVE  Follows(state, t, d)
  <2>1. InDiscardOf(p, t, d)
    BY Zenon, <1>6 DEF InDiscardOf
  <2>2. QED  BY Zenon, <1>6, <2>1 DEF Follows
<1>7. QED  BY Zenon, <1>1, <1>2, <1>3, <1>4, <1>5, <1>6 DEF Follows

\* The terminal of the user is inside a control only while one passes.
LEMMA FollowsGround ==
    ASSUME NEW state, NEW s, NEW d, Follows(state, s, d), s.mode = "Ground"
    PROVE  Idle(s)
<1>1. CASE AtGround(s, d)
  BY Zenon, <1>1 DEF AtGround, Idle
<1>2. CASE Idle(s)
  BY <1>2
<1>3. ASSUME NEW p \in BOOLEAN, InPassthroughOf(p, s, d)
      PROVE  Idle(s)
  BY <1>3 DEF InPassthroughOf, OscMode
<1>4. QED
  BY Zenon, <1>1, <1>2, <1>3 DEF Follows, InEscapeOf, InHeaderOf, InTitleOf, InDiscardOf

Prefixed(f, active) ==
    [policy |-> f.policy, state |-> f.state, initialized |-> f.initialized,
     icon |-> f.icon, window |-> f.window, prefix_active |-> active,
     displayed |-> f.displayed]

LEMMA PrefixMoves ==
    ASSUME NEW f, IsFilter(f), f.policy = "MoshPrefix",
           NEW s \in Terminals, Idle(s), NEW d, Follows(f.state, s, d), Alike(s, d),
           NEW before, TitlesFollow(f, s, d, before),
           NEW after, NEW active \in BOOLEAN, active = (after = "Active"),
           f.prefix_active # active
    PROVE  LET g == WithPrefix(f, active).filter
               t == Reading(s, WithPrefix(f, active).out)
           IN  /\ IsFilter(g) /\ g.policy = "MoshPrefix" /\ t \in Terminals /\ Idle(t)
               /\ Alike(t, d) /\ Follows(g.state, t, d) /\ TitlesFollow(g, t, d, after)
<1> DEFINE h == Prefixed(f, active)
           e == Emitted(h)
           t == Reading(s, EmitTitles(h).out)
<1>1. WithPrefix(f, active) = EmitTitles(h)
  <2>1. [f EXCEPT !.prefix_active = active] = [In(f, f.state) EXCEPT !.prefix_active = active]
    BY Zenon DEF IsFilter
  <2>2. [In(f, f.state) EXCEPT !.prefix_active = active] = h
    BY DEF In, Prefixed
  <2> HIDE DEF h
  <2>3. QED  BY Zenon, <2>1, <2>2 DEF WithPrefix
<1>2. /\ h.policy = f.policy /\ h.state = f.state /\ h.initialized = f.initialized
      /\ h.icon = f.icon /\ h.window = f.window /\ h.prefix_active = active
      /\ h.displayed = f.displayed
  BY DEF Prefixed
<1>3. IsFilter(h)
  <2>1. h = In(h, h.state)
    BY DEF Prefixed, In
  <2> HIDE DEF h
  <2>2. QED  BY Zenon, <1>2, <2>1 DEF IsFilter
<1> HIDE DEF h
<1>4. /\ Clean(h.icon) /\ Clean(h.window)
      /\ f.displayed = IF f.initialized THEN Displayed(f) ELSE <<>>
      /\ f.window \in Bytes
  BY Zenon, <1>2 DEF TitlesFollow, IsFilter
<1>5. Displayed(h) # Displayed(f)
  <2> DEFINE w == MoshPrefix \o f.window
  <2>1. w # f.window
    <3>1. f.window \in Bytes /\ Clean(f.window)
      BY Zenon, <1>2, <1>4
    <3>2. QED  BY <3>1, CleanBefore, Symbols DEF MoshPrefix
  <2> HIDE DEF w
  <2>2. Displayed(h)[2] = IF active THEN w ELSE f.window
    <3>1. Displayed(h)[2] = IF h.prefix_active THEN MoshPrefix \o h.window ELSE h.window
      BY DEF Displayed
    <3>2. QED  BY Zenon, <1>2, <3>1 DEF w
  <2>3. Displayed(f)[2] = IF f.prefix_active THEN w ELSE f.window
    BY DEF Displayed, w
  <2>4. f.prefix_active \in BOOLEAN
    BY Zenon DEF IsFilter
  <2>5. QED  BY Zenon, <2>1, <2>2, <2>3, <2>4
<1>6. ~(h.initialized /\ h.displayed = Displayed(h))
  BY Zenon, <1>2, <1>4, <1>5
<1>7. /\ EmitTitles(h).filter = e
      /\ t \in Terminals /\ Idle(t) /\ t.text = s.text /\ t.others = s.others
      /\ ~h.initialized => t = s
      /\ h.initialized => t.icon = Displayed(h)[1] /\ t.window = Displayed(h)[2]
  BY Zenon, <1>3, <1>4, <1>6, Emission
<1>8. /\ IsFilter(e) /\ e.policy = h.policy /\ e.state = h.state
      /\ e.initialized = h.initialized /\ e.icon = h.icon /\ e.window = h.window
      /\ e.prefix_active = h.prefix_active
      /\ e.displayed = IF h.initialized THEN Displayed(h) ELSE h.displayed
  BY Zenon, <1>3, EmittedType
<1> HIDE DEF e, t
<1>9. Displayed(e) = Displayed(h)
  BY Zenon, <1>8, DisplayedSame
<1>10. Alike(t, d)
  BY Zenon, <1>7 DEF Alike
<1>11. Follows(f.state, t, d)
  BY Zenon, <1>7, FollowsIdle
<1>12. TitlesFollow(e, t, d, after)
  <2>1. d.titled = e.initialized /\ d.icon = e.icon /\ d.window = e.window
    BY Zenon, <1>2, <1>8 DEF TitlesFollow
  <2>2. Clean(e.icon) /\ Clean(e.window) /\ e.prefix_active = (after = "Active")
    BY Zenon, <1>2, <1>4, <1>8
  <2>3. e.displayed = IF e.initialized THEN Displayed(e) ELSE <<>>
    BY Zenon, <1>2, <1>4, <1>8, <1>9
  <2>4. e.initialized => t.icon = Displayed(e)[1] /\ t.window = Displayed(e)[2]
    BY Zenon, <1>7, <1>8, <1>9
  <2>5. ~e.initialized => t.window \in {<<>>, <<"shell">>}
    BY Zenon, <1>2, <1>7, <1>8 DEF TitlesFollow
  <2>6. QED  BY Zenon, <2>1, <2>2, <2>3, <2>4, <2>5 DEF TitlesFollow
<1>13. WithPrefix(f, active).filter = e /\ Reading(s, WithPrefix(f, active).out) = t
  BY Zenon, <1>1, <1>7 DEF t
<1>14. e.policy = "MoshPrefix" /\ e.state = f.state
  BY Zenon, <1>2, <1>8
<1>15. QED  BY Zenon, <1>7, <1>8, <1>10, <1>11, <1>12, <1>13, <1>14

(***************************************************************************)
(* What the server writes.                                                  *)
(***************************************************************************)
LEMMA ItemBytes == Seq(STRING) \subseteq Bytes
<1>1. STRING \subseteq Byte
  BY Zenon DEF Byte
<1>2. QED  BY Zenon, <1>1, SeqMonotonic DEF Bytes


(***************************************************************************)
(* The invariant.                                                           *)
(***************************************************************************)
Sessions == {"Active", "Suspended", "Ended"}

\* The filter, the user's terminal and the one without a filter.
Together(f, s, d, held) ==
    /\ IsFilter(f) /\ s \in Terminals /\ d \in Terminals /\ Alike(s, d)
    /\ f.policy = "MoshPrefix" => Follows(f.state, s, d) /\ TitlesFollow(f, s, d, held)
    /\ f.policy # "MoshPrefix" => Same(s, d) /\ Quiet(s)

\* Until a byte is misread.
TitledInv ==
    /\ session \in Sessions /\ unsent \in Bytes
    /\ ~misread => /\ Together(filter, shown, direct, session)
                   /\ session = "Suspended" => Idle(shown)

LEMMA NewType == NewTerminal \in Terminals /\ Idle(NewTerminal)
<1>1. "Ground" \in Modes /\ <<>> \in Bytes /\ <<>> \in Seq(Bytes)
  BY ModesDiffer, Unjoined
<1>2. FALSE \in BOOLEAN
  OBVIOUS
<1>3. QED  BY <1>1, <1>2 DEF NewTerminal, Terminals, Idle

LEMMA InitTogether ==
    ASSUME NEW policy \in Policies
    PROVE  Together(NewFilter(policy), NewTerminal, NewTerminal, "Active")
<1> DEFINE f == NewFilter(policy)
           n == NewTerminal
<1>1. /\ f.policy = policy /\ f.state = Ground /\ ~f.initialized /\ f.icon = <<>>
      /\ f.window = <<>> /\ f.displayed = <<>>
  BY DEF NewFilter
<1>2. f.prefix_active = (policy = "MoshPrefix")
  BY Zenon DEF NewFilter
<1>3. f = In(f, f.state) /\ f.initialized \in BOOLEAN
  BY DEF NewFilter, In
<1>4. n \in Terminals /\ Idle(n)
  BY NewType
<1>5. ~n.titled /\ n.icon = <<>> /\ n.window = <<>> /\ n.titled \in BOOLEAN
  BY DEF NewTerminal
<1> HIDE DEF f, n
<1>6. <<>> \in Bytes
  BY Unjoined
<1>7. IsFilter(f)
  BY Zenon, <1>1, <1>2, <1>3, <1>6 DEF IsFilter
<1>8. Alike(n, n) /\ Same(n, n) /\ Quiet(n)
  BY Zenon, <1>4 DEF Alike, Same, Quiet, Idle
<1>9. Follows(f.state, n, n)
  BY <1>1, <1>4 DEF Follows, AtGround, Idle
<1>10. policy = "MoshPrefix" => TitlesFollow(f, n, n, "Active")
  <2>1. n.titled = f.initialized
    BY Zenon, <1>1, <1>3, <1>5
  <2>2. f.prefix_active = (policy = "MoshPrefix")
    BY <1>2
  <2>3. QED  BY Zenon, <1>1, <1>5, <2>1, <2>2, CleanEmpty DEF TitlesFollow
<1>11. QED  BY Zenon, <1>1, <1>4, <1>7, <1>8, <1>9, <1>10 DEF Together, f, n

\* One byte of the server's output.
LEMMA ByteTogether ==
    ASSUME NEW f, NEW s, NEW d, Together(f, s, d, "Active"), NEW b \in Byte,
           ~Misreads(f.policy, d, b)
    PROVE  LET g == ProcessByte(f, b).filter
               t == Reading(s, ProcessByte(f, b).out)
               u == ReadByte(d, b, IF f.policy = "MoshPrefix"
                                   THEN MAX_REMOTE_TITLE_BYTES ELSE NoLimit)
           IN  Together(g, t, u, "Active")
<1> DEFINE limit == IF f.policy = "MoshPrefix" THEN MAX_REMOTE_TITLE_BYTES ELSE NoLimit
           g == ProcessByte(f, b).filter
           t == Reading(s, ProcessByte(f, b).out)
           u == ReadByte(d, b, limit)
<1>1. /\ IsFilter(f) /\ s \in Terminals /\ d \in Terminals /\ Alike(s, d)
      /\ f.policy = "MoshPrefix" => Follows(f.state, s, d) /\ TitlesFollow(f, s, d, "Active")
      /\ f.policy # "MoshPrefix" => Same(s, d) /\ Quiet(s)
  BY Zenon DEF Together
<1>2. f.policy = "MoshPrefix" => Ahead(d, b)
  BY Zenon DEF Misreads, Ahead
<1>3. limit \in Int
  BY FilterAssumption DEF NoLimit
<1> HIDE DEF limit
<1>4. u \in Terminals
  BY Zenon, <1>1, <1>3, ReadByteType
<1> HIDE DEF u
<1>5. CASE f.policy = "MoshPrefix"
  <2>1. limit = MAX_REMOTE_TITLE_BYTES
    BY Zenon, <1>5 DEF limit
  <2>2. Followed(f, b, s, d)
    BY Zenon, <1>1, <1>2, <1>5, ByteFollowed
  <2>3. /\ IsFilter(g) /\ g.policy = "MoshPrefix" /\ t \in Terminals
        /\ Follows(g.state, t, u) /\ Alike(t, u) /\ TitlesFollow(g, t, u, "Active")
    BY Zenon, <2>1, <2>2 DEF Followed, u
  <2> HIDE DEF g, t
  <2>4. Together(g, t, u, "Active")
    BY Zenon, <1>4, <2>3 DEF Together
  <2>5. QED  BY Zenon, <2>4 DEF g, t, u, limit
<1>6. CASE f.policy # "MoshPrefix"
  <2>1. ProcessByte(f, b) = Result(f, <<b>>)
    BY Zenon, <1>6 DEF ProcessByte
  <2>2. g = f /\ t = Reading(s, <<b>>)
    BY Zenon, <2>1, ResultParts
  <2>3. Reading(s, <<b>>) = Step(s, b)
    BY Zenon, ReadOne
  <2>4. u = Step(d, b)
    BY Zenon, <1>6 DEF u, limit, Step
  <2>5. Same(Step(s, b), Step(d, b)) /\ Quiet(Step(s, b)) /\ Step(s, b) \in Terminals
    BY Zenon, <1>1, <1>6, SameStep
  <2> HIDE DEF g, t
  <2>6. g = f /\ Same(t, u) /\ Quiet(t) /\ t \in Terminals /\ Alike(t, u)
    BY Zenon, <2>2, <2>3, <2>4, <2>5 DEF Same
  <2>7. Together(g, t, u, "Active")
    BY Zenon, <1>1, <1>4, <1>6, <2>6 DEF Together
  <2>8. QED  BY Zenon, <2>7 DEF g, t, u, limit
<1>7. QED  BY <1>5, <1>6

\* The guard takes the prefix away, or puts it back.
LEMMA PrefixTogether ==
    ASSUME NEW f, NEW s, NEW d, NEW before, NEW after, NEW active \in BOOLEAN,
           Together(f, s, d, before), s.mode = "Ground",
           active = (after = "Active"), (before = "Active") # active
    PROVE  LET g == WithPrefix(f, active).filter
               t == Reading(s, WithPrefix(f, active).out)
           IN  Together(g, t, d, after) /\ Idle(t)
<1> DEFINE g == WithPrefix(f, active).filter
           t == Reading(s, WithPrefix(f, active).out)
<1>1. /\ IsFilter(f) /\ s \in Terminals /\ d \in Terminals /\ Alike(s, d)
      /\ f.policy = "MoshPrefix" => Follows(f.state, s, d) /\ TitlesFollow(f, s, d, before)
      /\ f.policy # "MoshPrefix" => Same(s, d) /\ Quiet(s)
  BY Zenon DEF Together
<1>2. CASE f.policy = "MoshPrefix"
  <2>1. Idle(s)
    BY Zenon, <1>1, <1>2, FollowsGround
  <2>2. f.prefix_active # active
    BY Zenon, <1>1, <1>2 DEF TitlesFollow
  <2>3. /\ IsFilter(g) /\ g.policy = "MoshPrefix" /\ t \in Terminals /\ Idle(t)
        /\ Alike(t, d) /\ Follows(g.state, t, d) /\ TitlesFollow(g, t, d, after)
    BY Zenon, <1>1, <1>2, <2>1, <2>2, PrefixMoves
  <2> HIDE DEF g, t
  <2>4. Together(g, t, d, after)
    BY Zenon, <1>1, <2>3 DEF Together
  <2>5. QED  BY Zenon, <2>3, <2>4 DEF g, t
<1>3. CASE f.policy # "MoshPrefix"
  <2>1. WithPrefix(f, active) = Result(f, <<>>)
    BY Zenon, <1>3 DEF WithPrefix
  <2>2. g = f /\ t = s
    <3>1. PICK out : out = <<>>
      OBVIOUS
    <3>2. WithPrefix(f, active).filter = f /\ WithPrefix(f, active).out = out
      <4>1. WithPrefix(f, active) = Result(f, out)
        BY Zenon, <2>1, <3>1
      <4>2. Result(f, out).filter = f /\ Result(f, out).out = out
        BY ResultParts
      <4>3. QED  BY Zenon, <4>1, <4>2
    <3>3. Reading(s, <<>>) = s
      BY Zenon, ReadingNothing
    <3>4. QED  BY Zenon, <3>1, <3>2, <3>3
  <2>3. Idle(s)
    BY <1>1, <1>3 DEF Quiet, Idle
  <2> HIDE DEF g, t
  <2>4. Together(f, s, d, after)
    BY Zenon, <1>1, <1>3 DEF Together
  <2>5. QED  BY Zenon, <2>2, <2>3, <2>4 DEF g, t
<1>4. QED  BY <1>2, <1>3

\* The shell sets the title of the terminal that the client has left.
LEMMA ShellTogether ==
    ASSUME NEW f, NEW s, NEW d, Together(f, s, d, "Suspended"), Idle(s)
    PROVE  LET t == Reading(s, <<"ESC", "]", "0", "semi", "shell", "BEL">>)
           IN  Together(f, t, d, "Suspended") /\ Idle(t)
<1> DEFINE t == Reading(s, <<"ESC", "]", "0", "semi", "shell", "BEL">>)
           title == <<"shell">>
<1>1. /\ IsFilter(f) /\ s \in Terminals /\ d \in Terminals /\ Alike(s, d)
      /\ f.policy = "MoshPrefix" => Follows(f.state, s, d) /\ TitlesFollow(f, s, d, "Suspended")
      /\ f.policy # "MoshPrefix" => Same(s, d) /\ Quiet(s)
  BY Zenon DEF Together
<1>2. title \in Bytes /\ Clean(title)
  <2>1. <<"shell">> \o <<>> = <<"shell">>
    OBVIOUS
  <2>2. "shell" \in Byte /\ "shell" \notin {"BEL", "ST", "CAN", "ESC"}
    BY Symbols
  <2>3. <<"shell">> \o <<>> \in Bytes /\ Clean(<<"shell">> \o <<>>)
    BY <2>2, Unjoined, CleanEmpty, CleanBefore
  <2>4. QED  BY Zenon, <2>1, <2>3
<1>3. <<"ESC", "]", "0", "semi", "shell", "BEL">> =
        (<<"ESC", "]", "0", "semi">> \o title) \o <<"BEL">>
  OBVIOUS
<1> HIDE DEF title
<1>4. t = Performed(s, s.others, TRUE, title, title)
  <2>1. "0" \in {"0", "1", "2"} /\ "0" # "1" /\ "0" # "2"
    OBVIOUS
  <2>2. Reading(s, (<<"ESC", "]", "0", "semi">> \o title) \o <<"BEL">>) =
          Performed(s, s.others, TRUE, IF "0" = "2" THEN s.icon ELSE title,
                                       IF "0" = "1" THEN s.window ELSE title)
    BY Zenon, <1>1, <1>2, <2>1, TitleRead
  <2>3. QED  BY Zenon, <1>3, <2>1, <2>2
<1> HIDE DEF t
<1>5. t \in Terminals /\ Idle(t) /\ t.text = s.text /\ t.others = s.others /\ t.window = title
  <2>1. s.others \in Seq(Bytes) /\ title \in Bytes
    BY <1>1, <1>2 DEF Terminals
  <2>2. PICK yes \in BOOLEAN : yes = TRUE
    OBVIOUS
  <2> DEFINE a == Performed(s, s.others, yes, title, title)
  <2>3. /\ a \in Terminals /\ Idle(a) /\ a.text = s.text /\ a.others = s.others
        /\ a.window = title
    BY <1>1, <2>1, PerformedType
  <2> HIDE DEF a
  <2>4. t = a
    BY Zenon, <1>4, <2>2 DEF a
  <2>5. QED  BY Zenon, <2>3, <2>4
<1>6. Alike(t, d)
  BY Zenon, <1>1, <1>5 DEF Alike
<1>7. f.policy = "MoshPrefix" => Follows(f.state, t, d) /\ TitlesFollow(f, t, d, "Suspended")
  <2>1. HAVE f.policy = "MoshPrefix"
  <2>2. Follows(f.state, t, d)
    BY Zenon, <1>1, <1>5, <2>1, FollowsIdle
  <2>3. TitlesFollow(f, s, d, "Suspended")
    BY Zenon, <1>1, <2>1
  <2>4. TitlesFollow(f, t, d, "Suspended")
    BY Zenon, <1>5, <2>3 DEF TitlesFollow, title
  <2>5. QED  BY <2>2, <2>4
<1>8. f.policy # "MoshPrefix" => Same(t, d) /\ Quiet(t)
  BY Zenon, <1>1, <1>5, <1>6 DEF Same, Quiet, Idle
<1>9. Together(f, t, d, "Suspended")
  BY Zenon, <1>1, <1>5, <1>6, <1>7, <1>8 DEF Together
<1>10. QED  BY Zenon, <1>5, <1>9 DEF t

(***************************************************************************)
(* The invariant holds.                                                     *)
(***************************************************************************)
LEMMA InvInit == Init => TitledInv
<1> SUFFICES ASSUME Init PROVE TitledInv
  OBVIOUS
<1>1. PICK policy \in Policies : filter = NewFilter(policy)
  BY DEF Init
<1>2. session = "Active" /\ unsent = <<>> /\ shown = NewTerminal /\ direct = NewTerminal
  BY Zenon DEF Init
<1>3. Together(filter, shown, direct, session)
  BY Zenon, <1>1, <1>2, InitTogether
<1>4. session \in Sessions /\ session # "Suspended"
  BY <1>2 DEF Sessions
<1>5. unsent \in Bytes
  BY <1>2, Unjoined
<1>6. QED  BY Zenon, <1>3, <1>4, <1>5 DEF TitledInv

LEMMA InvNext ==
    ASSUME TitledInv, [Next]_vars
    PROVE  TitledInv'
<1>0. /\ session \in Sessions /\ unsent \in Bytes
      /\ ~misread => /\ Together(filter, shown, direct, session)
                     /\ session = "Suspended" => Idle(shown)
  BY Zenon DEF TitledInv
<1>1. ASSUME ServerWrites PROVE TitledInv'
  <2>1. /\ session = "Active" /\ unsent = <<>> /\ UNCHANGED <<filter, session, shown, direct, misread>>
        /\ \E item \in ServerItems : unsent' = item
    BY Zenon, <1>1 DEF ServerWrites
  <2>2. /\ filter' = filter /\ session' = session /\ shown' = shown /\ direct' = direct
        /\ misread' = misread
    BY <2>1
  <2>3. PICK item \in ServerItems : unsent' = item
    BY Zenon, <2>1
  <2>4. unsent' \in Bytes
    BY <2>3, TitledAssumption, ItemBytes
  <2>5. QED  BY Zenon, <1>0, <2>2, <2>4 DEF TitledInv
<1>2. ASSUME WriteServerByte PROVE TitledInv'
  <2> DEFINE b == Head(unsent)
             limit == IF filter.policy = "MoshPrefix" THEN MAX_REMOTE_TITLE_BYTES ELSE NoLimit
  <2>1. /\ session = "Active" /\ unsent # <<>>
        /\ filter' = ProcessByte(filter, b).filter
        /\ shown' = Reading(shown, ProcessByte(filter, b).out)
        /\ direct' = ReadByte(direct, b, limit)
        /\ misread' = (misread \/ Misreads(filter.policy, direct, b))
        /\ unsent' = Tail(unsent)
        /\ UNCHANGED <<session, written, suspensions>>
    BY Zenon, <1>2 DEF WriteServerByte
  <2>2. session' = "Active" /\ session' \in Sessions /\ session' # "Suspended"
    BY <2>1 DEF Sessions
  <2>3. b \in Byte /\ unsent' \in Bytes
    BY <1>0, <2>1 DEF Bytes
  <2>4. ASSUME ~misread' PROVE Together(filter', shown', direct', session')
    <3>1. ~misread /\ ~Misreads(filter.policy, direct, b)
      BY Zenon, <2>1, <2>4
    <3>2. Together(filter, shown, direct, "Active")
      BY Zenon, <1>0, <2>1, <3>1
    <3>3. Together(ProcessByte(filter, b).filter, Reading(shown, ProcessByte(filter, b).out),
                   ReadByte(direct, b, limit), "Active")
      BY Zenon, <2>3, <3>1, <3>2, ByteTogether
    <3> HIDE DEF b, limit
    <3>4. QED  BY Zenon, <2>1, <2>2, <3>3
  <2> HIDE DEF b, limit
  <2>5. QED  BY Zenon, <2>2, <2>3, <2>4 DEF TitledInv
<1>3. ASSUME NEW next \in {"Suspended", "Ended"}, Deactivate(next) PROVE TitledInv'
  <2> DEFINE result == WithPrefix(filter, FALSE)
  <2>1. /\ session = "Active"
        /\ filter' = result.filter /\ shown' = Reading(shown, result.out)
        /\ session' = next /\ misread' = (misread \/ shown.mode # "Ground")
        /\ UNCHANGED <<unsent, written, direct>>
    BY Zenon, <1>3 DEF Deactivate, RestoreRemoteTitle
  <2>2. unsent' = unsent /\ direct' = direct
    BY <2>1
  <2>3. FALSE \in BOOLEAN /\ FALSE = (next = "Active") /\ (session = "Active") # FALSE
    BY <2>1
  <2>4. ASSUME ~misread' PROVE Together(filter', shown', direct', session') /\ Idle(shown')
    <3>1. ~misread /\ shown.mode = "Ground"
      BY Zenon, <2>1, <2>4
    <3>2. Together(result.filter, Reading(shown, result.out), direct, next)
          /\ Idle(Reading(shown, result.out))
      BY Zenon, <1>0, <2>3, <3>1, PrefixTogether
    <3> HIDE DEF result
    <3>3. QED  BY Zenon, <2>1, <2>2, <3>2
  <2>5. session' \in Sessions
    BY <2>1 DEF Sessions
  <2> HIDE DEF result
  <2>6. QED  BY Zenon, <1>0, <2>2, <2>4, <2>5 DEF TitledInv
<1>4. ASSUME ShellTitle PROVE TitledInv'
  <2> DEFINE t == Reading(shown, <<"ESC", "]", "0", "semi", "shell", "BEL">>)
  <2>1. /\ session = "Suspended" /\ shown' = t
        /\ UNCHANGED <<filter, session, unsent, written, suspensions, direct, misread>>
    BY Zenon, <1>4 DEF ShellTitle
  <2>2. /\ filter' = filter /\ session' = session /\ unsent' = unsent /\ direct' = direct
        /\ misread' = misread
    BY <2>1
  <2>3. ~misread => Together(filter, t, direct, "Suspended") /\ Idle(t)
    BY Zenon, <1>0, <2>1, ShellTogether
  <2> HIDE DEF t
  <2>4. ~misread' => Together(filter', shown', direct', session') /\ Idle(shown')
    <3>1. ~misread' => ~misread
      BY <2>2
    <3>2. filter' = filter /\ shown' = t /\ direct' = direct /\ session' = "Suspended"
      BY Zenon, <2>1, <2>2
    <3>3. QED  BY Zenon, <2>3, <3>1, <3>2
  <2>5. QED  BY Zenon, <1>0, <2>2, <2>4 DEF TitledInv
<1>5. ASSUME ResumeAfterSuspend PROVE TitledInv'
  <2> DEFINE result == WithPrefix(filter, TRUE)
  <2>1. /\ session = "Suspended" /\ filter' = result.filter /\ shown' = Reading(shown, result.out)
        /\ session' = "Active" /\ UNCHANGED <<unsent, written, suspensions, direct, misread>>
    BY Zenon, <1>5 DEF ResumeAfterSuspend, ReapplyPolicy
  <2>2. unsent' = unsent /\ direct' = direct /\ misread' = misread
    BY <2>1
  <2>3. TRUE \in BOOLEAN /\ TRUE = ("Active" = "Active") /\ (session = "Active") # TRUE
    BY <2>1
  <2>4. ~misread => Together(result.filter, Reading(shown, result.out), direct, "Active")
    <3>1. ~misread => shown.mode = "Ground"
      BY Zenon, <1>0, <2>1 DEF Idle
    <3>2. QED  BY Zenon, <1>0, <2>3, <3>1, PrefixTogether
  <2> HIDE DEF result
  <2>5. ~misread' => Together(filter', shown', direct', session')
    <3>1. ~misread' => ~misread
      BY <2>2
    <3>2. /\ filter' = result.filter /\ shown' = Reading(shown, result.out)
          /\ direct' = direct /\ session' = "Active"
      BY Zenon, <2>1, <2>2
    <3>3. QED  BY Zenon, <2>4, <3>1, <3>2
  <2>6. session' \in Sessions /\ session' # "Suspended"
    BY <2>1 DEF Sessions
  <2>7. QED  BY Zenon, <1>0, <2>2, <2>5, <2>6 DEF TitledInv
<1>6. ASSUME UNCHANGED vars PROVE TitledInv'
  <2>1. /\ filter' = filter /\ session' = session /\ unsent' = unsent
        /\ shown' = shown /\ direct' = direct /\ misread' = misread
    BY <1>6 DEF vars
  <2>2. QED  BY Zenon, <1>0, <2>1 DEF TitledInv
<1>7. "Suspended" \in {"Suspended", "Ended"} /\ "Ended" \in {"Suspended", "Ended"}
  OBVIOUS
<1>8. QED
  BY Zenon, <1>1, <1>2, <1>3, <1>4, <1>5, <1>6, <1>7 DEF Next, LeaveForSuspend, DropGuard

LEMMA TitledInvariant == Spec => []TitledInv
<1>1. Init => TitledInv
  BY InvInit
<1>2. TitledInv /\ [Next]_vars => TitledInv'
  BY InvNext
<1>3. QED  BY <1>1, <1>2, PTL DEF Spec

\* TitleOutputFilter::process_byte changes titles only: after every byte of any output of
\* the server, cut anywhere, the user's terminal has printed the text and performed the other
\* controls that it would have without the client, through suspensions and to the end.  This
\* lasts until a byte that the filter misreads (Misreads: it knows no UTF-8, so U+201D is one)
\* or a suspension inside a character or a control that passes; MCUtf8Output.cfg,
\* MCEscapedTitle.cfg, MCQuotedTitle.cfg and MCCutPassthrough.cfg show what they do.
THEOREM OutputPreserved == Spec => []OnlyTitlesChange
<1>1. TitledInv => OnlyTitlesChange
  BY Zenon DEF TitledInv, Together, Alike, OnlyTitlesChange, AllOutputPreserved
<1>2. QED  BY <1>1, TitledInvariant, PTL

\* set_remote_title, restore_remote_title and reapply_policy keep the titles right: the
\* terminal shows the server's latest titles with the prefix while the session holds it, and
\* without it at the end, whatever the shell showed in between and wherever the output was
\* cut, until a byte is misread or the client is suspended inside a character or a control
\* that passes.
THEOREM TitlesPrefixed == Spec => []TitlesShown
<1>1. ASSUME TitledInv, ~misread, filter.policy = "MoshPrefix"
      PROVE  LET window == MoshPrefix \o direct.window
                 icon == IF direct.icon = direct.window THEN window ELSE direct.icon
             IN  /\ session = "Active" /\ direct.titled =>
                       shown.icon = icon /\ shown.window = window
                 /\ session = "Ended" /\ direct.titled =>
                       shown.icon = direct.icon /\ shown.window = direct.window
                 /\ ~direct.titled => shown.window \in {<<>>, <<"shell">>}
  <2> DEFINE window == MoshPrefix \o direct.window
             icon == IF direct.icon = direct.window THEN window ELSE direct.icon
  <2>1. TitlesFollow(filter, shown, direct, session)
    BY Zenon, <1>1 DEF TitledInv, Together
  <2>2. /\ direct.titled = filter.initialized
        /\ direct.icon = filter.icon /\ direct.window = filter.window
        /\ filter.prefix_active = (session = "Active")
        /\ filter.initialized /\ session # "Suspended" =>
              shown.icon = Displayed(filter)[1] /\ shown.window = Displayed(filter)[2]
        /\ ~filter.initialized => shown.window \in {<<>>, <<"shell">>}
    BY Zenon, <2>1 DEF TitlesFollow
  <2>3. ~direct.titled => shown.window \in {<<>>, <<"shell">>}
    BY Zenon, <2>2
  <2>4. filter.prefix_active => Displayed(filter)[1] = icon /\ Displayed(filter)[2] = window
    <3>1. HAVE filter.prefix_active
    <3>2. Displayed(filter) = <<icon, window>>
      BY Zenon, <2>2, <3>1 DEF Displayed
    <3> HIDE DEF icon, window
    <3>3. QED  BY <3>2
  <2>5. ~filter.prefix_active =>
           Displayed(filter)[1] = direct.icon /\ Displayed(filter)[2] = direct.window
    <3>1. HAVE ~filter.prefix_active
    <3>2. Displayed(filter) = <<direct.icon, direct.window>>
      BY Zenon, <2>2, <3>1 DEF Displayed
    <3>3. QED  BY <3>2
  <2> HIDE DEF icon, window
  <2>6. session = "Active" /\ direct.titled => shown.icon = icon /\ shown.window = window
    <3>1. "Active" # "Suspended"
      OBVIOUS
    <3>2. QED  BY Zenon, <2>2, <2>4, <3>1
  <2>7. session = "Ended" /\ direct.titled =>
           shown.icon = direct.icon /\ shown.window = direct.window
    <3>1. "Ended" # "Suspended" /\ "Ended" # "Active"
      OBVIOUS
    <3>2. QED  BY Zenon, <2>2, <2>5, <3>1
  <2>8. QED  BY Zenon, <2>3, <2>6, <2>7 DEF icon, window
<1>2. TitledInv => TitlesShown
  BY Zenon, <1>1 DEF TitlesShown, TitlesAlwaysShown
<1>3. QED  BY <1>2, TitledInvariant, PTL
=============================================================================
