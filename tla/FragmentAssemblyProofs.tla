------------------------ MODULE FragmentAssemblyProofs ------------------------
(***************************************************************************)
(* For every fragment size, index width, size limit, table and sequence of     *)
(* messages: what ingest_packet returns is a message as it was sent, and a      *)
(* message whose fragments all reached its accumulator has been returned.     *)
(***************************************************************************)
EXTENDS FragmentAssembly, FiniteSetTheorems, SequenceTheorems, NaturalsInduction,
        WellFoundedInduction, TLAPS

\* The assumptions, one constant at a time.
LEMMA Limits ==
    /\ MAX_FRAGMENT_BODY_BYTES \in Nat /\ MAX_FRAGMENT_BODY_BYTES > 0
    /\ FINAL_FRAGMENT_BIT \in Nat /\ FINAL_FRAGMENT_BIT > 0
    /\ MAXIMUM_REASSEMBLED_BYTES \in Nat /\ MAXIMUM_ACTIVE_ASSEMBLIES \in Nat
    /\ Lengths \in Seq(Nat) /\ Len(Lengths) \in Nat
BY FragmentAssumption

LEMMA LengthType == \A id \in Identifiers : Lengths[id] \in Nat
BY Limits DEF Identifiers

(***************************************************************************)
(* Splitting.                                                               *)
(***************************************************************************)
\* Multiples of the fragment size.
LEMMA Multiples ==
    ASSUME NEW b \in Nat, b > 0, NEW i \in Int, NEW j \in Int
    PROVE  /\ i * b \in Int
           /\ (i + 1) * b = i * b + b
           /\ i <= j => i * b <= j * b
           /\ i \in Nat => i * b \in Nat /\ i <= i * b
<1>1. i * b \in Int /\ (i + 1) * b = i * b + b
  OBVIOUS
<1>2. i <= j => i * b <= j * b
  <2> SUFFICES ASSUME i <= j PROVE i * b <= j * b
    OBVIOUS
  <2>1. PICK d \in Nat : j = i + d
    <3>1. j - i \in Nat /\ j = i + (j - i)
      OBVIOUS
    <3>2. QED  BY <3>1
  <2>2. (i + d) * b = i * b + d * b /\ d * b >= 0 /\ d * b \in Int
    OBVIOUS
  <2>3. QED  BY <1>1, <2>1, <2>2
<1>3. i \in Nat => i * b \in Nat /\ i <= i * b
  <2> SUFFICES ASSUME i \in Nat PROVE i * b \in Nat /\ i <= i * b
    OBVIOUS
  <2>1. PICK c \in Nat : b = c + 1
    <3>1. b - 1 \in Nat /\ b = (b - 1) + 1
      OBVIOUS
    <3>2. QED  BY <3>1
  <2>2. i * (c + 1) = i * c + i /\ i * c \in Nat
    OBVIOUS
  <2>3. QED  BY <2>1, <2>2
<1>4. QED  BY <1>1, <1>2, <1>3

\* The quotient that chunks and div_ceil compute.
LEMMA Rounded ==
    ASSUME NEW b \in Nat, b > 0, NEW n \in Nat, n > 0
    PROVE  LET q == (n + b - 1) \div b
           IN  q \in Nat /\ q > 0 /\ q * b >= n /\ (q - 1) * b < n
<1> DEFINE x == n + b - 1
           q == x \div b
           r == x % b
<1>1. x \in Nat /\ q \in Int /\ r \in 0..(b - 1) /\ x = b * q + r
  OBVIOUS
<1> HIDE DEF q, r
<1>2. b * q = q * b /\ q * b \in Int /\ (q - 1) * b = q * b - b
  BY <1>1
<1>3. q * b >= n /\ (q - 1) * b < n
  BY <1>1, <1>2
<1>4. q > 0
  <2> SUFFICES ASSUME q <= 0 PROVE FALSE
    BY <1>1
  <2>1. q * b <= 0 * b /\ 0 * b = 0
    BY <1>1, Multiples
  <2>2. QED  BY <1>3, <2>1, <1>2
<1>5. q \in Nat
  BY <1>1, <1>4
<1>6. QED  BY <1>3, <1>4, <1>5 DEF q

\* The chunks of a message: all but the last are full.
LEMMA Chunks ==
    ASSUME NEW length \in Nat
    PROVE  /\ ChunkCount(length) \in Nat /\ ChunkCount(length) > 0
           /\ \A i \in Nat : i < ChunkCount(length) <=>
                                i = 0 \/ i * MAX_FRAGMENT_BODY_BYTES < length
<1> DEFINE b == MAX_FRAGMENT_BODY_BYTES
           n == IF length = 0 THEN 1 ELSE length
           q == (n + b - 1) \div b
<1>1. b \in Nat /\ b > 0 /\ n \in Nat /\ n > 0
  BY Limits
<1>2. ChunkCount(length) = q
  BY DEF ChunkCount
<1> HIDE DEF b, n
<1>3. q \in Nat /\ q > 0 /\ q * b >= n /\ (q - 1) * b < n
  BY <1>1, Rounded
<1> HIDE DEF q
<1>4. ASSUME NEW i \in Nat
      PROVE  i < q <=> i = 0 \/ i * b < length
  <2>1. i * b \in Nat /\ i <= i * b /\ q * b \in Int /\ (q - 1) * b \in Int
    BY <1>1, <1>3, Multiples
  <2>2. CASE i < q
    <3>1. i <= q - 1 /\ q - 1 \in Int
      BY <1>3, <2>2
    <3>2. i * b <= (q - 1) * b
      BY <1>1, <3>1, Multiples
    <3>3. i * b < n
      BY <1>1, <1>3, <2>1, <3>2
    <3>4. QED  BY <2>1, <2>2, <3>3 DEF n
  <2>3. CASE i >= q
    <3>1. q * b <= i * b
      BY <1>1, <1>3, <2>3, Multiples
    <3>2. i * b >= n /\ i # 0
      BY <1>1, <1>3, <2>1, <2>3, <3>1
    <3>3. QED  BY <1>1, <1>3, <2>1, <2>3, <3>2 DEF n
  <2>4. QED  BY <1>3, <2>2, <2>3
<1>5. QED  BY <1>2, <1>3, <1>4 DEF b

LEMMA MessageType ==
    ASSUME NEW id \in Identifiers
    PROVE  /\ Message(id) \in Seq({id} \X Nat) /\ Len(Message(id)) = Lengths[id]
           /\ Lengths[id] \in Nat
<1>1. Lengths[id] \in Nat
  BY LengthType
<1>2. \A n \in Nat : /\ [k \in 1 .. n |-> <<id, k>>] \in Seq({id} \X Nat)
                     /\ Len([k \in 1 .. n |-> <<id, k>>]) = n
  OBVIOUS
<1>3. QED  BY <1>1, <1>2 DEF Message

LEMMA CountType ==
    ASSUME NEW id \in Identifiers
    PROVE  /\ Count(id) \in Nat /\ Count(id) > 0
           /\ \A i \in Nat : i < Count(id) <=> i = 0 \/ i * MAX_FRAGMENT_BODY_BYTES < Lengths[id]
BY LengthType, Chunks DEF Count

\* chunks yields as many pieces as were counted.
LEMMA Indexes ==
    ASSUME NEW id \in Identifiers
    PROVE  ChunkIndexes(Message(id)) = 0 .. (Count(id) - 1)
<1>1. /\ Len(Message(id)) = Lengths[id] /\ Lengths[id] \in Nat
      /\ Count(id) \in Nat /\ Count(id) > 0
  BY MessageType, CountType
<1>2. ASSUME NEW i \in Nat
      PROVE  i * MAX_FRAGMENT_BODY_BYTES < Lengths[id] => i <= Lengths[id]
  <2>1. i * MAX_FRAGMENT_BODY_BYTES \in Nat /\ i <= i * MAX_FRAGMENT_BODY_BYTES
    BY Limits, Multiples
  <2>2. QED  BY <1>1, <2>1
<1>3. ASSUME NEW i \in Nat
      PROVE  i \in ChunkIndexes(Message(id)) <=> i < Count(id)
  <2>1. i \in ChunkIndexes(Message(id)) <=>
           i \in 0 .. Lengths[id] /\ (i = 0 \/ i * MAX_FRAGMENT_BODY_BYTES < Lengths[id])
    BY <1>1 DEF ChunkIndexes
  <2>2. i < Count(id) <=> i = 0 \/ i * MAX_FRAGMENT_BODY_BYTES < Lengths[id]
    BY CountType
  <2>3. i = 0 \/ i * MAX_FRAGMENT_BODY_BYTES < Lengths[id] => i \in 0 .. Lengths[id]
    BY <1>1, <1>2
  <2>4. QED  BY <2>1, <2>2, <2>3
<1>4. ChunkIndexes(Message(id)) \subseteq Nat
  BY <1>1 DEF ChunkIndexes
<1>5. /\ \A i \in Nat : i \in 0 .. (Count(id) - 1) <=> i < Count(id)
      /\ 0 .. (Count(id) - 1) \subseteq Nat
  BY <1>1
<1> DEFINE S == ChunkIndexes(Message(id))
           T == 0 .. (Count(id) - 1)
<1>6. S \subseteq Nat /\ T \subseteq Nat /\ \A i \in Nat : i \in S <=> i \in T
  BY <1>3, <1>4, <1>5
<1> HIDE DEF S, T
<1>7. S = T
  BY <1>6
<1>8. QED  BY <1>7 DEF S, T

\* Where a chunk ends, and how long it is.
End(id, i) == IF (i + 1) * MAX_FRAGMENT_BODY_BYTES < Lengths[id]
              THEN (i + 1) * MAX_FRAGMENT_BODY_BYTES ELSE Lengths[id]

LEMMA ChunkShape ==
    ASSUME NEW id \in Identifiers, NEW i \in 0 .. (Count(id) - 1)
    PROVE  /\ i * MAX_FRAGMENT_BODY_BYTES \in Nat /\ End(id, i) \in Nat
           /\ i * MAX_FRAGMENT_BODY_BYTES <= End(id, i) /\ End(id, i) <= Lengths[id]
           /\ i = Count(id) - 1 => End(id, i) = Lengths[id]
           /\ i # Count(id) - 1 => End(id, i) = (i + 1) * MAX_FRAGMENT_BODY_BYTES
           /\ Chunk(id, i) = SubSeq(Message(id), i * MAX_FRAGMENT_BODY_BYTES + 1, End(id, i))
           /\ Chunk(id, i) \in Seq({id} \X Nat)
           /\ Len(Chunk(id, i)) = End(id, i) - i * MAX_FRAGMENT_BODY_BYTES
<1> DEFINE b == MAX_FRAGMENT_BODY_BYTES
           x == i * b
           y == (i + 1) * b
<1>1. /\ Lengths[id] \in Nat /\ Count(id) \in Nat /\ i \in Nat /\ i + 1 \in Nat /\ b \in Nat /\ b > 0
      /\ Len(Message(id)) = Lengths[id] /\ Message(id) \in Seq({id} \X Nat)
  BY Limits, MessageType, CountType
<1>2. x \in Nat /\ y = x + b /\ y \in Nat
  BY <1>1, Multiples
<1>3. i < Count(id) /\ (i < Count(id) <=> i = 0 \/ x < Lengths[id])
      /\ (i + 1 < Count(id) <=> y < Lengths[id])
  <2>1. i + 1 # 0
    BY <1>1
  <2>2. QED  BY <1>1, <2>1, CountType
<1>4. i = 0 => x = 0
  <2>1. 0 * b = 0
    BY <1>1
  <2>2. QED  BY <2>1
<1>5. Chunk(id, i) = SubSeq(Message(id), x + 1, End(id, i))
  BY <1>1 DEF Chunk, Fragment, End
<1>6. End(id, i) = IF y < Lengths[id] THEN y ELSE Lengths[id]
  BY DEF End
<1> HIDE DEF b, x, y
<1>7. /\ End(id, i) \in Nat /\ x <= End(id, i) /\ End(id, i) <= Lengths[id]
      /\ i = Count(id) - 1 => End(id, i) = Lengths[id]
      /\ i # Count(id) - 1 => End(id, i) = y
  BY <1>1, <1>2, <1>3, <1>4, <1>6
<1>8. /\ Chunk(id, i) \in Seq({id} \X Nat) /\ Len(Chunk(id, i)) = End(id, i) - x
  <2> DEFINE m == x + 1
             n == End(id, i)
             s == Message(id)
  <2>1. m \in 1 .. (Len(s) + 1) /\ n \in (m - 1) .. Len(s) /\ n - m + 1 = n - x
    BY <1>1, <1>2, <1>7
  <2> HIDE DEF m, n, s
  <2>2. SubSeq(s, m, n) \in Seq({id} \X Nat) /\ Len(SubSeq(s, m, n)) = n - m + 1
    <3>1. s \in Seq({id} \X Nat) /\ Len(s) \in Nat
      BY <1>1 DEF s
    <3>2. QED  BY <2>1, <3>1
  <2>3. QED  BY <1>5, <2>1, <2>2 DEF m, n, s
<1>9. QED  BY <1>2, <1>5, <1>7, <1>8 DEF x, y, b

\* encode and parse are inverse to each other on what split produces.
LEMMA ParseEncode ==
    ASSUME NEW id \in Identifiers, Splittable(Lengths[id]), NEW i \in 0 .. (Count(id) - 1),
           NEW f, f = Fragment(id, Message(id), i)
    PROVE  /\ Encode(f).state_id = id /\ Parse(Encode(f)).state_id = id
           /\ Parse(Encode(f)).index = i
           /\ Parse(Encode(f)).body = Chunk(id, i)
           /\ Parse(Encode(f)).is_final = (i = Count(id) - 1)
<1> DEFINE F == FINAL_FRAGMENT_BIT
           final == i + 1 = Count(id)
           word == (i % F) + (IF final THEN F ELSE 0)
<1>1. F \in Nat /\ F > 0 /\ i \in Nat /\ Count(id) \in Nat /\ Count(id) <= F
      /\ Len(Message(id)) = Lengths[id]
  <2>1. Count(id) <= F
    BY DEF Splittable, Count
  <2>2. Count(id) \in Nat /\ Len(Message(id)) = Lengths[id]
    BY CountType, MessageType
  <2>3. F \in Nat /\ F > 0
    BY Limits
  <2>4. i \in Nat
    BY <2>2
  <2>5. QED  BY <2>1, <2>2, <2>3, <2>4
<1>2. i \in 0 .. (F - 1)
  BY <1>1
<1>3. f = [state_id |-> id, index |-> i, is_final |-> final, body |-> Chunk(id, i)]
  BY <1>1 DEF Fragment, Count, Chunk
<1>4. Encode(f) = [state_id |-> id, body |-> Chunk(id, i), word |-> word]
  <2>1. f.state_id = id /\ f.index = i /\ f.body = Chunk(id, i) /\ (f.is_final <=> final)
    <3> HIDE DEF final
    <3>1. QED  BY <1>3
  <2>2. QED  BY Zenon, <2>1 DEF Encode
<1>5. i % F = i
  <2>1. \A w \in Nat : \A k \in 0 .. (w - 1) : k % w = k
    OBVIOUS
  <2>2. QED  BY <1>1, <1>2, <2>1
<1> HIDE DEF F
<1>6. word = i + (IF final THEN F ELSE 0)
  BY <1>5
<1>7. word % F = i /\ (word >= F <=> final)
  <2>1. \A w \in Nat : \A k \in 0 .. (w - 1) : (k + w) % w = k
    OBVIOUS
  <2>2. CASE final
    <3>1. word = i + F
      BY <1>6, <2>2
    <3> HIDE DEF word
    <3>2. QED  BY <1>1, <1>2, <2>1, <2>2, <3>1
  <2>3. CASE ~final
    <3>1. word = i
      BY <1>1, <1>6, <2>3
    <3> HIDE DEF word
    <3>2. QED  BY <1>1, <1>2, <1>5, <2>3, <3>1
  <2>4. QED  BY <2>2, <2>3
<1> HIDE DEF word
<1>8. Parse(Encode(f)) = [state_id |-> id, body |-> Chunk(id, i), index |-> i,
                          is_final |-> word >= F]
  BY <1>4, <1>7 DEF Parse, F
<1>9. (word >= F) = (i = Count(id) - 1)
  <2>1. (word >= F) \in BOOLEAN /\ (i = Count(id) - 1) \in BOOLEAN
    OBVIOUS
  <2>2. final <=> i = Count(id) - 1
    BY <1>1
  <2>3. QED  BY <1>7, <2>1, <2>2
<1>10. QED  BY <1>4, <1>8, <1>9

\* What arrives is a chunk of a message that was sent.
LEMMA Arriving ==
    ASSUME sent \in 0 .. Len(Lengths), NEW packet \in Packets
    PROVE  \E id \in Sendable : \E i \in 0 .. (Count(id) - 1) :
              /\ id \in Identifiers /\ packet.state_id = id /\ Parse(packet).state_id = id
              /\ Parse(packet).index = i /\ Parse(packet).body = Chunk(id, i)
              /\ Parse(packet).is_final = (i = Count(id) - 1)
<1>1. PICK id \in Sendable : packet \in {Encode(f) : f \in Split(id, Message(id))}
  BY DEF Packets, Sendable
<1>2. id \in Identifiers /\ Splittable(Lengths[id])
  BY <1>1, Limits DEF Sendable, Identifiers
<1>3. PICK i \in ChunkIndexes(Message(id)) : packet = Encode(Fragment(id, Message(id), i))
  BY <1>1 DEF Split
<1>4. i \in 0 .. (Count(id) - 1)
  BY <1>2, <1>3, Indexes
<1>5. QED  BY <1>1, <1>2, <1>3, <1>4, ParseEncode

(***************************************************************************)
(* Assembling.  FlattenSeq is a recursive function; what it computes for the   *)
(* chunks of a message is shown by induction.                                *)
(***************************************************************************)
LEMMA Induction ==
    ASSUME NEW S, 0 \in S, \A n \in Nat : n \in S => n + 1 \in S
    PROVE  Nat \subseteq S
<1> DEFINE T == Nat \ S
<1> SUFFICES ASSUME T # {} PROVE FALSE
  OBVIOUS
<1>1. PICK k \in T : \A j \in T : ~(<<j, k>> \in OpToRel(<, Nat))
  BY WFMin, NatLessThanWellFounded
<1>2. \A j \in T : ~(j < k)
  BY <1>1 DEF OpToRel
<1>3. k \in Nat /\ k # 0
  BY <1>1
<1>4. k - 1 \in Nat /\ k - 1 < k /\ (k - 1) + 1 = k
  BY <1>3
<1>5. k - 1 \in S
  BY <1>2, <1>4
<1>6. QED  BY <1>1, <1>4, <1>5

\* The message up to the end of its n-th chunk.
Upto(id, n) == SubSeq(Message(id), 1, End(id, n - 1))

LEMMA FirstChunk ==
    ASSUME NEW id \in Identifiers
    PROVE  Upto(id, 1) = Chunk(id, 0)
<1>1. 0 \in 0 .. (Count(id) - 1)
  BY CountType
<1>2. Chunk(id, 0) = SubSeq(Message(id), 0 * MAX_FRAGMENT_BODY_BYTES + 1, End(id, 0))
  BY <1>1, ChunkShape
<1>3. 0 * MAX_FRAGMENT_BODY_BYTES + 1 = 1 /\ 1 - 1 = 0
  BY Limits
<1>4. QED  BY <1>2, <1>3 DEF Upto

LEMMA NextChunk ==
    ASSUME NEW id \in Identifiers, NEW n \in Nat, n > 0, n < Count(id)
    PROVE  Upto(id, n) \o Chunk(id, n) = Upto(id, n + 1)
<1> DEFINE k == n * MAX_FRAGMENT_BODY_BYTES
           e == End(id, n)
           s == Message(id)
<1>1. n \in 0 .. (Count(id) - 1) /\ n - 1 \in 0 .. (Count(id) - 1) /\ n - 1 # Count(id) - 1
      /\ (n - 1) + 1 = n /\ (n + 1) - 1 = n
  BY CountType
<1>2. End(id, n - 1) = k
  <2>1. End(id, n - 1) = ((n - 1) + 1) * MAX_FRAGMENT_BODY_BYTES
    BY <1>1, ChunkShape
  <2>2. QED  BY <1>1, <2>1
<1>3. k \in Nat /\ e \in Nat /\ k <= e /\ e <= Lengths[id]
      /\ Chunk(id, n) = SubSeq(s, k + 1, e)
  BY <1>1, ChunkShape
<1>4. s \in Seq({id} \X Nat) /\ Len(s) = Lengths[id] /\ Lengths[id] \in Nat
  BY MessageType
<1>5. Upto(id, n) = SubSeq(s, 1, k) /\ Upto(id, n + 1) = SubSeq(s, 1, e)
  BY <1>1, <1>2 DEF Upto
<1> HIDE DEF k, e, s
<1>6. 1 \in 1 .. (Len(s) + 1) /\ k \in (1 - 1) .. Len(s) /\ e \in k .. Len(s)
  BY <1>3, <1>4
<1>7. SubSeq(s, 1, k) \o SubSeq(s, k + 1, e) = SubSeq(s, 1, e)
  BY <1>4, <1>6, ConcatAdjacentSubSeq
<1>8. QED  BY <1>3, <1>5, <1>7

\* The chunks of a message, in order, flatten to the message.
LEMMA Flattened ==
    ASSUME NEW id \in Identifiers, NEW seqs,
           seqs = [i \in 1 .. Count(id) |-> Chunk(id, i - 1)]
    PROVE  FlattenSeq(seqs) = Message(id)
<1> DEFINE N == Count(id)
           Flattens(f) == f = [i \in 1 .. N |-> IF i = 1 THEN seqs[i] ELSE f[i - 1] \o seqs[i]]
           up == [i \in 1 .. N |-> Upto(id, i)]
           f == CHOOSE f : Flattens(f)
<1>1. N \in Nat /\ N > 0
  BY CountType
<1>2. Len(seqs) = N /\ \A i \in 1 .. N : seqs[i] = Chunk(id, i - 1)
  <2>1. \A n \in Nat : Len([i \in 1 .. n |-> Chunk(id, i - 1)]) = n
    OBVIOUS
  <2>2. QED  BY <1>1, <2>1
<1>3. /\ 1 \in 1 .. N /\ 1 - 1 = 0
      /\ \A i \in 1 .. N : i # 1 => /\ i - 1 \in 1 .. N /\ i - 1 \in Nat /\ i - 1 > 0
                                    /\ i - 1 < N /\ (i - 1) + 1 = i
  BY <1>1
<1>4. ASSUME NEW i \in 1 .. N
      PROVE  up[i] = IF i = 1 THEN seqs[i] ELSE up[i - 1] \o seqs[i]
  <2>1. CASE i = 1
    <3>1. up[i] = Upto(id, 1)
      BY <2>1
    <3>2. seqs[i] = Chunk(id, 0)
      BY <1>2, <1>3, <2>1
    <3>3. QED  BY Zenon, <2>1, <3>1, <3>2, FirstChunk
  <2>2. CASE i # 1
    <3>1. i - 1 \in Nat /\ i - 1 > 0 /\ i - 1 < N /\ (i - 1) + 1 = i /\ i - 1 \in 1 .. N
      BY <1>3, <2>2
    <3>2. Upto(id, i - 1) \o Chunk(id, i - 1) = Upto(id, (i - 1) + 1)
      BY <3>1, NextChunk
    <3>3. up[i] = Upto(id, i) /\ up[i - 1] = Upto(id, i - 1) /\ seqs[i] = Chunk(id, i - 1)
      BY <1>2, <3>1
    <3>4. QED  BY Zenon, <2>2, <3>1, <3>2, <3>3
  <2>3. QED  BY <2>1, <2>2
<1>5. Flattens(up)
  <2> DEFINE g == [i \in 1 .. N |-> IF i = 1 THEN seqs[i] ELSE up[i - 1] \o seqs[i]]
  <2>1. \A i \in 1 .. N : up[i] = g[i]
    BY <1>4
  <2>2. up = g
    BY Zenon, <2>1
  <2>3. QED  BY <2>2
<1>6. Flattens(f)
  <2> HIDE DEF Flattens, up
  <2>1. QED  BY <1>5
<1>7. FlattenSeq(seqs) = f[N]
  BY <1>1, <1>2 DEF FlattenSeq
<1>8. /\ f[1] = seqs[1]
      /\ \A i \in 1 .. N : i # 1 => f[i] = f[i - 1] \o seqs[i]
  <2> HIDE DEF f, up, N
  <2>1. f = [i \in 1 .. N |-> IF i = 1 THEN seqs[i] ELSE f[i - 1] \o seqs[i]]
    BY Zenon, <1>6
  <2>2. \A i \in 1 .. N : f[i] = IF i = 1 THEN seqs[i] ELSE f[i - 1] \o seqs[i]
    BY Zenon, <2>1
  <2>3. QED  BY Zenon, <1>3, <2>2
<1> HIDE DEF f, Flattens, up, N
<1> DEFINE S == {n \in Nat : n + 1 <= N => f[n + 1] = Upto(id, n + 1)}
<1>9. 0 \in S
  <2>1. 0 + 1 = 1 /\ seqs[1] = Chunk(id, 0)
    BY <1>2, <1>3
  <2>2. f[0 + 1] = Upto(id, 0 + 1)
    BY Zenon, <1>8, <2>1, FirstChunk
  <2>3. QED  BY <2>2
<1>10. ASSUME NEW n \in Nat, n \in S
       PROVE  n + 1 \in S
  <2> SUFFICES ASSUME (n + 1) + 1 <= N PROVE f[(n + 1) + 1] = Upto(id, (n + 1) + 1)
    OBVIOUS
  <2> DEFINE m == n + 1
  <2>1. /\ m \in Nat /\ m > 0 /\ m < N /\ m + 1 \in 1 .. N /\ m + 1 # 1 /\ (m + 1) - 1 = m
        /\ m <= N
    BY <1>1
  <2>2. f[m] = Upto(id, m)
    BY <1>10, <2>1
  <2> HIDE DEF m
  <2>3. f[m + 1] = f[m] \o seqs[m + 1] /\ seqs[m + 1] = Chunk(id, m)
    <3>1. f[m + 1] = f[(m + 1) - 1] \o seqs[m + 1]
      BY <1>8, <2>1
    <3>2. seqs[m + 1] = Chunk(id, (m + 1) - 1)
      BY <1>2, <2>1
    <3>3. QED  BY Zenon, <2>1, <3>1, <3>2
  <2>4. Upto(id, m) \o Chunk(id, m) = Upto(id, m + 1)
    BY <2>1, NextChunk DEF N
  <2>5. f[m + 1] = Upto(id, m + 1)
    BY Zenon, <2>2, <2>3, <2>4
  <2>6. QED  BY <2>5 DEF m
<1> HIDE DEF S
<1>11. Nat \subseteq S
  BY Zenon, <1>9, <1>10, Induction
<1>12. f[N] = Upto(id, N)
  <2>1. N - 1 \in Nat /\ (N - 1) + 1 = N /\ (N - 1) + 1 <= N
    BY <1>1
  <2>2. f[(N - 1) + 1] = Upto(id, (N - 1) + 1)
    BY <1>11, <2>1 DEF S
  <2>3. QED  BY Zenon, <2>1, <2>2
<1>13. Upto(id, N) = Message(id)
  <2>1. N - 1 \in 0 .. (Count(id) - 1) /\ N - 1 = Count(id) - 1
    BY <1>1 DEF N
  <2>2. End(id, N - 1) = Lengths[id]
    BY <2>1, ChunkShape
  <2>3. SubSeq(Message(id), 1, Len(Message(id))) = Message(id)
    BY MessageType, SubSeqFull
  <2>4. Len(Message(id)) = Lengths[id]
    BY MessageType
  <2>5. QED  BY Zenon, <2>2, <2>3, <2>4 DEF Upto
<1>14. QED  BY Zenon, <1>7, <1>12, <1>13

(***************************************************************************)
(* Accumulators.                                                            *)
(***************************************************************************)
Indices(id) == 0 .. (Count(id) - 1)

LEMMA IndicesFinite ==
    ASSUME NEW id \in Identifiers
    PROVE  /\ IsFiniteSet(Indices(id)) /\ Cardinality(Indices(id)) = Count(id)
           /\ Count(id) - 1 \in Indices(id) /\ Indices(id) \subseteq Nat
           /\ \A i \in Indices(id) : i <= Count(id) - 1
           /\ Count(id) - 1 \in Nat /\ Count(id) - 1 # NoIndex
<1>1. Count(id) \in Nat /\ Count(id) > 0
  BY CountType
<1>2. /\ IsFiniteSet(0 .. (Count(id) - 1))
      /\ Cardinality(0 .. (Count(id) - 1)) = (Count(id) - 1) - 0 + 1
  <2>1. 0 \in Int /\ Count(id) - 1 \in Int /\ ~(0 > Count(id) - 1)
    BY <1>1
  <2>2. QED  BY <2>1, FS_Interval
<1>3. (Count(id) - 1) - 0 + 1 = Count(id) /\ Count(id) - 1 \in Nat /\ Count(id) - 1 # -1
  BY <1>1
<1>4. Count(id) - 1 \in Indices(id) /\ Indices(id) \subseteq Nat
      /\ \A i \in Indices(id) : i <= Count(id) - 1
  BY <1>1 DEF Indices
<1>5. QED  BY Zenon, <1>2, <1>3, <1>4 DEF Indices, NoIndex

LEMMA HeldFinite ==
    ASSUME NEW id \in Identifiers, NEW held \in SUBSET Indices(id)
    PROVE  /\ IsFiniteSet(held) /\ Cardinality(held) \in Nat /\ Cardinality(held) <= Count(id)
           /\ Cardinality(held) = Count(id) => held = Indices(id)
<1>1. IsFiniteSet(held) /\ Cardinality(held) <= Cardinality(Indices(id))
      /\ (Cardinality(Indices(id)) = Cardinality(held) => Indices(id) = held)
  BY IndicesFinite, FS_Subset
<1>2. Cardinality(held) \in Nat
  BY <1>1, FS_CardinalityType
<1>3. QED  BY <1>1, <1>2, IndicesFinite

\* One more chunk: the bytes of the chunks held, and that they stay within the message.
LEMMA MoreBytes ==
    ASSUME NEW id \in Identifiers, NEW held \in SUBSET Indices(id),
           NEW i \in Indices(id), i \notin held
    PROVE  /\ Bytes(id, held \cup {i}) = Bytes(id, held) + Len(Chunk(id, i))
           /\ Bytes(id, held \cup {i}) <= Lengths[id]
           /\ Len(Chunk(id, i)) \in Nat
<1> DEFINE b == MAX_FRAGMENT_BODY_BYTES
           N == Count(id)
           L == Lengths[id]
           c == Cardinality(held)
           more == held \cup {i}
<1>1. /\ b \in Nat /\ b > 0 /\ N \in Nat /\ N > 0 /\ L \in Nat /\ c \in Nat
      /\ Cardinality(more) = c + 1 /\ more \in SUBSET Indices(id)
      /\ c + 1 <= N /\ i \in Nat
  <2>1. IsFiniteSet(held) /\ c \in Nat
    BY HeldFinite
  <2>2. Cardinality(more) = c + 1
    BY <2>1, FS_AddElement
  <2>3. more \in SUBSET Indices(id)
    OBVIOUS
  <2>4. Cardinality(more) <= N
    BY <2>3, HeldFinite
  <2>5. N \in Nat /\ N > 0 /\ L \in Nat /\ b \in Nat /\ b > 0
    BY Limits, CountType, LengthType
  <2>6. i \in Nat
    BY IndicesFinite
  <2>7. QED  BY <2>1, <2>2, <2>3, <2>4, <2>5, <2>6
<1>2. /\ i * b \in Nat /\ End(id, i) \in Nat /\ i * b <= End(id, i)
      /\ i = N - 1 => End(id, i) = L
      /\ i # N - 1 => End(id, i) = (i + 1) * b
      /\ Len(Chunk(id, i)) = End(id, i) - i * b
  BY ChunkShape DEF Indices
<1>3. (N - 1) * b \in Nat /\ (N - 1) * b <= L
  <2>1. N - 1 \in 0 .. (Count(id) - 1)
    BY <1>1
  <2>2. (N - 1) * b \in Nat /\ (N - 1) * b <= End(id, N - 1) /\ End(id, N - 1) = Lengths[id]
    BY <2>1, ChunkShape
  <2>3. QED  BY <2>2
<1>4. Bytes(id, held) = IF N - 1 \in held THEN L - (N - c) * b ELSE c * b
  BY DEF Bytes
<1>5. Bytes(id, more) = IF N - 1 \in more THEN L - (N - (c + 1)) * b ELSE (c + 1) * b
  BY <1>1 DEF Bytes
<1>6. Len(Chunk(id, i)) \in Nat
  <2> DEFINE x == i * b
             e == End(id, i)
  <2> HIDE DEF x, e, b
  <2>1. x \in Nat /\ e \in Nat /\ x <= e /\ Len(Chunk(id, i)) = e - x
    BY <1>2 DEF x, e
  <2>2. QED  BY <2>1
<1>7. N - 1 \in more <=> N - 1 \in held \/ i = N - 1
  OBVIOUS
<1> HIDE DEF b, N, L, c
<1> DEFINE p == c * b
           q == (c + 1) * b
           u == (N - c) * b
           v == (N - (c + 1)) * b
           w == (N - 1) * b
           x == i * b
           y == (i + 1) * b
<1>8. p \in Int /\ q = p + b /\ u = v + b /\ v \in Int /\ v >= 0 /\ w = p + v /\ x \in Int
      /\ y = x + b
  <2>1. p \in Int /\ q = p + b /\ x \in Int /\ y = x + b
    BY <1>1, Multiples
  <2>2. PICK k \in Nat : k = N - (c + 1)
    BY <1>1
  <2>3. N - c = k + 1 /\ N - 1 = c + k
    BY <1>1, <2>2
  <2>4. k * b \in Nat /\ (k + 1) * b = k * b + b
    BY <1>1, <2>2, Multiples
  <2>5. (c + k) * b = c * b + k * b
    BY <1>1, <2>2
  <2>6. v = k * b /\ u = (k + 1) * b /\ w = (c + k) * b
    BY <2>2, <2>3
  <2>7. QED  BY <2>1, <2>4, <2>5, <2>6
<1>9. ~(N - 1 \in more) => q <= w
  <2> SUFFICES ASSUME N - 1 \notin more PROVE q <= w
    OBVIOUS
  <2>1. c + 1 <= N - 1
    <3>1. more # Indices(id)
      BY IndicesFinite DEF N
    <3>2. Cardinality(more) # N
      BY <1>1, <3>1, HeldFinite DEF N
    <3>3. QED  BY <1>1, <3>2
  <2>2. c + 1 \in Int /\ N - 1 \in Int
    BY <1>1
  <2>3. QED  BY <1>1, <2>1, <2>2, Multiples
<1> HIDE DEF p, q, u, v, w, x, y
<1>10. CASE N - 1 \in held
  <2>1. i # N - 1 /\ N - 1 \in more
    BY <1>10
  <2>2. Bytes(id, held) = L - u /\ Bytes(id, more) = L - v /\ Len(Chunk(id, i)) = y - x
    BY <1>2, <1>4, <1>5, <1>10, <2>1 DEF u, v, x, y
  <2>3. L - v = (L - u) + (y - x) /\ L - v <= L
    BY <1>1, <1>8
  <2>4. QED  BY Zenon, <1>6, <2>2, <2>3 DEF L
<1>11. CASE i = N - 1
  <2>1. N - 1 \in more /\ N - 1 \notin held
    BY <1>11
  <2>2. Bytes(id, held) = p /\ Bytes(id, more) = L - v /\ Len(Chunk(id, i)) = L - w
    BY <1>2, <1>4, <1>5, <1>11, <2>1 DEF p, v, w
  <2>3. L - v = p + (L - w) /\ L - v <= L
    BY <1>1, <1>8
  <2>4. QED  BY Zenon, <1>6, <2>2, <2>3 DEF L
<1>12. CASE N - 1 \notin held /\ i # N - 1
  <2>1. N - 1 \notin more
    BY <1>12
  <2>2. Bytes(id, held) = p /\ Bytes(id, more) = q /\ Len(Chunk(id, i)) = y - x
    BY <1>2, <1>4, <1>5, <1>12, <2>1 DEF p, q, x, y
  <2>3. q = p + (y - x)
    BY <1>1, <1>8
  <2>4. q <= L
    <3>1. q <= w /\ w <= L /\ w \in Nat /\ q \in Int
      BY <1>1, <1>3, <1>8, <1>9, <2>1 DEF w
    <3>2. QED  BY <1>1, <3>1
  <2>5. QED  BY Zenon, <1>6, <2>2, <2>3, <2>4 DEF L
<1>13. QED  BY <1>10, <1>11, <1>12

\* An accumulator that is sound holds chunks of its message.
LEMMA SoundShape ==
    ASSUME NEW id \in Identifiers, NEW a, Sound(id, a)
    PROVE  /\ a = [fragments |-> a.fragments, final_index |-> a.final_index,
                   total_bytes |-> a.total_bytes]
           /\ DOMAIN a.fragments \in SUBSET Indices(id)
           /\ a.fragments = [i \in DOMAIN a.fragments |-> Chunk(id, i)]
           /\ a.final_index \in {NoIndex, Count(id) - 1} /\ a.total_bytes \in Nat
           /\ Count(id) - 1 \in DOMAIN a.fragments => a.final_index = Count(id) - 1
           /\ Bounded(id) => a.total_bytes = Bytes(id, DOMAIN a.fragments)
<1>1. /\ a.fragments \in Partial(id)
      /\ a = [fragments |-> a.fragments, final_index |-> a.final_index,
              total_bytes |-> a.total_bytes]
      /\ a.final_index \in {NoIndex, Count(id) - 1} /\ a.total_bytes \in Nat
      /\ Count(id) - 1 \in DOMAIN a.fragments => a.final_index = Count(id) - 1
      /\ Bounded(id) => a.total_bytes = Bytes(id, DOMAIN a.fragments)
  BY DEF Sound
<1>2. PICK held \in SUBSET (0 .. (Count(id) - 1)) : a.fragments = [i \in held |-> Chunk(id, i)]
  BY <1>1 DEF Partial
<1>3. DOMAIN a.fragments = held
  BY <1>2
<1>4. QED  BY <1>1, <1>2, <1>3 DEF Indices

LEMMA SoundMade ==
    ASSUME NEW id \in Identifiers, NEW held \in SUBSET Indices(id),
           NEW final \in {NoIndex, Count(id) - 1}, NEW total \in Nat,
           Count(id) - 1 \in held => final = Count(id) - 1,
           Bounded(id) => total = Bytes(id, held)
    PROVE  Sound(id, [fragments |-> [i \in held |-> Chunk(id, i)], final_index |-> final,
                      total_bytes |-> total])
<1> DEFINE fragments == [i \in held |-> Chunk(id, i)]
           a == [fragments |-> fragments, final_index |-> final, total_bytes |-> total]
<1>1. fragments \in Partial(id) /\ DOMAIN fragments = held
  BY DEF Partial, Indices
<1> HIDE DEF fragments
<1>2. /\ a \in [fragments : Partial(id), final_index : {NoIndex, Count(id) - 1}, total_bytes : Nat]
      /\ a.fragments = fragments /\ a.final_index = final /\ a.total_bytes = total
  BY <1>1
<1> HIDE DEF a
<1>3. Sound(id, a)
  BY <1>1, <1>2 DEF Sound
<1>4. QED  BY <1>3 DEF a, fragments

LEMMA NewSound ==
    ASSUME NEW id \in Identifiers
    PROVE  Sound(id, NewAccumulator) /\ DOMAIN NewAccumulator.fragments = {}
<1>1. [i \in {} |-> Chunk(id, i)] = <<>>
  OBVIOUS
<1>2. DOMAIN <<>> = {}
  OBVIOUS
<1>3. Bytes(id, {}) = 0
  <2>1. Cardinality({}) = 0
    BY FS_EmptySet
  <2>2. 0 * MAX_FRAGMENT_BODY_BYTES = 0
    BY Limits
  <2>3. QED  BY Zenon, <2>1, <2>2 DEF Bytes
<1>4. Sound(id, [fragments |-> [i \in {} |-> Chunk(id, i)], final_index |-> NoIndex,
                 total_bytes |-> 0])
  <2> DEFINE held == {}
  <2>1. held \in SUBSET Indices(id) /\ Count(id) - 1 \notin held /\ Bytes(id, held) = 0
    BY <1>3
  <2> HIDE DEF held
  <2>2. Sound(id, [fragments |-> [i \in held |-> Chunk(id, i)], final_index |-> NoIndex,
                   total_bytes |-> 0])
    BY <2>1, SoundMade
  <2>3. QED  BY <2>2 DEF held
<1>5. NewAccumulator.fragments = <<>>
  BY DEF NewAccumulator
<1>6. QED  BY Zenon, <1>1, <1>2, <1>4, <1>5 DEF NewAccumulator

\* try_complete: all the chunks are there, and together they are the message.
LEMMA CompleteMessage ==
    ASSUME NEW id \in Identifiers, NEW a, Sound(id, a)
    PROVE  /\ Complete(a) => Assembled(a) = Message(id)
           /\ DOMAIN a.fragments = Indices(id) => Complete(a)
<1> DEFINE held == DOMAIN a.fragments
           N == Count(id)
<1>1. /\ held \in SUBSET Indices(id) /\ a.fragments = [i \in held |-> Chunk(id, i)]
      /\ a.final_index \in {NoIndex, N - 1}
      /\ N - 1 \in held => a.final_index = N - 1
  BY SoundShape
<1>2. N \in Nat /\ N > 0
  BY CountType
<1>3. Complete(a) => Assembled(a) = Message(id)
  <2> SUFFICES ASSUME Complete(a) PROVE Assembled(a) = Message(id)
    OBVIOUS
  <2>1. Cardinality(held) = (N - 1) + 1 /\ (N - 1) + 1 = N
    BY <1>1, <1>2 DEF Complete
  <2>2. held = Indices(id)
    BY <1>1, <2>1, HeldFinite
  <2> DEFINE seqs == [i \in 1 .. N |-> IF i - 1 \in held THEN a.fragments[i - 1] ELSE <<>>]
             chunks == [i \in 1 .. N |-> Chunk(id, i - 1)]
  <2>3. \A i \in 1 .. N : seqs[i] = chunks[i]
    <3>1. \A i \in 1 .. N : i - 1 \in Indices(id)
      BY <1>2 DEF Indices
    <3>2. \A i \in held : a.fragments[i] = Chunk(id, i)
      BY <1>1
    <3> HIDE DEF held
    <3>3. QED  BY <2>2, <3>1, <3>2
  <2>4. seqs = chunks
    BY Zenon, <2>3
  <2>5. FlattenSeq(chunks) = Message(id)
    BY Flattened
  <2>6. Assembled(a) = FlattenSeq(seqs)
    BY Zenon, <2>1 DEF Assembled
  <2>7. QED  BY Zenon, <2>4, <2>5, <2>6
<1>4. held = Indices(id) => Complete(a)
  <2> SUFFICES ASSUME held = Indices(id) PROVE Complete(a)
    OBVIOUS
  <2>1. Cardinality(held) = N /\ N - 1 \in held /\ N - 1 # NoIndex
    BY IndicesFinite
  <2>2. a.final_index = N - 1 /\ (N - 1) + 1 = N
    BY <1>1, <1>2, <2>1
  <2>3. QED  BY Zenon, <2>1, <2>2 DEF Complete
<1>5. QED  BY <1>3, <1>4

\* push of a chunk of the message: it is never found inconsistent, the accumulator stays
\* sound, and a chunk of a message within the size limit is taken.
LEMMA PushedSound ==
    ASSUME NEW id \in Identifiers, NEW a, Sound(id, a), NEW i \in Indices(id), NEW f,
           f.index = i, f.body = Chunk(id, i), f.is_final = (i = Count(id) - 1)
    PROVE  /\ Sound(id, Pushed(a, f))
           /\ Bounded(id) => /\ PushSucceeds(a, f)
                             /\ DOMAIN Pushed(a, f).fragments = DOMAIN a.fragments \cup {i}
<1> DEFINE held == DOMAIN a.fragments
           last == Count(id) - 1
           final == IF i = last THEN last ELSE a.final_index
           length == Len(Chunk(id, i))
           fragments == [j \in held |-> Chunk(id, j)]
           more == [j \in held \cup {i} |-> Chunk(id, j)]
<1>1. /\ a = [fragments |-> fragments, final_index |-> a.final_index,
              total_bytes |-> a.total_bytes]
      /\ held \in SUBSET Indices(id) /\ a.fragments = fragments
      /\ a.final_index \in {NoIndex, last} /\ a.total_bytes \in Nat
      /\ last \in held => a.final_index = last
      /\ Bounded(id) => a.total_bytes = Bytes(id, held)
  BY SoundShape
<1>2. /\ last \in Nat /\ last # NoIndex /\ i \in Nat /\ i <= last
      /\ \A j \in held : j \in Nat /\ j <= last
  BY <1>1, IndicesFinite
<1>3. ~Inconsistent(a, f)
  <2>1. a.final_index # NoIndex => a.final_index = last /\ ~(i > a.final_index)
    BY <1>1, <1>2
  <2>2. i = last => \A j \in held : ~(j > i)
    BY <1>2
  <2>3. QED  BY <2>1, <2>2 DEF Inconsistent
<1>4. Ended(a, f) = [fragments |-> fragments, final_index |-> final,
                     total_bytes |-> a.total_bytes]
  <2> HIDE DEF fragments, last
  <2>1. CASE i = last
    BY <1>1, <2>1 DEF Ended, last
  <2>2. CASE i # last
    BY <1>1, <2>2 DEF Ended, last
  <2>3. QED  BY <2>1, <2>2
<1>5. final \in {NoIndex, last} /\ (last \in held \cup {i} => final = last)
      /\ (last \in held => final = last)
  BY <1>1
<1>6. CASE i \in held
  <2>1. Pushed(a, f) = Ended(a, f)
    BY Zenon, <1>3, <1>6 DEF Pushed
  <2>2. Sound(id, [fragments |-> fragments, final_index |-> final,
                   total_bytes |-> a.total_bytes])
    <3> HIDE DEF final, held
    <3>1. QED  BY <1>1, <1>5, SoundMade DEF last
  <2>3. Sound(id, Pushed(a, f))
    BY Zenon, <1>4, <2>1, <2>2
  <2>4. PushSucceeds(a, f)
    <3>1. a.fragments[i] = Chunk(id, i)
      BY <1>1, <1>6
    <3>2. QED  BY Zenon, <1>3, <1>6, <3>1 DEF PushSucceeds
  <2>5. Pushed(a, f).fragments = fragments /\ DOMAIN fragments = held
    BY <1>4, <2>1
  <2>6. held = held \cup {i}
    BY <1>6
  <2>7. QED  BY Zenon, <2>3, <2>4, <2>5, <2>6
<1>7. CASE i \notin held
  <2> DEFINE total == a.total_bytes + length
             counted == [fragments |-> fragments, final_index |-> final, total_bytes |-> total]
             grown == [fragments |-> more, final_index |-> final, total_bytes |-> total]
  <2>1. /\ Bytes(id, held \cup {i}) = Bytes(id, held) + length
        /\ Bytes(id, held \cup {i}) <= Lengths[id] /\ length \in Nat
    BY <1>1, <1>7, MoreBytes
  <2>2. total \in Nat
    BY <1>1, <2>1
  <2>3. Bounded(id) => total = Bytes(id, held \cup {i}) /\ total <= MAXIMUM_REASSEMBLED_BYTES
    <3> SUFFICES ASSUME Bounded(id)
                 PROVE  total = Bytes(id, held \cup {i}) /\ total <= MAXIMUM_REASSEMBLED_BYTES
      OBVIOUS
    <3>1. total = Bytes(id, held \cup {i})
      BY Zenon, <1>1, <2>1
    <3>2. total <= Lengths[id] /\ Lengths[id] <= MAXIMUM_REASSEMBLED_BYTES /\ Lengths[id] \in Nat
      BY Zenon, <2>1, <3>1, LengthType DEF Bounded
    <3> HIDE DEF total
    <3>3. QED  BY <2>2, <3>1, <3>2, Limits
  <2>4. [Ended(a, f) EXCEPT !.total_bytes = @ + Len(f.body)] = counted
    <3> HIDE DEF fragments, final, length
    <3>1. Len(f.body) = length
      BY DEF length
    <3>2. QED  BY <1>4, <3>1
  <2>5. [counted EXCEPT !.fragments =
            [j \in DOMAIN a.fragments \cup {f.index} |->
                IF j = f.index THEN f.body ELSE a.fragments[j]]] = grown
    <3> DEFINE put == [j \in held \cup {i} |-> IF j = i THEN Chunk(id, i) ELSE a.fragments[j]]
    <3>1. \A j \in held : a.fragments[j] = Chunk(id, j)
      BY <1>1
    <3>2. \A j \in held \cup {i} : put[j] = more[j]
      BY <3>1
    <3>3. put = more
      BY Zenon, <3>2
    <3>4. [counted EXCEPT !.fragments = put] = [counted EXCEPT !.fragments = more]
      BY Zenon, <3>3
    <3> HIDE DEF fragments, final, total, more
    <3>5. [counted EXCEPT !.fragments = more] = grown
      OBVIOUS
    <3>6. QED  BY Zenon, <3>4, <3>5
  <2>6. /\ Pushed(a, f) = IF total > MAXIMUM_REASSEMBLED_BYTES THEN counted ELSE grown
        /\ PushSucceeds(a, f) <=> total <= MAXIMUM_REASSEMBLED_BYTES
    <3>1. counted.total_bytes = total
      OBVIOUS
    <3>2. Pushed(a, f) = IF counted.total_bytes > MAXIMUM_REASSEMBLED_BYTES THEN counted ELSE grown
      <4> HIDE DEF counted, grown
      <4>1. QED  BY Zenon, <1>3, <1>7, <2>4, <2>5 DEF Pushed
    <3>3. PushSucceeds(a, f) <=> total <= MAXIMUM_REASSEMBLED_BYTES
      BY Zenon, <1>3, <1>7 DEF PushSucceeds
    <3> HIDE DEF counted, total
    <3>4. QED  BY Zenon, <3>1, <3>2, <3>3
  <2> HIDE DEF total
  <2>7. CASE total > MAXIMUM_REASSEMBLED_BYTES
    <3>1. ~Bounded(id)
      BY <2>2, <2>3, <2>7, Limits
    <3>2. Sound(id, counted)
      <4> HIDE DEF final, held
      <4>1. QED  BY <1>1, <1>5, <2>2, <3>1, SoundMade DEF last
    <3>3. QED  BY Zenon, <2>6, <2>7, <3>1, <3>2
  <2>8. CASE total <= MAXIMUM_REASSEMBLED_BYTES
    <3>1. held \cup {i} \in SUBSET Indices(id)
      BY <1>1
    <3>2. Sound(id, grown)
      <4> DEFINE set == held \cup {i}
      <4>1. /\ set \in SUBSET Indices(id) /\ final \in {NoIndex, last}
            /\ last \in set => final = last
            /\ Bounded(id) => total = Bytes(id, set)
        BY Zenon, <1>5, <2>3, <3>1
      <4> HIDE DEF set, final
      <4>2. Sound(id, [fragments |-> [j \in set |-> Chunk(id, j)], final_index |-> final,
                       total_bytes |-> total])
        BY <2>2, <4>1, SoundMade DEF last
      <4>3. QED  BY <4>2 DEF set
    <3>3. ~(total > MAXIMUM_REASSEMBLED_BYTES)
      BY <2>2, <2>8, Limits
    <3>4. grown.fragments = more /\ DOMAIN more = held \cup {i}
      OBVIOUS
    <3> HIDE DEF grown, more
    <3>5. QED  BY Zenon, <2>6, <2>8, <3>2, <3>3, <3>4
  <2>9. QED  BY <2>2, <2>7, <2>8, Limits
<1>8. QED  BY <1>6, <1>7

(***************************************************************************)
(* The steps.                                                               *)
(***************************************************************************)
LEMMA Sent ==
    ASSUME TypeInv
    PROVE  /\ Sendable \subseteq Identifiers
           /\ \A id \in Sendable : id \in Nat /\ id <= sent
BY Limits DEF TypeInv, Sendable, Identifiers

LEMMA AssemblySound ==
    ASSUME TypeInv, AssembliesInv, NEW id \in Identifiers
    PROVE  Sound(id, Assembly(id))
BY NewSound DEF AssembliesInv, Assembly

LEMMA InitInv == Init => IInv
<1> SUFFICES ASSUME Init PROVE IInv
  OBVIOUS
<1>1. TypeInv
  BY Limits DEF Init, TypeInv, Identifiers
<1>2. AssembliesInv
  BY DEF Init, AssembliesInv
<1>3. ReassembledExactly
  BY DEF Init, ReassembledExactly
<1>4. HandedInv
  <2>1. Sendable = {}
    BY DEF Init, Sendable
  <2>2. QED  BY <2>1 DEF HandedInv
<1>5. QED  BY <1>1, <1>2, <1>3, <1>4 DEF IInv

\* A message that is sent has nothing handed over yet.
LEMMA SendInv ==
    ASSUME IInv, Send
    PROVE  IInv'
<1>1. /\ sent \in 0 .. Len(Lengths) /\ sent < Len(Lengths) /\ sent' = sent + 1
      /\ UNCHANGED <<assemblies, handed, received>> /\ Len(Lengths) \in Nat
  BY Limits DEF Send, IInv, TypeInv
<1>2. TypeInv'
  <2>1. \A id \in Identifiers : id > sent' => id > sent
    BY <1>1 DEF Identifiers
  <2>2. sent' \in 0 .. Len(Lengths)
    BY <1>1
  <2>3. QED  BY <1>1, <2>1, <2>2 DEF IInv, TypeInv
<1>3. Sendable \subseteq Sendable' /\ Sendable' \subseteq Sendable \cup {sent + 1}
  BY <1>1 DEF Sendable
<1>4. AssembliesInv'
  BY <1>1, <1>3 DEF IInv, AssembliesInv
<1>5. ReassembledExactly'
  BY <1>1 DEF IInv, ReassembledExactly
<1>6. HandedInv'
  <2> SUFFICES ASSUME NEW id \in Sendable', Bounded(id), Message(id) \notin received[id]
               PROVE  /\ handed[id] = DOMAIN Assembly(id).fragments
                      /\ handed[id] # 0 .. (Count(id) - 1)
    BY <1>1 DEF HandedInv, Assembly
  <2>1. CASE id \in Sendable
    BY <2>1 DEF IInv, HandedInv
  <2>2. CASE id \notin Sendable
    <3>1. id = sent + 1 /\ id \in Identifiers /\ id > sent
      BY <1>1, <1>3, <2>2 DEF Identifiers
    <3>2. handed[id] = {}
      BY <3>1 DEF IInv, TypeInv
    <3>3. Assembly(id) = NewAccumulator
      BY <2>2 DEF IInv, AssembliesInv, Assembly
    <3>4. DOMAIN Assembly(id).fragments = {}
      BY <3>1, <3>3, NewSound
    <3>5. 0 .. (Count(id) - 1) # {}
      BY <3>1, CountType
    <3>6. QED  BY <3>2, <3>4, <3>5
  <2>3. QED  BY <2>1, <2>2
<1>7. QED  BY <1>2, <1>4, <1>5, <1>6 DEF IInv

\* ingest_packet.
LEMMA IngestInv ==
    ASSUME IInv, NEW packet \in Packets, Ingest(packet)
    PROVE  IInv'
<1>0. TypeInv /\ AssembliesInv /\ ReassembledExactly
  BY DEF IInv
<1> DEFINE f == Parse(packet)
<1>a. PICK id \in Sendable : \E i \in 0 .. (Count(id) - 1) :
         /\ id \in Identifiers /\ f.state_id = id /\ f.index = i /\ f.body = Chunk(id, i)
         /\ f.is_final = (i = Count(id) - 1)
  BY <1>0, Arriving DEF TypeInv
<1>1. PICK i \in 0 .. (Count(id) - 1) :
         /\ id \in Identifiers /\ f.state_id = id /\ f.index = i /\ f.body = Chunk(id, i)
         /\ f.is_final = (i = Count(id) - 1)
  BY <1>a
<1> HIDE DEF f
<1> DEFINE old == Assembly(id)
           a == Pushed(old, f)
           done == PushSucceeds(old, f) /\ Complete(a)
<1>2. /\ handed' = [handed EXCEPT ![id] = @ \cup {i}]
      /\ sent' = sent
      /\ done => /\ assemblies' = Without(id)
                 /\ received' = [received EXCEPT ![id] = @ \cup {Assembled(a)}]
      /\ ~done => /\ assemblies' = With(id, a)
                  /\ received' = received
  BY <1>1 DEF Ingest, f
<1>3. Sound(id, old) /\ i \in Indices(id)
  BY <1>0, <1>1, AssemblySound DEF Indices
<1>4. /\ Sound(id, a)
      /\ Bounded(id) => /\ PushSucceeds(old, f)
                        /\ DOMAIN a.fragments = DOMAIN old.fragments \cup {i}
  <2> HIDE DEF old
  <2>1. QED  BY <1>1, <1>3, PushedSound
<1>5. /\ Complete(a) => Assembled(a) = Message(id)
      /\ DOMAIN a.fragments = Indices(id) => Complete(a)
  <2> HIDE DEF a
  <2>1. QED  BY <1>1, <1>4, CompleteMessage
<1> HIDE DEF old, a, done
<1>6. /\ DOMAIN handed = Identifiers /\ DOMAIN received = Identifiers
      /\ sent \in 0 .. Len(Lengths) /\ id <= sent /\ id \in Nat
      /\ \A j \in Identifiers : j > sent => handed[j] = {}
  BY <1>0, <1>1, Sent DEF TypeInv
<1>7. TypeInv'
  <2>1. DOMAIN handed' = Identifiers /\ DOMAIN received' = Identifiers
    BY <1>2, <1>6
  <2>2. \A j \in Identifiers : j > sent => j # id /\ handed'[j] = {}
    BY <1>2, <1>6
  <2>3. QED  BY <1>2, <1>6, <2>1, <2>2 DEF TypeInv
<1>8. Sendable' = Sendable
  BY <1>2 DEF Sendable
<1>9. AssembliesInv'
  <2>1. DOMAIN assemblies' \subseteq DOMAIN assemblies \cup {id}
        /\ \A j \in DOMAIN assemblies' :
              \/ j = id /\ assemblies'[j] = a
              \/ j \in DOMAIN assemblies /\ assemblies'[j] = assemblies[j]
    <3>1. CASE assemblies' = Without(id)
      BY <3>1 DEF Without
    <3>2. CASE assemblies' = With(id, a)
      BY <3>2 DEF With
    <3>3. QED  BY <1>2, <3>1, <3>2
  <2>2. QED  BY <1>0, <1>1, <1>4, <1>8, <2>1 DEF AssembliesInv
<1>10. ReassembledExactly'
  <2>1. CASE done
    <3>1. Assembled(a) = Message(id)
      BY <1>5, <2>1 DEF done
    <3>2. \A j \in Identifiers : received'[j] \subseteq received[j] \cup {Message(j)}
      BY <1>1, <1>2, <1>6, <2>1, <3>1
    <3>3. QED  BY <1>0, <3>2 DEF ReassembledExactly
  <2>2. CASE ~done
    BY <1>0, <1>2, <2>2 DEF ReassembledExactly
  <2>3. QED  BY <2>1, <2>2
<1>11. HandedInv'
  <2> SUFFICES ASSUME NEW j \in Sendable, Bounded(j), Message(j) \notin received'[j]
               PROVE  /\ handed'[j] = DOMAIN Assembly(j)'.fragments
                      /\ handed'[j] # 0 .. (Count(j) - 1)
    BY <1>8 DEF HandedInv
  <2>1. j \in Identifiers
    BY <1>0, Sent
  <2>2. Message(j) \notin received[j]
    <3>1. received[j] \subseteq received'[j]
      <4>1. CASE done
        BY <1>2, <1>6, <2>1, <4>1
      <4>2. CASE ~done
        BY <1>2, <4>2
      <4>3. QED  BY <4>1, <4>2
    <3>2. QED  BY <3>1
  <2>3. handed[j] = DOMAIN Assembly(j).fragments /\ handed[j] # 0 .. (Count(j) - 1)
    BY <2>2 DEF IInv, HandedInv
  <2>4. CASE j # id
    <3>1. handed'[j] = handed[j]
      BY <1>2, <2>4
    <3>2. Assembly(j)' = Assembly(j)
      <4>1. CASE assemblies' = Without(id)
        BY <2>4, <4>1 DEF Without, Assembly
      <4>2. CASE assemblies' = With(id, a)
        BY <2>4, <4>2 DEF With, Assembly
      <4>3. QED  BY <1>2, <4>1, <4>2
    <3>3. QED  BY <2>3, <3>1, <3>2
  <2>5. CASE j = id
    <3>1. handed'[id] = handed[id] \cup {i} /\ handed[id] = DOMAIN old.fragments
      BY <1>1, <1>2, <1>6, <2>3, <2>5 DEF old
    <3>2. handed'[id] = DOMAIN a.fragments /\ PushSucceeds(old, f)
      BY <1>4, <2>5, <3>1
    <3>3. ~done
      <4>1. done => Message(id) \in received'[id]
        BY <1>1, <1>2, <1>5, <1>6 DEF done
      <4>2. QED  BY <2>5, <4>1
    <3>4. assemblies' = With(id, a)
      BY <1>2, <3>3
    <3>5. Assembly(id)' = a
      BY <3>4 DEF Assembly, With
    <3>6. ~Complete(a)
      BY <3>2, <3>3 DEF done
    <3>7. DOMAIN a.fragments # Indices(id)
      BY <1>5, <3>6
    <3>8. QED  BY <2>5, <3>2, <3>5, <3>7 DEF Indices
  <2>6. QED  BY <2>4, <2>5
<1>12. QED  BY <1>7, <1>9, <1>10, <1>11 DEF IInv

LEMMA NextInv == IInv /\ [Next]_vars => IInv'
<1> SUFFICES ASSUME IInv, [Next]_vars PROVE IInv'
  OBVIOUS
<1>1. CASE Send
  BY <1>1, SendInv
<1>2. CASE \E packet \in Packets : Ingest(packet)
  BY <1>2, IngestInv
<1>3. CASE UNCHANGED vars
  BY <1>3 DEF vars, IInv, TypeInv, AssembliesInv, ReassembledExactly, HandedInv,
              Sendable, Assembly
<1>4. QED  BY <1>1, <1>2, <1>3 DEF Next

\* In every state each accumulator holds chunks of one message that was sent, its end and
\* its byte count are right, and none is left complete.
THEOREM Invariance == Spec => []IInv
BY InitInv, NextInv, PTL DEF Spec

\* FragmentAccumulator::push, try_complete and ingest_packet: in whatever order, however
\* often and with whatever gaps the fragments of any number of messages arrive, and however
\* full the table is, a message is returned as it was sent or not at all.
THEOREM ExactReassembly == Spec => []ReassembledExactly
<1>1. IInv => ReassembledExactly
  BY DEF IInv
<1>2. QED  BY <1>1, Invariance, PTL

\* However many messages there are and however often the table was full and turned
\* fragments away: a message within the size limit has been returned once each of its
\* fragments came while the table held the message or had room for it.  A fragment that a
\* full table turned away has to come again, which needs room (MCLostFragments.cfg).
THEOREM IntactReceived == Spec => []IntactMessageReceived
<1>1. IInv => IntactMessageReceived
  <2> SUFFICES ASSUME IInv, NEW id \in 1 .. sent, Splittable(Lengths[id]), Bounded(id),
                      handed[id] = ChunkIndexes(Message(id))
               PROVE  Message(id) \in received[id]
    BY DEF IntactMessageReceived, Bounded
  <2>1. id \in Sendable
    BY DEF Sendable
  <2>2. id \in Identifiers
    BY <2>1, Sent DEF IInv
  <2>3. handed[id] = 0 .. (Count(id) - 1)
    BY <2>2, Indexes
  <2>4. QED  BY <2>1, <2>3 DEF IInv, HandedInv
<1>2. QED  BY <1>1, Invariance, PTL
=============================================================================
