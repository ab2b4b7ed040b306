------------------------ MODULE OutputDeliveryProofs ------------------------
(***************************************************************************)
(* For every script of the application and every bound of the histories: the  *)
(* state that the server falls back to is never dropped, every state that the  *)
(* client keeps replays to the server's state of its number, and the terminal   *)
(* shows the state that the client acknowledges, whatever updates and           *)
(* acknowledgements are lost, late, reordered or repeated.                     *)
(*                                                                         *)
(* In this order: the numbers of the states; folds, by induction over the        *)
(* natural numbers; what replaying, canonical_operations, diff_from, apply and   *)
(* compacted_history do to a content and a size; the contents step by step.      *)
(***************************************************************************)
EXTENDS OutputDelivery, FiniteSetTheorems, SequenceTheorems, NaturalsInduction,
        WellFoundedInduction, TLAPS

(***************************************************************************)
(* The numbers.                                                             *)
(***************************************************************************)
\* The bound on the received states.
LEMMA Bound == MAXIMUM_RECEIVED_STATES \in Nat /\ MAXIMUM_RECEIVED_STATES > 0
BY ReceivedAssumption

\* The numbers of the received states.
Known == DOMAIN received_states

\* Everything starts at state 0.
LEMMA InitNumbers == Init => NumberInv
<1> SUFFICES ASSUME Init PROVE NumberInv
  OBVIOUS
<1>1. /\ Known = {0} /\ latest_remote_state = 0 /\ remote_throwaway_floor = 0
      /\ server_current = 0 /\ server_known = 0 /\ to_client = {} /\ to_server = {}
  BY DEF Init, RemoteInit, ServerScreenInit, Known
<1>2. IsFiniteSet({0}) /\ Cardinality({0}) = 1
  BY FS_Singleton
<1>3. NumberType
  BY <1>1, <1>2 DEF NumberType, Known
<1>4. FloorInv /\ AcknowledgedInv
  BY <1>1 DEF FloorInv, AcknowledgedInv, Known
<1>5. KnownStateRetained
  BY <1>1, <1>2, Bound DEF KnownStateRetained, Known
<1>6. QED  BY <1>3, <1>4, <1>5 DEF NumberInv

\* What the invariant says, one fact at a time.
LEMMA NumberFacts ==
    ASSUME NumberInv
    PROVE  /\ server_current \in Nat /\ server_known \in Nat
           /\ latest_remote_state \in Nat /\ remote_throwaway_floor \in Nat
           /\ Known \subseteq Nat /\ IsFiniteSet(Known)
           /\ Cardinality(Known) <= MAXIMUM_RECEIVED_STATES
           /\ server_known \in Known /\ latest_remote_state \in Known
           /\ server_known <= latest_remote_state /\ remote_throwaway_floor <= server_known
BY DEF NumberInv, NumberType, FloorInv, AcknowledgedInv, KnownStateRetained, Known

\* The states and the number of the client stay.
LEMMA NumbersKept ==
    ASSUME NumberInv, Known' = Known, UNCHANGED <<latest_remote_state, remote_throwaway_floor>>,
           UNCHANGED <<server_current, server_known, to_client, to_server>>
    PROVE  NumberInv'
BY DEF NumberInv, NumberType, FloorInv, AcknowledgedInv, KnownStateRetained, Known

\* set_initial_remote_viewport.
LEMMA ViewportNumbers ==
    ASSUME NumberInv, NEW size, SetViewport(size)
    PROVE  NumberInv'
<1>1. /\ Known' = Known
      /\ UNCHANGED <<latest_remote_state, remote_throwaway_floor, server_current, server_known,
                     to_client, to_server>>
  BY DEF SetViewport, SetInitialRemoteViewport, serverScreenVars, Known
<1>2. QED  BY <1>1, NumbersKept

\* accept_remote_update.
LEMMA IngestNumbers ==
    ASSUME NumberInv, NEW u \in to_client, Ingest(u)
    PROVE  NumberInv'
<1>1. UNCHANGED <<server_current, server_known, to_client, to_server>>
  BY DEF Ingest, serverScreenVars
<1>2. CASE ~Rebuildable(u)
  <2>1. UNCHANGED <<received_states, latest_remote_state, remote_throwaway_floor>>
    BY <1>2 DEF Ingest, AcceptRemoteUpdate, remoteVars
  <2>2. QED  BY <1>1, <2>1, NumbersKept DEF Known
<1>3. CASE Rebuildable(u)
  <2> DEFINE R == Retained(u)
             F == Floor(u)
             N == IF HistoryFull(u) THEN R ELSE R \cup {u.target}
  <2>1. /\ remote_throwaway_floor' = F /\ Known' = N
        /\ latest_remote_state' \in {latest_remote_state, u.target}
        /\ latest_remote_state' # latest_remote_state =>
              ~HistoryFull(u) /\ u.target > latest_remote_state
    <3>1. AcceptRemoteUpdate(u)
      BY DEF Ingest
    <3>2. Known' = R \cup (IF HistoryFull(u) THEN {} ELSE {u.target})
      BY <1>3, <3>1 DEF AcceptRemoteUpdate, Known
    <3>3. QED  BY <1>3, <3>1, <3>2 DEF AcceptRemoteUpdate, Advances
  <2>2. u.target \in Nat /\ u.discard \in Nat /\ u.discard <= server_known
    BY DEF NumberInv, NumberType, FloorInv
  <2>3. F \in Nat /\ F <= server_known /\ F >= remote_throwaway_floor
    BY <2>2, NumberFacts DEF Floor
  <2>4. R = {n \in Known : n >= F}
    BY DEF Retained, Known
  <2>5. HistoryFull(u) <=> Cardinality(R) >= MAXIMUM_RECEIVED_STATES
    BY DEF HistoryFull
  <2> HIDE DEF R, F
  <2>6. IsFiniteSet(R) /\ Cardinality(R) \in Nat /\ Cardinality(R) <= Cardinality(Known)
    <3>1. R \subseteq Known
      BY <2>4
    <3>2. QED  BY <3>1, NumberFacts, FS_Subset, FS_CardinalityType
  <2>7. Cardinality(Known) \in Nat
    BY NumberFacts, FS_CardinalityType
  <2>8. IsFiniteSet(N) /\ Cardinality(N) <= MAXIMUM_RECEIVED_STATES
    <3>1. CASE HistoryFull(u)
      BY <2>6, <2>7, <3>1, NumberFacts, Bound
    <3>2. CASE ~HistoryFull(u)
      <4>1. /\ IsFiniteSet(R \cup {u.target})
            /\ Cardinality(R \cup {u.target}) \in {Cardinality(R), Cardinality(R) + 1}
        BY <2>6, FS_AddElement
      <4>2. QED  BY <2>5, <2>6, <3>2, <4>1, Bound
    <3>3. QED  BY <3>1, <3>2
  <2>9. R \subseteq N /\ N \subseteq Nat
    BY <2>2, <2>4, NumberFacts
  <2>10. ~HistoryFull(u) => u.target \in N
    OBVIOUS
  <2> HIDE DEF N
  <2>11. latest_remote_state' \in Nat /\ latest_remote_state' >= latest_remote_state
    BY <2>1, <2>2, NumberFacts
  <2>12. latest_remote_state' \in N /\ server_known \in N
    <3>1. latest_remote_state >= F /\ server_known >= F
      BY <2>3, NumberFacts
    <3>2. latest_remote_state \in R /\ server_known \in R
      BY <2>4, <3>1, NumberFacts
    <3>3. QED  BY <2>1, <2>9, <2>10, <3>2
  <2>13. NumberType'
    BY <1>1, <2>1, <2>3, <2>8, <2>9, <2>11 DEF NumberInv, NumberType, Known
  <2>14. FloorInv'
    BY <1>1, <2>1, <2>3 DEF NumberInv, FloorInv
  <2>15. AcknowledgedInv'
    <3>1. ASSUME NEW a \in to_server \cup {server_known}
          PROVE  a <= latest_remote_state' /\ (a >= F => a \in N)
      <4>1. /\ a <= latest_remote_state /\ (a >= remote_throwaway_floor => a \in Known)
            /\ a \in Nat
        BY NumberFacts DEF NumberInv, AcknowledgedInv, NumberType, Known
      <4>2. a >= F => a \in R
        BY <2>3, <2>4, <4>1, NumberFacts
      <4>3. QED  BY <2>9, <2>11, <4>1, <4>2, NumberFacts
    <3>2. QED  BY <1>1, <2>1, <3>1 DEF AcknowledgedInv, Known
  <2>16. KnownStateRetained'
    BY <1>1, <2>1, <2>8, <2>12 DEF KnownStateRetained, Known
  <2>17. QED  BY <2>13, <2>14, <2>15, <2>16 DEF NumberInv
<1>4. QED  BY <1>2, <1>3

\* A client message carries the newest state's number.
LEMMA AcknowledgeNumbers ==
    ASSUME NumberInv, Acknowledge
    PROVE  NumberInv'
<1>1. /\ to_server' \subseteq to_server \cup {latest_remote_state}
      /\ UNCHANGED <<received_states, latest_remote_state, remote_throwaway_floor,
                     server_current, server_known, to_client>>
  BY DEF Acknowledge, remoteVars, serverScreenVars
<1>2. NumberType'
  BY <1>1, NumberFacts DEF NumberInv, NumberType
<1>3. AcknowledgedInv'
  BY <1>1, NumberFacts DEF NumberInv, AcknowledgedInv, Known
<1>4. FloorInv' /\ KnownStateRetained'
  BY <1>1 DEF NumberInv, FloorInv, KnownStateRetained
<1>5. QED  BY <1>2, <1>3, <1>4 DEF NumberInv

\* The server's screen changes.
LEMMA ChangeNumbers ==
    ASSUME NumberInv, ServerChange
    PROVE  NumberInv'
<1>1. /\ server_current' = server_current + 1
      /\ UNCHANGED <<received_states, latest_remote_state, remote_throwaway_floor,
                     server_known, to_client, to_server>>
  BY DEF ServerChange, ScreenChanges, remoteVars
<1>2. NumberType'
  BY <1>1, NumberFacts DEF NumberInv, NumberType
<1>3. QED  BY <1>1, <1>2 DEF NumberInv, FloorInv, AcknowledgedInv, KnownStateRetained

\* The server sends an update.
LEMMA SendNumbers ==
    ASSUME NumberInv, NEW b, ServerSend(b)
    PROVE  NumberInv'
<1> DEFINE w == ServerUpdate(b)
<1>1. /\ to_client' \subseteq to_client \cup {w}
      /\ UNCHANGED <<received_states, latest_remote_state, remote_throwaway_floor,
                     server_current, server_known, to_server>>
  BY DEF ServerSend, remoteVars, serverScreenVars
<1>2. w.target = server_current /\ w.discard = server_known
  BY DEF ServerUpdate
<1> HIDE DEF w
<1>3. NumberType'
  BY <1>1, <1>2, NumberFacts DEF NumberInv, NumberType
<1>4. FloorInv'
  BY <1>1, <1>2, NumberFacts DEF NumberInv, FloorInv
<1>5. QED  BY <1>1, <1>3, <1>4 DEF NumberInv, AcknowledgedInv, KnownStateRetained

\* The server learns what the client has.
LEMMA LearnNumbers ==
    ASSUME NumberInv, NEW a \in to_server, ServerReceive(a)
    PROVE  NumberInv'
<1>1. /\ a > server_known /\ server_known' = a
      /\ UNCHANGED <<received_states, latest_remote_state, remote_throwaway_floor,
                     server_current, to_client, to_server>>
  BY DEF ServerReceive, ServerLearns, remoteVars
<1>2. /\ a \in Nat /\ a <= latest_remote_state
      /\ a >= remote_throwaway_floor => a \in Known
  BY DEF NumberInv, NumberType, AcknowledgedInv, Known
<1>3. a \in Known /\ remote_throwaway_floor <= a
  BY <1>1, <1>2, NumberFacts
<1>4. NumberType'
  BY <1>1, <1>2 DEF NumberInv, NumberType
<1>5. FloorInv'
  <2>1. \A x \in Nat : x <= server_known => x <= a
    BY <1>1, <1>2, NumberFacts
  <2>2. QED  BY <1>1, <1>3, <2>1 DEF NumberInv, FloorInv, NumberType
<1>6. AcknowledgedInv'
  BY <1>1, <1>2, <1>3 DEF NumberInv, AcknowledgedInv, Known
<1>7. KnownStateRetained'
  BY <1>1, <1>3 DEF NumberInv, KnownStateRetained, Known
<1>8. QED  BY <1>4, <1>5, <1>6, <1>7 DEF NumberInv

\* Every step keeps the numbers together.
LEMMA NextNumbers == NumberInv /\ [Next]_vars => NumberInv'
<1> SUFFICES ASSUME NumberInv, [Next]_vars PROVE NumberInv'
  OBVIOUS
<1>1. CASE \E size \in {1, 2} : SetViewport(size)
  BY <1>1, ViewportNumbers
<1>2. CASE \E u \in to_client : Ingest(u)
  BY <1>2, IngestNumbers
<1>3. CASE Acknowledge
  BY <1>3, AcknowledgeNumbers
<1>4. CASE ServerChange
  BY <1>4, ChangeNumbers
<1>5. CASE \E b \in Bases : ServerSend(b)
  BY <1>5, SendNumbers
<1>6. CASE \E a \in to_server : ServerReceive(a)
  BY <1>6, LearnNumbers
<1>7. CASE UNCHANGED vars
  BY <1>7, NumbersKept DEF vars, remoteVars, serverScreenVars, Known
<1>8. QED  BY <1>1, <1>2, <1>3, <1>4, <1>5, <1>6, <1>7 DEF Next

(***************************************************************************)
(* Folds.  FoldLeft takes the largest index away first; its recursive function  *)
(* over sets of indexes exists for an operator given as a function G from       *)
(* values V and elements E to values, and is then described by the values       *)
(* after 0, 1, 2, ... elements.                                              *)
(***************************************************************************)
\* Induction over the natural numbers, with a set for the predicate.
LEMMA Induction ==
    ASSUME NEW S, 0 \in S, \A n \in Nat : n \in S => n + 1 \in S
    PROVE  Nat \subseteq S
<1> DEFINE T == Nat \ S
<1> SUFFICES ASSUME T # {} PROVE FALSE
  OBVIOUS
<1>1. PICK k \in T : \A j \in T : ~(<<j, k>> \in OpToRel(<, Nat))
  BY WFMin, NatLessThanWellFounded
<1>2. \A j \in T : ~(j < k)
  BY <1>1 DEF OpToRel
<1>3. k \in Nat /\ k # 0
  BY <1>1
<1>4. k - 1 \in Nat /\ k - 1 < k /\ (k - 1) + 1 = k
  BY <1>3
<1>5. k - 1 \in S
  BY <1>2, <1>4
<1>6. QED  BY <1>1, <1>4, <1>5

\* The largest of some indexes.
LEMMA Largest ==
    ASSUME NEW n \in Nat, NEW s \in SUBSET (1 .. n), NEW x \in s, \A y \in s : x >= y
    PROVE  Max(s) = x
<1>1. Max(s) \in s /\ \A y \in s : Max(s) >= y
  BY DEF Max
<1>2. Max(s) \in 1 .. n /\ x \in 1 .. n
  BY Zenon, <1>1
<1>3. Max(s) >= x /\ x >= Max(s)
  BY Zenon, <1>1
<1>4. QED  BY <1>2, <1>3

\* The index that FoldLeft takes away first.
LEMMA LargestOfAll == \A n \in Nat : n > 0 => Max(1 .. n) = n
<1> TAKE n \in Nat
<1> HAVE n > 0
<1>1. n \in 1 .. n /\ \A y \in 1 .. n : n >= y
  OBVIOUS
<1>2. QED  BY <1>1, Largest

\* Operators on the values V and the elements E, as functions.
Steps(V, E) == [V \X E -> V]

\* The recursive function of FoldLeft, for an operator that is a function.
Iterates(G, base, seq, n, f) ==
    \A s \in SUBSET (1 .. n) :
        f[s] = IF s = {} THEN base ELSE G[<<f[s \ {Max(s)}], seq[Max(s)]>>]

Iterable(V, G, base, seq) ==
    /\ \E f \in [SUBSET (1 .. Len(seq)) -> V] : Iterates(G, base, seq, Len(seq), f)
    /\ \A s \in SUBSET (1 .. Len(seq)) : s # {} => Max(s) \in s

\* The recursive function of FoldLeft exists, by induction over the number of indexes.
LEMMA IterateExists ==
    ASSUME NEW V, NEW E, NEW G \in Steps(V, E), NEW base \in V, NEW seq \in Seq(E)
    PROVE  Iterable(V, G, base, seq)
<1> DEFINE Good(n) == /\ \E f \in [SUBSET (1 .. n) -> V] : Iterates(G, base, seq, n, f)
                      /\ \A s \in SUBSET (1 .. n) : s # {} => Max(s) \in s
           S == {n \in Nat : n <= Len(seq) => Good(n)}
<1>1. 0 \in S
  <2> DEFINE f == [s \in SUBSET (1 .. 0) |-> base]
  <2>1. 1 .. 0 = {}
    OBVIOUS
  <2>2. \A s \in SUBSET (1 .. 0) : s = {}
    BY <2>1
  <2>3. f \in [SUBSET (1 .. 0) -> V]
    OBVIOUS
  <2>4. Iterates(G, base, seq, 0, f)
    BY <2>2 DEF Iterates
  <2>5. Good(0)
    BY <2>2, <2>3, <2>4
  <2>6. QED  BY <2>5
<1>2. ASSUME NEW n \in Nat, n \in S PROVE n + 1 \in S
  <2> HIDE DEF Good
  <2> SUFFICES ASSUME n + 1 <= Len(seq) PROVE Good(n + 1)
    OBVIOUS
  <2> DEFINE m == n + 1
  <2>1. m \in Nat /\ m \in 1 .. Len(seq) /\ m > n /\ n <= Len(seq) /\ m \notin 1 .. n
        /\ 1 .. m = (1 .. n) \cup {m} /\ seq[m] \in E
    OBVIOUS
  <2>2. Good(n)
    BY <1>2, <2>1
  <2>3. PICK g \in [SUBSET (1 .. n) -> V] : Iterates(G, base, seq, n, g)
    BY <2>2 DEF Good
  <2>4. \A x \in 1 .. n : x < m
    BY <2>1
  <2> HIDE DEF m
  <2> DEFINE f == [s \in SUBSET (1 .. m) |->
                      IF m \in s THEN G[<<g[s \ {m}], seq[m]>>] ELSE g[s]]
  <2>5. ASSUME NEW s \in SUBSET (1 .. m)
        PROVE  IF m \in s THEN Max(s) = m /\ s \ {m} \in SUBSET (1 .. n)
               ELSE s \in SUBSET (1 .. n) /\ (s # {} => Max(s) \in s)
    <3>1. CASE m \in s
      <4>1. \A y \in s : m >= y
        BY <2>1, <2>4
      <4>2. QED  BY <2>1, <3>1, <4>1, Largest
    <3>2. CASE m \notin s
      <4>1. s \in SUBSET (1 .. n)
        BY <2>1, <3>2
      <4>2. QED  BY <2>2, <3>2, <4>1 DEF Good
    <3>3. QED  BY <3>1, <3>2
  <2>6. f \in [SUBSET (1 .. m) -> V]
    <3>1. ASSUME NEW s \in SUBSET (1 .. m) PROVE f[s] \in V
      <4>1. CASE m \in s
        <5>1. g[s \ {m}] \in V
          BY <2>3, <2>5, <4>1
        <5>2. QED  BY <2>1, <4>1, <5>1 DEF Steps
      <4>2. CASE m \notin s
        BY <2>3, <2>5, <4>2
      <4>3. QED  BY <4>1, <4>2
    <3>2. QED  BY <3>1
  <2>7. Iterates(G, base, seq, m, f)
    <3>1. ASSUME NEW s \in SUBSET (1 .. m), m \in s
          PROVE  f[s] = G[<<f[s \ {Max(s)}], seq[Max(s)]>>]
      <4>1. Max(s) = m /\ s \ {m} \in SUBSET (1 .. m) /\ m \notin s \ {m}
        BY <2>5, <3>1
      <4>2. f[s \ {m}] = g[s \ {m}]
        BY <4>1
      <4>3. QED  BY <3>1, <4>1, <4>2
    <3>2. ASSUME NEW s \in SUBSET (1 .. m), m \notin s, s # {}
          PROVE  f[s] = G[<<f[s \ {Max(s)}], seq[Max(s)]>>]
      <4>1. s \in SUBSET (1 .. n) /\ s \ {Max(s)} \in SUBSET (1 .. m) /\ m \notin s \ {Max(s)}
        BY <2>5, <3>2
      <4>2. f[s] = g[s] /\ f[s \ {Max(s)}] = g[s \ {Max(s)}]
        BY <3>2, <4>1
      <4>3. g[s] = G[<<g[s \ {Max(s)}], seq[Max(s)]>>]
        BY <2>3, <3>2, <4>1 DEF Iterates
      <4>4. QED  BY <4>2, <4>3
    <3>3. f[{}] = base
      <4>1. {} \in SUBSET (1 .. m) /\ {} \in SUBSET (1 .. n) /\ m \notin {}
        OBVIOUS
      <4>2. g[{}] = base
        BY <2>3, <4>1 DEF Iterates
      <4>3. QED  BY <4>1, <4>2
    <3> HIDE DEF f
    <3>4. QED  BY <3>1, <3>2, <3>3 DEF Iterates
  <2>8. \A s \in SUBSET (1 .. m) : s # {} => Max(s) \in s
    BY <2>5
  <2>9. Good(m)
    BY <2>6, <2>7, <2>8 DEF Good
  <2>10. QED  BY <2>9 DEF m
<1> HIDE DEF S
<1>3. Nat \subseteq S
  BY <1>1, <1>2, Induction
<1>4. Len(seq) \in S
  BY <1>3
<1>5. Len(seq) \in Nat
  OBVIOUS
<1>6. Good(Len(seq))
  <2> HIDE DEF Good
  <2>1. QED  BY <1>4, <1>5 DEF S
<1>7. QED  BY <1>6 DEF Iterable

\* The values after each number of elements, and the last of them.
Run(G, base, seq, r) ==
    /\ r[0] = base
    /\ \A k \in 1 .. Len(seq) : r[k] = G[<<r[k - 1], seq[k]>>]
Fold(G, base, seq) == CHOOSE v : \E r : Run(G, base, seq, r) /\ v = r[Len(seq)]

\* Every run over the sequence ends with the same value.
LEMMA FoldIs ==
    ASSUME NEW G, NEW base, NEW E, NEW seq \in Seq(E), NEW r, Run(G, base, seq, r)
    PROVE  Fold(G, base, seq) = r[Len(seq)]
<1>1. ASSUME NEW q, Run(G, base, seq, q) PROVE q[Len(seq)] = r[Len(seq)]
  <2> DEFINE S == {n \in Nat : n <= Len(seq) => q[n] = r[n]}
  <2>1. 0 \in S
    BY <1>1 DEF Run
  <2>2. ASSUME NEW n \in Nat, n \in S PROVE n + 1 \in S
    <3> SUFFICES ASSUME n + 1 <= Len(seq) PROVE q[n + 1] = r[n + 1]
      OBVIOUS
    <3>1. n + 1 \in 1 .. Len(seq) /\ (n + 1) - 1 = n /\ n <= Len(seq)
      OBVIOUS
    <3>2. q[n] = r[n]
      BY <2>2, <3>1
    <3>3. q[n + 1] = G[<<q[n], seq[n + 1]>>] /\ r[n + 1] = G[<<r[n], seq[n + 1]>>]
      BY <1>1, <3>1 DEF Run
    <3>4. QED  BY <3>2, <3>3
  <2> HIDE DEF S
  <2>3. Len(seq) \in S
    BY <2>1, <2>2, Induction
  <2>4. QED  BY <2>3 DEF S
<1> DEFINE P(v) == \E q : Run(G, base, seq, q) /\ v = q[Len(seq)]
<1>2. P(r[Len(seq)])
  OBVIOUS
<1>3. Fold(G, base, seq) = CHOOSE v : P(v)
  BY DEF Fold
<1>4. P(CHOOSE v : P(v))
  <2> HIDE DEF P
  <2>1. QED  BY Zenon, <1>2
<1>5. QED  BY <1>1, <1>3, <1>4

\* A run exists, and its values are in V.
LEMMA FoldType ==
    ASSUME NEW V, NEW E, NEW G \in Steps(V, E), NEW base \in V, NEW seq \in Seq(E)
    PROVE  /\ \E r \in [0 .. Len(seq) -> V] : Run(G, base, seq, r)
           /\ Fold(G, base, seq) \in V
<1> DEFINE n == Len(seq)
<1>0. /\ \E f \in [SUBSET (1 .. Len(seq)) -> V] : Iterates(G, base, seq, Len(seq), f)
      /\ \A s \in SUBSET (1 .. Len(seq)) : s # {} => Max(s) \in s
  <2>1. Iterable(V, G, base, seq)
    BY IterateExists
  <2>2. QED  BY Zenon, <2>1 DEF Iterable
<1>1. PICK f \in [SUBSET (1 .. n) -> V] : Iterates(G, base, seq, n, f)
  BY Zenon, <1>0
<1>2. n \in Nat
  OBVIOUS
<1> HIDE DEF n
<1> DEFINE r == [k \in 0 .. n |-> f[1 .. k]]
<1>3. \A k \in 0 .. n : 1 .. k \in SUBSET (1 .. n)
  BY <1>2
<1>4. r \in [0 .. n -> V]
  BY <1>1, <1>3
<1>5. r[0] = base
  <2>1. 1 .. 0 = {} /\ 0 \in 0 .. n
    BY <1>2
  <2>2. f[{}] = base
    BY <1>1 DEF Iterates
  <2>3. QED  BY <2>1, <2>2
<1>6. ASSUME NEW k \in 1 .. n PROVE r[k] = G[<<r[k - 1], seq[k]>>]
  <2>1. /\ k \in Nat /\ k > 0 /\ k \in 0 .. n /\ k - 1 \in 0 .. n /\ 1 .. k # {}
        /\ (1 .. k) \ {k} = 1 .. (k - 1)
    <3>1. k \in Nat /\ k > 0 /\ k \in 0 .. n /\ k - 1 \in 0 .. n /\ 1 \in 1 .. k
      BY <1>2
    <3>2. \A x : x \in (1 .. k) \ {k} <=> x \in 1 .. (k - 1)
      BY <3>1
    <3>3. QED  BY <3>1, <3>2
  <2>2. Max(1 .. k) = k
    BY <2>1, LargestOfAll
  <2>3. f[1 .. k] = G[<<f[(1 .. k) \ {k}], seq[k]>>]
    BY <1>1, <1>3, <2>1, <2>2 DEF Iterates
  <2>4. r[k] = f[1 .. k] /\ r[k - 1] = f[1 .. (k - 1)]
    BY <2>1
  <2>5. QED  BY Zenon, <2>1, <2>3, <2>4
<1> HIDE DEF r
<1>7. Run(G, base, seq, r)
  BY <1>5, <1>6 DEF Run, n
<1>8. n \in 0 .. n
  BY <1>2
<1>9. QED  BY <1>4, <1>7, <1>8, FoldIs DEF n

\* A fold over nothing is its base.
LEMMA FoldEmpty ==
    ASSUME NEW G, NEW base
    PROVE  Fold(G, base, <<>>) = base
<1> DEFINE r == [k \in {0} |-> base]
<1>1. Run(G, base, <<>>, r) /\ r[0] = base
  BY DEF Run
<1>2. <<>> \in Seq({}) /\ Len(<<>>) = 0
  OBVIOUS
<1> HIDE DEF r
<1>3. QED  BY <1>1, <1>2, FoldIs

\* A fold over one element is one step.
LEMMA FoldOne ==
    ASSUME NEW V, NEW E, NEW G \in Steps(V, E), NEW base \in V, NEW e \in E
    PROVE  Fold(G, base, <<e>>) = G[<<base, e>>]
<1>1. <<e>> \in Seq(E) /\ Len(<<e>>) = 1 /\ <<e>>[1] = e /\ 1 \in 1 .. 1 /\ 1 - 1 = 0
  OBVIOUS
<1>2. PICK r \in [0 .. Len(<<e>>) -> V] : Run(G, base, <<e>>, r)
  BY <1>1, FoldType
<1>3. r[1] = G[<<r[0], e>>] /\ r[0] = base
  BY <1>1, <1>2 DEF Run
<1>4. Fold(G, base, <<e>>) = r[1]
  BY <1>1, <1>2, FoldIs
<1>5. QED  BY <1>3, <1>4

\* A fold over a concatenation goes on where the fold over the first part ends.
LEMMA FoldConcat ==
    ASSUME NEW V, NEW E, NEW G \in Steps(V, E), NEW base \in V,
           NEW a \in Seq(E), NEW b \in Seq(E)
    PROVE  Fold(G, base, a \o b) = Fold(G, Fold(G, base, a), b)
<1> DEFINE n == Len(a)
           m == Len(b)
           c == a \o b
<1>1. /\ n \in Nat /\ m \in Nat /\ c \in Seq(E) /\ Len(c) = n + m
      /\ \A k \in 1 .. n : c[k] = a[k]
      /\ \A k \in 1 .. m : c[n + k] = b[k]
  OBVIOUS
<1>2. PICK q \in [0 .. n -> V] : Run(G, base, a, q)
  BY FoldType
<1>3. Fold(G, base, a) = q[n] /\ q[n] \in V
  BY <1>1, <1>2, FoldIs
<1>4. PICK p \in [0 .. m -> V] : Run(G, q[n], b, p)
  BY <1>3, FoldType
<1>5. Fold(G, q[n], b) = p[m]
  BY <1>4, FoldIs
<1>6. /\ q[0] = base /\ \A k \in 1 .. n : q[k] = G[<<q[k - 1], a[k]>>]
      /\ p[0] = q[n] /\ \A k \in 1 .. m : p[k] = G[<<p[k - 1], b[k]>>]
  BY <1>2, <1>4 DEF Run
<1> HIDE DEF n, m, c
<1> DEFINE r == [k \in 0 .. (n + m) |-> IF k <= n THEN q[k] ELSE p[k - n]]
<1>7. r[0] = base
  BY <1>1, <1>6
<1>8. ASSUME NEW k \in 1 .. (n + m) PROVE r[k] = G[<<r[k - 1], c[k]>>]
  <2>1. k \in 0 .. (n + m) /\ k - 1 \in 0 .. (n + m) /\ k \in Nat
    BY <1>1
  <2>2. CASE k <= n
    <3>1. k \in 1 .. n /\ k - 1 <= n
      BY <1>1, <2>1, <2>2
    <3>2. r[k] = q[k] /\ r[k - 1] = q[k - 1] /\ c[k] = a[k]
      BY <1>1, <2>1, <2>2, <3>1
    <3>3. QED  BY <1>6, <3>1, <3>2
  <2>3. CASE k = n + 1
    <3>1. /\ ~(k <= n) /\ k - 1 <= n /\ k - 1 = n /\ k - n = 1 /\ 1 \in 1 .. m /\ 1 - 1 = 0
          /\ n + 1 = k
      BY <1>1, <2>1, <2>3
    <3>2. r[k] = p[1] /\ r[k - 1] = q[n] /\ c[k] = b[1]
      BY <1>1, <2>1, <3>1
    <3>3. p[1] = G[<<p[0], b[1]>>]
      BY <1>6, <3>1
    <3>4. QED  BY <1>6, <3>2, <3>3
  <2>4. CASE k > n + 1
    <3> DEFINE j == k - n
    <3>1. /\ ~(k <= n) /\ ~(k - 1 <= n) /\ (k - 1) - n = j - 1 /\ j \in 1 .. m /\ n + j = k
      BY <1>1, <2>1, <2>4
    <3>2. r[k] = p[j] /\ r[k - 1] = p[j - 1]
      BY <2>1, <3>1
    <3> HIDE DEF j
    <3>3. c[k] = b[j] /\ p[j] = G[<<p[j - 1], b[j]>>]
      BY <1>1, <1>6, <3>1
    <3>4. QED  BY <3>2, <3>3
  <2>5. QED  BY <1>1, <2>1, <2>2, <2>3, <2>4
<1>9. r[n + m] = p[m]
  <2>1. n + m \in 0 .. (n + m) /\ (n + m) - n = m
    BY <1>1
  <2>2. CASE m = 0
    BY <1>1, <1>6, <2>1, <2>2
  <2>3. CASE m # 0
    BY <1>1, <2>1, <2>3
  <2>4. QED  BY <2>2, <2>3
<1> HIDE DEF r
<1>10. Run(G, base, c, r)
  BY <1>1, <1>7, <1>8 DEF Run
<1>11. Fold(G, base, c) = r[n + m]
  <2>1. c \in Seq(E)
    BY <1>1
  <2>2. Fold(G, base, c) = r[Len(c)]
    BY <1>10, <2>1, FoldIs
  <2>3. QED  BY <1>1, <2>2
<1>12. QED  BY <1>3, <1>5, <1>9, <1>11 DEF c

\* One element more is one step more.
LEMMA FoldAppend ==
    ASSUME NEW V, NEW E, NEW G \in Steps(V, E), NEW base \in V,
           NEW a \in Seq(E), NEW e \in E
    PROVE  Fold(G, base, Append(a, e)) = G[<<Fold(G, base, a), e>>]
<1> DEFINE b == <<e>>
<1>1. Append(a, e) = a \o b /\ b \in Seq(E)
  OBVIOUS
<1>2. Fold(G, base, a) \in V
  BY FoldType
<1>3. Fold(G, base, a \o b) = Fold(G, Fold(G, base, a), b)
  <2> HIDE DEF b
  <2>1. QED  BY <1>1, FoldConcat
<1>4. Fold(G, Fold(G, base, a), b) = G[<<Fold(G, base, a), e>>]
  BY <1>2, FoldOne
<1>5. QED  BY <1>1, <1>3, <1>4

\* What every element keeps, all of them keep.
LEMMA FoldKeeps ==
    ASSUME NEW V, NEW E, NEW G \in Steps(V, E), NEW P \in SUBSET V, NEW base \in P,
           NEW seq \in Seq(E), \A v \in P : \A k \in 1 .. Len(seq) : G[<<v, seq[k]>>] \in P
    PROVE  Fold(G, base, seq) \in P
<1>1. PICK r \in [0 .. Len(seq) -> V] : Run(G, base, seq, r)
  BY FoldType
<1>2. Fold(G, base, seq) = r[Len(seq)]
  BY <1>1, FoldIs
<1> DEFINE S == {n \in Nat : n <= Len(seq) => r[n] \in P}
<1>3. 0 \in S
  BY <1>1 DEF Run
<1>4. ASSUME NEW n \in Nat, n \in S PROVE n + 1 \in S
  <2> SUFFICES ASSUME n + 1 <= Len(seq) PROVE r[n + 1] \in P
    OBVIOUS
  <2>1. n + 1 \in 1 .. Len(seq) /\ (n + 1) - 1 = n /\ n <= Len(seq)
    OBVIOUS
  <2>2. r[n] \in P
    BY <1>4, <2>1
  <2>3. r[n + 1] = G[<<r[n], seq[n + 1]>>]
    BY <1>1, <2>1 DEF Run
  <2>4. QED  BY <2>1, <2>2, <2>3
<1> HIDE DEF S
<1>5. Len(seq) \in S
  BY <1>3, <1>4, Induction
<1>6. QED  BY <1>2, <1>5 DEF S

\* From the recursive function of FoldLeft to the values after each number of elements.
Unfolds(V, G, seq, f) ==
    \A s \in SUBSET (1 .. Len(seq)) : s # {} /\ f[s \ {Max(s)}] \in V =>
        f[s] = G[<<f[s \ {Max(s)}], seq[Max(s)]>>]

\* The recursive function of FoldLeft computes the fold.
LEMMA FoldOf ==
    ASSUME NEW V, NEW E, NEW G \in Steps(V, E), NEW base \in V, NEW seq \in Seq(E),
           NEW f, f[{}] = base, Unfolds(V, G, seq, f)
    PROVE  f[1 .. Len(seq)] = Fold(G, base, seq)
<1> DEFINE n == Len(seq)
           S == {k \in Nat : k <= n => f[1 .. k] \in V}
           r == [k \in 0 .. n |-> f[1 .. k]]
<1>1. n \in Nat
  OBVIOUS
<1>2. ASSUME NEW k \in Nat, k + 1 <= n, f[1 .. k] \in V
      PROVE  f[1 .. (k + 1)] = G[<<f[1 .. k], seq[k + 1]>>] /\ f[1 .. (k + 1)] \in V
  <2>1. /\ 1 .. (k + 1) \in SUBSET (1 .. n) /\ 1 .. (k + 1) # {}
        /\ (1 .. (k + 1)) \ {k + 1} = 1 .. k /\ seq[k + 1] \in E
    <3>1. k + 1 \in 1 .. n /\ \A x : x \in (1 .. (k + 1)) \ {k + 1} <=> x \in 1 .. k
      BY <1>1, <1>2
    <3>2. \A x \in 1 .. (k + 1) : x \in 1 .. n
      BY <1>1, <1>2
    <3>3. 1 \in 1 .. (k + 1)
      BY <1>2
    <3>4. seq[k + 1] \in E
      BY <3>1
    <3>5. (1 .. (k + 1)) \ {k + 1} = 1 .. k
      BY <3>1
    <3>6. QED  BY Zenon, <3>2, <3>3, <3>4, <3>5
  <2>2. Max(1 .. (k + 1)) = k + 1
    BY LargestOfAll
  <2>3. f[1 .. (k + 1)] = G[<<f[1 .. k], seq[k + 1]>>]
    BY <1>2, <2>1, <2>2 DEF Unfolds
  <2>4. QED  BY <1>2, <2>1, <2>3 DEF Steps
<1> HIDE DEF n
<1>3. 1 .. 0 = {}
  OBVIOUS
<1>4. 0 \in S
  BY <1>3
<1>5. ASSUME NEW k \in Nat, k \in S PROVE k + 1 \in S
  <2> SUFFICES ASSUME k + 1 <= n PROVE f[1 .. (k + 1)] \in V
    OBVIOUS
  <2>1. k <= n
    BY <1>1
  <2>2. f[1 .. k] \in V
    BY <1>5, <2>1
  <2>3. QED  BY Zenon, <1>2, <2>2
<1>6. Nat \subseteq S
  <2> HIDE DEF S
  <2>1. QED  BY <1>4, <1>5, Induction
<1>7. ASSUME NEW k \in 1 .. n PROVE r[k] = G[<<r[k - 1], seq[k]>>]
  <2>1. k - 1 \in Nat /\ (k - 1) + 1 = k /\ k <= n /\ k - 1 <= n
        /\ k \in 0 .. n /\ k - 1 \in 0 .. n
    BY <1>1
  <2>2. f[1 .. (k - 1)] \in V
    BY <1>6, <2>1
  <2>3. f[1 .. k] = G[<<f[1 .. (k - 1)], seq[k]>>]
    <3>1. f[1 .. ((k - 1) + 1)] = G[<<f[1 .. (k - 1)], seq[(k - 1) + 1]>>]
      BY <1>2, <2>1, <2>2
    <3>2. QED  BY <2>1, <3>1
  <2>4. QED  BY <2>1, <2>3
<1>8. r[0] = base /\ r[n] = f[1 .. n]
  BY <1>1, <1>3
<1> HIDE DEF r
<1>9. Run(G, base, seq, r)
  BY <1>7, <1>8 DEF Run, n
<1>10. QED  BY <1>8, <1>9, FoldIs DEF n

(***************************************************************************)
(* The folds of the model, one after the other: a run of atoms, a history, the  *)
(* atoms of a history, the canonical history, a batch of instructions.         *)
(***************************************************************************)
Instructions == [op : {"bytes"}, run : Seq(Atoms)] \cup [op : {"resize"}, size : Nat]
                    \cup [op : {"control"}, id : Int] \cup [op : {"marker"}, value : Int]

\* What a history retains is an instruction.
LEMMA OperationsAre ==
    /\ Operations \subseteq Instructions
    /\ \A h \in Seq(Operations) : h \in Seq(Instructions)
<1>1. Operations \subseteq Instructions
  BY DEF Operations, Instructions
<1>2. QED  BY <1>1

AtomStep == [p \in Screens \X Atoms |-> ApplyAtom(p[1], p[2])]

\* One atom on a screen leaves a screen.
LEMMA AtomStepType ==
    /\ AtomStep \in Steps(Screens, Atoms)
    /\ \A v \in Screens, e \in Atoms : AtomStep[<<v, e>>] = ApplyAtom(v, e)
<1>1. \A v \in Screens, e \in Atoms : ApplyAtom(v, e) \in Screens
  BY DEF ApplyAtom, Screens, Atoms, Garbled, AnyContent
<1>2. \A v \in Screens, e \in Atoms : AtomStep[<<v, e>>] = ApplyAtom(v, e)
  BY DEF AtomStep
<1>3. ASSUME NEW p \in Screens \X Atoms PROVE ApplyAtom(p[1], p[2]) \in Screens
  BY <1>1
<1>4. AtomStep \in Steps(Screens, Atoms)
  BY Zenon, <1>3 DEF AtomStep, Steps
<1>5. QED  BY <1>2, <1>4

\* FoldLeft of ApplyAtom is the fold of that step.
LEMMA AtomFold ==
    ASSUME NEW base \in Screens, NEW seq \in Seq(Atoms)
    PROVE  FoldLeft(ApplyAtom, base, seq) = Fold(AtomStep, base, seq)
<1> DEFINE Body(f, s) ==
               IF s = {} THEN base ELSE ApplyAtom(f[s \ {Max(s)}], seq[Max(s)])
           Is(f) == f = [s \in SUBSET DOMAIN seq |-> Body(f, s)]
           it == CHOOSE f : Is(f)
<1>1. FoldLeft(ApplyAtom, base, seq) = it[DOMAIN seq]
  BY Zenon DEF FoldLeft, MapThenFoldSet
<1>2. DOMAIN seq = 1 .. Len(seq)
  OBVIOUS
<1>3. AtomStep \in Steps(Screens, Atoms)
  BY AtomStepType
<1>4. /\ \E f \in [SUBSET (1 .. Len(seq)) -> Screens] : Iterates(AtomStep, base, seq, Len(seq), f)
      /\ \A s \in SUBSET (1 .. Len(seq)) : s # {} => Max(s) \in s
  <2> HIDE DEF it, Is, Body
  <2>1. Iterable(Screens, AtomStep, base, seq)
    BY <1>3, IterateExists
  <2>2. QED  BY Zenon, <2>1 DEF Iterable
<1>5. PICK g \in [SUBSET (1 .. Len(seq)) -> Screens] : Iterates(AtomStep, base, seq, Len(seq), g)
  BY Zenon, <1>4
<1>6. \A v \in Screens, e \in Atoms : AtomStep[<<v, e>>] = ApplyAtom(v, e)
  BY AtomStepType
<1>7. \A s \in SUBSET (1 .. Len(seq)) : s # {} =>
          seq[Max(s)] \in Atoms /\ s \ {Max(s)} \in SUBSET (1 .. Len(seq))
  <2>1. \A i \in 1 .. Len(seq) : seq[i] \in Atoms
    OBVIOUS
  <2>2. QED  BY Zenon, <1>4, <2>1
<1>8. \A s \in SUBSET (1 .. Len(seq)) : g[s] = Body(g, s)
  BY <1>5, <1>6, <1>7 DEF Iterates
<1>9. Is(g)
  <2> HIDE DEF Body
  <2>1. g = [s \in SUBSET (1 .. Len(seq)) |-> Body(g, s)]
    BY Zenon, <1>5, <1>8
  <2>2. QED  BY Zenon, <1>2, <2>1
<1>10. Is(it)
  <2> HIDE DEF Is
  <2>1. QED  BY Zenon, <1>9
<1> HIDE DEF it
<1>11. \A s \in SUBSET (1 .. Len(seq)) : it[s] = Body(it, s)
  <2> HIDE DEF Body
  <2>1. QED  BY Zenon, <1>2, <1>10
<1>12. it[{}] = base
  BY <1>11
<1>13. ASSUME NEW s \in SUBSET (1 .. Len(seq)), s # {}, it[s \ {Max(s)}] \in Screens
       PROVE  it[s] = AtomStep[<<it[s \ {Max(s)}], seq[Max(s)]>>]
  <2>1. it[s] = ApplyAtom(it[s \ {Max(s)}], seq[Max(s)])
    BY <1>11, <1>13
  <2>2. QED  BY Zenon, <1>6, <1>7, <1>13, <2>1
<1>14. it[1 .. Len(seq)] = Fold(AtomStep, base, seq)
  <2>1. Unfolds(Screens, AtomStep, seq, it)
    BY Zenon, <1>13 DEF Unfolds
  <2>2. QED  BY <1>3, <1>12, <2>1, FoldOf
<1>15. QED  BY <1>1, <1>2, <1>14

\* A run on a screen: nothing, more of it, its last atom.
LEMMA AtomsApplied ==
    /\ \A q \in Screens, run \in Seq(Atoms) : FoldLeft(ApplyAtom, q, run) \in Screens
    /\ \A q \in Screens, a \in Seq(Atoms), b \in Seq(Atoms) :
          FoldLeft(ApplyAtom, q, a \o b) = FoldLeft(ApplyAtom, FoldLeft(ApplyAtom, q, a), b)
    /\ \A q \in Screens, e \in Atoms : FoldLeft(ApplyAtom, q, <<e>>) = ApplyAtom(q, e)
<1>1. ASSUME NEW q \in Screens, NEW run \in Seq(Atoms)
      PROVE  /\ FoldLeft(ApplyAtom, q, run) = Fold(AtomStep, q, run)
             /\ FoldLeft(ApplyAtom, q, run) \in Screens
  BY AtomFold, FoldType, AtomStepType
<1>2. ASSUME NEW q \in Screens, NEW a \in Seq(Atoms), NEW b \in Seq(Atoms)
      PROVE  FoldLeft(ApplyAtom, q, a \o b) = FoldLeft(ApplyAtom, FoldLeft(ApplyAtom, q, a), b)
  <2>1. a \o b \in Seq(Atoms)
    OBVIOUS
  <2>2. Fold(AtomStep, q, a \o b) = Fold(AtomStep, Fold(AtomStep, q, a), b)
    BY AtomStepType, FoldConcat
  <2>3. QED  BY <1>1, <2>1, <2>2
<1>3. ASSUME NEW q \in Screens, NEW e \in Atoms
      PROVE  FoldLeft(ApplyAtom, q, <<e>>) = ApplyAtom(q, e)
  <2>1. <<e>> \in Seq(Atoms)
    OBVIOUS
  <2>2. Fold(AtomStep, q, <<e>>) = AtomStep[<<q, e>>]
    BY AtomStepType, FoldOne
  <2>3. QED  BY <1>1, <2>1, <2>2, AtomStepType
<1>4. QED  BY <1>1, <1>2, <1>3

OperationStep == [p \in Screens \X Instructions |-> ApplyOperation(p[1], p[2])]

\* One operation on a screen leaves a screen.
LEMMA OperationStepType ==
    /\ OperationStep \in Steps(Screens, Instructions)
    /\ \A v \in Screens, e \in Instructions : OperationStep[<<v, e>>] = ApplyOperation(v, e)
<1>1. ASSUME NEW v \in Screens, NEW e \in Instructions PROVE ApplyOperation(v, e) \in Screens
  <2>1. CASE e.op = "bytes"
    <3>1. e.run \in Seq(Atoms)
      BY <2>1 DEF Instructions
    <3>2. ApplyOperation(v, e) = FoldLeft(ApplyAtom, v, e.run)
      BY <2>1 DEF ApplyOperation
    <3>3. QED  BY <3>1, <3>2, AtomsApplied
  <2>2. CASE e.op = "resize"
    <3>1. e.size \in Nat
      BY <2>2 DEF Instructions
    <3>2. ApplyOperation(v, e) = [v EXCEPT !.size = e.size]
      BY <2>2 DEF ApplyOperation
    <3>3. QED  BY <3>1, <3>2 DEF Screens
  <2>3. CASE e.op \notin {"bytes", "resize"}
    BY <2>3 DEF ApplyOperation
  <2>4. QED  BY <2>1, <2>2, <2>3
<1>2. \A v \in Screens, e \in Instructions : OperationStep[<<v, e>>] = ApplyOperation(v, e)
  BY DEF OperationStep
<1>3. ASSUME NEW p \in Screens \X Instructions PROVE ApplyOperation(p[1], p[2]) \in Screens
  BY <1>1
<1>4. OperationStep \in Steps(Screens, Instructions)
  BY Zenon, <1>3 DEF OperationStep, Steps
<1>5. QED  BY <1>2, <1>4

\* FoldLeft of ApplyOperation is the fold of that step.
LEMMA OperationFold ==
    ASSUME NEW base \in Screens, NEW seq \in Seq(Instructions)
    PROVE  FoldLeft(ApplyOperation, base, seq) = Fold(OperationStep, base, seq)
<1> DEFINE Body(f, s) ==
               IF s = {} THEN base ELSE ApplyOperation(f[s \ {Max(s)}], seq[Max(s)])
           Is(f) == f = [s \in SUBSET DOMAIN seq |-> Body(f, s)]
           it == CHOOSE f : Is(f)
<1>1. FoldLeft(ApplyOperation, base, seq) = it[DOMAIN seq]
  BY Zenon DEF FoldLeft, MapThenFoldSet
<1>2. DOMAIN seq = 1 .. Len(seq)
  OBVIOUS
<1>3. OperationStep \in Steps(Screens, Instructions)
  BY OperationStepType
<1>4. /\ \E f \in [SUBSET (1 .. Len(seq)) -> Screens] : Iterates(OperationStep, base, seq, Len(seq), f)
      /\ \A s \in SUBSET (1 .. Len(seq)) : s # {} => Max(s) \in s
  <2> HIDE DEF it, Is, Body
  <2>1. Iterable(Screens, OperationStep, base, seq)
    BY <1>3, IterateExists
  <2>2. QED  BY Zenon, <2>1 DEF Iterable
<1>5. PICK g \in [SUBSET (1 .. Len(seq)) -> Screens] : Iterates(OperationStep, base, seq, Len(seq), g)
  BY Zenon, <1>4
<1>6. \A v \in Screens, e \in Instructions : OperationStep[<<v, e>>] = ApplyOperation(v, e)
  BY OperationStepType
<1>7. \A s \in SUBSET (1 .. Len(seq)) : s # {} =>
          seq[Max(s)] \in Instructions /\ s \ {Max(s)} \in SUBSET (1 .. Len(seq))
  <2>1. \A i \in 1 .. Len(seq) : seq[i] \in Instructions
    OBVIOUS
  <2>2. QED  BY Zenon, <1>4, <2>1
<1>8. \A s \in SUBSET (1 .. Len(seq)) : g[s] = Body(g, s)
  BY <1>5, <1>6, <1>7 DEF Iterates
<1>9. Is(g)
  <2> HIDE DEF Body
  <2>1. g = [s \in SUBSET (1 .. Len(seq)) |-> Body(g, s)]
    BY Zenon, <1>5, <1>8
  <2>2. QED  BY Zenon, <1>2, <2>1
<1>10. Is(it)
  <2> HIDE DEF Is
  <2>1. QED  BY Zenon, <1>9
<1> HIDE DEF it
<1>11. \A s \in SUBSET (1 .. Len(seq)) : it[s] = Body(it, s)
  <2> HIDE DEF Body
  <2>1. QED  BY Zenon, <1>2, <1>10
<1>12. it[{}] = base
  BY <1>11
<1>13. ASSUME NEW s \in SUBSET (1 .. Len(seq)), s # {}, it[s \ {Max(s)}] \in Screens
       PROVE  it[s] = OperationStep[<<it[s \ {Max(s)}], seq[Max(s)]>>]
  <2>1. it[s] = ApplyOperation(it[s \ {Max(s)}], seq[Max(s)])
    BY <1>11, <1>13
  <2>2. QED  BY Zenon, <1>6, <1>7, <1>13, <2>1
<1>14. it[1 .. Len(seq)] = Fold(OperationStep, base, seq)
  <2>1. Unfolds(Screens, OperationStep, seq, it)
    BY Zenon, <1>13 DEF Unfolds
  <2>2. QED  BY <1>3, <1>12, <2>1, FoldOf
<1>15. QED  BY <1>1, <1>2, <1>14

\* The atoms of a history.
AddAtoms(atoms, o) == IF o.op = "bytes" THEN atoms \o o.run ELSE atoms
Runs == Seq(Atoms)
AddStep == [p \in Runs \X Instructions |-> AddAtoms(p[1], p[2])]

\* Atoms are added to a run.
LEMMA AddStepType ==
    /\ AddStep \in Steps(Runs, Instructions)
    /\ \A v \in Runs, e \in Instructions : AddStep[<<v, e>>] = AddAtoms(v, e)
<1>1. ASSUME NEW v \in Runs, NEW e \in Instructions PROVE AddAtoms(v, e) \in Runs
  <2>1. e.op = "bytes" => e.run \in Runs
    BY DEF Instructions, Runs
  <2>2. QED  BY <2>1 DEF AddAtoms, Runs
<1>2. \A v \in Runs, e \in Instructions : AddStep[<<v, e>>] = AddAtoms(v, e)
  BY DEF AddStep
<1>3. ASSUME NEW p \in Runs \X Instructions PROVE AddAtoms(p[1], p[2]) \in Runs
  BY <1>1
<1>4. AddStep \in Steps(Runs, Instructions)
  BY Zenon, <1>3 DEF AddStep, Steps
<1>5. QED  BY <1>2, <1>4

\* AllAtoms is the fold of that step.
LEMMA AddFold ==
    ASSUME NEW base \in Runs, NEW seq \in Seq(Instructions)
    PROVE  FoldLeft(LAMBDA atoms, o : IF o.op = "bytes" THEN atoms \o o.run ELSE atoms, base, seq) = Fold(AddStep, base, seq)
<1> DEFINE Body(f, s) ==
               IF s = {} THEN base ELSE AddAtoms(f[s \ {Max(s)}], seq[Max(s)])
           Is(f) == f = [s \in SUBSET DOMAIN seq |-> Body(f, s)]
           it == CHOOSE f : Is(f)
<1>1. FoldLeft(LAMBDA atoms, o : IF o.op = "bytes" THEN atoms \o o.run ELSE atoms, base, seq) = it[DOMAIN seq]
  BY Zenon DEF FoldLeft, MapThenFoldSet, AddAtoms
<1>2. DOMAIN seq = 1 .. Len(seq)
  OBVIOUS
<1>3. AddStep \in Steps(Runs, Instructions)
  BY AddStepType
<1>4. /\ \E f \in [SUBSET (1 .. Len(seq)) -> Runs] : Iterates(AddStep, base, seq, Len(seq), f)
      /\ \A s \in SUBSET (1 .. Len(seq)) : s # {} => Max(s) \in s
  <2> HIDE DEF it, Is, Body
  <2>1. Iterable(Runs, AddStep, base, seq)
    BY <1>3, IterateExists
  <2>2. QED  BY Zenon, <2>1 DEF Iterable
<1>5. PICK g \in [SUBSET (1 .. Len(seq)) -> Runs] : Iterates(AddStep, base, seq, Len(seq), g)
  BY Zenon, <1>4
<1>6. \A v \in Runs, e \in Instructions : AddStep[<<v, e>>] = AddAtoms(v, e)
  BY AddStepType
<1>7. \A s \in SUBSET (1 .. Len(seq)) : s # {} =>
          seq[Max(s)] \in Instructions /\ s \ {Max(s)} \in SUBSET (1 .. Len(seq))
  <2>1. \A i \in 1 .. Len(seq) : seq[i] \in Instructions
    OBVIOUS
  <2>2. QED  BY Zenon, <1>4, <2>1
<1>8. \A s \in SUBSET (1 .. Len(seq)) : g[s] = Body(g, s)
  BY <1>5, <1>6, <1>7 DEF Iterates
<1>9. Is(g)
  <2> HIDE DEF Body
  <2>1. g = [s \in SUBSET (1 .. Len(seq)) |-> Body(g, s)]
    BY Zenon, <1>5, <1>8
  <2>2. QED  BY Zenon, <1>2, <2>1
<1>10. Is(it)
  <2> HIDE DEF Is
  <2>1. QED  BY Zenon, <1>9
<1> HIDE DEF it
<1>11. \A s \in SUBSET (1 .. Len(seq)) : it[s] = Body(it, s)
  <2> HIDE DEF Body
  <2>1. QED  BY Zenon, <1>2, <1>10
<1>12. it[{}] = base
  BY <1>11
<1>13. ASSUME NEW s \in SUBSET (1 .. Len(seq)), s # {}, it[s \ {Max(s)}] \in Runs
       PROVE  it[s] = AddStep[<<it[s \ {Max(s)}], seq[Max(s)]>>]
  <2>1. it[s] = AddAtoms(it[s \ {Max(s)}], seq[Max(s)])
    BY <1>11, <1>13
  <2>2. QED  BY Zenon, <1>6, <1>7, <1>13, <2>1
<1>14. it[1 .. Len(seq)] = Fold(AddStep, base, seq)
  <2>1. Unfolds(Runs, AddStep, seq, it)
    BY Zenon, <1>13 DEF Unfolds
  <2>2. QED  BY <1>3, <1>12, <2>1, FoldOf
<1>15. QED  BY <1>1, <1>2, <1>14

\* The canonical history.
MergeStep == [p \in Seq(Operations) \X Operations |-> Merge(p[1], p[2])]

\* An operation merged into a canonical history leaves a history.
LEMMA Merged ==
    ASSUME NEW h \in Seq(Operations), NEW o \in Operations
    PROVE  /\ Merge(h, o) \in Seq(Operations)
           /\ \/ Merge(h, o) = Append(h, o)
              \/ /\ h # <<>> /\ h[Len(h)].op = "bytes" /\ o.op = "bytes"
                 /\ h[Len(h)].run \in Seq(Atoms) \ {<<>>} /\ o.run \in Seq(Atoms) \ {<<>>}
                 /\ Front(h) \in Seq(Operations) /\ h = Append(Front(h), h[Len(h)])
                 /\ HostBytes(h[Len(h)].run \o o.run) \in Operations
                 /\ Merge(h, o) = Append(Front(h), HostBytes(h[Len(h)].run \o o.run))
<1>1. CASE ~(h # <<>> /\ o.op = "bytes" /\ h[Len(h)].op = "bytes")
  <2>1. Merge(h, o) = Append(h, o)
    BY <1>1 DEF Merge, Last
  <2>2. QED  BY <2>1
<1>2. CASE h # <<>> /\ o.op = "bytes" /\ h[Len(h)].op = "bytes"
  <2> DEFINE l == h[Len(h)]
  <2>1. l \in Operations /\ Front(h) \in Seq(Operations) /\ h = Append(Front(h), l)
    BY <1>2 DEF Front
  <2>2. l.run \in Seq(Atoms) \ {<<>>} /\ o.run \in Seq(Atoms) \ {<<>>}
    BY <1>2, <2>1 DEF Operations
  <2>3. l.run \o o.run \in Seq(Atoms) \ {<<>>}
    BY <2>2
  <2>4. HostBytes(l.run \o o.run) \in Operations
    BY <2>3 DEF HostBytes, Operations
  <2>5. Merge(h, o) = Append(Front(h), HostBytes(l.run \o o.run))
    BY <1>2 DEF Merge, Last
  <2>6. Append(Front(h), HostBytes(l.run \o o.run)) \in Seq(Operations)
    BY <2>1, <2>4
  <2>7. QED  BY <1>2, <2>1, <2>2, <2>4, <2>5, <2>6
<1>3. QED  BY <1>1, <1>2

\* The same for the step as a function.
LEMMA MergeStepType ==
    /\ MergeStep \in Steps(Seq(Operations), Operations)
    /\ \A v \in Seq(Operations), e \in Operations : MergeStep[<<v, e>>] = Merge(v, e)
<1>1. \A v \in Seq(Operations), e \in Operations : Merge(v, e) \in Seq(Operations)
  BY Zenon, Merged
<1>2. \A v \in Seq(Operations), e \in Operations : MergeStep[<<v, e>>] = Merge(v, e)
  BY DEF MergeStep
<1>3. ASSUME NEW p \in Seq(Operations) \X Operations PROVE Merge(p[1], p[2]) \in Seq(Operations)
  BY <1>1
<1>4. MergeStep \in Steps(Seq(Operations), Operations)
  BY Zenon, <1>3 DEF MergeStep, Steps
<1>5. QED  BY <1>2, <1>4

\* Canonical is the fold of that step.
LEMMA MergeFold ==
    ASSUME NEW base \in Seq(Operations), NEW seq \in Seq(Operations)
    PROVE  FoldLeft(Merge, base, seq) = Fold(MergeStep, base, seq)
<1> DEFINE Body(f, s) ==
               IF s = {} THEN base ELSE Merge(f[s \ {Max(s)}], seq[Max(s)])
           Is(f) == f = [s \in SUBSET DOMAIN seq |-> Body(f, s)]
           it == CHOOSE f : Is(f)
<1>1. FoldLeft(Merge, base, seq) = it[DOMAIN seq]
  BY Zenon DEF FoldLeft, MapThenFoldSet
<1>2. DOMAIN seq = 1 .. Len(seq)
  OBVIOUS
<1>3. MergeStep \in Steps(Seq(Operations), Operations)
  BY MergeStepType
<1>4. /\ \E f \in [SUBSET (1 .. Len(seq)) -> Seq(Operations)] : Iterates(MergeStep, base, seq, Len(seq), f)
      /\ \A s \in SUBSET (1 .. Len(seq)) : s # {} => Max(s) \in s
  <2> HIDE DEF it, Is, Body
  <2>1. Iterable(Seq(Operations), MergeStep, base, seq)
    BY <1>3, IterateExists
  <2>2. QED  BY Zenon, <2>1 DEF Iterable
<1>5. PICK g \in [SUBSET (1 .. Len(seq)) -> Seq(Operations)] : Iterates(MergeStep, base, seq, Len(seq), g)
  BY Zenon, <1>4
<1>6. \A v \in Seq(Operations), e \in Operations : MergeStep[<<v, e>>] = Merge(v, e)
  BY MergeStepType
<1>7. \A s \in SUBSET (1 .. Len(seq)) : s # {} =>
          seq[Max(s)] \in Operations /\ s \ {Max(s)} \in SUBSET (1 .. Len(seq))
  <2>1. \A i \in 1 .. Len(seq) : seq[i] \in Operations
    OBVIOUS
  <2>2. QED  BY Zenon, <1>4, <2>1
<1>8. \A s \in SUBSET (1 .. Len(seq)) : g[s] = Body(g, s)
  BY <1>5, <1>6, <1>7 DEF Iterates
<1>9. Is(g)
  <2> HIDE DEF Body
  <2>1. g = [s \in SUBSET (1 .. Len(seq)) |-> Body(g, s)]
    BY Zenon, <1>5, <1>8
  <2>2. QED  BY Zenon, <1>2, <2>1
<1>10. Is(it)
  <2> HIDE DEF Is
  <2>1. QED  BY Zenon, <1>9
<1> HIDE DEF it
<1>11. \A s \in SUBSET (1 .. Len(seq)) : it[s] = Body(it, s)
  <2> HIDE DEF Body
  <2>1. QED  BY Zenon, <1>2, <1>10
<1>12. it[{}] = base
  BY <1>11
<1>13. ASSUME NEW s \in SUBSET (1 .. Len(seq)), s # {}, it[s \ {Max(s)}] \in Seq(Operations)
       PROVE  it[s] = MergeStep[<<it[s \ {Max(s)}], seq[Max(s)]>>]
  <2>1. it[s] = Merge(it[s \ {Max(s)}], seq[Max(s)])
    BY <1>11, <1>13
  <2>2. QED  BY Zenon, <1>6, <1>7, <1>13, <2>1
<1>14. it[1 .. Len(seq)] = Fold(MergeStep, base, seq)
  <2>1. Unfolds(Seq(Operations), MergeStep, seq, it)
    BY Zenon, <1>13 DEF Unfolds
  <2>2. QED  BY <1>3, <1>12, <2>1, FoldOf
<1>15. QED  BY <1>1, <1>2, <1>14

\* A batch of instructions.
ApplyStep == [p \in States \X Instructions |-> ApplyInstruction(p[1], p[2])]

\* One instruction on a state leaves a state.
LEMMA ApplyStepType ==
    /\ ApplyStep \in Steps(States, Instructions)
    /\ \A v \in States, e \in Instructions : ApplyStep[<<v, e>>] = ApplyInstruction(v, e)
<1>1. ASSUME NEW v \in States, NEW e \in Instructions PROVE ApplyInstruction(v, e) \in States
  <2>1. /\ v.screen \in Screens /\ v.history \in Seq(Operations)
        /\ ApplyOperation(v.screen, e) \in Screens
    <3>1. v.screen \in Screens /\ v.history \in Seq(Operations)
      BY DEF States
    <3>2. OperationStep[<<v.screen, e>>] \in Screens
      BY <3>1, OperationStepType DEF Steps
    <3>3. QED  BY <3>1, <3>2, OperationStepType
  <2>2. CASE e.op = "bytes" /\ e.run # <<>>
    <3>1. e \in Operations
      BY <2>2 DEF Instructions, Operations
    <3>2. ApplyInstruction(v, e) =
              [v EXCEPT !.screen = ApplyOperation(@, e), !.history = Append(@, e)]
      BY <2>2 DEF ApplyInstruction
    <3> DEFINE q == ApplyOperation(v.screen, e)
               h == Append(v.history, e)
    <3>3. q \in Screens /\ h \in Seq(Operations)
      BY <2>1, <3>1
    <3>4. ApplyInstruction(v, e) = [v EXCEPT !.screen = q, !.history = h]
      BY <3>2
    <3> HIDE DEF q, h
    <3>5. QED  BY <3>3, <3>4 DEF States
  <2>3. CASE e.op = "resize" /\ e.size # v.viewport
    <3>1. e \in Operations /\ e.size \in Nat /\ e.op # "bytes"
      BY <2>3 DEF Instructions, Operations
    <3> DEFINE q == ApplyOperation(v.screen, e)
               h == Append(v.history, e)
    <3>2. q \in Screens /\ h \in Seq(Operations)
      BY <2>1, <3>1
    <3>3. ApplyInstruction(v, e) =
              [v EXCEPT !.screen = q, !.viewport = e.size, !.history = h]
      BY <2>3, <3>1 DEF ApplyInstruction
    <3> HIDE DEF q, h
    <3>4. QED  BY <3>1, <3>2, <3>3 DEF States
  <2>4. CASE e.op = "marker"
    <3>1. e.value \in Int
      BY <2>4 DEF Instructions
    <3>2. ApplyInstruction(v, e) = [v EXCEPT !.echo_ack = e.value]
      BY <2>4 DEF ApplyInstruction
    <3>3. QED  BY <3>1, <3>2 DEF States
  <2>5. CASE e.op = "control"
    <3>1. e \in Operations
      BY <2>5 DEF Instructions, Operations
    <3> DEFINE h == Append(v.history, e)
    <3>2. h \in Seq(Operations)
      BY <2>1, <3>1
    <3>3. ApplyInstruction(v, e) = [v EXCEPT !.history = h]
      BY <2>5 DEF ApplyInstruction
    <3> HIDE DEF h
    <3>4. QED  BY <3>2, <3>3 DEF States
  <2>6. CASE (e.op = "bytes" /\ e.run = <<>>) \/ (e.op = "resize" /\ e.size = v.viewport)
    BY <2>6 DEF ApplyInstruction
  <2>7. e.op \in {"bytes", "resize", "control", "marker"}
    BY DEF Instructions
  <2>8. QED  BY <2>2, <2>3, <2>4, <2>5, <2>6, <2>7
<1>2. \A v \in States, e \in Instructions : ApplyStep[<<v, e>>] = ApplyInstruction(v, e)
  BY DEF ApplyStep
<1>3. ASSUME NEW p \in States \X Instructions PROVE ApplyInstruction(p[1], p[2]) \in States
  BY <1>1
<1>4. ApplyStep \in Steps(States, Instructions)
  BY Zenon, <1>3 DEF ApplyStep, Steps
<1>5. QED  BY <1>2, <1>4

\* ApplyAll is the fold of that step.
LEMMA ApplyFold ==
    ASSUME NEW base \in States, NEW seq \in Seq(Instructions)
    PROVE  FoldLeft(ApplyInstruction, base, seq) = Fold(ApplyStep, base, seq)
<1> DEFINE Body(f, s) ==
               IF s = {} THEN base ELSE ApplyInstruction(f[s \ {Max(s)}], seq[Max(s)])
           Is(f) == f = [s \in SUBSET DOMAIN seq |-> Body(f, s)]
           it == CHOOSE f : Is(f)
<1>1. FoldLeft(ApplyInstruction, base, seq) = it[DOMAIN seq]
  BY Zenon DEF FoldLeft, MapThenFoldSet
<1>2. DOMAIN seq = 1 .. Len(seq)
  OBVIOUS
<1>3. ApplyStep \in Steps(States, Instructions)
  BY ApplyStepType
<1>4. /\ \E f \in [SUBSET (1 .. Len(seq)) -> States] : Iterates(ApplyStep, base, seq, Len(seq), f)
      /\ \A s \in SUBSET (1 .. Len(seq)) : s # {} => Max(s) \in s
  <2> HIDE DEF it, Is, Body
  <2>1. Iterable(States, ApplyStep, base, seq)
    BY <1>3, IterateExists
  <2>2. QED  BY Zenon, <2>1 DEF Iterable
<1>5. PICK g \in [SUBSET (1 .. Len(seq)) -> States] : Iterates(ApplyStep, base, seq, Len(seq), g)
  BY Zenon, <1>4
<1>6. \A v \in States, e \in Instructions : ApplyStep[<<v, e>>] = ApplyInstruction(v, e)
  BY ApplyStepType
<1>7. \A s \in SUBSET (1 .. Len(seq)) : s # {} =>
          seq[Max(s)] \in Instructions /\ s \ {Max(s)} \in SUBSET (1 .. Len(seq))
  <2>1. \A i \in 1 .. Len(seq) : seq[i] \in Instructions
    OBVIOUS
  <2>2. QED  BY Zenon, <1>4, <2>1
<1>8. \A s \in SUBSET (1 .. Len(seq)) : g[s] = Body(g, s)
  BY <1>5, <1>6, <1>7 DEF Iterates
<1>9. Is(g)
  <2> HIDE DEF Body
  <2>1. g = [s \in SUBSET (1 .. Len(seq)) |-> Body(g, s)]
    BY Zenon, <1>5, <1>8
  <2>2. QED  BY Zenon, <1>2, <2>1
<1>10. Is(it)
  <2> HIDE DEF Is
  <2>1. QED  BY Zenon, <1>9
<1> HIDE DEF it
<1>11. \A s \in SUBSET (1 .. Len(seq)) : it[s] = Body(it, s)
  <2> HIDE DEF Body
  <2>1. QED  BY Zenon, <1>2, <1>10
<1>12. it[{}] = base
  BY <1>11
<1>13. ASSUME NEW s \in SUBSET (1 .. Len(seq)), s # {}, it[s \ {Max(s)}] \in States
       PROVE  it[s] = ApplyStep[<<it[s \ {Max(s)}], seq[Max(s)]>>]
  <2>1. it[s] = ApplyInstruction(it[s \ {Max(s)}], seq[Max(s)])
    BY <1>11, <1>13
  <2>2. QED  BY Zenon, <1>6, <1>7, <1>13, <2>1
<1>14. it[1 .. Len(seq)] = Fold(ApplyStep, base, seq)
  <2>1. Unfolds(States, ApplyStep, seq, it)
    BY Zenon, <1>13 DEF Unfolds
  <2>2. QED  BY <1>3, <1>12, <2>1, FoldOf
<1>15. QED  BY <1>1, <1>2, <1>14

\* The echo acknowledgements that the host sees.
Heard(e, o) == IF o.op = "marker" THEN o.value ELSE e
HearStep == [p \in Int \X Instructions |-> Heard(p[1], p[2])]

\* One instruction leaves an echo acknowledgement.
LEMMA HearStepType ==
    /\ HearStep \in Steps(Int, Instructions)
    /\ \A v \in Int, e \in Instructions : HearStep[<<v, e>>] = Heard(v, e)
<1>1. ASSUME NEW v \in Int, NEW e \in Instructions PROVE Heard(v, e) \in Int
  <2>1. e.op = "marker" => e.value \in Int
    BY DEF Instructions
  <2>2. QED  BY <2>1 DEF Heard
<1>2. \A v \in Int, e \in Instructions : HearStep[<<v, e>>] = Heard(v, e)
  BY DEF HearStep
<1>3. ASSUME NEW p \in Int \X Instructions PROVE Heard(p[1], p[2]) \in Int
  BY <1>1
<1>4. HearStep \in Steps(Int, Instructions)
  BY Zenon, <1>3 DEF HearStep, Steps
<1>5. QED  BY <1>2, <1>4

\* What HandOver makes of the echo acknowledgement is the fold of that step.
LEMMA HearFold ==
    ASSUME NEW base \in Int, NEW seq \in Seq(Instructions)
    PROVE  FoldLeft(LAMBDA e, o : IF o.op = "marker" THEN o.value ELSE e, base, seq) = Fold(HearStep, base, seq)
<1> DEFINE Body(f, s) ==
               IF s = {} THEN base ELSE Heard(f[s \ {Max(s)}], seq[Max(s)])
           Is(f) == f = [s \in SUBSET DOMAIN seq |-> Body(f, s)]
           it == CHOOSE f : Is(f)
<1>1. FoldLeft(LAMBDA e, o : IF o.op = "marker" THEN o.value ELSE e, base, seq) = it[DOMAIN seq]
  BY Zenon DEF FoldLeft, MapThenFoldSet, Heard
<1>2. DOMAIN seq = 1 .. Len(seq)
  OBVIOUS
<1>3. HearStep \in Steps(Int, Instructions)
  BY HearStepType
<1>4. /\ \E f \in [SUBSET (1 .. Len(seq)) -> Int] : Iterates(HearStep, base, seq, Len(seq), f)
      /\ \A s \in SUBSET (1 .. Len(seq)) : s # {} => Max(s) \in s
  <2> HIDE DEF it, Is, Body
  <2>1. Iterable(Int, HearStep, base, seq)
    BY <1>3, IterateExists
  <2>2. QED  BY Zenon, <2>1 DEF Iterable
<1>5. PICK g \in [SUBSET (1 .. Len(seq)) -> Int] : Iterates(HearStep, base, seq, Len(seq), g)
  BY Zenon, <1>4
<1>6. \A v \in Int, e \in Instructions : HearStep[<<v, e>>] = Heard(v, e)
  BY HearStepType
<1>7. \A s \in SUBSET (1 .. Len(seq)) : s # {} =>
          seq[Max(s)] \in Instructions /\ s \ {Max(s)} \in SUBSET (1 .. Len(seq))
  <2>1. \A i \in 1 .. Len(seq) : seq[i] \in Instructions
    OBVIOUS
  <2>2. QED  BY Zenon, <1>4, <2>1
<1>8. \A s \in SUBSET (1 .. Len(seq)) : g[s] = Body(g, s)
  BY <1>5, <1>6, <1>7 DEF Iterates
<1>9. Is(g)
  <2> HIDE DEF Body
  <2>1. g = [s \in SUBSET (1 .. Len(seq)) |-> Body(g, s)]
    BY Zenon, <1>5, <1>8
  <2>2. QED  BY Zenon, <1>2, <2>1
<1>10. Is(it)
  <2> HIDE DEF Is
  <2>1. QED  BY Zenon, <1>9
<1> HIDE DEF it
<1>11. \A s \in SUBSET (1 .. Len(seq)) : it[s] = Body(it, s)
  <2> HIDE DEF Body
  <2>1. QED  BY Zenon, <1>2, <1>10
<1>12. it[{}] = base
  BY <1>11
<1>13. ASSUME NEW s \in SUBSET (1 .. Len(seq)), s # {}, it[s \ {Max(s)}] \in Int
       PROVE  it[s] = HearStep[<<it[s \ {Max(s)}], seq[Max(s)]>>]
  <2>1. it[s] = Heard(it[s \ {Max(s)}], seq[Max(s)])
    BY <1>11, <1>13
  <2>2. QED  BY Zenon, <1>6, <1>7, <1>13, <2>1
<1>14. it[1 .. Len(seq)] = Fold(HearStep, base, seq)
  <2>1. Unfolds(Int, HearStep, seq, it)
    BY Zenon, <1>13 DEF Unfolds
  <2>2. QED  BY <1>3, <1>12, <2>1, FoldOf
<1>15. QED  BY <1>1, <1>2, <1>14

(***************************************************************************)
(* Replaying.                                                               *)
(***************************************************************************)
\* Induction over the sequences, with a set for the predicate.
LEMMA SeqInduction ==
    ASSUME NEW E, NEW S, <<>> \in S, \A h \in Seq(E), e \in E : h \in S => Append(h, e) \in S
    PROVE  Seq(E) \subseteq S
<1> DEFINE T == {n \in Nat : \A h \in Seq(E) : Len(h) = n => h \in S}
<1>1. 0 \in T
  BY EmptySeq
<1>2. ASSUME NEW n \in Nat, n \in T PROVE n + 1 \in T
  <2> SUFFICES ASSUME NEW h \in Seq(E), Len(h) = n + 1 PROVE h \in S
    OBVIOUS
  <2> DEFINE f == SubSeq(h, 1, n)
  <2>1. f \in Seq(E) /\ Len(f) = n /\ h[n + 1] \in E /\ h = Append(f, h[n + 1])
    OBVIOUS
  <2>2. f \in S
    BY <1>2, <2>1
  <2>3. QED  BY <2>1, <2>2
<1> HIDE DEF T
<1>3. Nat \subseteq T
  BY <1>1, <1>2, Induction
<1>4. QED  BY <1>3 DEF T

\* A screen after the operations of a history.
Played(q, h) == FoldLeft(ApplyOperation, q, h)
NewScreen(size) == [content |-> Blank, size |-> size]

\* A replay plays the history on a new screen.
LEMMA ReplayIs == \A h, i : Replay(h, i) = Played(NewScreen(i), h)
BY DEF Replay, Played, NewScreen

\* Operations leave a screen.
LEMMA PlayedType ==
    ASSUME NEW q \in Screens, NEW h \in Seq(Instructions)
    PROVE  Played(q, h) = Fold(OperationStep, q, h) /\ Played(q, h) \in Screens
BY OperationFold, OperationStepType, FoldType DEF Played

\* No operation changes nothing.
LEMMA PlayedEmpty == \A q \in Screens : Played(q, <<>>) = q
<1> TAKE q \in Screens
<1>1. <<>> \in Seq(Instructions)
  OBVIOUS
<1>2. QED  BY <1>1, PlayedType, FoldEmpty

\* Operations are played one part after the other.
LEMMA PlayedConcat ==
    ASSUME NEW q \in Screens, NEW a \in Seq(Instructions), NEW b \in Seq(Instructions)
    PROVE  Played(q, a \o b) = Played(Played(q, a), b)
<1>1. a \o b \in Seq(Instructions)
  OBVIOUS
<1>2. Fold(OperationStep, q, a \o b) = Fold(OperationStep, Fold(OperationStep, q, a), b)
  BY OperationStepType, FoldConcat
<1>3. QED  BY <1>1, <1>2, PlayedType

\* One operation.
LEMMA PlayedOne ==
    ASSUME NEW q \in Screens, NEW e \in Instructions
    PROVE  Played(q, <<e>>) = ApplyOperation(q, e)
<1>1. <<e>> \in Seq(Instructions)
  OBVIOUS
<1>2. Fold(OperationStep, q, <<e>>) = OperationStep[<<q, e>>]
  BY OperationStepType, FoldOne
<1>3. QED  BY <1>1, <1>2, PlayedType, OperationStepType

\* One operation more.
LEMMA PlayedAppend ==
    ASSUME NEW q \in Screens, NEW h \in Seq(Instructions), NEW e \in Instructions
    PROVE  Played(q, Append(h, e)) = ApplyOperation(Played(q, h), e)
<1>1. Append(h, e) \in Seq(Instructions)
  OBVIOUS
<1>2. Fold(OperationStep, q, Append(h, e)) = OperationStep[<<Fold(OperationStep, q, h), e>>]
  BY OperationStepType, FoldAppend
<1>3. QED  BY <1>1, <1>2, PlayedType, OperationStepType

\* The atoms of a history, operation by operation.
LEMMA AtomsOf ==
    /\ AllAtoms(<<>>) = <<>>
    /\ \A h \in Seq(Operations) : AllAtoms(h) \in Runs
    /\ \A h \in Seq(Operations), e \in Operations :
          AllAtoms(Append(h, e)) = AddAtoms(AllAtoms(h), e)
<1>1. ASSUME NEW h \in Seq(Instructions)
      PROVE  AllAtoms(h) = Fold(AddStep, <<>>, h) /\ AllAtoms(h) \in Runs
  <2>1. <<>> \in Runs
    BY DEF Runs
  <2>2. AllAtoms(h) = Fold(AddStep, <<>>, h)
    BY <2>1, AddFold DEF AllAtoms
  <2>3. Fold(AddStep, <<>>, h) \in Runs
    BY <2>1, AddStepType, FoldType
  <2>4. QED  BY <2>2, <2>3
<1>2. AllAtoms(<<>>) = <<>>
  <2>1. <<>> \in Seq(Instructions)
    OBVIOUS
  <2>2. QED  BY <1>1, <2>1, FoldEmpty
<1>3. ASSUME NEW h \in Seq(Operations), NEW e \in Operations
      PROVE  AllAtoms(Append(h, e)) = AddAtoms(AllAtoms(h), e)
  <2>1. h \in Seq(Instructions) /\ e \in Instructions /\ Append(h, e) \in Seq(Instructions)
    BY OperationsAre
  <2>2. <<>> \in Runs
    BY DEF Runs
  <2>3. Fold(AddStep, <<>>, Append(h, e)) = AddStep[<<Fold(AddStep, <<>>, h), e>>]
    <3> DEFINE b == <<>>
    <3> HIDE DEF b
    <3>1. b \in Runs
      BY <2>2 DEF b
    <3>2. Fold(AddStep, b, Append(h, e)) = AddStep[<<Fold(AddStep, b, h), e>>]
      BY <2>1, <3>1, AddStepType, FoldAppend
    <3>3. QED  BY <3>2 DEF b
  <2>4. QED  BY <1>1, <2>1, <2>3, AddStepType
<1>4. QED  BY <1>1, <1>2, <1>3, OperationsAre

\* The canonical history, operation by operation.
LEMMA CanonicalOf ==
    /\ Canonical(<<>>) = <<>>
    /\ \A h \in Seq(Operations) : Canonical(h) \in Seq(Operations)
    /\ \A h \in Seq(Operations), e \in Operations :
          Canonical(Append(h, e)) = Merge(Canonical(h), e)
<1> DEFINE b == <<>>
<1>1. b \in Seq(Operations)
  OBVIOUS
<1>2. \A h : Canonical(h) = FoldLeft(Merge, b, h)
  BY DEF Canonical
<1> HIDE DEF b
<1>3. ASSUME NEW h \in Seq(Operations)
      PROVE  Canonical(h) = Fold(MergeStep, b, h) /\ Canonical(h) \in Seq(Operations)
  <2>1. Canonical(h) = Fold(MergeStep, b, h)
    BY <1>1, <1>2, MergeFold
  <2>2. Fold(MergeStep, b, h) \in Seq(Operations)
    BY <1>1, MergeStepType, FoldType
  <2>3. QED  BY <2>1, <2>2
<1>4. Canonical(b) = b
  <2>1. Fold(MergeStep, b, b) = b
    BY FoldEmpty DEF b
  <2>2. QED  BY <1>1, <1>3, <2>1
<1>5. ASSUME NEW h \in Seq(Operations), NEW e \in Operations
      PROVE  Canonical(Append(h, e)) = Merge(Canonical(h), e)
  <2>1. Append(h, e) \in Seq(Operations)
    OBVIOUS
  <2>2. Fold(MergeStep, b, Append(h, e)) = MergeStep[<<Fold(MergeStep, b, h), e>>]
    BY <1>1, MergeStepType, FoldAppend
  <2>3. QED  BY <1>3, <2>1, <2>2, MergeStepType
<1>6. QED  BY <1>3, <1>4, <1>5 DEF b

\* A batch leaves a state.
LEMMA AppliedType ==
    ASSUME NEW s \in States, NEW a \in Seq(Instructions)
    PROVE  ApplyAll(s, a) = Fold(ApplyStep, s, a) /\ ApplyAll(s, a) \in States
<1>1. ApplyAll(s, a) = Fold(ApplyStep, s, a)
  BY ApplyFold DEF ApplyAll
<1>2. QED  BY <1>1, ApplyStepType, FoldType

\* A batch is applied one part after the other.
LEMMA AppliedConcat ==
    ASSUME NEW s \in States, NEW a \in Seq(Instructions), NEW b \in Seq(Instructions)
    PROVE  ApplyAll(s, a \o b) = ApplyAll(ApplyAll(s, a), b)
<1>1. a \o b \in Seq(Instructions)
  OBVIOUS
<1>2. Fold(ApplyStep, s, a \o b) = Fold(ApplyStep, Fold(ApplyStep, s, a), b)
  BY ApplyStepType, FoldConcat
<1>3. QED  BY <1>1, <1>2, AppliedType

\* A batch of one instruction.
LEMMA AppliedOne ==
    ASSUME NEW s \in States, NEW e \in Instructions
    PROVE  ApplyAll(s, <<e>>) = ApplyInstruction(s, e)
<1>1. <<e>> \in Seq(Instructions)
  OBVIOUS
<1>2. Fold(ApplyStep, s, <<e>>) = ApplyStep[<<s, e>>]
  BY ApplyStepType, FoldOne
<1>3. QED  BY <1>1, <1>2, AppliedType, ApplyStepType

\* An empty batch.
LEMMA AppliedNone == \A s \in States : ApplyAll(s, <<>>) = s
<1> TAKE s \in States
<1>1. <<>> \in Seq(Instructions)
  OBVIOUS
<1>2. QED  BY <1>1, AppliedType, FoldEmpty

(***************************************************************************)
(* What a history does to a screen.                                          *)
(***************************************************************************)
\* The size is not touched by host bytes, and the content depends on the content only.
LEMMA AtomsKeepSize ==
    ASSUME NEW q \in Screens, NEW run \in Seq(Atoms)
    PROVE  FoldLeft(ApplyAtom, q, run).size = q.size
<1> DEFINE S == {a \in Seq(Atoms) : Fold(AtomStep, q, a).size = q.size}
<1>1. <<>> \in S
  BY FoldEmpty
<1>2. ASSUME NEW a \in Seq(Atoms), NEW e \in Atoms, a \in S PROVE Append(a, e) \in S
  <2> DEFINE p == Fold(AtomStep, q, a)
  <2>1. p \in Screens /\ p.size = q.size
    BY <1>2, AtomStepType, FoldType
  <2>2. Fold(AtomStep, q, Append(a, e)) = AtomStep[<<p, e>>]
    BY AtomStepType, FoldAppend
  <2> HIDE DEF p
  <2>3. AtomStep[<<p, e>>] = ApplyAtom(p, e)
    BY <2>1, AtomStepType
  <2>4. ApplyAtom(p, e).size = p.size
    BY <2>1 DEF ApplyAtom, Screens
  <2>5. Append(a, e) \in Seq(Atoms)
    OBVIOUS
  <2>6. QED  BY <2>1, <2>2, <2>3, <2>4, <2>5
<1>3. Seq(Atoms) \subseteq S
  <2> HIDE DEF S
  <2>1. QED  BY <1>1, <1>2, SeqInduction
<1>4. QED  BY <1>3, AtomFold

\* Equal contents stay equal under the same atoms.
LEMMA AtomsSeeContent ==
    ASSUME NEW p \in Screens, NEW q \in Screens, p.content = q.content, NEW run \in Seq(Atoms)
    PROVE  FoldLeft(ApplyAtom, p, run).content = FoldLeft(ApplyAtom, q, run).content
<1> DEFINE P(a) == Fold(AtomStep, p, a)
           Q(a) == Fold(AtomStep, q, a)
           S == {a \in Seq(Atoms) : P(a).content = Q(a).content}
<1>1. <<>> \in S
  BY FoldEmpty
<1>2. ASSUME NEW a \in Seq(Atoms), NEW e \in Atoms, a \in S PROVE Append(a, e) \in S
  <2>1. P(a) \in Screens /\ Q(a) \in Screens /\ P(a).content = Q(a).content
    BY <1>2, AtomStepType, FoldType
  <2>2. P(Append(a, e)) = AtomStep[<<P(a), e>>] /\ Q(Append(a, e)) = AtomStep[<<Q(a), e>>]
    BY AtomStepType, FoldAppend
  <2> HIDE DEF P, Q
  <2>3. P(Append(a, e)) = ApplyAtom(P(a), e) /\ Q(Append(a, e)) = ApplyAtom(Q(a), e)
    BY <2>1, <2>2, AtomStepType
  <2>4. ApplyAtom(P(a), e).content = ApplyAtom(Q(a), e).content
    BY <2>1 DEF ApplyAtom, Screens
  <2>5. Append(a, e) \in Seq(Atoms)
    OBVIOUS
  <2>6. QED  BY <2>3, <2>4, <2>5
<1>3. Seq(Atoms) \subseteq S
  <2> HIDE DEF S
  <2>1. QED  BY <1>1, <1>2, SeqInduction
<1>4. P(run).content = Q(run).content
  BY <1>3
<1>5. QED  BY <1>4, AtomFold

\* After some atoms the content is that of the last, if it is not garbled.
LEMMA LastAtom ==
    ASSUME NEW q \in Screens, NEW run \in Seq(Atoms), run # <<>>
    PROVE  FoldLeft(ApplyAtom, q, run).content \in {Garbled, run[Len(run)].to}
<1> DEFINE n == Len(run)
           a == SubSeq(run, 1, n - 1)
           e == run[n]
           p == FoldLeft(ApplyAtom, q, a)
<1>1. a \in Seq(Atoms) /\ e \in Atoms /\ run = a \o <<e>> /\ <<e>> \in Seq(Atoms)
  OBVIOUS
<1> HIDE DEF a, e
<1>2. p \in Screens
  BY <1>1, AtomsApplied
<1>3. FoldLeft(ApplyAtom, q, run) = ApplyAtom(p, e)
  <2> DEFINE l == <<e>>
  <2>1. l \in Seq(Atoms)
    BY <1>1
  <2>2. FoldLeft(ApplyAtom, p, l) = ApplyAtom(p, e)
    BY <1>1, <1>2, AtomsApplied
  <2>3. run = a \o l
    BY <1>1
  <2> HIDE DEF l, p
  <2>4. FoldLeft(ApplyAtom, q, a \o l) = FoldLeft(ApplyAtom, FoldLeft(ApplyAtom, q, a), l)
    BY <1>1, <2>1, AtomsApplied
  <2>5. QED  BY <2>2, <2>3, <2>4 DEF p
<1> HIDE DEF p
<1>4. ApplyAtom(p, e).content \in {Garbled, e.to}
  BY <1>1, <1>2 DEF ApplyAtom, Screens
<1>5. QED  BY <1>3, <1>4 DEF e

\* The operations, case by case.
LEMMA OperationDoes ==
    ASSUME NEW q \in Screens, NEW o \in Instructions
    PROVE  /\ ApplyOperation(q, o) \in Screens
           /\ o.op = "bytes" => /\ o.run \in Seq(Atoms)
                                /\ ApplyOperation(q, o) = FoldLeft(ApplyAtom, q, o.run)
                                /\ ApplyOperation(q, o).size = q.size
           /\ o.op = "resize" => ApplyOperation(q, o) = [q EXCEPT !.size = o.size]
           /\ o.op \notin {"bytes", "resize"} => ApplyOperation(q, o) = q
<1>1. ApplyOperation(q, o) \in Screens
  <2>1. OperationStep[<<q, o>>] \in Screens
    BY OperationStepType DEF Steps
  <2>2. QED  BY <2>1, OperationStepType
<1>2. ASSUME o.op = "bytes"
      PROVE  /\ o.run \in Seq(Atoms) /\ ApplyOperation(q, o) = FoldLeft(ApplyAtom, q, o.run)
             /\ ApplyOperation(q, o).size = q.size
  <2>1. o.run \in Seq(Atoms)
    BY <1>2 DEF Instructions
  <2>2. ApplyOperation(q, o) = FoldLeft(ApplyAtom, q, o.run)
    BY <1>2 DEF ApplyOperation
  <2>3. QED  BY <2>1, <2>2, AtomsKeepSize
<1>3. o.op = "resize" => ApplyOperation(q, o) = [q EXCEPT !.size = o.size]
  BY DEF ApplyOperation
<1>4. o.op \notin {"bytes", "resize"} => ApplyOperation(q, o) = q
  BY DEF ApplyOperation
<1>5. QED  BY <1>1, <1>2, <1>3, <1>4

\* Equal contents stay equal under the same operations.
LEMMA PlayedSeesContent ==
    ASSUME NEW p \in Screens, NEW q \in Screens, p.content = q.content,
           NEW h \in Seq(Instructions)
    PROVE  Played(p, h).content = Played(q, h).content
<1> DEFINE S == {a \in Seq(Instructions) : Played(p, a).content = Played(q, a).content}
<1>1. <<>> \in S
  BY PlayedEmpty
<1>2. ASSUME NEW a \in Seq(Instructions), NEW e \in Instructions, a \in S
      PROVE  Append(a, e) \in S
  <2> DEFINE v == Played(p, a)
             w == Played(q, a)
  <2>1. v \in Screens /\ w \in Screens /\ v.content = w.content
    BY <1>2, PlayedType
  <2>2. /\ Played(p, Append(a, e)) = ApplyOperation(v, e)
        /\ Played(q, Append(a, e)) = ApplyOperation(w, e)
    BY PlayedAppend
  <2> HIDE DEF v, w
  <2>3. ApplyOperation(v, e).content = ApplyOperation(w, e).content
    <3>1. CASE e.op = "bytes"
      <4>1. /\ e.run \in Seq(Atoms)
            /\ ApplyOperation(v, e) = FoldLeft(ApplyAtom, v, e.run)
            /\ ApplyOperation(w, e) = FoldLeft(ApplyAtom, w, e.run)
        BY <2>1, <3>1, OperationDoes
      <4>2. FoldLeft(ApplyAtom, v, e.run).content = FoldLeft(ApplyAtom, w, e.run).content
        BY <2>1, <4>1, AtomsSeeContent
      <4>3. QED  BY <4>1, <4>2
    <3>2. CASE e.op = "resize"
      <4>1. ApplyOperation(v, e) = [v EXCEPT !.size = e.size]
            /\ ApplyOperation(w, e) = [w EXCEPT !.size = e.size]
        BY <2>1, <3>2, OperationDoes
      <4>2. QED  BY <2>1, <4>1 DEF Screens
    <3>3. CASE e.op \notin {"bytes", "resize"}
      BY <2>1, <3>3, OperationDoes
    <3>4. QED  BY <3>1, <3>2, <3>3
  <2>4. Append(a, e) \in Seq(Instructions)
    OBVIOUS
  <2>5. QED  BY <2>2, <2>3, <2>4
<1>3. Seq(Instructions) \subseteq S
  <2> HIDE DEF S
  <2>1. QED  BY <1>1, <1>2, SeqInduction
<1>4. QED  BY <1>3

\* A history and the content that it ends with: that of the last atom, if not garbled.
EndsWith(h, content) ==
    IF AllAtoms(h) = <<>> THEN content = Blank
    ELSE content \in {Garbled, Last(AllAtoms(h)).to}

\* The content of a replay is what the last atom leaves.
LEMMA Ends ==
    ASSUME NEW i \in Nat, NEW h \in Seq(Operations)
    PROVE  EndsWith(h, Replay(h, i).content)
<1> DEFINE b == NewScreen(i)
           S == {a \in Seq(Operations) : EndsWith(a, Played(b, a).content)}
<1>1. b \in Screens
  BY DEF NewScreen, Screens, Blank
<1>2. <<>> \in S
  <2>1. b.content = Blank
    BY DEF NewScreen
  <2>2. EndsWith(<<>>, Played(b, <<>>).content)
    BY <1>1, <2>1, AtomsOf, PlayedEmpty DEF EndsWith
  <2>3. QED  BY <2>2
<1> HIDE DEF b
<1>3. ASSUME NEW a \in Seq(Operations), NEW o \in Operations, a \in S
      PROVE  Append(a, o) \in S
  <2> DEFINE q == Played(b, a)
             g == AllAtoms(a)
  <2>1. /\ a \in Seq(Instructions) /\ o \in Instructions /\ Append(a, o) \in Seq(Operations)
    BY OperationsAre
  <2>2. q \in Screens /\ g \in Runs /\ EndsWith(a, q.content)
    BY <1>1, <1>3, <2>1, PlayedType, AtomsOf
  <2>3. /\ Played(b, Append(a, o)) = ApplyOperation(q, o)
        /\ AllAtoms(Append(a, o)) = AddAtoms(g, o)
    BY <1>1, <2>1, PlayedAppend, AtomsOf
  <2> HIDE DEF q
  <2>4. EndsWith(Append(a, o), ApplyOperation(q, o).content)
    <3>1. CASE o.op = "bytes"
      <4>1. o.run \in Seq(Atoms) /\ o.run # <<>>
        BY <3>1 DEF Operations
      <4>2. ApplyOperation(q, o).content \in {Garbled, o.run[Len(o.run)].to}
        BY <2>1, <2>2, <3>1, <4>1, OperationDoes, LastAtom
      <4>3. AddAtoms(g, o) = g \o o.run
        BY <3>1 DEF AddAtoms
      <4>4. g \o o.run # <<>> /\ Last(g \o o.run) = o.run[Len(o.run)]
        BY <2>2, <4>1 DEF Runs, Last
      <4>5. QED  BY <2>3, <4>2, <4>3, <4>4 DEF EndsWith
    <3>2. CASE o.op # "bytes"
      <4>1. AddAtoms(g, o) = g
        BY <3>2 DEF AddAtoms
      <4>2. ApplyOperation(q, o).content = q.content
        <5>1. ApplyOperation(q, o) \in {q, [q EXCEPT !.size = o.size]}
          BY <2>1, <2>2, <3>2, OperationDoes
        <5>2. QED  BY <2>2, <5>1 DEF Screens
      <4>3. QED  BY Zenon, <2>2, <2>3, <4>1, <4>2 DEF EndsWith
    <3>3. QED  BY <3>1, <3>2
  <2>5. QED  BY <2>1, <2>3, <2>4
<1>4. Seq(Operations) \subseteq S
  <2> HIDE DEF S
  <2>1. QED  BY <1>2, <1>3, SeqInduction
<1>5. EndsWith(h, Played(b, h).content)
  BY <1>4
<1>6. QED  BY <1>5, ReplayIs DEF b

\* history_ends_at_ground: what was not garbled is not inside a sequence.
LEMMA GroundIsWhole ==
    ASSUME NEW i \in Nat, NEW h \in Seq(Operations), EndsAtGround(h)
    PROVE  Rendered(Replay(h, i).content) = Replay(h, i).content
<1> DEFINE c == Replay(h, i).content
<1>1. EndsWith(h, c)
  BY Ends
<1> HIDE DEF c
<1>2. ~Partial(Blank) /\ ~Partial(Garbled)
  BY DEF Partial, Blank, Garbled
<1>3. ~Partial(c)
  BY <1>1, <1>2 DEF EndsWith, EndsAtGround
<1>4. QED  BY <1>3 DEF Rendered, c

\* canonical_operations: merging host bytes changes nothing, and the history begins as before.
LEMMA MergePlays ==
    ASSUME NEW q \in Screens, NEW c \in Seq(Operations), NEW o \in Operations
    PROVE  Played(q, Merge(c, o)) = ApplyOperation(Played(q, c), o)
<1>1. c \in Seq(Instructions) /\ o \in Instructions
  BY OperationsAre
<1>2. CASE Merge(c, o) = Append(c, o)
  BY <1>1, <1>2, PlayedAppend
<1>3. CASE Merge(c, o) # Append(c, o)
  <2> DEFINE l == c[Len(c)]
             f == Front(c)
             m == HostBytes(l.run \o o.run)
  <2>1. /\ l.op = "bytes" /\ o.op = "bytes" /\ l.run \in Seq(Atoms) /\ o.run \in Seq(Atoms)
        /\ f \in Seq(Operations) /\ c = Append(f, l) /\ m \in Operations /\ c # <<>>
        /\ Merge(c, o) = Append(f, m)
    BY <1>3, Merged
  <2>2. f \in Seq(Instructions) /\ m \in Instructions
    BY <2>1, OperationsAre
  <2>3. m.op = "bytes" /\ m.run = l.run \o o.run
    BY DEF HostBytes
  <2>4. l \in Instructions
    BY <1>1, <2>1
  <2> HIDE DEF f, m, l
  <2> DEFINE p == Played(q, f)
  <2>5. p \in Screens
    BY <2>2, PlayedType
  <2>6. /\ Played(q, Append(f, m)) = ApplyOperation(p, m)
        /\ Played(q, Append(f, l)) = ApplyOperation(p, l)
    BY <2>2, <2>4, PlayedAppend
  <2> HIDE DEF p
  <2>7. /\ ApplyOperation(p, m) = FoldLeft(ApplyAtom, p, l.run \o o.run)
        /\ ApplyOperation(p, l) = FoldLeft(ApplyAtom, p, l.run)
        /\ ApplyOperation(p, l) \in Screens
    BY <2>1, <2>2, <2>3, <2>4, <2>5, OperationDoes
  <2>8. ApplyOperation(ApplyOperation(p, l), o)
            = FoldLeft(ApplyAtom, FoldLeft(ApplyAtom, p, l.run), o.run)
    BY <1>1, <2>1, <2>7, OperationDoes
  <2>9. FoldLeft(ApplyAtom, p, l.run \o o.run)
            = FoldLeft(ApplyAtom, FoldLeft(ApplyAtom, p, l.run), o.run)
    BY <2>1, <2>5, AtomsApplied
  <2>10. QED  BY <2>1, <2>6, <2>7, <2>8, <2>9
<1>4. QED  BY <1>2, <1>3

\* canonical_operations keeps what a history does to a screen.
LEMMA CanonicalPlays ==
    ASSUME NEW q \in Screens, NEW h \in Seq(Operations)
    PROVE  Played(q, Canonical(h)) = Played(q, h)
<1> DEFINE S == {a \in Seq(Operations) : Played(q, Canonical(a)) = Played(q, a)}
<1>1. <<>> \in S
  BY CanonicalOf
<1>2. ASSUME NEW a \in Seq(Operations), NEW o \in Operations, a \in S
      PROVE  Append(a, o) \in S
  <2>1. /\ a \in Seq(Instructions) /\ o \in Instructions /\ Append(a, o) \in Seq(Operations)
        /\ Canonical(a) \in Seq(Operations)
    BY OperationsAre, CanonicalOf
  <2>2. Played(q, Append(a, o)) = ApplyOperation(Played(q, a), o)
    BY <2>1, PlayedAppend
  <2>3. Played(q, Canonical(Append(a, o))) = ApplyOperation(Played(q, Canonical(a)), o)
    BY <2>1, CanonicalOf, MergePlays
  <2>4. QED  BY <1>2, <2>1, <2>2, <2>3
<1>3. Seq(Operations) \subseteq S
  <2> HIDE DEF S
  <2>1. QED  BY <1>1, <1>2, SeqInduction
<1>4. QED  BY <1>3

\* Two histories begin with the same kind of operation and the same atom.
SameHead(c, h) ==
    /\ c = <<>> <=> h = <<>>
    /\ h # <<>> => /\ c[1].op = h[1].op
                   /\ h[1].op = "bytes" => c[1].run[1] = h[1].run[1]

\* Histories with the same head start with the same size.
LEMMA SameOrigin == \A c, h : SameHead(c, h) => Origin(c) = Origin(h)
BY DEF SameHead, Origin

\* Merging keeps the head.
LEMMA MergeHead ==
    ASSUME NEW c \in Seq(Operations), NEW o \in Operations
    PROVE  SameHead(Merge(c, o), Append(c, o))
<1>1. CASE Merge(c, o) = Append(c, o)
  BY <1>1 DEF SameHead
<1>2. CASE Merge(c, o) # Append(c, o)
  <2> DEFINE l == c[Len(c)]
             f == Front(c)
             m == HostBytes(l.run \o o.run)
  <2>1. /\ l.op = "bytes" /\ l.run \in Seq(Atoms) \ {<<>>} /\ o.run \in Seq(Atoms)
        /\ f \in Seq(Operations) /\ c = Append(f, l) /\ c # <<>>
        /\ Merge(c, o) = Append(f, m)
    BY <1>2, Merged
  <2>2. m.op = "bytes" /\ m.run = l.run \o o.run
    BY DEF HostBytes
  <2>3. (l.run \o o.run)[1] = l.run[1]
    <3>1. \A x \in Seq(Atoms) \ {<<>>}, y \in Seq(Atoms) : (x \o y)[1] = x[1]
      OBVIOUS
    <3>2. QED  BY Zenon, <2>1, <3>1
  <2>4. m.run[1] = l.run[1]
    BY <2>2, <2>3
  <2> HIDE DEF f, m, l
  <2>5. Append(c, o) # <<>> /\ Append(f, m) # <<>> /\ Append(c, o)[1] = c[1]
    BY <2>1
  <2>6. CASE f = <<>>
    <3>1. c[1] = l /\ Append(f, m)[1] = m
      BY <2>1, <2>6
    <3>2. QED  BY Zenon, <2>1, <2>2, <2>4, <2>5, <3>1 DEF SameHead
  <2>7. CASE f # <<>>
    <3>1. c[1] = f[1] /\ Append(f, m)[1] = f[1]
      BY <2>1, <2>7
    <3>2. QED  BY Zenon, <2>1, <2>5, <3>1 DEF SameHead
  <2>8. QED  BY <2>6, <2>7
<1>3. QED  BY <1>1, <1>2

\* canonical_operations keeps the head.
LEMMA CanonicalHead ==
    ASSUME NEW h \in Seq(Operations)
    PROVE  SameHead(Canonical(h), h)
<1> DEFINE S == {a \in Seq(Operations) : SameHead(Canonical(a), a)}
<1>1. <<>> \in S
  BY CanonicalOf DEF SameHead
<1>2. ASSUME NEW a \in Seq(Operations), NEW o \in Operations, a \in S
      PROVE  Append(a, o) \in S
  <2> DEFINE c == Canonical(a)
  <2>1. c \in Seq(Operations) /\ Append(a, o) \in Seq(Operations) /\ SameHead(c, a)
    BY <1>2, CanonicalOf
  <2>2. Canonical(Append(a, o)) = Merge(c, o)
    BY CanonicalOf
  <2> HIDE DEF c
  <2>3. SameHead(Merge(c, o), Append(c, o))
    BY <2>1, MergeHead
  <2>4. SameHead(Append(c, o), Append(a, o))
    <3>1. CASE a = <<>>
      BY <2>1, <3>1 DEF SameHead
    <3>2. CASE a # <<>>
      <4>1. /\ Append(c, o) # <<>> /\ Append(a, o) # <<>>
            /\ Append(c, o)[1] = c[1] /\ Append(a, o)[1] = a[1]
        BY <2>1, <3>2 DEF SameHead
      <4>2. QED  BY Zenon, <2>1, <3>2, <4>1 DEF SameHead
    <3>3. QED  BY <3>1, <3>2
  <2>5. SameHead(Merge(c, o), Append(a, o))
    BY Zenon, <2>3, <2>4 DEF SameHead
  <2>6. QED  BY <2>1, <2>2, <2>5
<1>3. Seq(Operations) \subseteq S
  <2> HIDE DEF S
  <2>1. QED  BY <1>1, <1>2, SeqInduction
<1>4. QED  BY <1>3

(***************************************************************************)
(* diff_from.                                                               *)
(***************************************************************************)
Silent == {o \in Instructions : o.op # "marker"}

\* A history holds no marker.
LEMMA SilentAre ==
    /\ Operations \subseteq Silent /\ Silent \subseteq Instructions
    /\ \A h \in Seq(Operations) : h \in Seq(Silent)
    /\ \A h \in Seq(Silent) : h \in Seq(Instructions)
<1>1. Operations \subseteq Silent
  BY OperationsAre DEF Silent, Operations
<1>2. Silent \subseteq Instructions
  BY DEF Silent
<1>3. QED  BY <1>1, <1>2

\* A sequence cut at its n-th element.
LEMMA Cut ==
    ASSUME NEW E, NEW t \in Seq(E), NEW n \in 1 .. Len(t)
    PROVE  /\ SubSeq(t, 1, n - 1) \in Seq(E) /\ SubSeq(t, n + 1, Len(t)) \in Seq(E)
           /\ Len(SubSeq(t, 1, n - 1)) = n - 1
           /\ \A k \in 1 .. (n - 1) : SubSeq(t, 1, n - 1)[k] = t[k]
           /\ t = Append(SubSeq(t, 1, n - 1), t[n]) \o SubSeq(t, n + 1, Len(t))
           /\ n = Len(t) => t = Append(SubSeq(t, 1, n - 1), t[n])
<1> DEFINE a == SubSeq(t, 1, n - 1)
           b == SubSeq(t, n + 1, Len(t))
           c == Append(a, t[n])
<1>1. n \in Nat /\ n > 0 /\ n <= Len(t) /\ Len(t) \in Nat /\ n - 1 \in Nat
  OBVIOUS
<1>2. a \in Seq(E) /\ Len(a) = n - 1 /\ \A k \in 1 .. (n - 1) : a[k] = t[k]
  BY <1>1
<1>3. b \in Seq(E) /\ Len(b) = Len(t) - n /\ \A k \in 1 .. (Len(t) - n) : b[k] = t[n + k]
  BY <1>1
<1> HIDE DEF a, b
<1>4. c \in Seq(E) /\ Len(c) = n /\ \A k \in 1 .. n : c[k] = t[k]
  BY <1>1, <1>2
<1> HIDE DEF c
<1>5. c \o b \in Seq(E) /\ Len(c \o b) = Len(t) /\ \A k \in 1 .. Len(t) : (c \o b)[k] = t[k]
  <2>1. c \o b \in Seq(E) /\ Len(c \o b) = Len(t)
    <3>1. c \o b \in Seq(E) /\ Len(c \o b) = Len(c) + Len(b)
      <4>1. \A x, y \in Seq(E) : x \o y \in Seq(E) /\ Len(x \o y) = Len(x) + Len(y)
        OBVIOUS
      <4>2. QED  BY Zenon, <1>3, <1>4, <4>1
    <3>2. n + (Len(t) - n) = Len(t)
      BY <1>1
    <3>3. QED  BY <1>3, <1>4, <3>1, <3>2
  <2>2. ASSUME NEW k \in 1 .. Len(t) PROVE (c \o b)[k] = t[k]
    <3>1. CASE k <= n
      <4>1. k \in 1 .. n
        BY <1>1, <3>1
      <4>2. (c \o b)[k] = c[k]
        BY <1>3, <1>4, <4>1
      <4>3. QED  BY <1>4, <4>1, <4>2
    <3>2. CASE ~(k <= n)
      <4>1. k - n \in 1 .. (Len(t) - n) /\ n + (k - n) = k
        BY <1>1, <3>2
      <4>2. (c \o b)[k] = b[k - n]
        BY <1>1, <1>3, <1>4, <3>2, <4>1
      <4>3. b[k - n] = t[n + (k - n)]
        BY <1>3, <4>1
      <4>4. QED  BY <4>1, <4>2, <4>3
    <3>3. QED  BY <3>1, <3>2
  <2>3. QED  BY <2>1, <2>2
<1>6. \A x, y \in Seq(E) : Len(x) = Len(y) /\ (\A k \in 1 .. Len(x) : x[k] = y[k]) => x = y
  OBVIOUS
<1>7. t = c \o b /\ (n = Len(t) => t = c)
  BY <1>4, <1>5, <1>6
<1>8. QED  BY <1>2, <1>3, <1>7 DEF a, b, c

\* A target that extends what was delivered begins like it and ends with what remains.
LEMMA RemainderPlays ==
    ASSUME NEW t \in Seq(Operations), NEW d \in Seq(Operations), Extends(t, d)
    PROVE  /\ Remainder(t, d) \in Seq(Silent)
           /\ \A q \in Screens : Played(Played(q, d), Remainder(t, d)) = Played(q, t)
           /\ d # <<>> => SameHead(t, d)
<1> DEFINE n == Len(d)
           rest == SubSeq(t, n + 1, Len(t))
<1>1. CASE IsPrefix(d, t)
  <2>1. n <= Len(t) /\ d = SubSeq(t, 1, n)
    BY <1>1 DEF IsPrefix
  <2>2. rest \in Seq(Operations) /\ t = d \o rest
    BY <2>1
  <2>3. Remainder(t, d) = rest
    BY <1>1 DEF Remainder
  <2> HIDE DEF rest
  <2>4. rest \in Seq(Silent) /\ rest \in Seq(Instructions) /\ d \in Seq(Instructions)
    BY <2>2, SilentAre
  <2>5. \A q \in Screens : Played(Played(q, d), rest) = Played(q, t)
    BY <2>2, <2>4, PlayedConcat
  <2>6. d # <<>> => t # <<>> /\ t[1] = d[1]
    BY <2>2
  <2>7. d # <<>> => SameHead(t, d)
    BY Zenon, <2>6 DEF SameHead
  <2>8. QED  BY <2>3, <2>4, <2>5, <2>7
<1>2. CASE ~IsPrefix(d, t)
  <2> DEFINE f == Front(d)
             a == d[n].run
             b == SubSeq(t[n].run, Len(a) + 1, Len(t[n].run))
             m == HostBytes(b)
  <2>1. /\ n > 0 /\ n <= Len(t) /\ IsPrefix(f, t)
        /\ t[n].op = "bytes" /\ d[n].op = "bytes" /\ IsPrefix(a, t[n].run)
    BY <1>2 DEF Extends
  <2>2. t[n] \in Operations /\ d[n] \in Operations /\ n \in 1 .. Len(d)
    BY <2>1
  <2>3. t[n].run \in Seq(Atoms) /\ a \in Seq(Atoms) \ {<<>>}
    BY <2>1, <2>2 DEF Operations
  <2>4. b \in Seq(Atoms) /\ t[n].run = a \o b
    <3>1. \A x, y \in Seq(Atoms) : IsPrefix(x, y) =>
              LET z == SubSeq(y, Len(x) + 1, Len(y)) IN z \in Seq(Atoms) /\ y = x \o z
      BY DEF IsPrefix
    <3>2. QED  BY <2>1, <2>3, <3>1
  <2>5. /\ f \in Seq(Operations) /\ d = Append(f, d[n]) /\ Len(f) = n - 1
        /\ \A k \in 1 .. (n - 1) : f[k] = d[k]
    BY <2>2, Cut DEF Front
  <2>6. rest \in Seq(Operations) /\ t = Append(f, t[n]) \o rest
    <3>1. f = SubSeq(t, 1, n - 1)
      BY <2>1, <2>5 DEF IsPrefix
    <3>2. n \in 1 .. Len(t)
      BY <2>1
    <3>3. QED  BY <3>1, <3>2, Cut
  <2>7. Remainder(t, d) = <<m>> \o rest
    BY <1>2 DEF Remainder
  <2>8. m \in Silent /\ m.op = "bytes" /\ m.run = b
    BY <2>4 DEF HostBytes, Silent, Instructions
  <2>9. <<m>> \o rest \in Seq(Silent)
    <3>1. rest \in Seq(Silent)
      BY <2>6, SilentAre
    <3>2. QED  BY <2>8, <3>1
  <2> HIDE DEF f, a, b, m, rest
  <2>10. ASSUME NEW q \in Screens PROVE Played(Played(q, d), <<m>> \o rest) = Played(q, t)
    <3> DEFINE p == Played(q, f)
               one == <<m>>
               g == Append(f, t[n])
    <3>1. /\ f \in Seq(Instructions) /\ rest \in Seq(Instructions) /\ d \in Seq(Instructions)
          /\ t[n] \in Instructions /\ d[n] \in Instructions /\ m \in Instructions
          /\ one \in Seq(Instructions) /\ g \in Seq(Instructions)
      BY <2>2, <2>5, <2>6, <2>8, OperationsAre DEF Silent
    <3>2. p \in Screens
      BY <3>1, PlayedType
    <3>3. /\ Played(q, d) = ApplyOperation(p, d[n])
          /\ Played(q, g) = ApplyOperation(p, t[n])
          /\ Played(q, d) \in Screens /\ Played(q, g) \in Screens
      <4>1. /\ Played(q, Append(f, d[n])) = ApplyOperation(p, d[n])
            /\ Played(q, Append(f, t[n])) = ApplyOperation(p, t[n])
        BY <3>1, PlayedAppend
      <4>2. Played(q, d) \in Screens /\ Played(q, g) \in Screens
        BY <3>1, PlayedType
      <4>3. QED  BY Zenon, <2>5, <4>1, <4>2
    <3>4. Played(q, t) = Played(Played(q, g), rest)
      <4>1. t = g \o rest
        BY <2>6
      <4> HIDE DEF g
      <4>2. Played(q, g \o rest) = Played(Played(q, g), rest)
        BY <3>1, PlayedConcat
      <4>3. QED  BY Zenon, <4>1, <4>2
    <3>5. Played(Played(q, d), one) = ApplyOperation(Played(q, d), m)
      BY <3>1, <3>3, PlayedOne
    <3> HIDE DEF p, one, g
    <3>6. Played(Played(q, d), one \o rest) = Played(Played(Played(q, d), one), rest)
      BY <3>1, <3>3, PlayedConcat
    <3>7. /\ ApplyOperation(p, t[n]) = FoldLeft(ApplyAtom, p, a \o b)
          /\ ApplyOperation(p, d[n]) = FoldLeft(ApplyAtom, p, a)
      <4>1. ApplyOperation(p, t[n]) = FoldLeft(ApplyAtom, p, t[n].run)
        BY <2>1, <3>1, <3>2, OperationDoes
      <4>2. ApplyOperation(p, d[n]) = FoldLeft(ApplyAtom, p, d[n].run)
        BY <2>1, <3>1, <3>2, OperationDoes
      <4>3. QED  BY Zenon, <2>4, <4>1, <4>2 DEF a
    <3>8. ApplyOperation(Played(q, d), m) = FoldLeft(ApplyAtom, FoldLeft(ApplyAtom, p, a), b)
      BY <2>8, <3>1, <3>3, <3>7, OperationDoes
    <3>9. FoldLeft(ApplyAtom, p, a \o b) = FoldLeft(ApplyAtom, FoldLeft(ApplyAtom, p, a), b)
      BY <2>3, <2>4, <3>2, AtomsApplied
    <3>10. QED  BY <3>3, <3>4, <3>5, <3>6, <3>7, <3>8, <3>9 DEF one
  <2>11. SameHead(t, d)
    <3>1. d # <<>> /\ t # <<>>
      BY <2>1
    <3>2. CASE n = 1
      <4>1. (a \o b)[1] = a[1]
        BY <2>3, <2>4
      <4>2. t[1].op = d[1].op /\ t[1].run[1] = d[1].run[1]
        BY <2>1, <2>4, <3>2, <4>1 DEF a
      <4>3. QED  BY Zenon, <3>1, <4>2 DEF SameHead
    <3>3. CASE n # 1
      <4>1. t[1] = f[1] /\ d[1] = f[1]
        <5>1. f # <<>> /\ 1 \in 1 .. (n - 1) /\ Len(f) >= 1
          BY <2>1, <2>5, <3>3
        <5>2. t[1] = f[1]
          BY <2>2, <2>5, <2>6, <5>1
        <5>3. QED  BY <2>5, <5>1, <5>2
      <4>2. QED  BY Zenon, <3>1, <4>1 DEF SameHead
    <3>4. QED  BY <3>2, <3>3
  <2>12. QED  BY <2>7, <2>9, <2>10, <2>11
<1>3. QED  BY <1>1, <1>2

\* The host's echo acknowledgement after a delta.
Hears(e, delta) == FoldLeft(LAMBDA x, o : IF o.op = "marker" THEN o.value ELSE x, e, delta)

\* The echo acknowledgement after a delta.
LEMMA HearsIs ==
    ASSUME NEW e \in Int, NEW delta \in Seq(Instructions)
    PROVE  Hears(e, delta) = Fold(HearStep, e, delta)
BY HearFold DEF Hears

\* Without a marker the echo acknowledgement stays.
LEMMA SilentHeard ==
    ASSUME NEW e \in Int, NEW h \in Seq(Silent)
    PROVE  Hears(e, h) = e
<1> DEFINE P == {e}
<1>1. h \in Seq(Instructions) /\ \A k \in 1 .. Len(h) : h[k] \in Silent /\ h[k] \in Instructions
  BY SilentAre
<1>2. \A v \in P : \A k \in 1 .. Len(h) : HearStep[<<v, h[k]>>] \in P
  <2>1. ASSUME NEW k \in 1 .. Len(h) PROVE HearStep[<<e, h[k]>>] = e
    BY <1>1, HearStepType DEF Heard, Silent
  <2>2. QED  BY <2>1
<1>3. P \in SUBSET Int /\ e \in P
  OBVIOUS
<1> HIDE DEF P
<1>4. Fold(HearStep, e, h) \in P
  BY <1>1, <1>2, <1>3, HearStepType, FoldKeeps
<1>5. QED  BY <1>1, <1>4, HearsIs DEF P

\* A marker that comes first is the one that is heard.
LEMMA MarkerHeard ==
    ASSUME NEW e \in Int, NEW v \in Int, NEW h \in Seq(Silent)
    PROVE  Hears(e, <<Marker(v)>> \o h) = v
<1> DEFINE a == <<Marker(v)>>
<1>1. Marker(v) \in Instructions /\ Heard(e, Marker(v)) = v
  BY DEF Marker, Instructions, Heard
<1>2. a \in Seq(Instructions) /\ h \in Seq(Instructions) /\ a \o h \in Seq(Instructions)
  BY <1>1, SilentAre
<1>3. Fold(HearStep, e, a) = v
  <2> DEFINE m == Marker(v)
  <2>1. m \in Instructions /\ Heard(e, m) = v
    BY <1>1
  <2> HIDE DEF m
  <2>2. Fold(HearStep, e, <<m>>) = HearStep[<<e, m>>]
    BY <2>1, HearStepType, FoldOne
  <2>3. HearStep[<<e, m>>] = v
    BY <2>1, HearStepType
  <2>4. QED  BY <2>2, <2>3 DEF m
<1> HIDE DEF a
<1>4. Fold(HearStep, e, a \o h) = Fold(HearStep, Fold(HearStep, e, a), h)
  BY <1>2, HearStepType, FoldConcat
<1>5. Fold(HearStep, v, h) = v
  BY <1>2, SilentHeard, HearsIs
<1>6. QED  BY <1>2, <1>3, <1>4, <1>5, HearsIs DEF a

\* diff_from: whatever way the delta is made, it leads from the delivered content to the
\* target's, and to its size if the two histories started with one size.
LEMMA DiffPlays ==
    ASSUME NEW s \in States, NEW d \in States, CanDiff(s, d),
           s.screen = Replay(s.history, s.initial), d.screen = Replay(d.history, d.initial),
           s.echo_ack \notin {d.echo_ack, NoEcho},
           NEW q \in Screens, q.content = d.screen.content
    PROVE  /\ DiffFrom(s, d) \in Seq(Instructions)
           /\ Played(q, DiffFrom(s, d)) \in Screens
           /\ Played(q, DiffFrom(s, d)).content = s.screen.content
           /\ \A e \in Int : Hears(e, DiffFrom(s, d)) = s.echo_ack
           /\ ~HistoryExtends(s, d) => s.viewport = d.viewport
           /\ q.size = d.screen.size /\ (HistoryExtends(s, d) => s.initial = d.initial)
                  /\ (~HistoryExtends(s, d) => s.screen.size = d.screen.size)
              => Played(q, DiffFrom(s, d)).size = s.screen.size
<1> DEFINE rest == IF HistoryExtends(s, d)
                   THEN Remainder(Canonical(s.history), Canonical(d.history))
                   ELSE ScreenDiff(s, d)
           mark == <<Marker(s.echo_ack)>>
           ct == Canonical(s.history)
           cd == Canonical(d.history)
<1>1. /\ s.history \in Seq(Operations) /\ d.history \in Seq(Operations)
      /\ s.initial \in Nat /\ d.initial \in Nat /\ s.echo_ack \in Int
      /\ s.screen \in Screens /\ d.screen \in Screens
  BY DEF States
<1>2. DiffFrom(s, d) = mark \o rest
  BY DEF DiffFrom, EchoMarker
<1>3. Marker(s.echo_ack) \in Instructions /\ mark \in Seq(Instructions)
  BY <1>1 DEF Marker, Instructions
<1>4. ct \in Seq(Operations) /\ cd \in Seq(Operations)
  BY <1>1, CanonicalOf
<1>5. \A p \in Screens : Played(p, ct) = Played(p, s.history) /\ Played(p, cd) = Played(p, d.history)
  BY <1>1, CanonicalPlays
<1>6. \A i \in Nat : NewScreen(i) \in Screens /\ NewScreen(i).content = Blank
  BY DEF NewScreen, Screens, Blank
<1>7. /\ s.screen = Played(NewScreen(s.initial), ct)
      /\ d.screen = Played(NewScreen(d.initial), cd)
  BY <1>1, <1>5, <1>6, ReplayIs
<1>8. Played(q, mark) = q
  <2> DEFINE m == Marker(s.echo_ack)
  <2>1. m \in Instructions /\ m.op \notin {"bytes", "resize"}
    BY <1>3 DEF Marker
  <2> HIDE DEF m
  <2>2. Played(q, <<m>>) = q
    BY <2>1, PlayedOne, OperationDoes
  <2>3. QED  BY <2>2 DEF m
<1>9. /\ rest \in Seq(Silent)
      /\ Played(q, rest).content = s.screen.content
      /\ ~HistoryExtends(s, d) => s.viewport = d.viewport
      /\ q.size = d.screen.size /\ (HistoryExtends(s, d) => s.initial = d.initial)
             /\ (~HistoryExtends(s, d) => s.screen.size = d.screen.size)
         => Played(q, rest).size = s.screen.size
  <2>1. CASE HistoryExtends(s, d)
    <3> DEFINE r == Remainder(ct, cd)
    <3>1. rest = r
      BY <2>1
    <3>2. Extends(ct, cd)
      BY <2>1 DEF HistoryExtends
    <3> HIDE DEF ct, cd, rest
    <3>3. /\ r \in Seq(Silent)
          /\ \A p \in Screens : Played(Played(p, cd), r) = Played(p, ct)
      BY <1>4, <3>2, RemainderPlays
    <3> HIDE DEF r
    <3>4. r \in Seq(Instructions) /\ ct \in Seq(Instructions)
      BY <1>4, <3>3, SilentAre, OperationsAre
    <3>5. Played(d.screen, r) = Played(NewScreen(d.initial), ct)
      BY <1>1, <1>6, <1>7, <3>3
    <3>6. Played(q, r).content = Played(d.screen, r).content
      BY <1>1, <3>4, PlayedSeesContent
    <3>7. Played(NewScreen(d.initial), ct).content = Played(NewScreen(s.initial), ct).content
      <4>1. /\ NewScreen(d.initial) \in Screens /\ NewScreen(s.initial) \in Screens
            /\ NewScreen(d.initial).content = NewScreen(s.initial).content
        BY <1>1, <1>6
      <4>2. QED  BY <3>4, <4>1, PlayedSeesContent
    <3>8. ASSUME q.size = d.screen.size, s.initial = d.initial
          PROVE  Played(q, r).size = s.screen.size
      <4>1. q = d.screen
        BY <1>1, <3>8 DEF Screens
      <4>2. QED  BY <1>7, <3>5, <3>8, <4>1
    <3>9. Played(q, r).content = s.screen.content
      BY Zenon, <1>7, <3>5, <3>6, <3>7
    <3>10. QED  BY <2>1, <3>1, <3>3, <3>8, <3>9
  <2>2. CASE ~HistoryExtends(s, d)
    <3>1. /\ rest = ScreenDiff(s, d) /\ s.viewport = d.viewport
          /\ EndsAtGround(ct) /\ EndsAtGround(cd)
      BY <2>2 DEF CanDiff, ScreenDiffSafe
    <3>2. /\ Rendered(s.screen.content) = s.screen.content
          /\ Rendered(d.screen.content) = d.screen.content
      <4>1. s.screen = Replay(ct, s.initial) /\ d.screen = Replay(cd, d.initial)
        BY Zenon, <1>7, ReplayIs
      <4> HIDE DEF ct, cd
      <4>2. QED  BY <1>1, <1>4, <3>1, <4>1, GroundIsWhole
    <3>3. CASE s.screen = d.screen
      <4>1. rest = <<>>
        BY <3>1, <3>3 DEF ScreenDiff
      <4>2. Played(q, <<>>) = q
        BY PlayedEmpty
      <4>3. <<>> \in Seq(Silent)
        OBVIOUS
      <4>4. QED  BY <2>2, <3>1, <3>3, <4>1, <4>2, <4>3
    <3>4. CASE s.screen # d.screen
      <4> DEFINE x == Atom(d.screen.content, s.screen.content)
                 o == HostBytes(<<x>>)
      <4>1. rest = <<o>>
        BY <3>1, <3>2, <3>4 DEF ScreenDiff
      <4>2. x \in Atoms /\ x.from = q.content /\ x.to = s.screen.content
        BY <1>1 DEF Atom, Atoms, Screens
      <4> HIDE DEF x
      <4>3. o \in Silent /\ o \in Instructions /\ o.op = "bytes" /\ o.run = <<x>>
        BY <4>2 DEF HostBytes, Silent, Instructions
      <4> HIDE DEF o
      <4>4. Played(q, <<o>>) = ApplyOperation(q, o)
        BY <4>3, PlayedOne
      <4>5. ApplyOperation(q, o) = ApplyAtom(q, x)
        <5>1. ApplyOperation(q, o) = FoldLeft(ApplyAtom, q, o.run)
          BY <4>3, OperationDoes
        <5>2. FoldLeft(ApplyAtom, q, <<x>>) = ApplyAtom(q, x)
          BY <4>2, AtomsApplied
        <5>3. QED  BY Zenon, <4>3, <5>1, <5>2
      <4>6. ApplyAtom(q, x).content = s.screen.content /\ ApplyAtom(q, x).size = q.size
        BY <4>2 DEF ApplyAtom, Screens
      <4>7. <<o>> \in Seq(Silent)
        BY <4>3
      <4> HIDE DEF rest
      <4>8. Played(q, rest).content = s.screen.content /\ Played(q, rest).size = q.size
        BY Zenon, <4>1, <4>4, <4>5, <4>6
      <4>9. rest \in Seq(Silent)
        BY Zenon, <4>1, <4>7
      <4>10. QED  BY Zenon, <2>2, <3>1, <4>8, <4>9
    <3>5. QED  BY <3>3, <3>4
  <2>3. QED  BY <2>1, <2>2
<1> HIDE DEF rest, mark
<1>10. rest \in Seq(Instructions) /\ mark \o rest \in Seq(Instructions)
  BY <1>3, <1>9, SilentAre
<1>11. Played(q, mark \o rest) = Played(q, rest) /\ Played(q, rest) \in Screens
  BY <1>3, <1>8, <1>10, PlayedConcat, PlayedType
<1>12. \A e \in Int : Hears(e, mark \o rest) = s.echo_ack
  BY <1>1, <1>9, MarkerHeard DEF mark
<1>13. QED  BY Zenon, <1>2, <1>9, <1>10, <1>11, <1>12

(***************************************************************************)
(* apply.                                                                   *)
(***************************************************************************)
\* A state whose history replays to its screen.
Replays(s) == s \in States /\ s.screen = Replay(s.history, s.initial) /\ s.screen.size = s.viewport

\* A state t after some output on s: the same terminal with another content.
Moves(s, t, content) ==
    /\ Replays(t) /\ t.screen.content = content
    /\ t.initial = s.initial /\ t.viewport = s.viewport /\ t.echo_ack = s.echo_ack
    /\ Origin(t.history) = Origin(s.history)
    /\ s.history # <<>> => t.history # <<>>

\* An operation that is no snapshot keeps the size a history starts with.
LEMMA OriginAppend ==
    ASSUME NEW h \in Seq(Operations), NEW o \in Operations,
           o.op = "bytes" => o.run[1].from # AnyContent
    PROVE  Origin(Append(h, o)) = Origin(h) /\ Append(h, o) # <<>>
<1>1. CASE h = <<>>
  <2>1. Append(h, o) # <<>> /\ Append(h, o)[1] = o
    BY <1>1
  <2>2. QED  BY Zenon, <1>1, <2>1 DEF Origin
<1>2. CASE h # <<>>
  <2>1. Append(h, o) # <<>> /\ Append(h, o)[1] = h[1]
    BY <1>2
  <2>2. QED  BY Zenon, <1>2, <2>1 DEF Origin
<1>3. QED  BY <1>1, <1>2

\* One operation that is retained.
Retains(s, o, t) ==
    /\ t = [s EXCEPT !.screen = ApplyOperation(s.screen, o), !.viewport = t.viewport,
                     !.history = Append(s.history, o)]
    /\ t.viewport = ApplyOperation(s.screen, o).size
    /\ o.op = "bytes" => o.run[1].from # AnyContent
Extended(s, o, t) ==
    /\ Replays(t) /\ t.initial = s.initial /\ t.echo_ack = s.echo_ack
    /\ t.screen = ApplyOperation(s.screen, o)
    /\ Origin(t.history) = Origin(s.history) /\ t.history # <<>>

\* The history that retains it replays to the screen it was applied to.
LEMMA RetainedMoves ==
    ASSUME NEW s, Replays(s), NEW o \in Operations, NEW t, Retains(s, o, t)
    PROVE  Extended(s, o, t)
<1> DEFINE q == ApplyOperation(s.screen, o)
           h == Append(s.history, o)
           b == NewScreen(s.initial)
<1>1. /\ s \in States /\ s.history \in Seq(Operations) /\ s.screen \in Screens
      /\ s.initial \in Nat /\ s.screen = Replay(s.history, s.initial)
  BY DEF Replays, States
<1>2. o \in Instructions /\ s.history \in Seq(Instructions) /\ h \in Seq(Operations)
  BY <1>1, OperationsAre
<1>3. b \in Screens
  BY <1>1 DEF NewScreen, Screens, Blank
<1>4. q \in Screens
  BY <1>1, <1>2, OperationDoes
<1>5. Replay(h, s.initial) = q
  <2>1. Played(b, h) = ApplyOperation(Played(b, s.history), o)
    BY <1>2, <1>3, PlayedAppend
  <2>2. QED  BY Zenon, <1>1, <2>1, ReplayIs
<1>6. Origin(h) = Origin(s.history) /\ h # <<>>
  <2>1. o.op = "bytes" => o.run[1].from # AnyContent
    BY Zenon DEF Retains
  <2>2. QED  BY <1>1, <2>1, OriginAppend
<1>7. q.size \in Nat /\ t.viewport = q.size
  BY <1>4 DEF Screens, Retains
<1>8. t = [s EXCEPT !.screen = q, !.viewport = t.viewport, !.history = h]
  BY Zenon DEF Retains
<1> HIDE DEF q, h
<1>9. /\ t \in States /\ t.screen = q /\ t.history = h /\ t.initial = s.initial
      /\ t.echo_ack = s.echo_ack
  BY <1>1, <1>2, <1>4, <1>7, <1>8 DEF States
<1>10. Replays(t)
  BY Zenon, <1>5, <1>7, <1>9 DEF Replays
<1>11. QED  BY Zenon, <1>6, <1>9, <1>10 DEF q, Extended

\* A session control leaves the screen alone.
LEMMA ControlMoves ==
    ASSUME NEW s, Replays(s), NEW o \in [op : {"control"}, id : Int]
    PROVE  Moves(s, ApplyInstruction(s, o), s.screen.content)
<1> DEFINE t == ApplyInstruction(s, o)
<1>1. /\ s \in States /\ s.history \in Seq(Operations) /\ s.screen \in Screens
      /\ s.screen.size = s.viewport
  BY DEF Replays, States
<1>2. o \in Operations /\ o \in Instructions /\ o.op = "control"
  BY DEF Operations, Instructions
<1>3. ApplyOperation(s.screen, o) = s.screen
  BY <1>1, <1>2, OperationDoes
<1>4. t = [s EXCEPT !.history = Append(s.history, o)]
  BY <1>2 DEF ApplyInstruction
<1>5. t.viewport = s.viewport
  BY <1>1, <1>4 DEF States
<1>6. t = [s EXCEPT !.screen = ApplyOperation(s.screen, o), !.viewport = t.viewport,
                    !.history = Append(s.history, o)]
  BY <1>1, <1>3, <1>4, <1>5 DEF States
<1> HIDE DEF t
<1>7. Extended(s, o, t)
  <2>1. t.viewport = ApplyOperation(s.screen, o).size /\ o.op # "bytes"
    BY <1>1, <1>2, <1>3, <1>5
  <2>2. Retains(s, o, t)
    BY Zenon, <1>6, <2>1 DEF Retains
  <2>3. QED  BY <1>2, <2>2, RetainedMoves
<1>8. QED  BY Zenon, <1>3, <1>5, <1>7 DEF Moves, t, Extended

\* Host bytes that were made for the content lead to theirs.
LEMMA AtomMoves ==
    ASSUME NEW s, Replays(s), NEW x \in Atoms, x.from = s.screen.content, x.from # AnyContent
    PROVE  /\ Moves(s, ApplyInstruction(s, HostBytes(<<x>>)), x.to)
           /\ ApplyInstruction(s, HostBytes(<<x>>)).history # <<>>
<1> DEFINE o == HostBytes(<<x>>)
           t == ApplyInstruction(s, o)
<1>1. /\ s \in States /\ s.history \in Seq(Operations) /\ s.screen \in Screens
      /\ s.screen.size = s.viewport
  BY DEF Replays, States
<1>2. o \in Operations /\ o \in Instructions /\ o.op = "bytes" /\ o.run = <<x>> /\ o.run # <<>>
      /\ o.run[1] = x
  BY DEF Operations, Instructions, HostBytes
<1> HIDE DEF o
<1>3. ApplyOperation(s.screen, o) = ApplyAtom(s.screen, x)
  <2>1. ApplyOperation(s.screen, o) = FoldLeft(ApplyAtom, s.screen, o.run)
    BY <1>1, <1>2, OperationDoes
  <2>2. FoldLeft(ApplyAtom, s.screen, <<x>>) = ApplyAtom(s.screen, x)
    BY <1>1, AtomsApplied
  <2>3. QED  BY Zenon, <1>2, <2>1, <2>2
<1>4. ApplyAtom(s.screen, x).content = x.to /\ ApplyAtom(s.screen, x).size = s.screen.size
  BY <1>1 DEF ApplyAtom, Screens
<1>5. t = [s EXCEPT !.screen = ApplyOperation(s.screen, o), !.history = Append(s.history, o)]
  BY <1>2 DEF ApplyInstruction
<1>6. t.viewport = s.viewport
  BY <1>1, <1>5 DEF States
<1>7. t = [s EXCEPT !.screen = ApplyOperation(s.screen, o), !.viewport = t.viewport,
                    !.history = Append(s.history, o)]
  BY <1>1, <1>5, <1>6 DEF States
<1> HIDE DEF t
<1>8. Extended(s, o, t)
  <2>1. t.viewport = ApplyOperation(s.screen, o).size
    BY Zenon, <1>1, <1>3, <1>4, <1>6
  <2>2. Retains(s, o, t)
    BY Zenon, <1>2, <1>7, <2>1 DEF Retains
  <2>3. QED  BY <1>2, <2>2, RetainedMoves
<1>9. Moves(s, t, x.to) /\ t.history # <<>>
  BY Zenon, <1>3, <1>4, <1>6, <1>8 DEF Moves, Extended
<1>10. QED  BY Zenon, <1>9 DEF t, o

\* resize: the viewport is the new one, whether it had to be changed or not.
LEMMA ResizeMoves ==
    ASSUME NEW s, Replays(s), NEW z \in Nat
    PROVE  LET t == ApplyInstruction(s, Resize(z))
           IN  /\ Replays(t) /\ t.screen.content = s.screen.content /\ t.viewport = z
               /\ t.initial = s.initial /\ t.echo_ack = s.echo_ack
               /\ Origin(t.history) = Origin(s.history)
<1> DEFINE o == Resize(z)
           t == ApplyInstruction(s, o)
<1>1. /\ s \in States /\ s.history \in Seq(Operations) /\ s.screen \in Screens
      /\ s.screen.size = s.viewport
  BY DEF Replays, States
<1>2. o \in Operations /\ o \in Instructions /\ o.op = "resize" /\ o.size = z
  BY DEF Operations, Instructions, Resize
<1> HIDE DEF o
<1>3. CASE z = s.viewport
  <2>1. t = s
    BY <1>2, <1>3 DEF ApplyInstruction
  <2>2. QED  BY <1>1, <1>3, <2>1 DEF o
<1>4. CASE z # s.viewport
  <2>1. t = [s EXCEPT !.screen = ApplyOperation(s.screen, o), !.viewport = z,
                      !.history = Append(s.history, o)]
    BY <1>2, <1>4 DEF ApplyInstruction
  <2>2. t.viewport = z
    BY <1>1, <2>1 DEF States
  <2>3. ApplyOperation(s.screen, o) = [s.screen EXCEPT !.size = z]
    BY <1>1, <1>2, OperationDoes
  <2>4. /\ ApplyOperation(s.screen, o).size = z
        /\ ApplyOperation(s.screen, o).content = s.screen.content
    BY <1>1, <2>3 DEF Screens
  <2>5. t = [s EXCEPT !.screen = ApplyOperation(s.screen, o), !.viewport = t.viewport,
                      !.history = Append(s.history, o)]
    BY <2>1, <2>2
  <2> HIDE DEF t
  <2>6. Extended(s, o, t)
    <3>1. t.viewport = ApplyOperation(s.screen, o).size /\ o.op # "bytes"
      BY <1>2, <2>2, <2>4
    <3>2. Retains(s, o, t)
      BY Zenon, <2>5, <3>1 DEF Retains
    <3>3. QED  BY <1>2, <3>2, RetainedMoves
  <2>7. QED  BY Zenon, <2>2, <2>4, <2>6 DEF t, o, Extended
<1>5. QED  BY <1>3, <1>4

(***************************************************************************)
(* FlattenSeq: the sequences one after the other.                            *)
(***************************************************************************)
Joins(seqs, r) ==
    /\ r[0] = <<>>
    /\ \A k \in 1 .. Len(seqs) : r[k] = r[k - 1] \o seqs[k]

\* The concatenations of the first 0, 1, 2, ... sequences exist.
LEMMA JoinExists ==
    ASSUME NEW E, NEW seqs \in Seq(Seq(E))
    PROVE  \E r \in [0 .. Len(seqs) -> Seq(E)] : Joins(seqs, r)
<1> DEFINE V == Seq(E)
           G == [p \in V \X V |-> p[1] \o p[2]]
           b == <<>>
<1>1. G \in Steps(V, V) /\ \A v \in V, e \in V : G[<<v, e>>] = v \o e
  <2>1. ASSUME NEW p \in V \X V PROVE p[1] \o p[2] \in V
    OBVIOUS
  <2>2. G \in [V \X V -> V]
    BY <2>1
  <2>3. QED  BY <2>2 DEF Steps
<1>2. b \in V
  OBVIOUS
<1>3. Len(seqs) \in Nat /\ seqs \in [1 .. Len(seqs) -> V] /\ seqs \in Seq(V)
  OBVIOUS
<1> HIDE DEF V, G
<1>4. PICK r \in [0 .. Len(seqs) -> V] : Run(G, b, seqs, r)
  BY <1>1, <1>2, <1>3, FoldType
<1>5. r[0] = <<>>
  BY <1>4 DEF Run
<1>6. ASSUME NEW k \in 1 .. Len(seqs) PROVE r[k] = r[k - 1] \o seqs[k]
  <2>1. r[k] = G[<<r[k - 1], seqs[k]>>]
    BY <1>4, <1>6 DEF Run
  <2>2. r[k - 1] \in V /\ seqs[k] \in V
    <3>1. k - 1 \in 0 .. Len(seqs)
      BY <1>3
    <3>2. QED  BY <1>3, <1>4, <3>1
  <2>3. QED  BY Zenon, <1>1, <2>1, <2>2
<1>7. Joins(seqs, r)
  BY Zenon, <1>5, <1>6 DEF Joins
<1>8. QED  BY Zenon, <1>4, <1>7 DEF V

\* FlattenSeq is the last of them.
LEMMA FlattenIs ==
    ASSUME NEW E, NEW seqs \in Seq(Seq(E)),
           NEW r \in [0 .. Len(seqs) -> Seq(E)], Joins(seqs, r)
    PROVE  FlattenSeq(seqs) = r[Len(seqs)]
<1> DEFINE n == Len(seqs)
<1>1. n \in Nat /\ seqs \in [1 .. n -> Seq(E)]
  OBVIOUS
<1>2. CASE n = 0
  <2>1. seqs = <<>> /\ r[0] = <<>>
    BY <1>2 DEF Joins
  <2>2. QED  BY <1>2, <2>1 DEF FlattenSeq
<1>3. CASE n > 0
  <2> DEFINE B(f) == [i \in 1 .. n |-> IF i = 1 THEN seqs[i] ELSE f[i - 1] \o seqs[i]]
             c == CHOOSE f : f = B(f)
             g == [i \in 1 .. n |-> r[i]]
  <2>1. FlattenSeq(seqs) = c[n]
    BY <1>3 DEF FlattenSeq
  <2>2. g = B(g)
    <3>1. ASSUME NEW i \in 1 .. n
          PROVE  r[i] = IF i = 1 THEN seqs[i] ELSE g[i - 1] \o seqs[i]
      <4>1. r[i] = r[i - 1] \o seqs[i] /\ seqs[i] \in Seq(E)
        BY <1>1, <3>1 DEF Joins
      <4>2. CASE i = 1
        <5>1. r[i - 1] = <<>>
          BY <4>2 DEF Joins
        <5>2. <<>> \o seqs[i] = seqs[i]
          BY <4>1
        <5>3. QED  BY Zenon, <4>1, <4>2, <5>1, <5>2
      <4>3. CASE i # 1
        <5>1. i - 1 \in 1 .. n
          BY <4>3
        <5>2. g[i - 1] = r[i - 1]
          BY <5>1
        <5>3. QED  BY Zenon, <4>1, <4>3, <5>2
      <4>4. QED  BY <4>2, <4>3
    <3>2. QED  BY Zenon, <3>1
  <2>3. c = B(c)
    <3>1. \E f : f = B(f)
      BY Zenon, <2>2
    <3>2. QED  BY Zenon, <3>1
  <2> HIDE DEF c, g
  <2>4. \A i \in 1 .. n : c[i] = IF i = 1 THEN seqs[i] ELSE c[i - 1] \o seqs[i]
    BY Zenon, <2>3
  <2> DEFINE S == {k \in Nat : k > 0 /\ k <= n => c[k] = r[k]}
  <2>5. 0 \in S
    OBVIOUS
  <2>6. ASSUME NEW k \in Nat, k \in S PROVE k + 1 \in S
    <3> SUFFICES ASSUME k + 1 <= n PROVE c[k + 1] = r[k + 1]
      OBVIOUS
    <3>1. k + 1 \in 1 .. n /\ (k + 1) - 1 = k
      BY <1>1
    <3>2. r[k + 1] = r[k] \o seqs[k + 1] /\ seqs[k + 1] \in Seq(E)
      BY <1>1, <3>1 DEF Joins
    <3>3. c[k + 1] = IF k + 1 = 1 THEN seqs[k + 1] ELSE c[k] \o seqs[k + 1]
      BY <2>4, <3>1
    <3>4. CASE k = 0
      <4>1. r[k] = <<>> /\ c[k + 1] = seqs[k + 1]
        BY <3>3, <3>4 DEF Joins
      <4>2. QED  BY <3>2, <4>1
    <3>5. CASE k # 0
      <4>1. c[k] = r[k]
        BY <2>6, <3>1, <3>5
      <4>2. c[k + 1] = c[k] \o seqs[k + 1]
        <5>1. k + 1 # 1
          BY <3>5
        <5>2. QED  BY Zenon, <3>3, <5>1
      <4>3. QED  BY Zenon, <3>2, <4>1, <4>2
    <3>6. QED  BY <3>4, <3>5
  <2> HIDE DEF S
  <2>7. n \in S
    BY <1>1, <2>5, <2>6, Induction
  <2>8. QED  BY <1>3, <2>1, <2>7 DEF S
<1>4. QED  BY <1>1, <1>2, <1>3

\* FlattenSeq leaves a sequence of the same elements.
LEMMA FlattenType ==
    ASSUME NEW E, NEW seqs \in Seq(Seq(E))
    PROVE  FlattenSeq(seqs) \in Seq(E)
<1>1. PICK r \in [0 .. Len(seqs) -> Seq(E)] : Joins(seqs, r)
  BY JoinExists
<1>2. FlattenSeq(seqs) = r[Len(seqs)]
  BY <1>1, FlattenIs
<1>3. Len(seqs) \in 0 .. Len(seqs)
  OBVIOUS
<1>4. QED  BY <1>2, <1>3

(***************************************************************************)
(* The server's differences, applied to the state they were made for.          *)
(***************************************************************************)
\* What a script makes of a state: its content tells its number, the first is blank.
LEMMA ScriptFacts ==
    ASSUME script \in Scripts, NEW n \in Nat
    PROVE  /\ ContentOf(n) \in Nat /\ ContentOf(n) \div 2 = n /\ ContentOf(0) = Blank
           /\ SizeOf(n) \in Nat
<1>1. /\ script.last \in Nat
      /\ script.partials \in SUBSET (1 .. script.last)
      /\ script.resized \in SUBSET (1 .. script.last)
  BY ServerAssumption
<1>2. 0 \notin script.partials
  BY <1>1
<1>3. ContentOf(n) \in Nat /\ ContentOf(n) \div 2 = n
  BY DEF ContentOf
<1>4. ContentOf(0) = Blank
  BY <1>2 DEF ContentOf, Blank
<1>5. SizeOf(n) \in Nat
  <2> DEFINE R == {r \in script.resized : r <= n}
  <2>1. R \subseteq 1 .. script.last
    BY <1>1
  <2>2. IsFiniteSet(1 .. script.last)
    BY <1>1, FS_Interval
  <2>3. Cardinality(R) \in Nat
    BY <2>1, <2>2, FS_Subset, FS_CardinalityType
  <2> HIDE DEF R
  <2>4. 1 + (Cardinality(R) % 2) \in Nat
    BY <2>3
  <2>5. QED  BY <2>4 DEF SizeOf, R
<1>6. QED  BY <1>3, <1>4, <1>5

\* Two moves make one.
LEMMA MovesOn ==
    ASSUME NEW s, NEW t, NEW u, NEW c, NEW d, Moves(s, t, c), Moves(t, u, d)
    PROVE  Moves(s, u, d)
BY DEF Moves

Controls == [op : {"control"}, id : Int]

\* Session controls leave the screen alone.
LEMMA ControlsMove ==
    ASSUME NEW s, Replays(s), NEW cs \in Seq(Controls)
    PROVE  Moves(s, ApplyAll(s, cs), s.screen.content)
<1> DEFINE P == {t \in States : Moves(s, t, s.screen.content)}
<1>1. s \in States /\ s \in P
  BY DEF Replays, Moves
<1>2. cs \in Seq(Instructions) /\ \A k \in 1 .. Len(cs) : cs[k] \in Controls /\ cs[k] \in Instructions
  <2>1. Controls \subseteq Instructions
    BY DEF Controls, Instructions
  <2>2. QED  BY <2>1
<1>3. ASSUME NEW v \in P, NEW k \in 1 .. Len(cs) PROVE ApplyStep[<<v, cs[k]>>] \in P
  <2> DEFINE w == ApplyInstruction(v, cs[k])
  <2>1. v \in States /\ Moves(s, v, s.screen.content) /\ cs[k] \in Controls /\ cs[k] \in Instructions
    BY <1>2
  <2>2. ApplyStep[<<v, cs[k]>>] = w
    BY <2>1, ApplyStepType
  <2>3. Replays(v) /\ v.screen.content = s.screen.content
    BY <2>1 DEF Moves
  <2>4. cs[k] \in [op : {"control"}, id : Int]
    BY <2>1 DEF Controls
  <2>5. Moves(v, w, v.screen.content)
    BY <2>3, <2>4, ControlMoves
  <2> HIDE DEF w
  <2>6. Moves(s, w, s.screen.content)
    BY <2>1, <2>3, <2>5, MovesOn
  <2>7. w \in States
    BY <2>5 DEF Moves, Replays
  <2>8. QED  BY <2>2, <2>6, <2>7
<1> HIDE DEF P
<1>4. P \subseteq States
  BY DEF P
<1>5. Fold(ApplyStep, s, cs) \in P
  BY <1>1, <1>2, <1>3, <1>4, ApplyStepType, FoldKeeps
<1>6. ApplyAll(s, cs) = Fold(ApplyStep, s, cs)
  BY <1>1, <1>2, AppliedType
<1>7. QED  BY <1>5, <1>6 DEF P

\* The controls between two states are controls.
LEMMA ControlsType ==
    ASSUME NEW b \in Nat, NEW t \in Nat, b <= t
    PROVE  ControlsIn(b, t) \in Seq(Controls)
<1> DEFINE seqs == [i \in 1 .. (t - b) |->
                       IF b + i \in script.controls THEN <<SessionControl(b + i)>> ELSE <<>>]
<1>1. ASSUME NEW i \in 1 .. (t - b) PROVE seqs[i] \in Seq(Controls)
  <2>1. SessionControl(b + i) \in Controls
    BY DEF SessionControl, Controls
  <2> HIDE DEF Controls
  <2> DEFINE x == SessionControl(b + i)
  <2>2. <<>> \in Seq(Controls) /\ <<x>> \in Seq(Controls)
    <3> HIDE DEF x
    <3> QED  BY <2>1 DEF x
  <2>3. seqs[i] = IF b + i \in script.controls THEN <<x>> ELSE <<>>
    OBVIOUS
  <2>4. QED  BY Zenon, <2>2, <2>3
<1>2. t - b \in Nat
  OBVIOUS
<1>3. seqs \in [1 .. (t - b) -> Seq(Controls)]
  BY Zenon, <1>1
<1> HIDE DEF seqs
<1>4. seqs \in Seq(Seq(Controls))
  BY <1>2, <1>3
<1>5. FlattenSeq(seqs) \in Seq(Controls)
  BY <1>4, FlattenType
<1>6. QED  BY <1>5 DEF ControlsIn, seqs

\* The instructions of a step from state a to state c: its bytes, then the controls.
Drawn(a, c) == <<HostBytes(<<Step(a, c)>>)>> \o ControlsIn(a, c)

\* A state that output has reached.
Reaches(s, t, content) == Moves(s, t, content) /\ t.history # <<>>

\* A step leads from the content of a to the content of c.
LEMMA StepMoves ==
    ASSUME script \in Scripts, NEW s, Replays(s), NEW a \in Nat, NEW c \in Nat, a <= c,
           s.screen.content = ContentOf(a)
    PROVE  /\ Drawn(a, c) \in Seq(Instructions)
           /\ Reaches(s, ApplyAll(s, Drawn(a, c)), ContentOf(c))
<1> DEFINE x == Step(a, c)
           o == HostBytes(<<x>>)
           one == <<o>>
           cs == ControlsIn(a, c)
           t == ApplyInstruction(s, o)
           u == ApplyAll(t, cs)
<1>1. x \in Atoms /\ x.from = s.screen.content /\ x.from # AnyContent /\ x.to = ContentOf(c)
  BY ScriptFacts DEF Step, Atom, Atoms, AnyContent
<1>2. s \in States
  BY DEF Replays
<1>3. o \in Instructions
  <2> HIDE DEF x
  <2>1. QED  BY <1>1 DEF HostBytes, Instructions
<1>4. cs \in Seq(Controls) /\ cs \in Seq(Instructions)
  <2>1. Controls \subseteq Instructions
    BY DEF Controls, Instructions
  <2>2. cs \in Seq(Controls)
    BY ControlsType
  <2>3. QED  BY <2>1, <2>2
<1>5. Moves(s, t, x.to) /\ t.history # <<>>
  <2> HIDE DEF x
  <2>1. QED  BY <1>1, AtomMoves
<1> HIDE DEF o, cs
<1>6. one \in Seq(Instructions) /\ one \o cs \in Seq(Instructions)
  BY <1>3, <1>4
<1>7. ApplyAll(s, one) = t
  BY <1>2, <1>3, AppliedOne
<1> HIDE DEF one, t
<1>8. ApplyAll(s, one \o cs) = u
  BY Zenon, <1>2, <1>4, <1>6, <1>7, AppliedConcat
<1>9. Replays(t) /\ t.screen.content = ContentOf(c)
  BY Zenon, <1>1, <1>5 DEF Moves
<1>10. Moves(t, u, ContentOf(c))
  BY Zenon, <1>4, <1>9, ControlsMove
<1> HIDE DEF u, x
<1>11. Moves(s, u, ContentOf(c))
  BY <1>5, <1>10, MovesOn
<1>12. u.history # <<>>
  BY Zenon, <1>5, <1>10 DEF Moves
<1>13. Drawn(a, c) = one \o cs
  BY DEF Drawn, one, o, cs, x
<1>14. QED  BY Zenon, <1>6, <1>8, <1>11, <1>12, <1>13 DEF Reaches

\* The appended steps, whatever their number.
AppendedSteps(b, t) == FlattenSeq([i \in 1 .. (t - b) |-> AppendedStep(b + i)])

\* Step by step they lead from the content of b to the content of t.
LEMMA AppendedMoves ==
    ASSUME script \in Scripts, NEW s, Replays(s), NEW b \in Nat, NEW t \in Nat, b < t,
           s.screen.content = ContentOf(b)
    PROVE  /\ AppendedSteps(b, t) \in Seq(Instructions)
           /\ Reaches(s, ApplyAll(s, AppendedSteps(b, t)), ContentOf(t))
<1> DEFINE n == t - b
           seqs == [i \in 1 .. n |-> AppendedStep(b + i)]
<1>1. n \in Nat /\ n > 0 /\ b + n = t
  OBVIOUS
<1>2. ASSUME NEW i \in 1 .. n
      PROVE  /\ AppendedStep(b + i) = Drawn((b + i) - 1, b + i)
             /\ b + i \in Nat /\ (b + i) - 1 \in Nat /\ (b + i) - 1 <= b + i
             /\ (b + i) - 1 = b + (i - 1)
  BY DEF AppendedStep, Drawn
<1>3. s \in States
  BY DEF Replays
<1>4. ASSUME NEW i \in 1 .. n PROVE AppendedStep(b + i) \in Seq(Instructions)
  <2> DEFINE o == HostBytes(<<Step((b + i) - 1, b + i)>>)
  <2>1. Step((b + i) - 1, b + i) \in Atoms
    BY <1>2, ScriptFacts DEF Step, Atom, Atoms
  <2>2. o \in Instructions
    <3> DEFINE x == Step((b + i) - 1, b + i)
    <3> HIDE DEF x
    <3>1. HostBytes(<<x>>) \in Instructions
      BY <2>1 DEF HostBytes, Instructions, x
    <3>2. QED  BY <3>1 DEF x
  <2>3. ControlsIn((b + i) - 1, b + i) \in Seq(Instructions)
    <3>1. Controls \subseteq Instructions
      BY DEF Controls, Instructions
    <3>2. ControlsIn((b + i) - 1, b + i) \in Seq(Controls)
      BY <1>2, ControlsType
    <3>3. QED  BY <3>1, <3>2
  <2> HIDE DEF o
  <2>4. <<o>> \o ControlsIn((b + i) - 1, b + i) \in Seq(Instructions)
    BY <2>2, <2>3
  <2>5. QED  BY Zenon, <1>2, <2>4 DEF Drawn, o
<1>5. seqs \in Seq(Seq(Instructions)) /\ Len(seqs) = n
      /\ \A i \in 1 .. n : seqs[i] = AppendedStep(b + i)
  <2>1. seqs \in [1 .. n -> Seq(Instructions)]
    BY Zenon, <1>4
  <2>2. \A i \in 1 .. n : seqs[i] = AppendedStep(b + i)
    OBVIOUS
  <2>3. DOMAIN seqs = 1 .. n
    OBVIOUS
  <2> HIDE DEF seqs
  <2>4. seqs \in Seq(Seq(Instructions)) /\ Len(seqs) = n
    BY <1>1, <2>1, <2>3
  <2>5. QED  BY Zenon, <2>2, <2>4
<1> HIDE DEF seqs, n
<1>6. PICK r \in [0 .. Len(seqs) -> Seq(Instructions)] : Joins(seqs, r)
  BY <1>5, JoinExists
<1>7. FlattenSeq(seqs) = r[n]
  BY <1>5, <1>6, FlattenIs
<1> DEFINE S == {k \in Nat : k > 0 /\ k <= n =>
                     Reaches(s, ApplyAll(s, r[k]), ContentOf(b + k))}
<1>8. 0 \in S
  OBVIOUS
<1>9. ASSUME NEW k \in Nat, k \in S PROVE k + 1 \in S
  <2> SUFFICES ASSUME k + 1 <= n PROVE Reaches(s, ApplyAll(s, r[k + 1]), ContentOf(b + (k + 1)))
    OBVIOUS
  <2> DEFINE v == ApplyAll(s, r[k])
             a == b + k
             c == b + (k + 1)
             d == Drawn(a, c)
  <2>1. k + 1 \in 1 .. n /\ (k + 1) - 1 = k /\ k \in 0 .. n /\ a \in Nat /\ c \in Nat /\ a <= c
    BY <1>1
  <2>2. r[k] \in Seq(Instructions)
    BY <1>5, <1>6, <2>1
  <2>3. seqs[k + 1] = d
    <3>1. seqs[k + 1] = AppendedStep(c)
      BY <1>5, <2>1
    <3>2. AppendedStep(c) = Drawn(c - 1, c)
      BY <1>2, <2>1
    <3>3. c - 1 = a
      OBVIOUS
    <3>4. QED  BY Zenon, <3>1, <3>2, <3>3
  <2>4. r[k + 1] = r[k] \o d
    BY <1>5, <1>6, <2>1, <2>3 DEF Joins
  <2>5. Moves(s, v, ContentOf(a))
    <3>1. CASE k = 0
      <4>1. r[k] = <<>> /\ a = b
        BY <1>6, <3>1 DEF Joins
      <4>2. v = s
        BY <1>3, <4>1, AppliedNone
      <4>3. QED  BY <4>1, <4>2 DEF Moves
    <3>2. CASE k # 0
      <4>1. Reaches(s, ApplyAll(s, r[k]), ContentOf(b + k))
        BY <1>9, <2>1, <3>2
      <4>2. QED  BY <4>1 DEF Reaches
    <3>3. QED  BY <3>1, <3>2
  <2> HIDE DEF v, a, c
  <2>6. Replays(v) /\ v.screen.content = ContentOf(a)
    BY Zenon, <2>5 DEF Moves
  <2>7. d \in Seq(Instructions) /\ Reaches(v, ApplyAll(v, d), ContentOf(c))
    <3> HIDE DEF d
    <3>1. QED  BY <2>1, <2>6, StepMoves DEF d
  <2> HIDE DEF d
  <2>8. ApplyAll(s, r[k] \o d) = ApplyAll(v, d)
    BY Zenon, <1>3, <2>2, <2>7, AppliedConcat DEF v
  <2>9. Moves(s, ApplyAll(v, d), ContentOf(c)) /\ ApplyAll(v, d).history # <<>>
    <3>1. Moves(v, ApplyAll(v, d), ContentOf(c)) /\ ApplyAll(v, d).history # <<>>
      BY Zenon, <2>7 DEF Reaches
    <3>2. QED  BY <2>5, <3>1, MovesOn
  <2>10. QED  BY Zenon, <2>4, <2>8, <2>9 DEF Reaches, c
<1> HIDE DEF S
<1>10. n \in S
  BY <1>1, <1>8, <1>9, Induction
<1>11. Reaches(s, ApplyAll(s, r[n]), ContentOf(b + n)) /\ n \in 0 .. Len(seqs)
  BY <1>1, <1>5, <1>10 DEF S
<1>12. AppendedSteps(b, t) = FlattenSeq(seqs)
  BY DEF AppendedSteps, seqs, n
<1>13. QED  BY Zenon, <1>1, <1>6, <1>7, <1>11, <1>12

\* A marker only sets the echo acknowledgement.
LEMMA MarkerMoves ==
    ASSUME NEW s, Replays(s), NEW e \in Int
    PROVE  /\ Replays(ApplyInstruction(s, Marker(e)))
           /\ ApplyInstruction(s, Marker(e)).screen = s.screen
           /\ ApplyInstruction(s, Marker(e)).history = s.history
           /\ ApplyInstruction(s, Marker(e)).initial = s.initial
           /\ ApplyInstruction(s, Marker(e)).viewport = s.viewport
           /\ ApplyInstruction(s, Marker(e)).echo_ack = e
<1> DEFINE t == ApplyInstruction(s, Marker(e))
<1>1. s \in States /\ s.screen = Replay(s.history, s.initial) /\ s.screen.size = s.viewport
  BY DEF Replays
<1>2. t = [s EXCEPT !.echo_ack = e]
  BY DEF ApplyInstruction, Marker
<1> HIDE DEF t
<1>3. /\ t \in States /\ t.screen = s.screen /\ t.history = s.history /\ t.initial = s.initial
      /\ t.viewport = s.viewport /\ t.echo_ack = e
  BY <1>1, <1>2 DEF States
<1>4. QED  BY Zenon, <1>1, <1>3 DEF Replays, t

\* The state u after the difference between b and t on s.
Follows(s, u, b, t) ==
    /\ Replays(u) /\ u.screen.content = ContentOf(t) /\ u.echo_ack = EchoOf(t)
    /\ u.initial = s.initial /\ Origin(u.history) = Origin(s.history) /\ u.history # <<>>
    /\ s.viewport = SizeOf(b) => u.viewport = SizeOf(t)

\* A difference between b and t leads from state b to state t.
LEMMA DifferenceMoves ==
    ASSUME script \in Scripts, NEW s, Replays(s), NEW b \in Nat, NEW t \in Nat, b < t,
           s.screen.content = ContentOf(b)
    PROVE  Follows(s, ApplyAll(s, Difference(b, t)), b, t)
<1> DEFINE z == SizeOf(t)
           m == Marker(EchoOf(t))
           one == <<m>>
           rs == IF SizeOf(b) # z THEN <<Resize(z)>> ELSE <<>>
           body == IF script.rewrites \cap (b + 1) .. t # {} \/ SizeOf(b) # z
                   THEN Drawn(b, t) ELSE AppendedSteps(b, t)
           v == ApplyInstruction(s, m)
           w == ApplyAll(v, rs)
           u == ApplyAll(w, body)
<1>1. Difference(b, t) = (one \o rs) \o body
  BY Zenon DEF Difference, Drawn, AppendedSteps
<1>2. EchoOf(t) \in Int /\ z \in Nat /\ SizeOf(b) \in Nat
  BY ScriptFacts DEF EchoOf, NoEcho
<1>3. m \in Instructions /\ Resize(z) \in Instructions
  BY <1>2 DEF Marker, Resize, Instructions
<1>4. s \in States
  BY DEF Replays
<1>5. one \in Seq(Instructions) /\ rs \in Seq(Instructions)
  <2> DEFINE p == Resize(z)
  <2>1. rs = IF SizeOf(b) # z THEN <<p>> ELSE <<>>
    OBVIOUS
  <2> HIDE DEF m, p, rs
  <2>2. one \in Seq(Instructions) /\ <<p>> \in Seq(Instructions) /\ <<>> \in Seq(Instructions)
    BY <1>3 DEF p
  <2>3. QED  BY Zenon, <2>1, <2>2
<1>6. /\ Replays(v) /\ v.screen = s.screen /\ v.history = s.history /\ v.initial = s.initial
      /\ v.viewport = s.viewport /\ v.echo_ack = EchoOf(t)
  BY <1>2, MarkerMoves
<1>7. ApplyAll(s, one) = v
  <2> HIDE DEF m
  <2>1. QED  BY <1>3, <1>4, AppliedOne
<1> HIDE DEF v, one
<1>8. v \in States
  BY <1>6 DEF Replays
<1>9. /\ Replays(w) /\ w.screen.content = s.screen.content /\ w.initial = s.initial
      /\ w.echo_ack = EchoOf(t) /\ Origin(w.history) = Origin(s.history)
      /\ s.viewport = SizeOf(b) => w.viewport = z
  <2>1. CASE SizeOf(b) = z
    <3>1. w = v
      BY <1>8, <2>1, AppliedNone
    <3>2. QED  BY Zenon, <1>6, <2>1, <3>1
  <2>2. CASE SizeOf(b) # z
    <3> DEFINE p == Resize(z)
               q == ApplyInstruction(v, p)
    <3>1. /\ Replays(q) /\ q.screen.content = v.screen.content /\ q.viewport = z
          /\ q.initial = v.initial /\ q.echo_ack = v.echo_ack
          /\ Origin(q.history) = Origin(v.history)
      BY <1>2, <1>6, ResizeMoves
    <3>2. rs = <<p>>
      BY <2>2
    <3> HIDE DEF p, rs
    <3>3. w = q
      BY <1>3, <1>8, <3>2, AppliedOne DEF p
    <3> HIDE DEF q
    <3>4. QED  BY Zenon, <1>6, <3>1, <3>3
  <2>3. QED  BY <2>1, <2>2
<1> HIDE DEF w, rs
<1>10. body \in Seq(Instructions) /\ Reaches(w, u, ContentOf(t))
  <2>1. w.screen.content = ContentOf(b)
    BY Zenon, <1>9
  <2>2. /\ Drawn(b, t) \in Seq(Instructions)
        /\ Reaches(w, ApplyAll(w, Drawn(b, t)), ContentOf(t))
    BY <1>9, <2>1, StepMoves
  <2>3. /\ AppendedSteps(b, t) \in Seq(Instructions)
        /\ Reaches(w, ApplyAll(w, AppendedSteps(b, t)), ContentOf(t))
    BY <1>9, <2>1, AppendedMoves
  <2>4. QED  BY Zenon, <2>2, <2>3
<1> HIDE DEF body
<1>11. ApplyAll(s, (one \o rs) \o body) = u
  <2>1. one \o rs \in Seq(Instructions)
    BY <1>5
  <2>2. ApplyAll(s, one \o rs) = w
    BY Zenon, <1>4, <1>5, <1>7, AppliedConcat DEF w
  <2>3. QED  BY Zenon, <1>4, <1>10, <2>1, <2>2, AppliedConcat
<1> HIDE DEF u
<1>12. /\ Replays(u) /\ u.screen.content = ContentOf(t) /\ u.initial = w.initial
       /\ u.viewport = w.viewport /\ u.echo_ack = w.echo_ack
       /\ Origin(u.history) = Origin(w.history) /\ u.history # <<>>
  BY Zenon, <1>10 DEF Reaches, Moves
<1>13. QED  BY Zenon, <1>1, <1>9, <1>11, <1>12 DEF Follows

\* A clone of a state whose history replays is that state.
LEMMA CloneIs == \A s : Replays(s) => Clone(s) = s
<1> SUFFICES ASSUME NEW s, Replays(s) PROVE Clone(s) = s
  OBVIOUS
<1>1. s \in States /\ s.screen = Replay(s.history, s.initial)
  BY DEF Replays
<1>2. QED  BY <1>1 DEF Clone, States

\* The snapshot of a state at ground.
LEMMA CompactedMoves ==
    ASSUME script \in Scripts, NEW s, Replays(s), NEW b \in Nat, s.screen.content = ContentOf(b),
           EndsAtGround(s.history)
    PROVE  /\ Replays(Compacted(s)) /\ Compacted(s).screen.content = ContentOf(b)
           /\ Compacted(s).viewport = s.viewport /\ Compacted(s).initial = s.viewport
           /\ Origin(Compacted(s).history) = SizeOf(b)
<1> DEFINE c == Compacted(s)
           x == Atom(AnyContent, ContentOf(b))
           o == HostBytes(<<x>>)
           h == <<o>>
           n == NewScreen(s.viewport)
<1>1. /\ s \in States /\ s.screen = Replay(s.history, s.initial) /\ s.screen.size = s.viewport
      /\ s.history \in Seq(Operations) /\ s.initial \in Nat /\ s.viewport \in Nat
      /\ s.screen \in Screens
  BY DEF Replays, States
<1>2. Rendered(s.screen.content) = ContentOf(b)
  BY <1>1, GroundIsWhole
<1>3. c = [s EXCEPT !.history = h, !.initial = s.viewport]
  BY Zenon, <1>2 DEF Compacted
<1>4. x \in Atoms /\ x.from = AnyContent /\ x.to = ContentOf(b)
  BY ScriptFacts DEF Atom, Atoms, AnyContent
<1> HIDE DEF x
<1>5. o \in Operations /\ o \in Instructions /\ o.op = "bytes" /\ o.run = <<x>> /\ o.run[1] = x
  BY <1>4 DEF HostBytes, Operations, Instructions
<1> HIDE DEF o
<1>6. h \in Seq(Operations) /\ h # <<>> /\ h[1] = o
  BY <1>5
<1> HIDE DEF h, c
<1>7. /\ c \in States /\ c.history = h /\ c.initial = s.viewport /\ c.viewport = s.viewport
      /\ c.screen = s.screen
  BY <1>1, <1>3, <1>6 DEF States
<1>8. n \in Screens /\ n.size = s.viewport
  BY <1>1 DEF NewScreen, Screens, Blank
<1>9. ApplyAtom(n, x) = s.screen
  <2>1. /\ ApplyAtom(n, x) \in Screens /\ ApplyAtom(n, x).size = n.size
        /\ ApplyAtom(n, x).content = ContentOf(b)
    BY <1>4, <1>8, ScriptFacts DEF ApplyAtom, Screens, Atoms
  <2>2. QED  BY <1>1, <1>8, <2>1 DEF Screens
<1> HIDE DEF n
<1>10. Played(n, h) = s.screen
  <2>1. Played(n, h) = ApplyOperation(n, o)
    BY <1>5, <1>8, PlayedOne DEF h
  <2>2. ApplyOperation(n, o) = FoldLeft(ApplyAtom, n, o.run)
    BY <1>5, <1>8, OperationDoes
  <2>3. FoldLeft(ApplyAtom, n, <<x>>) = ApplyAtom(n, x)
    BY <1>4, <1>8, AtomsApplied
  <2>4. QED  BY Zenon, <1>5, <1>9, <2>1, <2>2, <2>3
<1>11. Replay(h, s.viewport) = s.screen
  BY Zenon, <1>10, ReplayIs DEF n
<1>12. Origin(h) = SizeOf(b)
  <2>1. Origin(h) = SizeOf(x.to \div 2)
    BY Zenon, <1>4, <1>5, <1>6 DEF Origin
  <2>2. x.to \div 2 = b
    BY <1>4, ScriptFacts
  <2>3. QED  BY Zenon, <2>1, <2>2
<1>13. Replays(c)
  BY Zenon, <1>1, <1>7, <1>11 DEF Replays
<1>14. QED  BY Zenon, <1>1, <1>7, <1>12, <1>13 DEF c

\* An update rebuilds the state it names.
LEMMA RebuiltIs ==
    ASSUME script \in Scripts, NEW u \in to_client, UpdatesInv, ReceivedInv, NumberType,
           Rebuildable(u)
    PROVE  /\ Faithful(Rebuilt(u), u.target) /\ Rebuilt(u).history # <<>>
           /\ u.base = 0 /\ received_states[0].history = <<>> =>
                 Origin(Rebuilt(u).history) = SizeOf(0)
<1> DEFINE b == u.base
           t == u.target
           s == received_states[b]
           d == u.delta
           g == IF Growable(s, d) THEN s ELSE Compacted(s)
           r == ApplyAll(g, d)
<1>1. b \in Nat /\ t \in Nat /\ b < t /\ d = Difference(b, t)
  BY DEF UpdatesInv, NumberType
<1>2. b \in DOMAIN received_states /\ CanApply(Base(u), d)
  BY DEF Rebuildable
<1>3. Faithful(s, b)
  BY <1>2 DEF ReceivedInv
<1>4. Replays(s) /\ s.screen.content = ContentOf(b)
      /\ (agreed => s.viewport = SizeOf(b) /\ s.initial = Origin(s.history))
  BY <1>3 DEF Faithful, Replays
<1>5. Base(u) = s
  BY <1>4, CloneIs DEF Base
<1>6. Rebuilt(u) = r
  BY Zenon, <1>5 DEF Rebuilt, Apply
<1>7. Growable(s, d) \/ (EndsAtGround(s.history) /\ Growable(Compacted(s), d))
  BY Zenon, <1>2, <1>5 DEF CanApply
<1> HIDE DEF s, d
<1>8. FitsHistory(r.history)
  <2>1. Growable(g, d)
    BY Zenon, <1>7
  <2>2. QED  BY Zenon, <2>1 DEF Growable
<1>9. /\ Replays(g) /\ g.screen.content = ContentOf(b)
      /\ agreed => g.viewport = SizeOf(b) /\ g.initial = Origin(g.history)
      /\ b = 0 /\ s.history = <<>> => Origin(g.history) = SizeOf(0)
  <2>1. CASE Growable(s, d)
    BY Zenon, <1>4, <2>1 DEF Origin
  <2>2. CASE ~Growable(s, d)
    <3>1. EndsAtGround(s.history) /\ g = Compacted(s)
      BY Zenon, <1>7, <2>2
    <3>2. /\ Replays(Compacted(s)) /\ Compacted(s).screen.content = ContentOf(b)
          /\ Compacted(s).viewport = s.viewport /\ Compacted(s).initial = s.viewport
          /\ Origin(Compacted(s).history) = SizeOf(b)
      BY <1>1, <1>4, <3>1, CompactedMoves
    <3>3. QED  BY Zenon, <1>4, <3>1, <3>2
  <2>3. QED  BY <2>1, <2>2
<1> HIDE DEF g, b, t
<1>10. Follows(g, ApplyAll(g, Difference(b, t)), b, t)
  BY <1>1, <1>9, DifferenceMoves
<1>11. Follows(g, r, b, t)
  BY Zenon, <1>1, <1>10
<1> HIDE DEF r
<1>12. Replays(r) /\ r \in States
  BY Zenon, <1>11 DEF Follows, Replays
<1>13. Faithful(r, t) /\ r.history # <<>>
  BY Zenon, <1>8, <1>9, <1>11, <1>12 DEF Faithful, Follows, Replays
<1>14. b = 0 /\ s.history = <<>> => Origin(r.history) = SizeOf(0)
  BY Zenon, <1>9, <1>11 DEF Follows
<1>15. QED  BY Zenon, <1>6, <1>13, <1>14 DEF t, b, s

(***************************************************************************)
(* The contents.                                                            *)
(***************************************************************************)
\* A state stays faithful while neither the script nor the first sizes change.
LEMMA FaithfulStays ==
    ASSUME script' = script, agreed' = agreed, NEW s, NEW n, Faithful(s, n)
    PROVE  Faithful(s, n)'
BY Zenon DEF Faithful, ContentOf, SizeOf, EchoOf, Origin

\* So do the differences, and the updates that are under way.
LEMMA DifferenceStays ==
    ASSUME script' = script, NEW b, NEW t
    PROVE  Difference(b, t)' = Difference(b, t)
BY Zenon DEF Difference, AppendedStep, ControlsIn, Step, ContentOf, SizeOf, EchoOf

\* The updates stay what they are while nothing is sent.
LEMMA UpdatesStay ==
    ASSUME UpdatesInv, script' = script, to_client' = to_client
    PROVE  UpdatesInv'
<1>1. \A b, t : Difference(b, t)' = Difference(b, t)
  BY DifferenceStays
<1>2. QED  BY Zenon, <1>1 DEF UpdatesInv

\* RemoteTerminalState::new is the server's first state.
LEMMA NewStateIs ==
    ASSUME script \in Scripts, NEW size \in Nat
    PROVE  /\ NewState(size) \in States /\ FitsHistory(NewState(size).history)
           /\ NewState(size).screen = Replay(NewState(size).history, NewState(size).initial)
           /\ NewState(size).screen.content = ContentOf(0)
           /\ NewState(size).screen.size = size /\ NewState(size).viewport = size
           /\ NewState(size).initial = size /\ NewState(size).echo_ack = EchoOf(0)
           /\ NewState(size).history = <<>> /\ Origin(NewState(size).history) = SizeOf(0)
<1> DEFINE s == NewState(size)
<1>1. /\ s.history = <<>> /\ s.initial = size /\ s.viewport = size /\ s.echo_ack = NoEcho
      /\ s.screen = NewScreen(size)
  BY DEF NewState, NewScreen
<1>2. /\ NewScreen(size) \in Screens /\ NewScreen(size).content = Blank
      /\ NewScreen(size).size = size
  BY DEF NewScreen, Screens, Blank
<1>3. s \in States
  <2> DEFINE h == <<>>
             q == NewScreen(size)
  <2>1. h \in Seq(Operations)
    OBVIOUS
  <2>2. s = [initial |-> size, history |-> h, viewport |-> size, echo_ack |-> NoEcho, screen |-> q]
    BY DEF NewState, NewScreen
  <2> HIDE DEF h, q, s
  <2>3. QED  BY <1>2, <2>1, <2>2 DEF States, NoEcho, q
<1>4. Replay(<<>>, size) = NewScreen(size)
  BY <1>2, ReplayIs, PlayedEmpty
<1>5. FitsHistory(<<>>)
  BY AtomsOf, LimitAssumption DEF FitsHistory
<1>6. ContentOf(0) = Blank
  BY ScriptFacts
<1>7. Origin(<<>>) = SizeOf(0) /\ EchoOf(0) = NoEcho
  BY DEF Origin, EchoOf
<1> HIDE DEF s
<1>8. QED  BY Zenon, <1>1, <1>2, <1>3, <1>4, <1>5, <1>6, <1>7 DEF s

\* The blank screen is the server's state 0.
LEMMA InitContents == Init => ContentInv
<1> SUFFICES ASSUME Init PROVE ContentInv
  OBVIOUS
<1> DEFINE z == SizeOf(0)
           s == NewState(z)
<1>1. /\ script \in Scripts /\ received_states = [n \in {0} |-> s] /\ latest_remote_state = 0
      /\ delivered_remote_state = s /\ to_client = {} /\ echoed = NoEcho
      /\ shown = [content |-> Blank, size |-> z]
  BY DEF Init, RemoteInit, ServerScreenInit
<1>2. z \in Nat
  BY <1>1, ScriptFacts
<1> HIDE DEF z
<1>3. /\ s \in States /\ FitsHistory(s.history) /\ s.screen = Replay(s.history, s.initial)
      /\ s.screen.content = ContentOf(0) /\ s.screen.size = z /\ s.viewport = z /\ s.initial = z
      /\ s.echo_ack = EchoOf(0) /\ s.history = <<>> /\ Origin(s.history) = SizeOf(0)
  BY <1>1, <1>2, NewStateIs
<1> HIDE DEF s
<1>4. Faithful(s, 0)
  BY Zenon, <1>3 DEF Faithful, z
<1>5. DOMAIN received_states = {0} /\ received_states[0] = s
  BY <1>1
<1>6. ReceivedInv
  BY Zenon, <1>4, <1>5 DEF ReceivedInv
<1>7. /\ shown \in Screens /\ shown.content = s.screen.content /\ shown.size = s.viewport
      /\ echoed = s.echo_ack
  <2>1. ContentOf(0) = Blank /\ EchoOf(0) = NoEcho
    BY <1>1, ScriptFacts DEF EchoOf
  <2>2. shown \in Screens /\ shown.content = Blank /\ shown.size = z
    BY <1>1, <1>2 DEF Screens, Blank
  <2>3. QED  BY Zenon, <1>1, <1>3, <2>1, <2>2
<1>8. DeliveredInv
  BY Zenon, <1>1, <1>3, <1>4, <1>5, <1>7 DEF DeliveredInv
<1>9. UpdatesInv
  BY <1>1 DEF UpdatesInv
<1>10. QED  BY <1>1, <1>6, <1>8, <1>9 DEF ContentInv

\* Steps that leave the client and the host alone.
LEMMA ContentsKept ==
    ASSUME ContentInv,
           UNCHANGED <<script, agreed, received_states, latest_remote_state,
                       delivered_remote_state, shown, echoed>>
    PROVE  /\ script' \in Scripts /\ ReceivedInv' /\ DeliveredInv'
           /\ to_client' = to_client => UpdatesInv'
<1>1. script' \in Scripts
  BY DEF ContentInv
<1>2. ReceivedInv'
  <2>1. ASSUME NEW n \in DOMAIN received_states PROVE Faithful(received_states[n], n)'
    <3>1. Faithful(received_states[n], n) /\ received_states' = received_states
          /\ script' = script /\ agreed' = agreed
      BY Zenon, <2>1 DEF ContentInv, ReceivedInv
    <3>2. PICK s : s = received_states[n]
      OBVIOUS
    <3>3. Faithful(s, n)'
      BY <3>1, <3>2, FaithfulStays
    <3>4. s = received_states'[n]
      BY Zenon, <3>1, <3>2
    <3>5. QED  BY Zenon, <3>3, <3>4 DEF Faithful
  <2>2. QED  BY <2>1 DEF ReceivedInv
<1>3. DeliveredInv'
  BY Zenon DEF ContentInv, DeliveredInv, Faithful, ContentOf, SizeOf, EchoOf, Origin
<1>4. to_client' = to_client => UpdatesInv'
  BY UpdatesStay DEF ContentInv
<1>5. QED  BY <1>1, <1>2, <1>3, <1>4

\* set_initial_remote_viewport.
LEMMA ViewportContents ==
    ASSUME NumberInv, ContentInv, NEW size \in {1, 2}, SetViewport(size)
    PROVE  ContentInv'
<1> DEFINE s == NewState(size)
<1>1. /\ latest_remote_state = 0 /\ Cardinality(Known) = 1
      /\ received_states' = [received_states EXCEPT ![0] = s]
      /\ delivered_remote_state' = s /\ latest_remote_state' = latest_remote_state
      /\ shown' = [shown EXCEPT !.size = size] /\ agreed' = (size = SizeOf(0))
      /\ script' = script /\ to_client' = to_client /\ echoed' = echoed
  BY DEF SetViewport, SetInitialRemoteViewport, serverScreenVars, Known
<1>2. Known = {0}
  <2>1. \E x : Known = {x}
    BY <1>1, NumberFacts, FS_Singleton
  <2>2. QED  BY <1>1, <2>1, NumberFacts
<1>3. size \in Nat /\ script \in Scripts
  BY DEF ContentInv
<1>4. /\ s \in States /\ FitsHistory(s.history) /\ s.screen = Replay(s.history, s.initial)
      /\ s.screen.content = ContentOf(0) /\ s.screen.size = size /\ s.viewport = size
      /\ s.initial = size /\ s.echo_ack = EchoOf(0) /\ s.history = <<>>
      /\ Origin(s.history) = SizeOf(0)
  BY <1>3, NewStateIs
<1> HIDE DEF s
<1>5. PICK w : w = s
  OBVIOUS
<1>6. Faithful(w, 0)'
  BY Zenon, <1>1, <1>4, <1>5 DEF Faithful, ContentOf, EchoOf, Origin, SizeOf
<1>7. /\ DOMAIN received_states' = {0} /\ received_states'[0] = w
      /\ delivered_remote_state' = w /\ latest_remote_state' = 0
  BY <1>1, <1>2, <1>5 DEF Known
<1>8. ReceivedInv'
  <2>1. ASSUME NEW n \in DOMAIN received_states' PROVE Faithful(received_states[n], n)'
    <3>1. n = 0
      BY <1>7, <2>1
    <3>2. QED  BY Zenon, <1>6, <1>7, <3>1 DEF Faithful
  <2>2. QED  BY Zenon, <2>1 DEF ReceivedInv
<1>9. DeliveredInv'
  <2>1. shown \in Screens /\ shown.content = ContentOf(0) /\ echoed = EchoOf(0)
    BY Zenon, <1>1 DEF ContentInv, DeliveredInv, Faithful
  <2>2. shown' \in Screens /\ shown'.content = ContentOf(0) /\ shown'.size = size
    BY <1>1, <1>3, <2>1 DEF Screens
  <2>3. Faithful(delivered_remote_state, latest_remote_state)'
    BY Zenon, <1>6, <1>7 DEF Faithful
  <2>4. /\ shown'.content = w.screen.content /\ shown'.size = w.viewport
        /\ echoed' = w.echo_ack /\ w.history = <<>>
    BY Zenon, <1>1, <1>4, <1>5, <2>1, <2>2
  <2>5. QED  BY Zenon, <1>7, <2>2, <2>3, <2>4 DEF DeliveredInv
<1>10. UpdatesInv'
  BY <1>1, UpdatesStay DEF ContentInv
<1>11. QED  BY Zenon, <1>1, <1>3, <1>8, <1>9, <1>10 DEF ContentInv

\* The server sends an update from a state it keeps.
LEMMA SendContents ==
    ASSUME NumberInv, ContentInv, NEW b \in Bases, ServerSend(b)
    PROVE  ContentInv'
<1> DEFINE w == ServerUpdate(b)
<1>1. /\ to_client' \subseteq to_client \cup {w}
      /\ UNCHANGED <<script, agreed, received_states, latest_remote_state,
                     delivered_remote_state, shown, echoed>>
  BY DEF ServerSend, remoteVars, serverScreenVars, hostVars
<1>2. script' \in Scripts /\ ReceivedInv' /\ DeliveredInv'
  BY <1>1, ContentsKept
<1>3. /\ w.base = b /\ w.target = server_current /\ w.delta = Difference(b, server_current)
      /\ b \in Nat /\ b < server_current
  BY NumberFacts DEF ServerUpdate, Bases
<1> HIDE DEF w
<1>4. UpdatesInv'
  <2>1. \A x, y : Difference(x, y)' = Difference(x, y)
    BY <1>1, DifferenceStays
  <2>2. ASSUME NEW u \in to_client'
        PROVE  u.base \in Nat /\ u.base < u.target /\ u.delta = Difference(u.base, u.target)
    <3>1. CASE u \in to_client
      BY <3>1 DEF ContentInv, UpdatesInv
    <3>2. CASE u = w
      BY Zenon, <1>3, <3>2
    <3>3. QED  BY <1>1, <2>2, <3>1, <3>2
  <2>3. QED  BY Zenon, <2>1, <2>2 DEF UpdatesInv
<1>5. QED  BY Zenon, <1>2, <1>4 DEF ContentInv

\* The other steps.
LEMMA OtherContents ==
    ASSUME ContentInv,
           \/ Acknowledge \/ ServerChange \/ (\E a \in to_server : ServerReceive(a))
           \/ UNCHANGED vars
    PROVE  ContentInv'
<1>1. UNCHANGED <<script, agreed, received_states, latest_remote_state,
                  delivered_remote_state, shown, echoed, to_client>>
  BY DEF Acknowledge, ServerChange, ServerReceive, ScreenChanges, ServerLearns, vars, remoteVars,
         serverScreenVars, hostVars
<1>2. QED  BY <1>1, ContentsKept DEF ContentInv

\* Two histories of which one extends the other started with the same size.
LEMMA SameStart ==
    ASSUME NEW s \in States, NEW d \in States, HistoryExtends(s, d), d.history # <<>>
    PROVE  Origin(s.history) = Origin(d.history)
<1> DEFINE ct == Canonical(s.history)
           cd == Canonical(d.history)
<1>1. s.history \in Seq(Operations) /\ d.history \in Seq(Operations)
  BY DEF States
<1>2. ct \in Seq(Operations) /\ cd \in Seq(Operations)
  BY <1>1, CanonicalOf
<1>3. SameHead(ct, s.history) /\ SameHead(cd, d.history)
  BY <1>1, CanonicalHead
<1>4. Extends(ct, cd)
  BY DEF HistoryExtends
<1> HIDE DEF ct, cd
<1>5. cd # <<>>
  BY <1>3 DEF SameHead
<1>6. SameHead(ct, cd)
  BY <1>2, <1>4, <1>5, RemainderPlays
<1>7. QED  BY Zenon, <1>3, <1>6, SameOrigin

\* Before anything was handed over, every state that is rebuilt can be.
LEMMA FirstDiff ==
    ASSUME NEW s \in States, NEW d, d.history = <<>>
    PROVE  HistoryExtends(s, d)
<1> DEFINE ct == Canonical(s.history)
<1>1. ct \in Seq(Operations)
  BY CanonicalOf DEF States
<1>2. Canonical(d.history) = <<>>
  BY CanonicalOf
<1> HIDE DEF ct
<1>3. IsPrefix(<<>>, ct)
  BY <1>1 DEF IsPrefix
<1>4. QED  BY Zenon, <1>2, <1>3 DEF HistoryExtends, Extends, ct

\* The update is handed over: the host then shows the state that was rebuilt.
LEMMA HandedOver ==
    ASSUME NumberInv, ContentInv, NEW u \in to_client, Advances(u), HandOver(DeliveredDelta(u))
    PROVE  /\ shown' \in Screens /\ shown'.content = Rebuilt(u).screen.content
           /\ echoed' = Rebuilt(u).echo_ack
           /\ agreed => shown'.size = Rebuilt(u).viewport
<1> DEFINE s == Rebuilt(u)
           d == delivered_remote_state
           t == u.target
           l == latest_remote_state
           x == DiffFrom(s, d)
<1>1. script \in Scripts /\ UpdatesInv /\ ReceivedInv /\ DeliveredInv /\ NumberType
  BY DEF ContentInv, NumberInv
<1>2. Rebuildable(u) /\ t > l /\ CanDiff(s, d)
  BY DEF Advances
<1>3. /\ Faithful(s, t)
      /\ u.base = 0 /\ received_states[0].history = <<>> => Origin(s.history) = SizeOf(0)
  BY <1>1, <1>2, RebuiltIs
<1>4. Faithful(d, l)
  BY <1>1 DEF DeliveredInv
<1>5. /\ shown \in Screens /\ shown.content = d.screen.content /\ echoed = d.echo_ack
      /\ agreed => shown.size = d.viewport
  BY <1>1 DEF DeliveredInv
<1>6. t \in Nat /\ l \in Nat
  BY <1>1, NumberFacts DEF NumberType
<1>7. shown' = Played(shown, x) /\ echoed' = Hears(echoed, x)
  BY Zenon DEF HandOver, DeliveredDelta, Played, Hears
<1> HIDE DEF s, d, t, l
<1>8. /\ s \in States /\ s.screen = Replay(s.history, s.initial) /\ s.screen.size = s.viewport
      /\ s.echo_ack = EchoOf(t)
      /\ agreed => s.initial = Origin(s.history)
  BY Zenon, <1>3 DEF Faithful
<1>9. /\ d \in States /\ d.screen = Replay(d.history, d.initial) /\ d.screen.size = d.viewport
      /\ d.echo_ack = EchoOf(l)
      /\ agreed => d.initial = Origin(d.history)
  BY Zenon, <1>4 DEF Faithful
<1>10. s.echo_ack \notin {d.echo_ack, NoEcho} /\ d.echo_ack \in Int
  BY <1>2, <1>6, <1>8, <1>9 DEF EchoOf, NoEcho
<1>11. agreed /\ HistoryExtends(s, d) => s.initial = d.initial
  <2> SUFFICES ASSUME agreed, HistoryExtends(s, d) PROVE s.initial = d.initial
    OBVIOUS
  <2>1. CASE d.history # <<>>
    <3>1. Origin(s.history) = Origin(d.history)
      BY <1>8, <1>9, <2>1, SameStart
    <3>2. QED  BY Zenon, <1>8, <1>9, <3>1
  <2>2. CASE d.history = <<>>
    <3>1. DOMAIN received_states = {0} /\ received_states[0].history = <<>>
      BY <1>1, <2>2 DEF DeliveredInv, d
    <3>2. u.base = 0
      BY <1>2, <3>1 DEF Rebuildable
    <3>3. Origin(s.history) = SizeOf(0) /\ Origin(d.history) = SizeOf(0)
      BY Zenon, <1>3, <2>2, <3>1, <3>2 DEF Origin
    <3>4. QED  BY Zenon, <1>8, <1>9, <3>3
  <2>3. QED  BY <2>1, <2>2
<1>12. /\ Played(shown, x) \in Screens
       /\ Played(shown, x).content = s.screen.content
       /\ \A e \in Int : Hears(e, x) = s.echo_ack
       /\ ~HistoryExtends(s, d) => s.viewport = d.viewport
       /\ shown.size = d.screen.size /\ (HistoryExtends(s, d) => s.initial = d.initial)
              /\ (~HistoryExtends(s, d) => s.screen.size = d.screen.size)
          => Played(shown, x).size = s.screen.size
  BY <1>2, <1>5, <1>8, <1>9, <1>10, DiffPlays
<1> HIDE DEF x
<1>13. agreed => Played(shown, x).size = s.screen.size
  BY Zenon, <1>5, <1>8, <1>9, <1>11, <1>12
<1>14. Hears(echoed, x) = s.echo_ack
  BY <1>5, <1>10, <1>12
<1>15. QED  BY Zenon, <1>7, <1>8, <1>12, <1>13, <1>14 DEF s

\* accept_remote_update.
LEMMA IngestContents ==
    ASSUME NumberInv, NumberInv', ContentInv, NEW u \in to_client, Ingest(u)
    PROVE  ContentInv'
<1>1. UNCHANGED <<script, agreed, to_client>> /\ AcceptRemoteUpdate(u)
  BY DEF Ingest, serverScreenVars
<1>2. script \in Scripts /\ UpdatesInv /\ ReceivedInv /\ DeliveredInv /\ NumberType
  BY DEF ContentInv, NumberInv
<1>3. CASE ~Rebuildable(u)
  <2>1. ~Advances(u)
    BY <1>3 DEF Advances
  <2>2. UNCHANGED <<received_states, latest_remote_state, delivered_remote_state, shown, echoed>>
    BY <1>1, <1>3, <2>1 DEF Ingest, AcceptRemoteUpdate, remoteVars
  <2>3. QED  BY <1>1, <2>2, ContentsKept DEF ContentInv
<1>4. CASE Rebuildable(u)
  <2> DEFINE s == Rebuilt(u)
             R == Retained(u)
             N == R \cup (IF HistoryFull(u) THEN {} ELSE {u.target})
  <2>1. /\ Faithful(s, u.target) /\ s.history # <<>>
    BY <1>2, <1>4, RebuiltIs
  <2>2. /\ DOMAIN received_states' = N
        /\ \A n \in N : received_states'[n] = IF n = u.target THEN s ELSE received_states[n]
    BY <1>1, <1>4 DEF AcceptRemoteUpdate
  <2>3. R \subseteq DOMAIN received_states
    BY DEF Retained
  <2> HIDE DEF s, R
  <2>4. ReceivedInv'
    <3>1. ASSUME NEW n \in N PROVE Faithful(received_states[n], n)'
      <4>1. PICK w : w = IF n = u.target THEN s ELSE received_states[n]
        OBVIOUS
      <4>2. Faithful(w, n)
        <5>1. CASE n = u.target
          BY Zenon, <2>1, <4>1, <5>1
        <5>2. CASE n # u.target
          <6>1. n \in DOMAIN received_states
            BY <2>3, <5>2
          <6>2. QED  BY Zenon, <1>2, <4>1, <5>2, <6>1 DEF ReceivedInv
        <5>3. QED  BY <5>1, <5>2
      <4>3. Faithful(w, n)'
        BY <1>1, <4>2, FaithfulStays
      <4>4. received_states'[n] = w
        BY Zenon, <2>2, <4>1
      <4>5. QED  BY Zenon, <4>3, <4>4 DEF Faithful
    <3> HIDE DEF N
    <3>2. QED  BY Zenon, <2>2, <3>1 DEF ReceivedInv
  <2>5. CASE Advances(u)
    <3>1. latest_remote_state' = u.target /\ delivered_remote_state' = s
          /\ HandOver(DeliveredDelta(u))
      BY <1>1, <1>4, <2>5 DEF Ingest, AcceptRemoteUpdate, s
    <3>2. /\ shown' \in Screens /\ shown'.content = s.screen.content
          /\ echoed' = s.echo_ack /\ (agreed => shown'.size = s.viewport)
      BY <2>5, <3>1, HandedOver DEF s
    <3>3. PICK w, n : w = s /\ n = u.target
      OBVIOUS
    <3>4. Faithful(w, n)
      BY Zenon, <2>1, <3>3
    <3>5. Faithful(w, n)'
      BY <1>1, <3>4, FaithfulStays
    <3>6. Faithful(delivered_remote_state, latest_remote_state)'
      BY Zenon, <3>1, <3>3, <3>5 DEF Faithful
    <3>7. agreed' = agreed
      BY <1>1
    <3>8. DeliveredInv'
      BY Zenon, <2>1, <3>1, <3>2, <3>6, <3>7 DEF DeliveredInv
    <3>9. UpdatesInv'
      BY <1>1, <1>2, UpdatesStay
    <3>10. QED  BY <1>1, <1>2, <2>4, <3>8, <3>9 DEF ContentInv
  <2>6. CASE ~Advances(u)
    <3>1. UNCHANGED <<latest_remote_state, delivered_remote_state, shown, echoed>>
      BY <1>1, <1>4, <2>6 DEF Ingest, AcceptRemoteUpdate
    <3>2. Faithful(delivered_remote_state, latest_remote_state)'
      <4>1. PICK w, n : w = delivered_remote_state /\ n = latest_remote_state
        OBVIOUS
      <4>2. Faithful(w, n)
        BY Zenon, <1>2, <4>1 DEF DeliveredInv
      <4>3. Faithful(w, n)'
        BY <1>1, <4>2, FaithfulStays
      <4>4. w = delivered_remote_state' /\ n = latest_remote_state'
        BY <3>1, <4>1
      <4>5. QED  BY Zenon, <4>3, <4>4 DEF Faithful
    <3>3. ASSUME delivered_remote_state.history = <<>>
          PROVE  DOMAIN received_states' = {0} /\ received_states'[0].history = <<>>
      <4>1. DOMAIN received_states = {0} /\ received_states[0].history = <<>>
        BY <1>2, <3>3 DEF DeliveredInv
      <4>2. u.target > latest_remote_state
        <5>1. latest_remote_state = 0
          BY <4>1, NumberFacts DEF Known
        <5>2. u.target \in Nat /\ u.base \in Nat /\ u.base < u.target
          BY <1>2 DEF UpdatesInv, NumberType
        <5>3. QED  BY <5>1, <5>2
      <4>3. CanDiff(s, delivered_remote_state)
        <5>1. s \in States
          BY <2>1 DEF Faithful
        <5>2. HistoryExtends(s, delivered_remote_state)
          BY <3>3, <5>1, FirstDiff
        <5>3. QED  BY Zenon, <5>2 DEF CanDiff
      <4>4. HistoryFull(u)
        BY <1>4, <2>6, <4>2, <4>3 DEF Advances, s
      <4>5. N = R /\ R \subseteq {0}
        BY <2>3, <4>1, <4>4
      <4>6. latest_remote_state' \in DOMAIN received_states'
        BY DEF NumberInv, KnownStateRetained
      <4>7. N = {0}
        BY <2>2, <4>5, <4>6
      <4>8. u.target # 0
        BY <1>4, <4>1 DEF Rebuildable
      <4>9. received_states'[0] = received_states[0]
        BY <2>2, <4>7, <4>8
      <4>10. QED  BY Zenon, <2>2, <4>1, <4>7, <4>9
    <3>4. DeliveredInv'
      <4>1. agreed' = agreed /\ DeliveredInv
        BY <1>1, <1>2
      <4>2. QED  BY Zenon, <3>1, <3>2, <3>3, <4>1 DEF DeliveredInv
    <3>5. UpdatesInv'
      BY <1>1, <1>2, UpdatesStay
    <3>6. QED  BY <1>1, <1>2, <2>4, <3>4, <3>5 DEF ContentInv
  <2>7. QED  BY <2>5, <2>6
<1>5. QED  BY <1>3, <1>4

\* The invariant holds at the start.
LEMMA InitInv == Init => IInv
BY InitNumbers, InitContents DEF IInv

\* Every step keeps the invariant.
LEMMA NextInv == IInv /\ [Next]_vars => IInv'
<1> SUFFICES ASSUME NumberInv, ContentInv, [Next]_vars PROVE NumberInv' /\ ContentInv'
  BY DEF IInv
<1>1. NumberInv'
  BY NextNumbers
<1>2. CASE \E size \in {1, 2} : SetViewport(size)
  BY <1>1, <1>2, ViewportContents
<1>3. CASE \E u \in to_client : Ingest(u)
  BY <1>1, <1>3, IngestContents
<1>4. CASE \E b \in Bases : ServerSend(b)
  BY <1>1, <1>4, SendContents
<1>5. CASE Acknowledge \/ ServerChange \/ (\E a \in to_server : ServerReceive(a)) \/ UNCHANGED vars
  BY <1>1, <1>5, OtherContents
<1>6. QED  BY <1>2, <1>3, <1>4, <1>5 DEF Next

\* The floor, the acknowledgements on their way and the received states fit together, and
\* every state that the client holds is the server's state of its number.
THEOREM Invariance == Spec => []IInv
BY InitInv, NextInv, PTL DEF Spec

\* The state that the server falls back to and the one on the screen are kept, and their
\* number within its bound, for every loss, delay, duplication and reordering of updates
\* and acknowledgements.
THEOREM FallbackRetained == Spec => []KnownStateRetained
<1>1. IInv => KnownStateRetained
  BY DEF IInv, NumberInv
<1>2. QED  BY <1>1, Invariance, PTL

\* Every retained state replays to the server's state of its number, after any number of
\* compactions, and no history is longer than its bound (Clone, compacted_history and
\* validate_history_size), for every script and every bound.
THEOREM Replayed == Spec => []HistoriesReplay
<1>1. ASSUME IInv PROVE HistoriesReplay
  <2>1. ASSUME NEW n \in DOMAIN received_states
        PROVE  /\ FitsHistory(received_states[n].history)
               /\ Clone(received_states[n]).screen = received_states[n].screen
               /\ received_states[n].screen.content = ContentOf(n)
    <3> DEFINE s == received_states[n]
    <3>1. Faithful(s, n)
      BY <1>1, <2>1 DEF IInv, ContentInv, ReceivedInv
    <3> HIDE DEF s
    <3>2. /\ FitsHistory(s.history) /\ s.screen.content = ContentOf(n)
          /\ Replays(s)
      BY Zenon, <3>1 DEF Faithful, Replays
    <3>3. Clone(s) = s
      BY <3>2, CloneIs
    <3>4. QED  BY Zenon, <3>2, <3>3 DEF s
  <2>2. QED  BY Zenon, <2>1 DEF HistoriesReplay
<1>2. QED  BY <1>1, Invariance, PTL

\* The terminal shows the server's state that the client acknowledges, with its size and its
\* echo acknowledgement: no delivered delta repeats, skips or garbles output, on whatever
\* bases the updates were built and in whatever order they arrived (diff_from and
\* accept_remote_update), for every script and every bound.
THEOREM LatestShown == Spec => []TerminalShowsLatest
<1>1. ASSUME IInv PROVE TerminalShowsLatest
  <2>1. DeliveredInv /\ Faithful(delivered_remote_state, latest_remote_state)
    BY <1>1 DEF IInv, ContentInv, DeliveredInv
  <2>2. QED  BY Zenon, <2>1 DEF DeliveredInv, Faithful, TerminalShowsLatest
<1>2. QED  BY <1>1, Invariance, PTL
=============================================================================
