------------------------ MODULE InputDeliveryProofs ------------------------
(***************************************************************************)
(* For every history bound, state-number space and amount of input: the      *)
(* server reads the submitted input exactly once and in order, nothing       *)
(* unconfirmed is dropped, and the protocol implements InputStream.          *)
(***************************************************************************)
EXTENDS InputDelivery, TLAPS

USE MaxAssumption, HistoryAssumption, BoundAssumption

(***************************************************************************)
(* Sequences.                                                               *)
(***************************************************************************)
\* A slice of a sequence: its type, its length and its elements.
LEMMA SubSeqSlice ==
    ASSUME NEW S, NEW s \in Seq(S), NEW a \in Nat, NEW b \in Nat, a <= b, b <= Len(s)
    PROVE  /\ SubSeq(s, a + 1, b) \in Seq(S)
           /\ Len(SubSeq(s, a + 1, b)) = b - a
           /\ \A i \in 1 .. (b - a) : SubSeq(s, a + 1, b)[i] = s[a + i]
OBVIOUS

\* Sequences of one length with the same elements are equal.
LEMMA SeqExtensional ==
    ASSUME NEW S, NEW s \in Seq(S), NEW t \in Seq(S), Len(s) = Len(t),
           \A i \in 1 .. Len(s) : s[i] = t[i]
    PROVE  s = t
OBVIOUS

\* Adjacent slices join.
LEMMA SubSeqJoin ==
    ASSUME NEW S, NEW s \in Seq(S), NEW a \in Nat, NEW b \in Nat, a <= b, b <= Len(s)
    PROVE  SubSeq(s, 1, a) \o SubSeq(s, a + 1, b) = SubSeq(s, 1, b)
OBVIOUS

\* A slice does not see what is appended behind it.
LEMMA SubSeqOfPrefix ==
    ASSUME NEW S, NEW s \in Seq(S), NEW t \in Seq(S),
           NEW a \in Nat, NEW b \in Nat, a <= b, b <= Len(s)
    PROVE  SubSeq(s \o t, a + 1, b) = SubSeq(s, a + 1, b)
OBVIOUS

\* A slice of a suffix is a slice of the sequence.
LEMMA SubSeqOfSuffix ==
    ASSUME NEW S, NEW s \in Seq(S), NEW a \in Nat, a <= Len(s),
           NEW d \in Nat, NEW e \in Nat, d <= e, a + e <= Len(s)
    PROVE  SubSeq(SubSeq(s, a + 1, Len(s)), d + 1, e) = SubSeq(s, a + d + 1, a + e)
OBVIOUS

\* Appending to a suffix is taking the suffix of the longer sequence.
LEMMA SubSeqGrow ==
    ASSUME NEW S, NEW s \in Seq(S), NEW t \in Seq(S), NEW a \in Nat, a <= Len(s)
    PROVE  SubSeq(s, a + 1, Len(s)) \o t = SubSeq(s \o t, a + 1, Len(s) + Len(t))
<1> DEFINE u == SubSeq(s, a + 1, Len(s))
           v == SubSeq(s \o t, a + 1, Len(s) + Len(t))
<1>1. s \o t \in Seq(S) /\ Len(s \o t) = Len(s) + Len(t)
  OBVIOUS
<1>2. u \in Seq(S) /\ Len(u) = Len(s) - a /\ \A i \in 1 .. (Len(s) - a) : u[i] = s[a + i]
  BY SubSeqSlice
<1>3. /\ v \in Seq(S) /\ Len(v) = Len(s) + Len(t) - a
      /\ \A i \in 1 .. (Len(s) + Len(t) - a) : v[i] = (s \o t)[a + i]
  BY <1>1, SubSeqSlice
<1>4. u \o t \in Seq(S) /\ Len(u \o t) = Len(v)
  BY <1>2, <1>3
<1>5. ASSUME NEW i \in 1 .. Len(v) PROVE (u \o t)[i] = v[i]
  <2>1. CASE i <= Len(s) - a
    BY <1>2, <1>3, <2>1
  <2>2. CASE i > Len(s) - a
    <3>1. (u \o t)[i] = t[i - (Len(s) - a)]
      BY <1>2, <1>3, <2>2
    <3>2. (s \o t)[a + i] = t[a + i - Len(s)]
      BY <1>3, <2>2
    <3>3. i - (Len(s) - a) = a + i - Len(s)
      BY <1>3
    <3>4. QED  BY <3>1, <3>2, <3>3, <1>3
  <2>3. QED  BY <2>1, <2>2, <1>3
<1> HIDE DEF u, v
<1>6. u \o t = v
  BY <1>3, <1>4, <1>5, SeqExtensional
<1>7. QED  BY <1>6 DEF u, v

\* The slices of s \o t that start at the first element, and the one that is t.
LEMMA SubSeqOfFront ==
    ASSUME NEW S, NEW s \in Seq(S), NEW t \in Seq(S), NEW b \in Nat, b <= Len(s)
    PROVE  SubSeq(s \o t, 1, b) = SubSeq(s, 1, b)
OBVIOUS

LEMMA SubSeqOfBack ==
    ASSUME NEW S, NEW s \in Seq(S), NEW t \in Seq(S)
    PROVE  SubSeq(s \o t, Len(s) + 1, Len(s) + Len(t)) = t
OBVIOUS

(***************************************************************************)
(* The bounded history.                                                     *)
(***************************************************************************)
\* limit_sent_states keeps the confirmed and the newest state and the order.
LEMMA LimitKeeps ==
    ASSUME NEW s \in Seq(SentState), Len(s) >= 2, NEW r, r = LimitSentStates(s)
    PROVE  /\ r \in Seq(SentState) /\ Len(r) >= 2
           /\ r[1] = s[1]
           /\ r[Len(r)] = s[Len(s)]
           /\ \E f \in [1 .. Len(r) -> 1 .. Len(s)] :
                 /\ \A i \in 1 .. Len(r) : r[i] = s[f[i]]
                 /\ \A i, j \in 1 .. Len(r) : i < j => f[i] < f[j]
<1>1. CASE Len(s) > MAXIMUM_SENT_STATES
  <2> DEFINE x == Len(s) - NEWEST_KEPT + 1
             u == SubSeq(s, 1, x - 1)
             v == SubSeq(s, x + 1, Len(s))
  <2>1. r = u \o v
    BY <1>1 DEF LimitSentStates
  <2>2. x \in 2 .. (Len(s) - 1) /\ x \in Nat /\ x <= Len(s) /\ Len(s) \in Nat
    BY <1>1
  <2> HIDE DEF x
  <2>3. /\ u \in Seq(SentState) /\ Len(u) = x - 1
        /\ \A i \in 1 .. (x - 1) : u[i] = s[i]
    BY <2>2
  <2>4. /\ v \in Seq(SentState) /\ Len(v) = Len(s) - x
        /\ \A i \in 1 .. (Len(s) - x) : v[i] = s[x + i]
    BY <2>2, SubSeqSlice
  <2> HIDE DEF u, v
  <2>5. r \in Seq(SentState) /\ Len(r) = Len(s) - 1
    <3>1. u \in Seq(SentState) /\ v \in Seq(SentState)
      BY <2>3, <2>4
    <3>2. u \o v \in Seq(SentState) /\ Len(u \o v) = Len(u) + Len(v)
      BY <3>1
    <3>3. Len(u) + Len(v) = Len(s) - 1
      BY <2>2, <2>3, <2>4
    <3>4. QED  BY <2>1, <3>2, <3>3
  <2>6. \A i \in 1 .. (x - 1) : r[i] = s[i]
    BY <2>1, <2>2, <2>3, <2>4
  <2>7. ASSUME NEW i \in x .. (Len(s) - 1) PROVE r[i] = s[i + 1]
    <3>1. i \in Int /\ x \in Int /\ i >= x /\ i <= Len(s) - 1
      BY <2>2
    <3>2. r[i] = v[i - (x - 1)]
      BY <2>1, <2>2, <2>3, <2>4, <3>1
    <3>3. PICK j \in 1 .. (Len(s) - x) : j = i - (x - 1)
      BY <2>2, <3>1
    <3>4. v[j] = s[x + j] /\ x + j = i + 1
      BY <2>2, <2>4, <3>1, <3>3
    <3>5. QED  BY <3>2, <3>3, <3>4
  <2>8. Len(r) >= 2 /\ r[1] = s[1] /\ r[Len(r)] = s[Len(s)]
    <3>1. 1 \in 1 .. (x - 1) /\ Len(s) - 1 \in x .. (Len(s) - 1) /\ Len(s) - 1 + 1 = Len(s)
      BY <2>2
    <3>2. r[1] = s[1]
      BY <2>6, <3>1
    <3>3. r[Len(s) - 1] = s[Len(s) - 1 + 1]
      BY <2>7, <3>1
    <3>4. Len(r) >= 2
      BY <2>2, <2>5
    <3>5. QED  BY <3>1, <3>2, <3>3, <3>4, <2>5
  <2>9. ASSUME NEW i \in 1 .. Len(r)
        PROVE  \E k \in 1 .. Len(s) :
                  /\ r[i] = s[k]
                  /\ i < x => k = i
                  /\ ~(i < x) => k = i + 1
    <3>1. CASE i < x
      <4>1. i \in 1 .. (x - 1) /\ i \in 1 .. Len(s)
        BY <2>2, <2>5, <3>1
      <4>2. QED  BY <2>6, <3>1, <4>1
    <3>2. CASE ~(i < x)
      <4>1. i \in x .. (Len(s) - 1) /\ i + 1 \in 1 .. Len(s)
        BY <2>2, <2>5, <3>2
      <4>2. QED  BY <2>7, <3>2, <4>1
    <3>3. QED  BY <3>1, <3>2
  <2> DEFINE f == [i \in 1 .. Len(r) |-> IF i < x THEN i ELSE i + 1]
  <2>10. ASSUME NEW i \in 1 .. Len(r) PROVE f[i] \in 1 .. Len(s) /\ r[i] = s[f[i]]
    BY <2>9
  <2>11. ASSUME NEW i \in 1 .. Len(r), NEW j \in 1 .. Len(r), i < j PROVE f[i] < f[j]
    BY <2>2, <2>5, <2>11
  <2>12. f \in [1 .. Len(r) -> 1 .. Len(s)]
    BY <2>10
  <2> HIDE DEF f
  <2>13. QED  BY <2>5, <2>8, <2>10, <2>11, <2>12
<1>2. CASE ~(Len(s) > MAXIMUM_SENT_STATES)
  <2>1. r = s
    BY <1>2 DEF LimitSentStates
  <2> DEFINE f == [i \in 1 .. Len(s) |-> i]
  <2>2. f \in [1 .. Len(s) -> 1 .. Len(s)]
    OBVIOUS
  <2>3. \A i \in 1 .. Len(s) : f[i] = i
    OBVIOUS
  <2> HIDE DEF f
  <2>4. QED  BY <2>1, <2>2, <2>3
<1>3. QED  BY <1>1, <1>2

(***************************************************************************)
(* The steps.                                                               *)
(***************************************************************************)
LEMMA InitInv == Init => IInv
<1> SUFFICES ASSUME Init PROVE IInv
  OBVIOUS
<1> USE DEF Init, SentInit, ServerInputInit, Confirmed, Newest
<1>1. Len(sent_states) = 1 /\ sent_states[1] = [state_id |-> 0, instruction_end |-> 0]
  OBVIOUS
<1>2. TypeOK
  BY <1>1 DEF TypeOK, SentState
<1>3. HistoryInv
  BY <1>1 DEF HistoryInv
<1>4. MessagesInv /\ ServerInv
  BY <1>1 DEF MessagesInv, ServerInv
<1>5. InputExactlyOnce
  BY DEF InputExactlyOnce
<1>6. QED  BY <1>2, <1>3, <1>4, <1>5 DEF IInv

\* A new state above the newest one, with its message.
LEMMA PushInv ==
    ASSUME IInv,
           NEW target \in 1 .. U64_MAX, target > Newest.state_id,
           NEW batch \in Seq(Nat),
           PushState(target, batch),
           Sent(UpdateMessage(target, batch, 0)),
           Created(target, batch),
           UNCHANGED <<serverInputVars, to_client>>,
           next_local_state' \in 1 .. U64_MAX,
           next_local_state' >= next_local_state,
           target < next_local_state' \/ target = U64_MAX
    PROVE  IInv'
<1> DEFINE rec == [state_id |-> target,
                   instruction_end |-> Len(local_instructions) + Len(batch)]
           new == Append(sent_states, rec)
           c == ends[Confirmed.state_id]
           n0 == Len(sent_states)
<1>0. TypeOK /\ HistoryInv /\ MessagesInv /\ ServerInv /\ InputExactlyOnce
  BY DEF IInv
<1>1. /\ sent_states \in Seq(SentState) /\ n0 \in Nat /\ n0 >= 1
      /\ local_instructions \in Seq(Nat) /\ submitted \in Seq(Nat)
      /\ Len(local_instructions) \in Nat /\ Len(submitted) \in Nat /\ Len(batch) \in Nat
      /\ next_local_state \in 1 .. U64_MAX
  BY <1>0 DEF TypeOK
<1>2. rec \in SentState
  BY <1>1 DEF SentState
<1>3. /\ new \in Seq(SentState) /\ Len(new) = n0 + 1
      /\ new[n0 + 1] = rec
      /\ \A k \in 1 .. n0 : new[k] = sent_states[k]
  BY <1>1, <1>2
<1>4. sent_states' = LimitSentStates(new) /\ local_instructions' = local_instructions \o batch
  BY DEF PushState
<1> HIDE DEF new
<1>5. /\ sent_states' \in Seq(SentState) /\ Len(sent_states') >= 2
      /\ sent_states'[1] = new[1]
      /\ sent_states'[Len(sent_states')] = new[Len(new)]
      /\ \E f \in [1 .. Len(sent_states') -> 1 .. Len(new)] :
            /\ \A i \in 1 .. Len(sent_states') : sent_states'[i] = new[f[i]]
            /\ \A i, j \in 1 .. Len(sent_states') : i < j => f[i] < f[j]
  <2>1. Len(new) >= 2
    BY <1>1, <1>3
  <2>2. \A s \in Seq(SentState) : Len(s) >= 2 => \A r : r = LimitSentStates(s) =>
           /\ r \in Seq(SentState) /\ Len(r) >= 2
           /\ r[1] = s[1]
           /\ r[Len(r)] = s[Len(s)]
           /\ \E f \in [1 .. Len(r) -> 1 .. Len(s)] :
                 /\ \A i \in 1 .. Len(r) : r[i] = s[f[i]]
                 /\ \A i, j \in 1 .. Len(r) : i < j => f[i] < f[j]
    BY LimitKeeps
  <2>3. new \in Seq(SentState)
    BY <1>3
  <2>4. /\ sent_states' \in Seq(SentState) /\ Len(sent_states') >= 2
        /\ sent_states'[1] = new[1]
        /\ sent_states'[Len(sent_states')] = new[Len(new)]
    BY <2>1, <2>2, <2>3, <1>4
  <2>5. \E f \in [1 .. Len(sent_states') -> 1 .. Len(new)] :
            /\ \A i \in 1 .. Len(sent_states') : sent_states'[i] = new[f[i]]
            /\ \A i, j \in 1 .. Len(sent_states') : i < j => f[i] < f[j]
    <3>1. \A r : r = LimitSentStates(new) =>
             \E f \in [1 .. Len(r) -> 1 .. Len(new)] :
                 /\ \A i \in 1 .. Len(r) : r[i] = new[f[i]]
                 /\ \A i, j \in 1 .. Len(r) : i < j => f[i] < f[j]
      BY <2>1, <2>2, <2>3
    <3>2. QED  BY <3>1, <1>4
  <2>6. QED  BY <2>4, <2>5
<1>6. Confirmed' = Confirmed /\ Newest' = rec
  BY <1>1, <1>3, <1>5 DEF Confirmed, Newest
<1>7. submitted' = submitted \o batch /\ submitted' \in Seq(Nat)
      /\ Len(submitted') = Len(submitted) + Len(batch)
  BY <1>1 DEF Created
<1>8. DOMAIN ends \subseteq 0 .. U64_MAX /\ \A a \in DOMAIN ends : ends[a] \in Nat
  BY <1>0 DEF TypeOK
<1>9. /\ \A a \in DOMAIN ends : a <= Newest.state_id /\ ends[a] <= Len(submitted)
      /\ \A a, b \in DOMAIN ends : a <= b => ends[a] <= ends[b]
      /\ \A a \in DOMAIN ends : a < next_local_state \/ a = U64_MAX
      /\ ends[Newest.state_id] = Len(submitted)
      /\ local_instructions = SubSeq(submitted, c + 1, Len(submitted))
      /\ \A i \in 1 .. n0 :
            /\ sent_states[i].state_id \in DOMAIN ends
            /\ sent_states[i].instruction_end = ends[sent_states[i].state_id] - c
            /\ \A j \in 1 .. n0 : i < j => sent_states[i].state_id < sent_states[j].state_id
  BY <1>0 DEF HistoryInv
<1>10. Newest.state_id \in 0 .. U64_MAX /\ Newest.state_id \in DOMAIN ends
       /\ Confirmed.state_id \in DOMAIN ends /\ c \in Nat /\ c <= Len(submitted)
  <2>1. 1 \in 1 .. n0 /\ n0 \in 1 .. n0
    BY <1>1
  <2>2. Newest = sent_states[n0] /\ Confirmed = sent_states[1]
    BY DEF Newest, Confirmed
  <2>3. Newest.state_id \in DOMAIN ends /\ Confirmed.state_id \in DOMAIN ends
    BY <2>1, <2>2, <1>9
  <2>4. QED  BY <2>3, <1>8, <1>9
<1>11. \A a \in DOMAIN ends : a < target
  BY <1>8, <1>9, <1>10
<1>12. /\ DOMAIN ends' = DOMAIN ends \cup {target}
       /\ ends'[target] = Len(submitted')
       /\ \A a \in DOMAIN ends : ends'[a] = ends[a]
  BY <1>7, <1>11 DEF Created
<1> HIDE DEF c
<1>13. Len(local_instructions) = Len(submitted) - c
  <2>1. Len(SubSeq(submitted, c + 1, Len(submitted))) = Len(submitted) - c
    BY <1>1, <1>10, SubSeqSlice
  <2>2. QED  BY <2>1, <1>9
<1>14. \A m \in to_server' : m \in to_server \/ m = UpdateMessage(target, batch, 0)
  BY DEF Sent
<1>15. server_states' = server_states /\ server_newest' = server_newest /\ to_client' = to_client
  BY DEF serverInputVars
<1> HIDE DEF rec, n0
<1>16. UpdateMessage(target, batch, 0).base = Newest.state_id
       /\ UpdateMessage(target, batch, 0).target = target
       /\ UpdateMessage(target, batch, 0).discard = Confirmed.state_id
       /\ UpdateMessage(target, batch, 0).delta = batch
  BY DEF UpdateMessage
<1>17. TypeOK'
  <2>1. local_instructions' \in Seq(Nat)
    BY <1>1, <1>4
  <2>2. DOMAIN ends' \subseteq 0 .. U64_MAX /\ \A a \in DOMAIN ends' : ends'[a] \in Nat
    BY <1>7, <1>8, <1>12
  <2>3. ASSUME NEW m \in to_server'
        PROVE  {m.base, m.target, m.discard} \subseteq DOMAIN ends' /\ m.delta \in Seq(Nat)
    <3>1. CASE m \in to_server
      BY <1>0, <3>1, <1>12 DEF TypeOK
    <3>2. CASE m = UpdateMessage(target, batch, 0)
      BY <3>2, <1>10, <1>12, <1>16
    <3>3. QED  BY <3>1, <3>2, <1>14
  <2>4. /\ DOMAIN server_states' \subseteq DOMAIN ends'
        /\ server_newest' \in DOMAIN server_states'
        /\ to_client' \subseteq DOMAIN ends'
    BY <1>0, <1>12, <1>15 DEF TypeOK
  <2>5. sent_states' \in Seq(SentState) /\ Len(sent_states') > 0
    BY <1>5
  <2>6. QED  BY <2>1, <2>2, <2>3, <2>4, <2>5, <1>7 DEF TypeOK
<1>18. HistoryInv'
  <2>1. \A a, b \in DOMAIN ends' : a <= b => ends'[a] <= ends'[b]
    <3>1. TAKE a, b \in DOMAIN ends'
    <3>2. CASE b = target
      BY <3>2, <1>1, <1>7, <1>8, <1>9, <1>12
    <3>3. CASE b # target
      BY <3>3, <1>8, <1>9, <1>11, <1>12
    <3>4. QED  BY <3>2, <3>3
  <2>2. \A a \in DOMAIN ends' :
           /\ ends'[a] <= Len(submitted')
           /\ a <= Newest'.state_id
           /\ a < next_local_state' \/ a = U64_MAX
    <3>1. TAKE a \in DOMAIN ends'
    <3>2. Newest'.state_id = target
      BY <1>6 DEF rec
    <3>3. CASE a = target
      BY <3>2, <3>3, <1>7, <1>12
    <3>4. CASE a \in DOMAIN ends
      BY <3>2, <3>4, <1>1, <1>7, <1>8, <1>9, <1>11, <1>12
    <3>5. QED  BY <3>3, <3>4, <1>12
  <2>3. ends'[Newest'.state_id] = Len(submitted')
    BY <1>6, <1>12 DEF rec
  <2>4. ends'[Confirmed'.state_id] = c
    BY <1>6, <1>10, <1>12 DEF c
  <2>5. local_instructions' = SubSeq(submitted', ends'[Confirmed'.state_id] + 1, Len(submitted'))
    <3>1. SubSeq(submitted, c + 1, Len(submitted)) \o batch
             = SubSeq(submitted \o batch, c + 1, Len(submitted) + Len(batch))
      BY <1>1, <1>10, SubSeqGrow
    <3>2. QED  BY <3>1, <2>4, <1>4, <1>7, <1>9
  <2>6. \A k \in 1 .. (n0 + 1) :
           /\ new[k].state_id \in DOMAIN ends'
           /\ new[k].instruction_end = ends'[new[k].state_id] - c
           /\ \A l \in 1 .. (n0 + 1) : k < l => new[k].state_id < new[l].state_id
    <3>1. TAKE k \in 1 .. (n0 + 1)
    <3>2. CASE k = n0 + 1
      <4>1. new[k].state_id = target /\ new[k].instruction_end = Len(local_instructions) + Len(batch)
        BY <3>2, <1>3 DEF rec
      <4>2. ends'[target] - c = Len(local_instructions) + Len(batch)
        BY <1>1, <1>7, <1>10, <1>12, <1>13
      <4>3. target \in DOMAIN ends'
        BY <1>12
      <4>4. \A l \in 1 .. (n0 + 1) : ~(k < l)
        BY <3>2, <1>1
      <4>5. QED  BY <4>1, <4>2, <4>3, <4>4
    <3>3. CASE k # n0 + 1
      <4>1. k \in 1 .. n0
        BY <3>3, <1>1
      <4>2. new[k] = sent_states[k] /\ new[k].state_id \in DOMAIN ends
        BY <4>1, <1>3, <1>9
      <4>3. new[k].instruction_end = ends'[new[k].state_id] - c
        BY <4>1, <4>2, <1>9, <1>12
      <4>4. ASSUME NEW l \in 1 .. (n0 + 1), k < l PROVE new[k].state_id < new[l].state_id
        <5>1. CASE l = n0 + 1
          BY <5>1, <4>2, <1>3, <1>11 DEF rec
        <5>2. CASE l # n0 + 1
          <6>1. l \in 1 .. n0
            BY <5>2, <1>1
          <6>2. QED  BY <6>1, <4>1, <4>4, <1>3, <1>9
        <5>3. QED  BY <5>1, <5>2
      <4>5. QED  BY <4>2, <4>3, <4>4, <1>12
    <3>4. QED  BY <3>2, <3>3
  <2>7. PICK f \in [1 .. Len(sent_states') -> 1 .. Len(new)] :
            /\ \A i \in 1 .. Len(sent_states') : sent_states'[i] = new[f[i]]
            /\ \A i, j \in 1 .. Len(sent_states') : i < j => f[i] < f[j]
    BY <1>5
  <2>8. \A i \in 1 .. Len(sent_states') :
          /\ sent_states'[i].state_id \in DOMAIN ends'
          /\ sent_states'[i].instruction_end =
                ends'[sent_states'[i].state_id] - ends'[Confirmed'.state_id]
          /\ \A j \in 1 .. Len(sent_states') :
                i < j => sent_states'[i].state_id < sent_states'[j].state_id
    <3>1. TAKE i \in 1 .. Len(sent_states')
    <3>1a. \A j \in 1 .. Len(sent_states') : f[j] \in 1 .. (n0 + 1) /\ sent_states'[j] = new[f[j]]
      BY <2>7, <1>3
    <3>2. /\ sent_states'[i].state_id \in DOMAIN ends'
          /\ sent_states'[i].instruction_end = ends'[sent_states'[i].state_id] - c
      BY <2>6, <3>1a
    <3>3. ASSUME NEW j \in 1 .. Len(sent_states'), i < j
          PROVE  sent_states'[i].state_id < sent_states'[j].state_id
      <4>1. f[i] < f[j]
        BY <3>3, <2>7
      <4>2. new[f[i]].state_id < new[f[j]].state_id
        BY <4>1, <3>1a, <2>6
      <4>3. QED  BY <4>2, <3>1a
    <3>4. QED  BY <3>2, <3>3, <2>4
  <2>9. QED  BY <2>1, <2>2, <2>3, <2>5, <2>8 DEF HistoryInv
<1>19. MessagesInv'
  <2>1. ASSUME NEW m \in to_server'
        PROVE  /\ m.base < m.target
               /\ m.discard <= m.base
               /\ m.discard <= Confirmed'.state_id
               /\ m.delta = SubSeq(submitted', ends'[m.base] + 1, ends'[m.target])
    <3>1. CASE m \in to_server
      <4>1. /\ m.base < m.target /\ m.discard <= m.base /\ m.discard <= Confirmed.state_id
            /\ m.delta = SubSeq(submitted, ends[m.base] + 1, ends[m.target])
        BY <1>0, <3>1 DEF MessagesInv
      <4>2. m.base \in DOMAIN ends /\ m.target \in DOMAIN ends
        BY <1>0, <3>1 DEF TypeOK
      <4>3. /\ ends[m.base] \in Nat /\ ends[m.target] \in Nat
            /\ ends[m.base] <= ends[m.target] /\ ends[m.target] <= Len(submitted)
        BY <4>1, <4>2, <1>8, <1>9
      <4>4. ends'[m.base] = ends[m.base] /\ ends'[m.target] = ends[m.target]
        BY <4>2, <1>12
      <4>5. SubSeq(submitted \o batch, ends[m.base] + 1, ends[m.target]) = m.delta
        <5> DEFINE a == ends[m.base]
                   b == ends[m.target]
        <5>1. a \in Nat /\ b \in Nat /\ a <= b /\ b <= Len(submitted)
          BY <4>3
        <5> HIDE DEF a, b
        <5>2. SubSeq(submitted \o batch, a + 1, b) = SubSeq(submitted, a + 1, b)
          BY <5>1, <1>1, SubSeqOfPrefix
        <5>3. QED  BY <5>2, <4>1 DEF a, b
      <4>6. QED  BY <4>1, <4>4, <4>5, <1>6, <1>7
    <3>2. CASE m = UpdateMessage(target, batch, 0)
      <4>1. ends'[m.base] = Len(submitted) /\ ends'[m.target] = Len(submitted) + Len(batch)
        BY <3>2, <1>7, <1>9, <1>10, <1>12, <1>16
      <4>2. m.delta = SubSeq(submitted', ends'[m.base] + 1, ends'[m.target])
        BY <3>2, <4>1, <1>1, <1>7, <1>16, SubSeqOfBack
      <4>3. Confirmed.state_id <= Newest.state_id /\ Confirmed.state_id <= Confirmed.state_id
        BY <1>8, <1>9, <1>10
      <4>4. QED  BY <3>2, <4>2, <4>3, <1>6, <1>16
    <3>3. QED  BY <3>1, <3>2, <1>14
  <2>2. QED  BY <2>1 DEF MessagesInv
<1>20. ServerInv'
  BY <1>0, <1>6, <1>15 DEF ServerInv
<1>21. InputExactlyOnce'
  <2>1. ASSUME NEW n \in DOMAIN server_states'
        PROVE  n \in DOMAIN ends' /\ server_states'[n] = SubSeq(submitted', 1, ends'[n])
    <3>1. n \in DOMAIN ends /\ server_states[n] = SubSeq(submitted, 1, ends[n])
      BY <1>0, <1>15 DEF InputExactlyOnce
    <3>2. SubSeq(submitted \o batch, 1, ends[n]) = SubSeq(submitted, 1, ends[n])
      BY <3>1, <1>1, <1>8, <1>9, SubSeqOfFront
    <3>3. QED  BY <3>1, <3>2, <1>7, <1>12, <1>15
  <2>2. QED  BY <2>1 DEF InputExactlyOnce
<1>22. QED  BY <1>17, <1>18, <1>19, <1>20, <1>21 DEF IInv

\* The batch is a sequence of naturals, the newest state has a prefix.
LEMMA PushTypes ==
    ASSUME IInv, NEW k \in 0 .. MaxBatch
    PROVE  /\ Batch(k) \in Seq(Nat)
           /\ next_local_state \in 1 .. U64_MAX
           /\ Newest.state_id \in DOMAIN ends /\ Newest.state_id \in 0 .. U64_MAX
           /\ Confirmed.state_id \in DOMAIN ends /\ Confirmed.state_id \in 0 .. U64_MAX
           /\ Confirmed.state_id <= Newest.state_id
<1>0. TypeOK /\ HistoryInv
  BY DEF IInv
<1>1. Len(submitted) \in Nat /\ k \in Nat
  BY <1>0 DEF TypeOK
<1>2. Batch(k) \in Seq(Nat)
  BY <1>1 DEF Batch
<1>3. sent_states \in Seq(SentState) /\ Len(sent_states) \in 1 .. Len(sent_states)
      /\ 1 \in 1 .. Len(sent_states)
  BY <1>0 DEF TypeOK
<1>4. Newest.state_id \in DOMAIN ends /\ Confirmed.state_id \in DOMAIN ends
  BY <1>0, <1>3 DEF HistoryInv, Newest, Confirmed
<1>5. DOMAIN ends \subseteq 0 .. U64_MAX
  BY <1>0 DEF TypeOK
<1>6. Confirmed.state_id <= Newest.state_id
  BY <1>0, <1>4 DEF HistoryInv
<1>7. QED  BY <1>0, <1>2, <1>4, <1>5, <1>6 DEF TypeOK

LEMMA UpdateInv ==
    ASSUME IInv, NEW k \in 0 .. MaxBatch, Update(k)
    PROVE  IInv'
<1>1. /\ Batch(k) \in Seq(Nat) /\ next_local_state \in 1 .. U64_MAX
      /\ Newest.state_id \in DOMAIN ends /\ Newest.state_id \in 0 .. U64_MAX
  BY PushTypes
<1>2. Newest.state_id < next_local_state
  BY <1>1 DEF IInv, HistoryInv, Update, LocalShutdownSent
<1>3. /\ next_local_state # U64_MAX /\ next_local_state' = next_local_state + 1
      /\ PushState(next_local_state, Batch(k))
      /\ Sent(UpdateMessage(next_local_state, Batch(k), 0))
      /\ Created(next_local_state, Batch(k))
      /\ UNCHANGED <<serverInputVars, to_client>>
  BY DEF Update, BuildUpdate
<1>4. /\ next_local_state' \in 1 .. U64_MAX /\ next_local_state' >= next_local_state
      /\ next_local_state < next_local_state' /\ next_local_state > Newest.state_id
  BY <1>1, <1>2, <1>3
<1>5. QED  BY <1>1, <1>3, <1>4, PushInv

LEMMA ShutdownInv ==
    ASSUME IInv, NEW k \in 0 .. MaxBatch, Shutdown(k)
    PROVE  IInv'
<1>1. /\ Batch(k) \in Seq(Nat) /\ next_local_state \in 1 .. U64_MAX
      /\ Newest.state_id \in DOMAIN ends /\ Newest.state_id \in 0 .. U64_MAX
  BY PushTypes
<1>2. U64_MAX > Newest.state_id /\ U64_MAX \in 1 .. U64_MAX
  BY <1>1 DEF Shutdown, BuildShutdown, LocalShutdownSent
<1>3. /\ next_local_state' = next_local_state
      /\ PushState(U64_MAX, Batch(k))
      /\ Sent(UpdateMessage(U64_MAX, Batch(k), 0))
      /\ Created(U64_MAX, Batch(k))
      /\ UNCHANGED <<serverInputVars, to_client>>
  BY DEF Shutdown, BuildShutdown
<1>4. next_local_state' \in 1 .. U64_MAX /\ next_local_state' >= next_local_state
  BY <1>1, <1>3
<1>5. QED  BY <1>1, <1>2, <1>3, <1>4, PushInv

\* A retransmission carries the input between the confirmed and the newest state.
LEMMA RetransmitInv ==
    ASSUME IInv, Retransmit
    PROVE  IInv'
<1> DEFINE c == ends[Confirmed.state_id]
           rm == RetransmitMessage(0)
<1>0. TypeOK /\ HistoryInv /\ MessagesInv /\ ServerInv /\ InputExactlyOnce
  BY DEF IInv
<1>1. UNCHANGED <<next_local_state, local_instructions, sent_states, server_states,
                  server_newest, to_client, submitted, ends>>
  BY DEF Retransmit, sentVars, serverInputVars
<1>2. Confirmed' = Confirmed /\ Newest' = Newest
  BY <1>1 DEF Confirmed, Newest
<1>3. \A m \in to_server' : m \in to_server \/ m = rm
  BY DEF Retransmit, Sent
<1>4. /\ Newest.state_id \in DOMAIN ends /\ Newest.state_id \in 0 .. U64_MAX
      /\ Confirmed.state_id \in DOMAIN ends /\ Confirmed.state_id \in 0 .. U64_MAX
      /\ Len(sent_states) \in Nat
  BY <1>0, PushTypes, 0 \in 0 .. MaxBatch DEF TypeOK
<1>5. Confirmed.state_id < Newest.state_id
  BY <1>0, <1>4 DEF HistoryInv, Confirmed, Newest, Retransmit, HasPendingUpdate
<1>6. c \in Nat /\ c <= Len(submitted) /\ submitted \in Seq(Nat) /\ Len(submitted) \in Nat
  BY <1>0, <1>4 DEF TypeOK, HistoryInv
<1>7. /\ ends[Newest.state_id] = Len(submitted)
      /\ local_instructions = SubSeq(submitted, c + 1, Len(submitted))
      /\ Confirmed.instruction_end = 0
      /\ Newest.instruction_end = Len(submitted) - c
  <2>1. 1 \in 1 .. Len(sent_states) /\ Len(sent_states) \in 1 .. Len(sent_states)
    BY <1>4 DEF Retransmit, HasPendingUpdate
  <2>2. Confirmed.instruction_end = c - c /\ Newest.instruction_end = ends[Newest.state_id] - c
    BY <1>0, <2>1 DEF HistoryInv, Confirmed, Newest
  <2>3. QED  BY <1>0, <1>6, <2>2 DEF HistoryInv
<1>8. /\ rm.base = Confirmed.state_id /\ rm.target = Newest.state_id
      /\ rm.discard = Confirmed.state_id
      /\ rm.delta = SubSeq(local_instructions, 1, Len(submitted) - c)
  <2>1. /\ rm.base = Confirmed.state_id /\ rm.target = Newest.state_id
        /\ rm.discard = Confirmed.state_id
        /\ rm.delta = SubSeq(local_instructions, Confirmed.instruction_end + 1,
                             Newest.instruction_end)
    BY DEF RetransmitMessage
  <2>2. Confirmed.instruction_end + 1 = 1
    BY <1>7
  <2>3. QED  BY <2>1, <2>2, <1>7
<1> HIDE DEF rm, c
<1>9. rm.delta = SubSeq(submitted, c + 1, Len(submitted)) /\ rm.delta \in Seq(Nat)
  <2>1. /\ local_instructions \in Seq(Nat)
        /\ Len(local_instructions) = Len(submitted) - c
    BY <1>6, <1>7, SubSeqSlice
  <2>2. SubSeq(local_instructions, 1, Len(local_instructions)) = local_instructions
    BY <2>1
  <2>3. QED  BY <1>7, <1>8, <2>1, <2>2
<1>10. TypeOK'
  <2>1. ASSUME NEW m \in to_server'
        PROVE  {m.base, m.target, m.discard} \subseteq DOMAIN ends' /\ m.delta \in Seq(Nat)
    <3>1. CASE m \in to_server
      BY <1>0, <1>1, <3>1 DEF TypeOK
    <3>2. CASE m = rm
      BY <1>1, <1>4, <1>8, <1>9, <3>2
    <3>3. QED  BY <1>3, <3>1, <3>2
  <2>2. QED  BY <1>0, <1>1, <2>1 DEF TypeOK
<1>11. HistoryInv' /\ ServerInv' /\ InputExactlyOnce'
  <2>1. HistoryInv'
    BY <1>0, <1>1, <1>2 DEF HistoryInv
  <2>2. ServerInv' /\ InputExactlyOnce'
    BY <1>0, <1>1, <1>2 DEF ServerInv, InputExactlyOnce
  <2>3. QED  BY <2>1, <2>2
<1>12. MessagesInv'
  <2>1. ASSUME NEW m \in to_server'
        PROVE  /\ m.base < m.target
               /\ m.discard <= m.base
               /\ m.discard <= Confirmed'.state_id
               /\ m.delta = SubSeq(submitted', ends'[m.base] + 1, ends'[m.target])
    <3>1. CASE m \in to_server
      BY <1>0, <1>1, <1>2, <3>1 DEF MessagesInv
    <3>2. CASE m = rm
      <4>1. Confirmed.state_id <= Confirmed.state_id
        BY <1>4
      <4>2. m.delta = SubSeq(submitted, ends[m.base] + 1, ends[m.target])
        BY <1>7, <1>8, <1>9, <3>2 DEF c
      <4>3. QED  BY <1>1, <1>2, <1>5, <1>8, <3>2, <4>1, <4>2
    <3>3. QED  BY <1>3, <3>1, <3>2
  <2>2. QED  BY <2>1 DEF MessagesInv
<1>13. QED  BY <1>10, <1>11, <1>12 DEF IInv

\* The server extends the base it holds by the delta, and keeps what it must.
LEMMA ServerReceiveInv ==
    ASSUME IInv, NEW m \in to_server, ServerReceive(m)
    PROVE  IInv'
<1>0. TypeOK /\ HistoryInv /\ MessagesInv /\ ServerInv /\ InputExactlyOnce
  BY DEF IInv
<1>1. UNCHANGED <<next_local_state, local_instructions, sent_states, to_server,
                  to_client, submitted, ends>>
  BY DEF ServerReceive, sentVars
<1>2. Confirmed' = Confirmed /\ Newest' = Newest
  BY <1>1 DEF Confirmed, Newest
<1>3. /\ m.base \in DOMAIN server_states /\ m.target \notin DOMAIN server_states
      /\ DOMAIN server_states' = {n \in DOMAIN server_states : n >= m.discard} \cup {m.target}
      /\ server_states'[m.target] = server_states[m.base] \o m.delta
      /\ \A n \in DOMAIN server_states' : n # m.target => server_states'[n] = server_states[n]
      /\ server_newest' = IF m.target > server_newest THEN m.target ELSE server_newest
  BY DEF ServerReceive, ServerAccept, ServerNeeds, ServerKeeps
<1>4. /\ m.base \in DOMAIN ends /\ m.target \in DOMAIN ends /\ m.discard \in DOMAIN ends
      /\ DOMAIN ends \subseteq 0 .. U64_MAX
      /\ DOMAIN server_states \subseteq DOMAIN ends
      /\ server_newest \in DOMAIN server_states
  BY <1>0 DEF TypeOK
<1>5. m.base < m.target /\ m.discard <= m.base /\ m.discard <= Confirmed.state_id
  BY <1>0 DEF MessagesInv
<1>6. /\ Confirmed.state_id \in DOMAIN server_states
      /\ \A n \in DOMAIN server_states : n <= server_newest
      /\ \A a \in to_client : a >= Confirmed.state_id => a \in DOMAIN server_states
  BY <1>0 DEF ServerInv
<1>7. /\ server_newest' \in DOMAIN server_states'
      /\ \A n \in DOMAIN server_states' : n <= server_newest'
  BY <1>3, <1>4, <1>5, <1>6
<1>8. TypeOK'
  BY <1>0, <1>1, <1>3, <1>4, <1>7 DEF TypeOK
<1>9. HistoryInv' /\ MessagesInv'
  BY <1>0, <1>1, <1>2 DEF HistoryInv, MessagesInv
<1>10. ServerInv'
  <2>1. Confirmed'.state_id \in DOMAIN server_states'
    BY <1>2, <1>3, <1>4, <1>5, <1>6
  <2>2. \A a \in to_client' : a >= Confirmed'.state_id => a \in DOMAIN server_states'
    <3>1. TAKE a \in to_client'
    <3>2. HAVE a >= Confirmed'.state_id
    <3>3. a \in DOMAIN server_states
      BY <1>1, <1>2, <1>6, <3>2
    <3>4. a >= m.discard
      BY <1>2, <1>4, <1>5, <1>6, <3>2, <3>3
    <3>5. QED  BY <1>3, <3>3, <3>4
  <2>3. QED  BY <1>7, <2>1, <2>2 DEF ServerInv
<1>11. InputExactlyOnce'
  <2>1. /\ submitted \in Seq(Nat)
        /\ ends[m.base] \in Nat /\ ends[m.target] \in Nat
        /\ ends[m.base] <= ends[m.target] /\ ends[m.target] <= Len(submitted)
    BY <1>0, <1>4, <1>5 DEF TypeOK, HistoryInv
  <2>2. /\ server_states[m.base] = SubSeq(submitted, 1, ends[m.base])
        /\ m.delta = SubSeq(submitted, ends[m.base] + 1, ends[m.target])
    BY <1>0, <1>3 DEF InputExactlyOnce, MessagesInv
  <2> DEFINE a == ends[m.base]
             b == ends[m.target]
  <2>3. a \in Nat /\ b \in Nat /\ a <= b /\ b <= Len(submitted)
    BY <2>1
  <2> HIDE DEF a, b
  <2>4. SubSeq(submitted, 1, a) \o SubSeq(submitted, a + 1, b) = SubSeq(submitted, 1, b)
    BY <2>1, <2>3, SubSeqJoin
  <2>5. server_states'[m.target] = SubSeq(submitted', 1, ends'[m.target])
    BY <1>1, <1>3, <2>2, <2>4 DEF a, b
  <2>6. ASSUME NEW n \in DOMAIN server_states', n # m.target
        PROVE  n \in DOMAIN ends' /\ server_states'[n] = SubSeq(submitted', 1, ends'[n])
    <3>1. n \in DOMAIN server_states
      BY <1>3, <2>6
    <3>2. QED  BY <1>0, <1>1, <1>3, <2>6, <3>1 DEF InputExactlyOnce
  <2>7. QED  BY <1>1, <1>4, <2>5, <2>6 DEF InputExactlyOnce
<1>12. QED  BY <1>8, <1>9, <1>10, <1>11 DEF IInv

LEMMA ServerSendInv ==
    ASSUME IInv, ServerSend
    PROVE  IInv'
<1>0. TypeOK /\ HistoryInv /\ MessagesInv /\ ServerInv /\ InputExactlyOnce
  BY DEF IInv
<1>1. UNCHANGED <<next_local_state, local_instructions, sent_states, server_states,
                  server_newest, to_server, submitted, ends>>
  BY DEF ServerSend, sentVars, serverInputVars
<1>2. Confirmed' = Confirmed /\ Newest' = Newest
  BY <1>1 DEF Confirmed, Newest
<1>3. \A a \in to_client' : a \in to_client \/ a = server_newest
  BY DEF ServerSend
<1>4. TypeOK'
  BY <1>0, <1>1, <1>3 DEF TypeOK
<1>5. HistoryInv'
  BY <1>0, <1>1, <1>2 DEF HistoryInv
<1>6. MessagesInv' /\ InputExactlyOnce'
  BY <1>0, <1>1, <1>2 DEF MessagesInv, InputExactlyOnce
<1>7. ServerInv'
  BY <1>0, <1>1, <1>2, <1>3 DEF ServerInv, TypeOK
<1>8. QED  BY <1>4, <1>5, <1>6, <1>7 DEF IInv

\* An exact match confirms: the rest of the history is measured from there.
LEMMA IngestInv ==
    ASSUME IInv, NEW a \in to_client, Ingest(a)
    PROVE  IInv'
<1> DEFINE matches == {i \in 1 .. Len(sent_states) : sent_states[i].state_id = a}
           n0 == Len(sent_states)
           c == ends[Confirmed.state_id]
<1>0. TypeOK /\ HistoryInv /\ MessagesInv /\ ServerInv /\ InputExactlyOnce
  BY DEF IInv
<1>1. UNCHANGED <<server_states, server_newest, to_server, to_client, submitted, ends>>
  BY DEF Ingest, serverInputVars
<1>2. CASE matches = {}
  <2>1. UNCHANGED <<next_local_state, local_instructions, sent_states>>
    BY <1>2 DEF Ingest, ProcessAcknowledgement, sentVars
  <2>2. Confirmed' = Confirmed /\ Newest' = Newest
    BY <2>1 DEF Confirmed, Newest
  <2>3. HistoryInv'
    BY <1>0, <1>1, <2>1, <2>2 DEF HistoryInv
  <2>4. MessagesInv' /\ InputExactlyOnce' /\ ServerInv'
    BY <1>0, <1>1, <2>1, <2>2 DEF MessagesInv, InputExactlyOnce, ServerInv
  <2>5. TypeOK'
    BY <1>0, <1>1, <2>1 DEF TypeOK
  <2>6. QED  BY <2>3, <2>4, <2>5 DEF IInv
<1>3. CASE matches # {}
  <2>1. PICK i \in 1 .. n0 :
           /\ sent_states[i].state_id = a
           /\ sent_states' = [k \in 1 .. (n0 - i + 1) |->
                 [state_id |-> sent_states[k + i - 1].state_id,
                  instruction_end |-> sent_states[k + i - 1].instruction_end
                                      - sent_states[i].instruction_end]]
           /\ local_instructions' =
                 SubSeq(local_instructions, sent_states[i].instruction_end + 1,
                        Len(local_instructions))
           /\ next_local_state' = next_local_state
    <3>1. (CHOOSE j \in matches : TRUE) \in matches
      BY <1>3
    <3>2. QED  BY <1>3, <3>1 DEF Ingest, ProcessAcknowledgement
  <2> HIDE DEF matches
  <2>2. /\ sent_states \in Seq(SentState) /\ n0 \in Nat /\ n0 >= 1
        /\ submitted \in Seq(Nat) /\ Len(submitted) \in Nat
        /\ DOMAIN ends \subseteq 0 .. U64_MAX
        /\ \A x \in DOMAIN ends : ends[x] \in Nat
        /\ i \in Nat /\ n0 - i + 1 \in Nat /\ n0 - i + 1 >= 1
    BY <1>0 DEF TypeOK
  <2>3. /\ \A x \in DOMAIN ends : ends[x] <= Len(submitted)
        /\ \A x, y \in DOMAIN ends : x <= y => ends[x] <= ends[y]
        /\ ends[Newest.state_id] = Len(submitted)
        /\ local_instructions = SubSeq(submitted, c + 1, Len(submitted))
        /\ \A k \in 1 .. n0 :
              /\ sent_states[k].state_id \in DOMAIN ends
              /\ sent_states[k].instruction_end = ends[sent_states[k].state_id] - c
              /\ \A l \in 1 .. n0 : k < l => sent_states[k].state_id < sent_states[l].state_id
    BY <1>0 DEF HistoryInv
  <2>4. a \in DOMAIN ends /\ ends[a] \in Nat /\ ends[a] <= Len(submitted) /\ a \in 0 .. U64_MAX
    BY <2>1, <2>2, <2>3
  <2>5. Confirmed.state_id \in DOMAIN ends /\ c \in Nat /\ Confirmed.state_id \in 0 .. U64_MAX
        /\ Confirmed.state_id <= a /\ c <= ends[a]
    <3>1. 1 \in 1 .. n0 /\ Confirmed = sent_states[1]
      BY <2>2 DEF Confirmed
    <3>2. Confirmed.state_id \in DOMAIN ends
      BY <2>3, <3>1
    <3>3. Confirmed.state_id <= a
      <4>1. CASE i = 1
        BY <2>1, <2>2, <3>1, <3>2, <4>1
      <4>2. CASE i # 1
        <5>1. 1 < i
          BY <2>2, <4>2
        <5>2. Confirmed.state_id < a
          BY <2>1, <2>3, <3>1, <5>1
        <5>3. QED  BY <2>2, <2>4, <3>2, <5>2
      <4>3. QED  BY <4>1, <4>2
    <3>4. QED  BY <2>2, <2>3, <2>4, <3>2, <3>3
  <2> DEFINE d == sent_states[i].instruction_end
  <2>6. d = ends[a] - c
    BY <2>1, <2>3
  <2> HIDE DEF c, n0, d
  <2>7. ASSUME NEW k \in 1 .. (n0 - i + 1)
        PROVE  /\ k + i - 1 \in 1 .. n0
               /\ sent_states'[k].state_id = sent_states[k + i - 1].state_id
               /\ sent_states'[k].instruction_end
                     = sent_states[k + i - 1].instruction_end - d
               /\ sent_states'[k].state_id \in DOMAIN ends
               /\ sent_states'[k].instruction_end = ends[sent_states'[k].state_id] - ends[a]
               /\ sent_states'[k].instruction_end \in Nat
               /\ sent_states'[k] \in SentState
    <3>1. k + i - 1 \in 1 .. n0
      BY <2>2
    <3>2. sent_states'[k] = [state_id |-> sent_states[k + i - 1].state_id,
                             instruction_end |-> sent_states[k + i - 1].instruction_end - d]
      BY <2>1, <2>2 DEF d
    <3> DEFINE e == sent_states[k + i - 1].state_id
    <3>3. e \in DOMAIN ends /\ sent_states[k + i - 1].instruction_end = ends[e] - c
      BY <2>3, <3>1
    <3>4. a <= e
      <4>1. CASE k = 1
        BY <2>1, <2>2, <2>4, <4>1
      <4>2. CASE k # 1
        <5>1. i < k + i - 1
          BY <2>2, <4>2
        <5>2. a < e
          BY <2>1, <2>3, <3>1, <5>1
        <5>3. QED  BY <2>2, <2>4, <3>3, <5>2
      <4>3. QED  BY <4>1, <4>2
    <3>5. ends[e] \in Nat /\ ends[a] <= ends[e] /\ e \in 0 .. U64_MAX
      BY <2>2, <2>3, <2>4, <3>3, <3>4
    <3> HIDE DEF e
    <3>6. (ends[e] - c) - d = ends[e] - ends[a] /\ ends[e] - ends[a] \in Nat
      BY <2>4, <2>5, <2>6, <3>5
    <3>7. /\ sent_states'[k].state_id = e
          /\ sent_states'[k].instruction_end = ends[e] - ends[a]
      BY <3>2, <3>3, <3>6 DEF e
    <3>8. sent_states'[k] \in SentState
      BY <3>2, <3>3, <3>5, <3>6 DEF SentState, e
    <3>9. QED  BY <3>1, <3>2, <3>3, <3>6, <3>7, <3>8 DEF e
  <2>8. /\ sent_states' \in Seq(SentState) /\ Len(sent_states') = n0 - i + 1
        /\ Len(sent_states') > 0
    <3>1. sent_states' \in [1 .. (n0 - i + 1) -> SentState]
      BY <2>1, <2>7 DEF n0
    <3>2. QED  BY <2>2, <3>1
  <2>9. Confirmed'.state_id = a /\ Newest'.state_id = Newest.state_id
    <3>1. 1 \in 1 .. (n0 - i + 1) /\ n0 - i + 1 \in 1 .. (n0 - i + 1)
          /\ 1 + i - 1 = i /\ (n0 - i + 1) + i - 1 = n0
      BY <2>2
    <3>2. sent_states'[1].state_id = a
      BY <2>1, <2>7, <3>1
    <3>3. sent_states'[n0 - i + 1].state_id = sent_states[n0].state_id
      BY <2>7, <3>1
    <3>4. QED  BY <2>8, <3>2, <3>3 DEF Confirmed, Newest, n0
  <2>10. local_instructions' = SubSeq(submitted, ends[a] + 1, Len(submitted))
    <3>1. d \in Nat /\ Len(submitted) - c \in Nat /\ c <= Len(submitted)
          /\ d <= Len(submitted) - c /\ c + d = ends[a]
          /\ c + (Len(submitted) - c) = Len(submitted)
      BY <2>2, <2>4, <2>5, <2>6
    <3>2. Len(local_instructions) = Len(submitted) - c
      <4>1. Len(SubSeq(submitted, c + 1, Len(submitted))) = Len(submitted) - c
        BY <2>2, <2>5, <3>1, SubSeqSlice
      <4>2. QED  BY <2>3, <4>1
    <3> DEFINE e == Len(submitted) - c
    <3>3. e \in Nat /\ d <= e /\ c + e <= Len(submitted) /\ c + e = Len(submitted)
      BY <2>2, <3>1
    <3> HIDE DEF e
    <3>4. SubSeq(SubSeq(submitted, c + 1, Len(submitted)), d + 1, e)
             = SubSeq(submitted, c + d + 1, c + e)
      BY <2>2, <2>5, <3>1, <3>3, SubSeqOfSuffix
    <3>5. local_instructions' = SubSeq(local_instructions, d + 1, e)
      BY <2>1, <3>2 DEF d, e
    <3>6. QED  BY <2>3, <3>1, <3>3, <3>4, <3>5
  <2>11. TypeOK'
    <3>1. local_instructions' \in Seq(Nat)
      BY <2>2, <2>4, <2>10, SubSeqSlice
    <3>2. QED  BY <1>0, <1>1, <2>1, <2>8, <3>1 DEF TypeOK
  <2>12. HistoryInv'
    <3>1. ASSUME NEW k \in 1 .. Len(sent_states')
          PROVE  /\ sent_states'[k].state_id \in DOMAIN ends'
                 /\ sent_states'[k].instruction_end =
                       ends'[sent_states'[k].state_id] - ends'[Confirmed'.state_id]
                 /\ \A l \in 1 .. Len(sent_states') :
                       k < l => sent_states'[k].state_id < sent_states'[l].state_id
      <4>1. k \in 1 .. (n0 - i + 1)
        BY <2>8
      <4>2. ASSUME NEW l \in 1 .. Len(sent_states'), k < l
            PROVE  sent_states'[k].state_id < sent_states'[l].state_id
        <5>1. l \in 1 .. (n0 - i + 1)
          BY <2>8
        <5>2. k + i - 1 < l + i - 1
          BY <2>2, <4>1, <4>2, <5>1
        <5>3. k + i - 1 \in 1 .. n0 /\ l + i - 1 \in 1 .. n0
              /\ sent_states'[k].state_id = sent_states[k + i - 1].state_id
              /\ sent_states'[l].state_id = sent_states[l + i - 1].state_id
          BY <2>7, <4>1, <5>1
        <5>4. QED  BY <2>3, <5>2, <5>3
      <4>3. QED  BY <1>1, <2>7, <2>9, <4>1, <4>2
    <3>2. local_instructions' =
             SubSeq(submitted', ends'[Confirmed'.state_id] + 1, Len(submitted'))
      BY <1>1, <2>9, <2>10
    <3>3. /\ \A x, y \in DOMAIN ends' : x <= y => ends'[x] <= ends'[y]
          /\ \A x \in DOMAIN ends' :
                /\ ends'[x] <= Len(submitted')
                /\ x <= Newest'.state_id
                /\ x < next_local_state' \/ x = U64_MAX
          /\ ends'[Newest'.state_id] = Len(submitted')
      BY <1>0, <1>1, <2>1, <2>9 DEF HistoryInv
    <3>4. QED  BY <3>1, <3>2, <3>3 DEF HistoryInv
  <2>13. MessagesInv'
    <3>1. ASSUME NEW m \in to_server
          PROVE  m.discard <= a
      <4>1. m.discard <= Confirmed.state_id /\ m.discard \in DOMAIN ends
        BY <1>0 DEF MessagesInv, TypeOK
      <4>2. QED  BY <2>2, <2>4, <2>5, <4>1
    <3>2. QED  BY <1>0, <1>1, <2>9, <3>1 DEF MessagesInv
  <2>14. ServerInv'
    <3>1. a \in DOMAIN server_states
      BY <1>0, <2>4, <2>5 DEF ServerInv
    <3>2. ASSUME NEW x \in to_client, x >= a PROVE x \in DOMAIN server_states
      <4>1. x \in DOMAIN ends
        BY <1>0 DEF TypeOK
      <4>2. x >= Confirmed.state_id
        BY <2>2, <2>4, <2>5, <3>2, <4>1
      <4>3. QED  BY <1>0, <4>2 DEF ServerInv
    <3>3. QED  BY <1>0, <1>1, <2>9, <3>1, <3>2 DEF ServerInv
  <2>15. InputExactlyOnce'
    BY <1>0, <1>1 DEF InputExactlyOnce
  <2>16. QED  BY <2>11, <2>12, <2>13, <2>14, <2>15 DEF IInv
<1>4. QED  BY <1>2, <1>3

LEMMA StutterInv ==
    ASSUME IInv, UNCHANGED vars
    PROVE  IInv'
<1>1. UNCHANGED <<next_local_state, local_instructions, sent_states, server_states,
                  server_newest, to_server, to_client, submitted, ends>>
  BY DEF vars, sentVars, serverInputVars
<1>2. Confirmed' = Confirmed /\ Newest' = Newest
  BY <1>1 DEF Confirmed, Newest
<1>3. TypeOK' /\ InputExactlyOnce'
  BY <1>1 DEF IInv, TypeOK, InputExactlyOnce
<1>4. HistoryInv'
  BY <1>1, <1>2 DEF IInv, HistoryInv
<1>5. MessagesInv' /\ ServerInv'
  BY <1>1, <1>2 DEF IInv, MessagesInv, ServerInv
<1>6. QED  BY <1>3, <1>4, <1>5 DEF IInv

(***************************************************************************)
(* The theorems.                                                            *)
(***************************************************************************)
\* The inductive invariant holds for every bound on the history
\* (limit_sent_states) and every caller of build_update, build_shutdown and
\* retransmit_pending.
THEOREM Invariance == Spec => []IInv
<1>1. IInv /\ [Next]_vars => IInv'
  <2> SUFFICES ASSUME IInv, [Next]_vars PROVE IInv'
    OBVIOUS
  <2>1. ASSUME NEW k \in 0 .. MaxBatch, Update(k) PROVE IInv'
    BY <2>1, UpdateInv
  <2>2. ASSUME NEW k \in 0 .. MaxBatch, Shutdown(k) PROVE IInv'
    BY <2>2, ShutdownInv
  <2>3. CASE Retransmit
    BY <2>3, RetransmitInv
  <2>4. ASSUME NEW m \in to_server, ServerReceive(m) PROVE IInv'
    BY <2>4, ServerReceiveInv
  <2>5. CASE ServerSend
    BY <2>5, ServerSendInv
  <2>6. ASSUME NEW a \in to_client, Ingest(a) PROVE IInv'
    BY <2>6, IngestInv
  <2>7. CASE UNCHANGED vars
    BY <2>7, StutterInv
  <2>8. QED  BY <2>1, <2>2, <2>3, <2>4, <2>5, <2>6, <2>7 DEF Next
<1>2. QED  BY <1>1, InitInv, PTL DEF Spec

\* Every variable of the protocol, the server and the network keeps its type.
THEOREM TypeCorrect == Spec => []TypeOK
<1>1. IInv => TypeOK
  BY DEF IInv
<1>2. QED  BY <1>1, Invariance, PTL

\* The server reads each submitted instruction once and in order, however the
\* network loses, duplicates and reorders the updates, the retransmissions and
\* the acknowledgements, and whatever limit_sent_states forgets.
THEOREM ExactlyOnce == Spec => []InputExactlyOnce
<1>1. IInv => InputExactlyOnce
  BY DEF IInv
<1>2. QED  BY <1>1, Invariance, PTL

\* The confirmed state and the retained instructions always give all of the
\* input: process_acknowledgement drains nothing the server lacks.
THEOREM RetainedInput == Spec => []NothingLost
<1>1. IInv => NothingLost
  <2> SUFFICES ASSUME IInv PROVE NothingLost
    OBVIOUS
  <2> DEFINE c == ends[Confirmed.state_id]
  <2>1. Confirmed.state_id \in DOMAIN server_states
    BY DEF IInv, ServerInv
  <2>2. /\ Confirmed.state_id \in DOMAIN ends
        /\ server_states[Confirmed.state_id] = SubSeq(submitted, 1, c)
    BY <2>1 DEF IInv, InputExactlyOnce
  <2>3. c \in Nat /\ c <= Len(submitted) /\ submitted \in Seq(Nat) /\ Len(submitted) \in Nat
    BY <2>2 DEF IInv, TypeOK, HistoryInv
  <2>4. local_instructions = SubSeq(submitted, c + 1, Len(submitted))
    BY DEF IInv, HistoryInv
  <2> HIDE DEF c
  <2>5. SubSeq(submitted, 1, c) \o SubSeq(submitted, c + 1, Len(submitted))
           = SubSeq(submitted, 1, Len(submitted))
    <3>1. Len(submitted) <= Len(submitted)
      BY <2>3
    <3>2. QED  BY <2>3, <3>1, SubSeqJoin
  <2>6. SubSeq(submitted, 1, Len(submitted)) = submitted
    BY <2>3
  <2>7. QED  BY <2>1, <2>2, <2>4, <2>5, <2>6 DEF NothingLost
<1>2. QED  BY <1>1, Invariance, PTL

\* The slice retransmit_pending takes is inside the retained instructions and
\* reaches their end.
THEOREM SliceInRange == Spec => []EndsInRange
<1>1. IInv => EndsInRange
  <2> SUFFICES ASSUME IInv PROVE EndsInRange
    OBVIOUS
  <2> DEFINE c == ends[Confirmed.state_id]
  <2>1. /\ sent_states \in Seq(SentState) /\ Len(sent_states) \in 1 .. Len(sent_states)
        /\ 1 \in 1 .. Len(sent_states)
        /\ submitted \in Seq(Nat) /\ Len(submitted) \in Nat
        /\ \A a \in DOMAIN ends : ends[a] \in Nat
    BY DEF IInv, TypeOK
  <2>2. /\ \A a \in DOMAIN ends : ends[a] <= Len(submitted)
        /\ ends[Newest.state_id] = Len(submitted)
        /\ local_instructions = SubSeq(submitted, c + 1, Len(submitted))
        /\ \A i \in 1 .. Len(sent_states) :
              /\ sent_states[i].state_id \in DOMAIN ends
              /\ sent_states[i].instruction_end = ends[sent_states[i].state_id] - c
    BY DEF IInv, HistoryInv
  <2>3. c \in Nat /\ c <= Len(submitted)
    BY <2>1, <2>2 DEF Confirmed
  <2> HIDE DEF c
  <2>4. Len(local_instructions) = Len(submitted) - c
    <3>1. Len(SubSeq(submitted, c + 1, Len(submitted))) = Len(submitted) - c
      BY <2>1, <2>3, SubSeqSlice
    <3>2. QED  BY <3>1, <2>2
  <2>5. ASSUME NEW i \in 1 .. Len(sent_states)
        PROVE  sent_states[i].instruction_end <= Len(local_instructions)
    <3>1. ends[sent_states[i].state_id] \in Nat
          /\ ends[sent_states[i].state_id] <= Len(submitted)
      BY <2>1, <2>2
    <3>2. QED  BY <3>1, <2>1, <2>2, <2>3, <2>4
  <2>6. Newest.instruction_end = Len(local_instructions)
    BY <2>1, <2>2, <2>4 DEF Newest
  <2>7. QED  BY <2>5, <2>6 DEF EndsInRange
<1>2. QED  BY <1>1, Invariance, PTL

\* What the server has read is a prefix of the submitted input.
LEMMA ServerReads ==
    ASSUME IInv
    PROVE  /\ server_newest \in DOMAIN ends /\ server_newest \in 0 .. U64_MAX
           /\ ends[server_newest] \in Nat /\ ends[server_newest] <= Len(submitted)
           /\ submitted \in Seq(Nat) /\ Len(submitted) \in Nat
           /\ ServerInput = SubSeq(submitted, 1, ends[server_newest])
           /\ Len(ServerInput) = ends[server_newest]
<1>1. /\ server_newest \in DOMAIN server_states /\ server_newest \in DOMAIN ends
      /\ server_newest \in 0 .. U64_MAX /\ ends[server_newest] \in Nat
      /\ submitted \in Seq(Nat) /\ Len(submitted) \in Nat
  BY DEF IInv, TypeOK
<1>2. ends[server_newest] <= Len(submitted)
  BY <1>1 DEF IInv, HistoryInv
<1>3. ServerInput = SubSeq(submitted, 1, ends[server_newest])
  BY <1>1 DEF IInv, InputExactlyOnce, ServerInput
<1>4. Len(SubSeq(submitted, 1, ends[server_newest])) = ends[server_newest]
  BY <1>1, <1>2
<1>5. QED  BY <1>1, <1>2, <1>3, <1>4

\* The protocol, the network and the server implement the abstract input stream:
\* every step submits, lets the application read on, or changes neither.
THEOREM Refinement == Spec => ImplementsStream
<1>1. Init => Stream!Init
  BY DEF Init, ServerInputInit, Stream!Init, ServerInput
<1>2. IInv /\ IInv' /\ [Next]_vars => [Stream!Next]_(Stream!streamVars)
  <2> SUFFICES ASSUME IInv, IInv', [Next]_vars PROVE [Stream!Next]_(Stream!streamVars)
    OBVIOUS
  <2> USE DEF Stream!streamVars
  <2>1. ASSUME NEW k \in 0 .. MaxBatch, Update(k) \/ Shutdown(k) PROVE Stream!Submit
    <3>1. submitted' = submitted \o Batch(k) /\ UNCHANGED <<server_states, server_newest>>
      BY <2>1 DEF Update, Shutdown, Created, serverInputVars
    <3>2. Batch(k) \in Seq(Nat) /\ submitted \in Seq(Nat)
      BY PushTypes, ServerReads
    <3>3. Len(submitted') >= Len(submitted) /\ SubSeq(submitted', 1, Len(submitted)) = submitted
      BY <3>1, <3>2
    <3>4. ServerInput' = ServerInput
      BY <3>1 DEF ServerInput
    <3>5. QED  BY <3>3, <3>4 DEF Stream!Submit
  <2>2. CASE Retransmit \/ ServerSend \/ \E a \in to_client : Ingest(a)
    <3>1. UNCHANGED <<submitted, server_states, server_newest>>
      BY <2>2 DEF Retransmit, ServerSend, Ingest, serverInputVars
    <3>2. QED  BY <3>1 DEF ServerInput
  <2>3. ASSUME NEW m \in to_server, ServerReceive(m) PROVE Stream!Consume
    <3>1. /\ submitted' = submitted /\ ends' = ends
          /\ server_newest' = IF m.target > server_newest THEN m.target ELSE server_newest
      BY <2>3 DEF ServerReceive, ServerAccept
    <3>2. /\ server_newest \in DOMAIN ends /\ server_newest \in 0 .. U64_MAX
          /\ ends[server_newest] \in Nat
          /\ Len(ServerInput) = ends[server_newest] /\ Len(submitted) \in Nat
      BY ServerReads
    <3>3. /\ server_newest' \in DOMAIN ends'
          /\ DOMAIN ends \subseteq 0 .. U64_MAX
          /\ ends'[server_newest'] \in Nat
          /\ \A a, b \in DOMAIN ends : a <= b => ends[a] <= ends[b]
      BY <3>1 DEF IInv, TypeOK, HistoryInv
    <3>4. ends'[server_newest'] <= Len(submitted')
      BY <3>3 DEF IInv, HistoryInv
    <3>5. ServerInput' = SubSeq(submitted', 1, ends'[server_newest'])
      BY DEF IInv, TypeOK, InputExactlyOnce, ServerInput
    <3>6. server_newest <= server_newest'
      BY <3>1, <3>2, <3>3
    <3>7. ends[server_newest'] \in Len(ServerInput) .. Len(submitted)
      BY <3>1, <3>2, <3>3, <3>4, <3>6
    <3>8. QED  BY <3>1, <3>5, <3>7 DEF Stream!Consume
  <2>4. CASE UNCHANGED vars
    BY <2>4 DEF vars, serverInputVars, ServerInput
  <2>5. QED  BY <2>1, <2>2, <2>3, <2>4 DEF Next, Stream!Next
<1>3. QED  BY <1>1, <1>2, Invariance, PTL DEF Spec, ImplementsStream, Stream!Spec
=============================================================================
