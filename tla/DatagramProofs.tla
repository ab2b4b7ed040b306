--------------------------- MODULE DatagramProofs ---------------------------
(***************************************************************************)
(* What one datagram carries besides its message.                             *)
(*                                                                         *)
(* Its timestamp (RoundTrip), for every width of the timestamps, limit of the  *)
(* samples and bounds of the delay: a sample tells the time really spent on    *)
(* the way, and the estimates never leave the range of the samples.           *)
(*                                                                         *)
(* Its packet number (SecureChannel), for every width of the counter space     *)
(* and every size of the window: no nonce is reused, no packet is delivered    *)
(* twice, and reordering inside the window loses nothing.                     *)
(***************************************************************************)
EXTENDS SecureChannel, RoundTrip, TLAPS

\* The assumptions, one constant at a time.
LEMMA Bounds ==
    /\ WRAP \in Nat /\ WRAP > 0 /\ SAMPLE_LIMIT \in Nat /\ SAMPLE_LIMIT < WRAP
    /\ MINIMUM_DELAY \in Nat /\ MAXIMUM_DELAY \in Nat /\ MINIMUM_DELAY <= MAXIMUM_DELAY
    /\ INITIAL_DELAY \in MINIMUM_DELAY..MAXIMUM_DELAY
BY RoundTripAssumption

(***************************************************************************)
(* Timestamps.                                                              *)
(***************************************************************************)
\* A timestamp is its own remainder.
LEMMA Small ==
    ASSUME NEW w \in Nat, NEW x \in 0..(w - 1)
    PROVE  x % w = x
OBVIOUS

LEMMA Negative ==
    ASSUME NEW w \in Nat, NEW x \in (1 - w)..(-1)
    PROVE  x % w = x + w
OBVIOUS

LEMMA Remainder ==
    ASSUME NEW w \in Nat, w > 0, NEW x \in Int
    PROVE  x % w \in 0..(w - 1)
OBVIOUS

\* The remainder is the one below w that differs by whole turns.
LEMMA Turns ==
    ASSUME NEW w \in Nat, w > 0, NEW q \in Int, NEW r \in 0..(w - 1)
    PROVE  (q * w + r) % w = r
<1> DEFINE x == q * w + r
           d == x \div w
           s == x % w
<1>1. x \in Int /\ d \in Int /\ s \in 0..(w - 1) /\ x = d * w + s
  OBVIOUS
<1> HIDE DEF d, s
<1>2. (q - d) * w = s - r
  BY <1>1
<1>3. \A k \in Int : k >= 1 => k * w >= w
  OBVIOUS
<1>4. \A k \in Int : k <= -1 => k * w <= -w
  OBVIOUS
<1>5. q - d = 0
  BY <1>1, <1>2, <1>3, <1>4
<1>6. s = r
  BY <1>1, <1>2, <1>5
<1>7. QED  BY <1>6 DEF s

\* The clock steps on.
LEMMA OneMore ==
    ASSUME NEW w \in Nat, w > 0, NEW x \in Int
    PROVE  (x + 1) % w = IF x % w = w - 1 THEN 0 ELSE (x % w) + 1
<1> DEFINE d == x \div w
           r == x % w
<1>1. d \in Int /\ r \in 0..(w - 1) /\ x = d * w + r
  OBVIOUS
<1> HIDE DEF d, r
<1>2. CASE r = w - 1
  <2>1. x + 1 = (d + 1) * w + 0
    BY <1>1, <1>2
  <2>2. ((d + 1) * w + 0) % w = 0
    BY <1>1, Turns
  <2>3. QED  BY <1>2, <2>1, <2>2 DEF r
<1>3. CASE r # w - 1
  <2>1. x + 1 = d * w + (r + 1) /\ r + 1 \in 0..(w - 1)
    BY <1>1, <1>3
  <2>2. (d * w + (r + 1)) % w = r + 1
    BY <1>1, <2>1, Turns
  <2>3. QED  BY <1>3, <2>1, <2>2 DEF r
<1>4. QED  BY <1>2, <1>3

\* wrapping_sub gives the way from one timestamp to the other.
LEMMA AheadFacts ==
    ASSUME NEW now \in 0..(WRAP - 1), NEW stamp \in 0..(WRAP - 1)
    PROVE  /\ Ahead(now, stamp) \in 0..(WRAP - 1)
           /\ (now - stamp) % WRAP = Ahead(now, stamp)
<1>1. CASE now >= stamp
  <2>1. now - stamp \in 0..(WRAP - 1)
    BY <1>1, Bounds
  <2>2. QED  BY <1>1, <2>1, Bounds, Small DEF Ahead
<1>2. CASE now < stamp
  <2>1. now - stamp \in (1 - WRAP)..(-1) /\ now - stamp + WRAP \in 0..(WRAP - 1)
    BY <1>2, Bounds
  <2>2. (now - stamp) % WRAP = now - stamp + WRAP
    BY <2>1, Bounds, Negative
  <2>3. QED  BY <1>2, <2>1, <2>2, Bounds DEF Ahead
<1>3. QED  BY <1>1, <1>2, Bounds

\* The clock steps on by one.
LEMMA ClockStep ==
    ASSUME NEW now \in 0..(WRAP - 1)
    PROVE  (now + 1) % WRAP = IF now = WRAP - 1 THEN 0 ELSE now + 1
BY Bounds, Small, OneMore

\* Time on the way counts, time at the server moves both ends.
LEMMA AheadSteps ==
    ASSUME NEW now \in 0..(WRAP - 1), NEW stamp \in 0..(WRAP - 1), NEW spent \in Nat
    PROVE  /\ Tracks(Ahead(now, stamp), spent) =>
                 Tracks(Ahead((now + 1) % WRAP, stamp), spent + 1)
           /\ Ahead((now + 1) % WRAP, (stamp + 1) % WRAP) = Ahead(now, stamp)
<1>1. /\ (now + 1) % WRAP = IF now = WRAP - 1 THEN 0 ELSE now + 1
      /\ (stamp + 1) % WRAP = IF stamp = WRAP - 1 THEN 0 ELSE stamp + 1
  BY ClockStep
<1> DEFINE n == (now + 1) % WRAP
           m == (stamp + 1) % WRAP
<1> HIDE DEF n, m
<1>2. /\ n = IF now = WRAP - 1 THEN 0 ELSE now + 1
      /\ m = IF stamp = WRAP - 1 THEN 0 ELSE stamp + 1
  BY <1>1 DEF n, m
<1>3. Tracks(Ahead(now, stamp), spent) => Tracks(Ahead(n, stamp), spent + 1)
  BY <1>2, Bounds DEF Tracks, Ahead
<1>4. Ahead(n, m) = Ahead(now, stamp)
  BY <1>2, Bounds DEF Ahead
<1>5. QED  BY <1>3, <1>4 DEF n, m

(***************************************************************************)
(* The estimates.                                                           *)
(***************************************************************************)
EstimateType ==
    /\ smoothed \in {NoEstimate} \cup 0..SAMPLE_LIMIT
    /\ variation \in 0..SAMPLE_LIMIT
    /\ delay \in MINIMUM_DELAY..MAXIMUM_DELAY

\* A sample keeps the estimates within the samples' range and the delay in its bounds.
LEMMA SampleType ==
    ASSUME EstimateType, NEW sample \in 0..SAMPLE_LIMIT, RecordSample(sample)
    PROVE  EstimateType'
<1> USE Bounds
<1>1. /\ variation' = NextVariation(sample) /\ smoothed' = NextSmoothed(sample)
      /\ delay' = Clamped(NextSmoothed(sample) + 4 * NextVariation(sample))
  BY DEF RecordSample, NextDelay
<1>2. /\ NextVariation(sample) \in 0..SAMPLE_LIMIT
      /\ NextSmoothed(sample) \in 0..SAMPLE_LIMIT
  <2>1. CASE smoothed = NoEstimate
    BY <2>1 DEF NextVariation, NextSmoothed
  <2>2. CASE smoothed \in 0..SAMPLE_LIMIT
    <3>1. smoothed # NoEstimate
      BY <2>2 DEF NoEstimate
    <3>2. Difference(smoothed, sample) \in 0..SAMPLE_LIMIT
      BY <2>2 DEF Difference
    <3>3. variation \in 0..SAMPLE_LIMIT
      BY DEF EstimateType
    <3>4. \A d \in 0..SAMPLE_LIMIT : (3 * variation + d) \div 4 \in 0..SAMPLE_LIMIT
      BY <3>3
    <3>5. (7 * smoothed + sample) \div 8 \in 0..SAMPLE_LIMIT
      BY <2>2
    <3>6. QED  BY <3>1, <3>2, <3>4, <3>5 DEF NextVariation, NextSmoothed
  <2>3. QED  BY <2>1, <2>2 DEF EstimateType
<1>3. \A x \in Nat : Clamped(x) \in MINIMUM_DELAY..MAXIMUM_DELAY
  BY DEF Clamped
<1>4. NextSmoothed(sample) + 4 * NextVariation(sample) \in Nat
  BY <1>2
<1>5. QED  BY <1>1, <1>2, <1>3, <1>4 DEF EstimateType

(***************************************************************************)
(* The theorems.                                                            *)
(***************************************************************************)
LEMMA Assembled ==
    ASSUME clock' \in 0..(WRAP - 1), EstimateType', ProbeInv',
           sampled' \in [value : Nat, spent : Nat], SamplesHonest',
           steady' \in {NoEstimate} \cup 0..SAMPLE_LIMIT
    PROVE  RoundTripInv'
BY DEF RoundTripInv, EstimatesBounded, EstimateType

LEMMA RoundTripInitInv == RoundTripInit => RoundTripInv
<1> SUFFICES ASSUME RoundTripInit PROVE RoundTripInv
  OBVIOUS
<1> USE Bounds DEF RoundTripInit
<1>1. EstimatesBounded
  BY DEF EstimatesBounded, NoEstimate
<1>2. ProbeInv
  BY DEF ProbeInv, NoProbe
<1>3. sampled \in [value : Nat, spent : Nat] /\ SamplesHonest
  BY DEF SamplesHonest
<1>4. QED  BY <1>1, <1>2, <1>3 DEF RoundTripInv

\* Time passes.
LEMMA TickInv ==
    ASSUME RoundTripInv, Tick
    PROVE  RoundTripInv'
<1>1. /\ probe \in [leg : {"none", "out", "held", "back"}, stamp : 0..(WRAP - 1),
                    spent : Nat, held : Nat]
      /\ clock \in 0..(WRAP - 1) /\ clock' = (clock + 1) % WRAP
      /\ probe.leg # "none" /\ Tracks(Ahead(clock, EchoStamp), probe.spent)
      /\ probe.leg = "out" => probe.held = 0
      /\ UNCHANGED <<smoothed, variation, delay, sampled, steady>>
  BY DEF RoundTripInv, ProbeInv, EstimatesBounded, Tick
<1>2. clock' \in 0..(WRAP - 1)
  BY <1>1, Bounds, Remainder
<1>3. ProbeInv'
  <2>1. CASE probe.leg = "held"
    <3>1. probe' = [leg |-> "held", stamp |-> probe.stamp, spent |-> probe.spent,
                    held |-> probe.held + 1]
      BY <1>1, <2>1 DEF Tick
    <3> DEFINE x == probe.stamp + probe.held
    <3>2. x \in Nat /\ probe.stamp + (probe.held + 1) = x + 1 /\ EchoStamp = x % WRAP
      BY <1>1, <2>1, Bounds DEF EchoStamp
    <3>3. EchoStamp' = (x + 1) % WRAP
      BY <3>1, <3>2 DEF EchoStamp
    <3> HIDE DEF x
    <3>4. x % WRAP \in 0..(WRAP - 1)
      BY <3>2, Bounds, Remainder
    <3>5. ((x % WRAP) + 1) % WRAP = (x + 1) % WRAP
      <4>1. (x + 1) % WRAP = IF x % WRAP = WRAP - 1 THEN 0 ELSE (x % WRAP) + 1
        <5>1. x \in Int /\ WRAP \in Nat /\ WRAP > 0
          BY <3>2, Bounds
        <5>2. QED  BY <5>1, OneMore, Zenon
      <4>2. ((x % WRAP) + 1) % WRAP = IF x % WRAP = WRAP - 1 THEN 0 ELSE (x % WRAP) + 1
        BY <3>4, ClockStep
      <4>3. QED  BY <4>1, <4>2
    <3>6. Ahead(clock', EchoStamp') = Ahead(clock, EchoStamp)
      BY <1>1, <3>2, <3>3, <3>4, <3>5, AheadSteps
    <3>7. QED  BY <1>1, <3>1, <3>6 DEF ProbeInv
  <2>2. CASE probe.leg \in {"out", "back"}
    <3>1. probe' = [leg |-> probe.leg, stamp |-> probe.stamp, spent |-> probe.spent + 1,
                    held |-> probe.held]
      BY <1>1, <2>2 DEF Tick
    <3>2. EchoStamp = probe.stamp /\ EchoStamp' = probe.stamp
      BY <2>2, <3>1 DEF EchoStamp
    <3>3. Tracks(Ahead(clock', EchoStamp'), probe.spent + 1)
      BY <1>1, <3>2, AheadSteps
    <3>4. QED  BY <1>1, <2>2, <3>1, <3>3 DEF ProbeInv
  <2>3. QED  BY <1>1, <2>1, <2>2
<1>4. QED  BY <1>1, <1>2, <1>3, Assembled DEF RoundTripInv, EstimatesBounded, EstimateType, SamplesHonest

\* The probe on its way.
LEMMA ProbeMoves ==
    ASSUME RoundTripInv, SendProbe \/ ServerReads \/ ServerEchoes
    PROVE  RoundTripInv'
<1>1. /\ probe \in [leg : {"none", "out", "held", "back"}, stamp : 0..(WRAP - 1),
                    spent : Nat, held : Nat]
      /\ clock \in 0..(WRAP - 1)
      /\ probe.leg # "none" => Tracks(Ahead(clock, EchoStamp), probe.spent)
      /\ probe.leg = "out" => probe.held = 0
  BY DEF RoundTripInv, ProbeInv, EstimatesBounded
<1>2. UNCHANGED <<clock, smoothed, variation, delay, sampled, steady>>
  BY DEF SendProbe, ServerReads, ServerEchoes
<1>3. ProbeInv'
  <2>1. CASE SendProbe
    <3>1. probe' = [leg |-> "out", stamp |-> clock, spent |-> 0, held |-> 0]
      BY <2>1 DEF SendProbe, NoProbe, Timestamp
    <3>2. EchoStamp' = clock
      BY <3>1 DEF EchoStamp
    <3>3. Tracks(Ahead(clock, clock), 0)
      BY <1>1, Bounds DEF Tracks, Ahead
    <3>4. QED  BY <1>1, <1>2, <3>1, <3>2, <3>3 DEF ProbeInv
  <2>2. CASE ServerReads
    <3>1. /\ probe.leg = "out"
          /\ probe' = [leg |-> "held", stamp |-> probe.stamp, spent |-> probe.spent, held |-> 0]
      BY <1>1, <2>2 DEF ServerReads
    <3>2. EchoStamp = probe.stamp /\ EchoStamp' = (probe.stamp + 0) % WRAP
      BY <3>1 DEF EchoStamp
    <3>3. (probe.stamp + 0) % WRAP = probe.stamp
      BY <1>1, Bounds, Small
    <3>4. QED  BY <1>1, <1>2, <3>1, <3>2, <3>3 DEF ProbeInv
  <2>3. CASE ServerEchoes
    <3> DEFINE e == (probe.stamp + probe.held) % WRAP
    <3>1. /\ probe.leg = "held"
          /\ probe' = [leg |-> "back", stamp |-> e, spent |-> probe.spent, held |-> probe.held]
      BY <1>1, <2>3 DEF ServerEchoes
    <3>2. EchoStamp = e
      BY <3>1 DEF EchoStamp
    <3>3. e \in 0..(WRAP - 1)
      BY <1>1, Bounds, Remainder
    <3> HIDE DEF e
    <3>4. EchoStamp' = e
      BY <3>1 DEF EchoStamp
    <3>5. QED  BY <1>1, <1>2, <3>1, <3>2, <3>3, <3>4 DEF ProbeInv
  <2>4. QED  BY <2>1, <2>2, <2>3
<1>4. QED  BY <1>1, <1>2, <1>3, Assembled DEF RoundTripInv, EstimatesBounded, EstimateType, SamplesHonest

\* The echo comes back.
LEMMA EchoInv ==
    ASSUME RoundTripInv, ReceiveEcho
    PROVE  RoundTripInv'
<1>1. /\ probe \in [leg : {"none", "out", "held", "back"}, stamp : 0..(WRAP - 1),
                    spent : Nat, held : Nat]
      /\ clock \in 0..(WRAP - 1) /\ probe.leg = "back" /\ probe' = NoProbe
      /\ UNCHANGED <<clock, steady>>
      /\ Tracks(Ahead(clock, probe.stamp), probe.spent)
  BY DEF RoundTripInv, ProbeInv, EstimatesBounded, ReceiveEcho, EchoStamp
<1>2. ProbeInv'
  BY <1>1, Bounds DEF ProbeInv, NoProbe
<1> DEFINE v == Elapsed(probe.stamp)
<1>3. v = Ahead(clock, probe.stamp) /\ v \in 0..(WRAP - 1)
  BY <1>1, AheadFacts DEF Elapsed, Timestamp
<1>4. CASE probe.stamp # Sentinel /\ v <= SAMPLE_LIMIT
  <2>1. RecordSample(v) /\ sampled' = [value |-> v, spent |-> probe.spent]
    BY <1>4 DEF ReceiveEcho
  <2> HIDE DEF v
  <2>2. v \in 0..SAMPLE_LIMIT
    BY <1>3, <1>4, Bounds
  <2>3. EstimateType'
    BY <2>1, <2>2, SampleType DEF RoundTripInv, EstimatesBounded, EstimateType
  <2>4. sampled' \in [value : Nat, spent : Nat] /\ SamplesHonest'
    BY <1>1, <1>3, <2>1, <2>2, Bounds DEF SamplesHonest, Tracks
  <2>5. QED  BY <1>1, <1>2, <2>3, <2>4, Assembled DEF RoundTripInv
<1>5. CASE ~(probe.stamp # Sentinel /\ v <= SAMPLE_LIMIT)
  <2>1. UNCHANGED <<smoothed, variation, delay, sampled>>
    BY <1>5 DEF ReceiveEcho
  <2>2. QED  BY <1>1, <1>2, <2>1, Assembled DEF RoundTripInv, EstimatesBounded, EstimateType, SamplesHonest
<1>6. QED  BY <1>4, <1>5

\* Samples of a round trip that may change.
LEMMA SteadyInv ==
    ASSUME RoundTripInv, ChangeRoundTrip \/ SteadySample
    PROVE  RoundTripInv'
<1>1. CASE ChangeRoundTrip
  <2>1. ProbeInv'
    BY <1>1, Bounds DEF ChangeRoundTrip, ProbeInv, NoProbe
  <2>2. /\ clock' \in 0..(WRAP - 1) /\ sampled' \in [value : Nat, spent : Nat] /\ SamplesHonest'
        /\ steady' \in 0..SAMPLE_LIMIT /\ UNCHANGED <<smoothed, variation, delay>>
    BY <1>1, Bounds DEF ChangeRoundTrip, SamplesHonest
  <2>3. QED  BY <2>1, <2>2, Assembled DEF RoundTripInv, EstimatesBounded, EstimateType
<1>2. CASE SteadySample
  <2>1. steady \in 0..SAMPLE_LIMIT /\ RecordSample(steady)
        /\ UNCHANGED <<clock, probe, sampled, steady>>
    BY <1>2 DEF SteadySample, RoundTripInv
  <2>2. EstimateType'
    BY <2>1, SampleType DEF RoundTripInv, EstimatesBounded, EstimateType
  <2>3. ProbeInv'
    BY <2>1 DEF RoundTripInv, ProbeInv, EchoStamp
  <2>4. QED  BY <2>1, <2>2, <2>3, Assembled DEF RoundTripInv, EstimatesBounded, SamplesHonest
<1>3. QED  BY <1>1, <1>2

LEMMA RoundTripNextInv == RoundTripInv /\ [RoundTripNext]_roundTripVars => RoundTripInv'
<1> SUFFICES ASSUME RoundTripInv, [RoundTripNext]_roundTripVars PROVE RoundTripInv'
  OBVIOUS
<1>1. CASE Tick
  BY <1>1, TickInv
<1>2. CASE SendProbe \/ ServerReads \/ ServerEchoes
  BY <1>2, ProbeMoves
<1>3. CASE ReceiveEcho
  BY <1>3, EchoInv
<1>4. CASE ChangeRoundTrip \/ SteadySample
  BY <1>4, SteadyInv
<1>5. CASE UNCHANGED roundTripVars
  BY <1>5 DEF roundTripVars, RoundTripInv, EstimatesBounded, ProbeInv, EchoStamp, SamplesHonest
<1>6. QED  BY <1>1, <1>2, <1>3, <1>4, <1>5 DEF RoundTripNext

\* The clock is ahead of the timestamp by the time spent, up to whole turns, while the
\* datagram travels, waits at the server and comes back.
THEOREM RoundTripInvariance == RoundTripSpec => []RoundTripInv
BY RoundTripInitInv, RoundTripNextInv, PTL DEF RoundTripSpec

\* The smoothed round trip and its variation stay within the range of the samples, with
\* all the rounding of the integer divisions, and the delay within its bounds.
THEOREM EstimatesInBounds == RoundTripSpec => []EstimatesBounded
<1>1. RoundTripInv => EstimatesBounded
  BY DEF RoundTripInv
<1>2. QED  BY <1>1, RoundTripInvariance, PTL

\* Whatever the width of the timestamps and wherever they wrap, a sample is at most the
\* time spent on the way, and exactly that within one turn of the timestamps; the time at
\* the server never counts.
THEOREM HonestSamples == RoundTripSpec => []SamplesHonest
<1>1. RoundTripInv => SamplesHonest
  BY DEF RoundTripInv
<1>2. QED  BY <1>1, RoundTripInvariance, PTL

(***************************************************************************)
(* The packet numbers.                                                      *)
(***************************************************************************)
USE DirectionBitAssumption, WindowAssumption

\* Encode and the pair Sender, Counter are inverse to each other on the counters
\* seal_next can use: this is what keeps the two directions' nonces apart.
LEMMA EncodeDecode ==
    ASSUME NEW r \in PeerRole, NEW c \in 0 .. MAX_COUNTER
    PROVE  /\ Encode(r, c) \in Nat
           /\ Sender(Encode(r, c)) = r
           /\ Counter(Encode(r, c)) = c
BY DEF Encode, Sender, Counter, PeerRole, MAX_COUNTER

\* Nothing is sealed or delivered when the channels are created.
LEMMA InitInv == Init => IInv
BY DEF Init, IInv, TypeOK, Numbering, WindowExact, NonceNeverReused,
       DeliveredAtMostOnce, PeerRole, None, MAX_COUNTER, Packet

\* seal_next keeps the invariant: the new packet has a number above every number
\* sealed in its direction, and it has not been delivered.
LEMMA SealInv ==
    ASSUME IInv, NEW r \in PeerRole, SealNext(r)
    PROVE  IInv'
<1> DEFINE c == next_counter[r]
           new == [number |-> Encode(r, c), from |-> r, body |-> seals]
<1>1. /\ c \in 0 .. MAX_COUNTER
      /\ sealed' = sealed \cup {new}
      /\ next_counter' = [next_counter EXCEPT ![r] = CounterAfter(c)]
      /\ seals' = seals + 1
      /\ deliveries' = [b \in 0 .. seals |-> IF b = seals THEN 0 ELSE deliveries[b]]
      /\ highest' = highest /\ seen' = seen
  BY DEF IInv, TypeOK, SealNext, None, MAX_COUNTER
<1>2. /\ Encode(r, c) \in Nat
      /\ Sender(Encode(r, c)) = r
      /\ Counter(Encode(r, c)) = c
  BY <1>1, EncodeDecode
<1>3. TypeOK'
  <2>1. new \in Packet
    BY <1>1, <1>2 DEF Packet, IInv, TypeOK
  <2>2. next_counter' \in [PeerRole -> 0 .. MAX_COUNTER \cup {None}]
    BY <1>1 DEF IInv, TypeOK, CounterAfter, MAX_COUNTER, None
  <2>3. deliveries' \in [0 .. (seals' - 1) -> Nat]
    BY <1>1 DEF IInv, TypeOK
  <2>4. QED  BY <1>1, <2>1, <2>2, <2>3 DEF IInv, TypeOK
<1>4. \A p \in sealed : p.body \in 0 .. (seals - 1) /\ deliveries'[p.body] = deliveries[p.body]
  BY <1>1 DEF IInv, TypeOK, Numbering, Packet
<1>5. deliveries'[seals] = 0
  BY <1>1 DEF IInv, TypeOK
<1>6. Numbering'
  <2>1. ASSUME NEW p \in sealed'
        PROVE  /\ p.number = Encode(p.from, Counter(p.number))
               /\ p.from = Sender(p.number)
               /\ Counter(p.number) \in 0 .. MAX_COUNTER
               /\ next_counter'[p.from] # None =>
                      Counter(p.number) < next_counter'[p.from]
               /\ p.body < seals'
    <3>1. CASE p = new
      BY <3>1, <1>1, <1>2 DEF CounterAfter, MAX_COUNTER, None, IInv, TypeOK
    <3>2. CASE p \in sealed
      <4>1. p \in Packet /\ p.from \in PeerRole /\ p.body < seals
        BY <3>2 DEF IInv, TypeOK, Packet, Numbering
      <4>2. next_counter'[p.from] # None => Counter(p.number) < next_counter'[p.from]
        BY <3>2, <4>1, <1>1 DEF IInv, TypeOK, Numbering, CounterAfter, MAX_COUNTER, None
      <4>3. QED  BY <3>2, <4>1, <4>2, <1>1 DEF IInv, TypeOK, Numbering, Packet
    <3>3. QED  BY <3>1, <3>2, <1>1
  <2>2. \A p, q \in sealed' : p.body = q.body => p = q
    BY <1>1, <1>4 DEF IInv, Numbering, TypeOK
  <2>3. QED  BY <2>1, <2>2 DEF Numbering
<1>7. WindowExact'
  <2>1. ASSUME NEW p \in sealed', p.from = "Server"
        PROVE  IF deliveries'[p.body] = 0
               THEN highest # None /\ highest - Counter(p.number) \in 0 .. (REPLAY_WINDOW_BITS - 1)
                       => highest - Counter(p.number) \notin seen
               ELSE /\ highest # None
                    /\ Counter(p.number) <= highest
                    /\ highest - Counter(p.number) < REPLAY_WINDOW_BITS
                       => highest - Counter(p.number) \in seen
    <3>1. CASE p = new
      BY <2>1, <3>1, <1>1, <1>2, <1>5 DEF IInv, TypeOK, WindowExact, None, MAX_COUNTER
    <3>2. CASE p \in sealed
      BY <2>1, <3>2, <1>4 DEF IInv, WindowExact
    <3>3. QED  BY <3>1, <3>2, <1>1
  <2>2. \A p \in sealed' : p.from = "Client" => deliveries'[p.body] = 0
    BY <1>1, <1>4, <1>5 DEF IInv, WindowExact
  <2>3. next_counter'["Server"] # None => highest < next_counter'["Server"]
    BY <1>1 DEF IInv, TypeOK, WindowExact, CounterAfter, None, MAX_COUNTER, PeerRole
  <2>4. QED  BY <1>1, <2>1, <2>2, <2>3 DEF WindowExact
<1>8. NonceNeverReused'
  <2>1. ASSUME NEW p \in sealed, p.number = new.number PROVE FALSE
    <3>1. p.from = r /\ Counter(p.number) = c
      BY <2>1, <1>2 DEF IInv, Numbering
    <3>2. QED  BY <3>1, <1>1, <2>1 DEF IInv, Numbering, None, MAX_COUNTER
  <2>2. QED  BY <2>1, <1>1 DEF IInv, NonceNeverReused
<1>9. DeliveredAtMostOnce'
  BY <1>1, <1>4, <1>5 DEF IInv, DeliveredAtMostOnce, PeerRole
<1>10. QED  BY <1>3, <1>6, <1>7, <1>8, <1>9 DEF IInv

\* A delivered packet keeps the invariant: the window it leaves behind holds the
\* same counters as before and the new one, seen from the new top.
LEMMA IngestInv ==
    ASSUME IInv, NEW p \in sealed, IngestPacket(p)
    PROVE  IInv'
<1> DEFINE c == Counter(p.number)
           W == REPLAY_WINDOW_BITS
<1>1. /\ p \in Packet
      /\ p.from = "Server"
      /\ p.number = Encode(p.from, c)
      /\ c \in 0 .. MAX_COUNTER
      /\ p.body \in 0 .. (seals - 1)
      /\ next_counter["Server"] # None => c < next_counter["Server"]
  BY DEF IInv, TypeOK, Numbering, IngestPacket, Packet
<1>2. /\ deliveries' = [deliveries EXCEPT ![p.body] = @ + 1]
      /\ next_counter' = next_counter /\ sealed' = sealed /\ seals' = seals
      /\ Accepts(c) /\ Record(c)
  BY DEF IngestPacket
<1>3. \A q \in sealed : q.from = "Server" /\ Counter(q.number) = c => q = p
  BY <1>1 DEF IInv, Numbering, NonceNeverReused
<1>4. deliveries[p.body] = 0
  BY <1>1, <1>2 DEF IInv, TypeOK, WindowExact, Accepts, MAX_COUNTER, None
<1>5. TypeOK'
  <2>1. highest' \in 0 .. MAX_COUNTER \cup {None}
    BY <1>1, <1>2 DEF IInv, TypeOK, Record
  <2>2. seen' \subseteq 0 .. (W - 1)
    <3>1. seen \subseteq 0 .. (W - 1) /\ 0 \in 0 .. (W - 1)
      BY DEF IInv, TypeOK
    <3>2. CASE highest = None \/ c > highest
      BY <3>1, <3>2, <1>2 DEF Record, Shifted
    <3>3. CASE ~(highest = None \/ c > highest)
      <4>1. highest \in 0 .. MAX_COUNTER /\ highest - c < W /\ c <= highest
        BY <3>3, <1>1, <1>2 DEF IInv, TypeOK, Accepts, MAX_COUNTER
      <4>2. highest - c \in 0 .. (W - 1) /\ seen' = seen \cup {highest - c}
        BY <3>3, <4>1, <1>1, <1>2 DEF Record, MAX_COUNTER
      <4>3. QED  BY <4>2, <3>1
    <3>4. QED  BY <3>2, <3>3
  <2>3. deliveries' \in [0 .. (seals - 1) -> Nat]
    BY <1>1, <1>2 DEF IInv, TypeOK
  <2>4. QED  BY <1>2, <2>1, <2>2, <2>3 DEF IInv, TypeOK
<1>6. Numbering'
  BY <1>2 DEF IInv, Numbering
<1>7. NonceNeverReused'
  BY <1>2 DEF IInv, NonceNeverReused
<1>8. \A q \in sealed : q # p =>
         q.body \in 0 .. (seals - 1) /\ deliveries'[q.body] = deliveries[q.body]
  BY <1>1, <1>2 DEF IInv, TypeOK, Numbering, Packet
<1>9. deliveries'[p.body] = 1
  BY <1>1, <1>2, <1>4 DEF IInv, TypeOK
<1>10. DeliveredAtMostOnce'
  BY <1>1, <1>2, <1>8, <1>9 DEF IInv, DeliveredAtMostOnce
<1>11. /\ highest' \in 0 .. MAX_COUNTER /\ c <= highest'
       /\ highest' = c \/ highest' = highest
       /\ highest # None => highest <= highest'
       /\ highest' - c < W /\ highest' - c \in seen'
  BY <1>1, <1>2 DEF IInv, TypeOK, Record, Shifted, Accepts, MAX_COUNTER, None
<1>12. ASSUME NEW q \in sealed, q # p, q.from = "Server"
       PROVE  IF deliveries'[q.body] = 0
              THEN highest' # None /\ highest' - Counter(q.number) \in 0 .. (W - 1)
                      => highest' - Counter(q.number) \notin seen'
              ELSE /\ highest' # None
                   /\ Counter(q.number) <= highest'
                   /\ highest' - Counter(q.number) < W
                      => highest' - Counter(q.number) \in seen'
  <2> DEFINE d == Counter(q.number)
  <2>1. d \in 0 .. MAX_COUNTER /\ d # c
    BY <1>3, <1>12 DEF IInv, Numbering
  <2>2. deliveries'[q.body] = deliveries[q.body]
    BY <1>8, <1>12
  <2>3. IF deliveries[q.body] = 0
        THEN highest # None /\ highest - d \in 0 .. (W - 1) => highest - d \notin seen
        ELSE highest # None /\ d <= highest /\ (highest - d < W => highest - d \in seen)
    BY <1>12 DEF IInv, WindowExact
  <2>4. seen \subseteq 0 .. (W - 1) /\ highest \in 0 .. MAX_COUNTER \cup {None}
    BY DEF IInv, TypeOK
  <2>5. CASE highest = None
    BY <2>5, <2>1, <2>2, <2>3, <1>1, <1>2 DEF Record, None, MAX_COUNTER
  <2>6. CASE highest # None /\ c > highest
    <3>1. highest' = c
      BY <2>6, <1>2 DEF Record
    <3>2. seen' = IF c - highest >= W THEN {0} ELSE Shifted(c - highest)
      BY <2>6, <1>2 DEF Record
    <3>3. \A a \in 0 .. (W - 1) : a \in seen' <=> a = 0 \/ a - (c - highest) \in seen
      BY <3>2, <2>6, <2>4, <1>1 DEF Shifted, MAX_COUNTER, None
    <3>4. c - d - (c - highest) = highest - d
      BY <2>1, <2>4, <2>6, <1>1 DEF MAX_COUNTER, None
    <3>5. c - d # 0
      BY <2>1, <1>1 DEF MAX_COUNTER
    <3>6. QED
      BY <3>1, <3>3, <3>4, <3>5, <2>1, <2>2, <2>3, <2>4, <2>6, <1>1 DEF MAX_COUNTER, None
  <2>7. CASE highest # None /\ ~(c > highest)
    BY <2>7, <2>1, <2>2, <2>3, <2>4, <1>1, <1>2 DEF Record, MAX_COUNTER, None
  <2>8. QED  BY <2>5, <2>6, <2>7
<1>13. WindowExact'
  <2>1. next_counter["Server"] # None => highest' < next_counter["Server"]
    BY <1>1, <1>11 DEF IInv, WindowExact
  <2>2. \A q \in sealed : q.from = "Client" => deliveries'[q.body] = 0
    BY <1>1, <1>8 DEF IInv, WindowExact
  <2>3. /\ highest' # None /\ c <= highest'
        /\ highest' - c < W => highest' - c \in seen'
    BY <1>11 DEF None, MAX_COUNTER
  <2>4. QED  BY <1>1, <1>2, <1>9, <1>12, <2>1, <2>2, <2>3 DEF WindowExact
<1>14. QED  BY <1>5, <1>6, <1>7, <1>10, <1>13 DEF IInv

\* The invariant of the secure channel: packet numbers are unique and the window
\* records exactly what was delivered inside it.
THEOREM Invariance == Spec => []IInv
<1>1. IInv /\ [Next]_vars => IInv'
  <2>1. ASSUME IInv, UNCHANGED vars PROVE IInv'
    BY <2>1 DEF vars, IInv, TypeOK, Numbering, WindowExact, NonceNeverReused,
                DeliveredAtMostOnce
  <2>2. QED  BY <2>1, SealInv, IngestInv DEF Next
<1>2. QED  BY InitInv, <1>1, PTL DEF Spec

\* Every variable of the channel keeps its type.
THEOREM TypeCorrect == Spec => []TypeOK
BY Invariance, PTL DEF IInv

\* seal_next never uses a nonce twice, at either end, up to exhaustion.
THEOREM NonceSafety == Spec => []NonceNeverReused
BY Invariance, PTL DEF IInv

\* ReplayWindow::accept lets no packet through twice.
THEOREM ReplaySafety == Spec => []DeliveredAtMostOnce
BY Invariance, PTL DEF IInv

\* ReplayWindow::accept refuses no new packet that is still inside the window.
THEOREM ReorderingTolerated == Spec => []ReorderedStillAccepted
<1>1. IInv => ReorderedStillAccepted
  BY DEF IInv, TypeOK, Numbering, WindowExact, ReorderedStillAccepted, Accepts,
         None, MAX_COUNTER
<1>2. QED  BY Invariance, <1>1, PTL
=============================================================================
