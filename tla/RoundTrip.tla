------------------------------ MODULE RoundTrip ------------------------------
(***************************************************************************)
(* Round-trip estimation (ferrumtty-runtime): timestamps of w bits that wrap,  *)
(* samples from echoed timestamps, and the retransmission delay that follows   *)
(* them with integer arithmetic.                                             *)
(*                                                                         *)
(* The server is external: it echoes the timestamp of the last datagram it     *)
(* read, advanced by the time it held it.  The clock is kept modulo WRAP; a    *)
(* probe remembers how long it really spent on the way.                       *)
(***************************************************************************)
EXTENDS Integers

CONSTANTS
    WRAP,           \* 2^16 in the code
    SAMPLE_LIMIT,   \* 30 000 in the code
    INITIAL_DELAY, MINIMUM_DELAY, MAXIMUM_DELAY,
    MaxSpent,       \* bound: the time on the way, more than WRAP
    MaxHeld,        \* bound: the time at the server
    MaxProbes       \* bound: samples of probes, before the direct ones

ASSUME RoundTripAssumption ==
    /\ WRAP \in Nat \ {0} /\ SAMPLE_LIMIT \in 0..(WRAP - 1)
    /\ MINIMUM_DELAY \in Nat /\ MAXIMUM_DELAY \in Nat /\ MINIMUM_DELAY <= MAXIMUM_DELAY
    /\ INITIAL_DELAY \in MINIMUM_DELAY..MAXIMUM_DELAY
    /\ {MaxSpent, MaxHeld, MaxProbes} \subseteq Nat

VARIABLES
    clock,      \* the host's time, modulo WRAP
    probe,      \* the datagram and its echo: [leg, stamp, spent, held]
    smoothed,   \* smoothed_round_trip_milliseconds, or NoEstimate
    variation,  \* round_trip_variation_milliseconds
    delay,      \* retransmit_milliseconds
    sampled,    \* the last sample of a probe and the time it really spent
    probes,     \* how many were sampled
    steady      \* the round trip of direct samples, or NoEstimate

roundTripVars == <<clock, probe, smoothed, variation, delay, sampled, probes, steady>>

NoEstimate == -1
NoProbe == [leg |-> "none", stamp |-> 0, spent |-> 0, held |-> 0]
Sentinel == WRAP - 1

RoundTripInit ==
    /\ clock \in {0, WRAP - 1}
    /\ probe = NoProbe
    /\ smoothed = NoEstimate /\ variation = 0
    /\ delay = INITIAL_DELAY
    /\ sampled = [value |-> 0, spent |-> 0]
    /\ probes = 0
    /\ steady = NoEstimate

(***************************************************************************)
(* update_retransmit_timeout.  The sums stay far below 2^64.                  *)
(***************************************************************************)
Difference(a, b) == IF a < b THEN b - a ELSE a - b
Clamped(value) == IF value < MINIMUM_DELAY THEN MINIMUM_DELAY
                  ELSE IF value > MAXIMUM_DELAY THEN MAXIMUM_DELAY ELSE value

NextVariation(sample) ==
    IF smoothed = NoEstimate THEN sample \div 2
    ELSE (3 * variation + Difference(smoothed, sample)) \div 4

\* A bug the properties must catch: the weights add up to more than the divisor.
NextSmoothed_Heavy(sample) ==
    IF smoothed = NoEstimate THEN sample ELSE (8 * smoothed + sample) \div 8

NextSmoothed(sample) ==
    IF smoothed = NoEstimate THEN sample ELSE (7 * smoothed + sample) \div 8

\* A bug the properties must catch: the variation is left out.
NextDelay_NoVariation(sample) == Clamped(NextSmoothed(sample))

NextDelay(sample) == Clamped(NextSmoothed(sample) + 4 * NextVariation(sample))

\* record_round_trip_sample.
RecordSample(sample) ==
    /\ variation' = NextVariation(sample)
    /\ smoothed' = NextSmoothed(sample)
    /\ delay' = NextDelay(sample)

(***************************************************************************)
(* Probes.                                                                  *)
(***************************************************************************)
\* timestamp.
Timestamp == clock

Tick ==
    /\ steady = NoEstimate
    /\ probe.leg # "none"
    /\ probe.leg = "held" => probe.held < MaxHeld
    /\ probe.leg \in {"out", "back"} => probe.spent < MaxSpent
    /\ clock' = (clock + 1) % WRAP
    /\ probe' = [probe EXCEPT !.spent = IF probe.leg = "held" THEN @ ELSE @ + 1,
                              !.held = IF probe.leg = "held" THEN @ + 1 ELSE @]
    /\ UNCHANGED <<smoothed, variation, delay, sampled, probes, steady>>

SendProbe ==
    /\ steady = NoEstimate /\ probe = NoProbe /\ probes < MaxProbes
    /\ probe' = [NoProbe EXCEPT !.leg = "out", !.stamp = Timestamp]
    /\ UNCHANGED <<clock, smoothed, variation, delay, sampled, probes, steady>>

\* The server reads it, and later answers with the advanced timestamp.
ServerReads ==
    /\ probe.leg = "out"
    /\ probe' = [probe EXCEPT !.leg = "held"]
    /\ UNCHANGED <<clock, smoothed, variation, delay, sampled, probes, steady>>

ServerEchoes ==
    /\ probe.leg = "held"
    /\ probe' = [probe EXCEPT !.leg = "back", !.stamp = (@ + probe.held) % WRAP]
    /\ UNCHANGED <<clock, smoothed, variation, delay, sampled, probes, steady>>

\* A bug the properties must catch: the difference does not wrap.
Elapsed_Saturating(echoed) == IF Timestamp < echoed THEN 0 ELSE Timestamp - echoed

\* wrapping_sub.
Elapsed(echoed) == (Timestamp - echoed) % WRAP

\* receive_datagram: the sentinel is no echo, and long times are not believed.
ReceiveEcho ==
    /\ probe.leg = "back"
    /\ probe' = NoProbe
    /\ IF probe.stamp # Sentinel /\ Elapsed(probe.stamp) <= SAMPLE_LIMIT
       THEN /\ RecordSample(Elapsed(probe.stamp))
            /\ sampled' = [value |-> Elapsed(probe.stamp), spent |-> probe.spent]
            /\ probes' = probes + 1
       ELSE UNCHANGED <<smoothed, variation, delay, sampled, probes>>
    /\ UNCHANGED <<clock, steady>>

(***************************************************************************)
(* Many samples of a round trip that may change.                             *)
(***************************************************************************)
ChangeRoundTrip ==
    /\ probe = NoProbe
    /\ steady' \in 0..SAMPLE_LIMIT
    /\ clock' = 0 /\ sampled' = [value |-> 0, spent |-> 0] /\ probes' = MaxProbes
    /\ UNCHANGED <<probe, smoothed, variation, delay>>

SteadySample ==
    /\ steady # NoEstimate
    /\ RecordSample(steady)
    /\ UNCHANGED <<clock, probe, sampled, probes, steady>>

RoundTripNext ==
    \/ Tick \/ SendProbe \/ ServerReads \/ ServerEchoes \/ ReceiveEcho
    \/ ChangeRoundTrip \/ SteadySample

\* While the server is heard its datagrams keep bringing samples.
RoundTripSpec ==
    RoundTripInit /\ [][RoundTripNext]_roundTripVars /\ WF_roundTripVars(SteadySample)

(***************************************************************************)
(* Properties.                                                              *)
(***************************************************************************)
\* The estimates never leave the range of the samples they are made of, and the delay
\* stays within its bounds.
EstimatesBounded ==
    /\ clock \in 0..(WRAP - 1)
    /\ smoothed \in {NoEstimate} \cup 0..SAMPLE_LIMIT
    /\ variation \in 0..SAMPLE_LIMIT
    /\ delay \in MINIMUM_DELAY..MAXIMUM_DELAY

\* A sample never exceeds the time that its datagram and the echo really spent on the way,
\* however long the server held it and wherever the timestamps wrap, and it is exact
\* unless that was a whole turn of the timestamps or more.
SamplesHonest ==
    /\ sampled.value <= sampled.spent
    /\ sampled.spent < WRAP => sampled.value = sampled.spent

\* When the round trip settles, so does the delay: at most 3 ms below it, which is what the
\* rounding loses, and at most 21 ms above it, within its bounds.  Retransmissions then
\* neither run ahead of the answers nor lag behind them.
DelaySettles ==
    \A trip \in 0..SAMPLE_LIMIT :
        <>[](steady = trip) => <>[](delay \in Clamped(trip - 3)..Clamped(trip + 21))

(***************************************************************************)
(* The inductive invariant: how far the clock is ahead of the timestamp that    *)
(* would be echoed now tells the time spent, up to whole turns.               *)
(***************************************************************************)
\* The timestamp of the echo, if the server answered now.
EchoStamp == IF probe.leg = "held" THEN (probe.stamp + probe.held) % WRAP ELSE probe.stamp

\* From one timestamp to another, going round once at most.
Ahead(now, stamp) == IF now >= stamp THEN now - stamp ELSE now - stamp + WRAP

Tracks(value, spent) == value <= spent /\ (spent < WRAP => value = spent)

ProbeInv ==
    /\ probe \in [leg : {"none", "out", "held", "back"}, stamp : 0..(WRAP - 1),
                  spent : Nat, held : Nat]
    /\ probe.leg \in {"none", "out"} => probe.held = 0
    /\ probe.leg # "none" => Tracks(Ahead(clock, EchoStamp), probe.spent)

RoundTripInv ==
    /\ EstimatesBounded
    /\ ProbeInv
    /\ sampled \in [value : Nat, spent : Nat] /\ SamplesHonest
    /\ steady \in {NoEstimate} \cup 0..SAMPLE_LIMIT
==============================================================================
