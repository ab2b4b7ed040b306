-------------------------- MODULE FragmentAssembly --------------------------
(***************************************************************************)
(* Fragments (ferrumtty-wire): how a message is split into datagrams, and     *)
(* how ingest_packet puts the datagrams of many messages together again       *)
(* (FragmentAccumulator and the table of assemblies in ferrumtty-session).    *)
(*                                                                         *)
(* A byte is a position in its message.  The peer sends message after         *)
(* message, each under an identifier of its own, and repeats any of them; a    *)
(* fragment may be lost, late and, as part of a repeated message, seen again. *)
(***************************************************************************)
EXTENDS Integers, FiniteSets, SequencesExt

CONSTANTS
    MAX_FRAGMENT_BODY_BYTES,     \* 1214 in the code
    MAX_RECEIVED_FRAGMENT_BODY_BYTES,  \* 1300 in the code
    FINAL_FRAGMENT_BIT,          \* 2^15 in the code
    MAXIMUM_REASSEMBLED_BYTES,   \* 16 MiB in the code
    MAXIMUM_ACTIVE_ASSEMBLIES,   \* 64 in the code
    Lengths                      \* the lengths of the messages, in the order sent

ASSUME FragmentAssumption ==
    /\ {MAX_FRAGMENT_BODY_BYTES, FINAL_FRAGMENT_BIT, MAXIMUM_REASSEMBLED_BYTES,
        MAXIMUM_ACTIVE_ASSEMBLIES} \subseteq Nat \ {0}
    /\ MAX_RECEIVED_FRAGMENT_BODY_BYTES \in Nat
    /\ MAX_FRAGMENT_BODY_BYTES <= MAX_RECEIVED_FRAGMENT_BODY_BYTES
    /\ Lengths \in Seq(Nat)

VARIABLES
    assemblies,   \* identifier -> accumulator
    sent,         \* messages sent so far
    handed,       \* identifier -> the fragment indexes that reached an accumulator
    received      \* identifier -> the messages ingest_packet returned for it

vars == <<assemblies, sent, handed, received>>

Identifiers == 1 .. Len(Lengths)
Message(id) == [k \in 1 .. Lengths[id] |-> <<id, k>>]

(***************************************************************************)
(* Splitting.                                                               *)
(***************************************************************************)
\* A bug the properties must catch: one chunk too many is counted when the message
\* fills its last fragment.
ChunkCount_FloorPlusOne(length) == length \div MAX_FRAGMENT_BODY_BYTES + 1

\* An empty message is one empty fragment.
ChunkCount(length) ==
    LET bytes == IF length = 0 THEN 1 ELSE length
    IN  (bytes + MAX_FRAGMENT_BODY_BYTES - 1) \div MAX_FRAGMENT_BODY_BYTES

\* split fails for a message that needs more fragments than the index can count.
Splittable(length) == ChunkCount(length) <= FINAL_FRAGMENT_BIT

Fragment(id, message, index) ==
    [state_id |-> id, index |-> index, is_final |-> index + 1 = ChunkCount(Len(message)),
     body |-> SubSeq(message, index * MAX_FRAGMENT_BODY_BYTES + 1,
                     IF (index + 1) * MAX_FRAGMENT_BODY_BYTES < Len(message)
                     THEN (index + 1) * MAX_FRAGMENT_BODY_BYTES ELSE Len(message))]

\* chunks stops where the message ends, whatever was counted.
ChunkIndexes(message) ==
    {i \in 0 .. Len(message) : i = 0 \/ i * MAX_FRAGMENT_BODY_BYTES < Len(message)}
Split(id, message) == {Fragment(id, message, i) : i \in ChunkIndexes(message)}

\* encode and parse: the index and the final bit share one word.
Encode(f) ==
    [state_id |-> f.state_id, body |-> f.body,
     word |-> (f.index % FINAL_FRAGMENT_BIT) + (IF f.is_final THEN FINAL_FRAGMENT_BIT ELSE 0)]

\* parse refuses a body larger than any the supported peers send.
Parses(p) == Len(p.body) <= MAX_RECEIVED_FRAGMENT_BODY_BYTES

Parse(p) ==
    [state_id |-> p.state_id, body |-> p.body, index |-> p.word % FINAL_FRAGMENT_BIT,
     is_final |-> p.word >= FINAL_FRAGMENT_BIT]

(***************************************************************************)
(* FragmentAccumulator.                                                     *)
(***************************************************************************)
NoIndex == -1
NewAccumulator == [fragments |-> <<>>, final_index |-> NoIndex, total_bytes |-> 0]

\* The index is beyond the known end, or this end contradicts what is known.
Inconsistent(a, f) ==
    \/ a.final_index # NoIndex /\ f.index > a.final_index
    \/ /\ f.is_final
       /\ \/ a.final_index # NoIndex /\ a.final_index # f.index
          \/ \E i \in DOMAIN a.fragments : i > f.index

Ended(a, f) == IF f.is_final THEN [a EXCEPT !.final_index = f.index] ELSE a

\* The accumulator after push.  The end is recorded before a conflicting body is
\* refused, and the bytes of an oversized fragment stay counted.
Pushed(a, f) ==
    IF Inconsistent(a, f) THEN a
    ELSE IF f.index \in DOMAIN a.fragments THEN Ended(a, f)
    ELSE LET counted == [Ended(a, f) EXCEPT !.total_bytes = @ + Len(f.body)]
         IN  IF counted.total_bytes > MAXIMUM_REASSEMBLED_BYTES THEN counted
             ELSE [counted EXCEPT !.fragments =
                      [i \in DOMAIN a.fragments \cup {f.index} |->
                          IF i = f.index THEN f.body ELSE a.fragments[i]]]

\* push went through: it reaches try_complete.
PushSucceeds(a, f) ==
    /\ ~Inconsistent(a, f)
    /\ IF f.index \in DOMAIN a.fragments THEN a.fragments[f.index] = f.body
       ELSE a.total_bytes + Len(f.body) <= MAXIMUM_REASSEMBLED_BYTES

\* A bug the properties must catch: the end counts as all.
Complete_Early(a) ==
    a.final_index # NoIndex /\ Cardinality(DOMAIN a.fragments) >= a.final_index

\* try_complete.
Complete(a) ==
    a.final_index # NoIndex /\ Cardinality(DOMAIN a.fragments) = a.final_index + 1

Assembled(a) ==
    FlattenSeq([i \in 1 .. Cardinality(DOMAIN a.fragments) |->
                   IF i - 1 \in DOMAIN a.fragments THEN a.fragments[i - 1] ELSE <<>>])

(***************************************************************************)
(* ingest_packet, from the authenticated plaintext to the complete message.   *)
(***************************************************************************)
Assembly(id) == IF id \in DOMAIN assemblies THEN assemblies[id] ELSE NewAccumulator

\* TooManyActiveAssemblies: a message that is new to a full table is turned away.
Admits(id) ==
    id \in DOMAIN assemblies \/ Cardinality(DOMAIN assemblies) < MAXIMUM_ACTIVE_ASSEMBLIES

Without(id) == [i \in DOMAIN assemblies \ {id} |-> assemblies[i]]
With(id, a) == [i \in DOMAIN assemblies \cup {id} |-> IF i = id THEN a ELSE assemblies[i]]

\* A packet that parse or the table refuses changes nothing.
Ingest(packet) ==
    LET f == Parse(packet)
        a == Pushed(Assembly(f.state_id), f)
    IN  /\ Parses(packet) /\ Admits(f.state_id)
        /\ handed' = [handed EXCEPT ![f.state_id] = @ \cup {f.index}]
        /\ IF PushSucceeds(Assembly(f.state_id), f) /\ Complete(a)
           THEN /\ assemblies' = Without(f.state_id)
                /\ received' = [received EXCEPT ![f.state_id] = @ \cup {Assembled(a)}]
           ELSE /\ assemblies' = With(f.state_id, a)
                /\ UNCHANGED received
        /\ UNCHANGED sent

(***************************************************************************)
(* The peer and the network.                                                *)
(***************************************************************************)
Init ==
    /\ assemblies = <<>>
    /\ sent = 0
    /\ handed = [id \in Identifiers |-> {}]
    /\ received = [id \in Identifiers |-> {}]

\* The peer's next message; one that cannot be split is never sent.
Send ==
    /\ sent < Len(Lengths)
    /\ sent' = sent + 1
    /\ UNCHANGED <<assemblies, handed, received>>

Packets ==
    UNION {{Encode(f) : f \in Split(id, Message(id))} :
              id \in {i \in 1 .. sent : Splittable(Lengths[i])}}

\* Bound: nothing more arrives of a message that was found too large.
Next ==
    \/ Send
    \/ \E packet \in Packets :
          /\ Assembly(packet.state_id).total_bytes <= MAXIMUM_REASSEMBLED_BYTES
          /\ Ingest(packet)

Spec == Init /\ [][Next]_vars

\* The peer sends all its messages and keeps repeating the last one, of which every
\* fragment arrives again and again.
LastArrives(index) ==
    \E packet \in Packets :
        /\ packet.state_id = Len(Lengths) /\ Parse(packet).index = index
        /\ Ingest(packet)
FairSpec ==
    /\ Spec
    /\ WF_vars(Send)
    /\ \A index \in 0 .. (FINAL_FRAGMENT_BIT - 1) : WF_vars(LastArrives(index))

(***************************************************************************)
(* Properties.                                                              *)
(***************************************************************************)
\* Whatever order the fragments of several messages arrive in, however often and
\* however many are missing, ingest_packet returns a message as it was sent or not
\* at all (push and try_complete, fragment.rs:163-229).
ReassembledExactly == \A id \in Identifiers : received[id] \subseteq {Message(id)}

\* A message within the size limit has been returned once each of its fragments came
\* while the table held the message or had room for it, in any order, any of them
\* several times and whatever was refused, lost or left incomplete in between: a full
\* table costs the fragments it turns away (lib.rs:328-329) and nothing that it took in.
IntactMessageReceived ==
    \A id \in 1 .. sent :
        (/\ Splittable(Lengths[id]) /\ Lengths[id] <= MAXIMUM_REASSEMBLED_BYTES
         /\ handed[id] = ChunkIndexes(Message(id))) => Message(id) \in received[id]

(***************************************************************************)
(* The inductive invariant.  An accumulator holds some chunks of its message,  *)
(* knows its end from the last of them, counts the bytes of those it holds,    *)
(* and is never left complete.  It holds every fragment that reached it.       *)
(***************************************************************************)
Count(id) == ChunkCount(Lengths[id])
Chunk(id, index) == Fragment(id, Message(id), index).body
Sendable == {id \in 1 .. sent : Splittable(Lengths[id])}
Bounded(id) == Lengths[id] <= MAXIMUM_REASSEMBLED_BYTES

\* Some chunks of a message.
Partial(id) == {[i \in held |-> Chunk(id, i)] : held \in SUBSET (0 .. (Count(id) - 1))}

\* What a number of chunks of a message have in bytes; only the last may be short.
Bytes(id, held) ==
    IF Count(id) - 1 \in held
    THEN Lengths[id] - (Count(id) - Cardinality(held)) * MAX_FRAGMENT_BODY_BYTES
    ELSE Cardinality(held) * MAX_FRAGMENT_BODY_BYTES

Sound(id, a) ==
    /\ a \in [fragments : Partial(id), final_index : {NoIndex, Count(id) - 1}, total_bytes : Nat]
    /\ Count(id) - 1 \in DOMAIN a.fragments => a.final_index = Count(id) - 1
    /\ Bounded(id) => a.total_bytes = Bytes(id, DOMAIN a.fragments)

TypeInv ==
    /\ sent \in 0 .. Len(Lengths)
    /\ DOMAIN handed = Identifiers /\ DOMAIN received = Identifiers
    /\ \A id \in Identifiers : id > sent => handed[id] = {}

AssembliesInv ==
    /\ DOMAIN assemblies \subseteq Sendable
    /\ \A id \in DOMAIN assemblies : Sound(id, assemblies[id])

HandedInv ==
    \A id \in Sendable :
        Bounded(id) /\ Message(id) \notin received[id] =>
            /\ handed[id] = DOMAIN Assembly(id).fragments
            /\ handed[id] # 0 .. (Count(id) - 1)

IInv == TypeInv /\ AssembliesInv /\ ReassembledExactly /\ HandedInv

\* "Verified behavior includes: ... packet loss" (docs/COMPATIBILITY.md:14-20): a
\* message that arrives whole again and again is returned in the end, however many
\* fragments of earlier messages were lost.
LossIsSurvived == sent = Len(Lengths) ~> received[Len(Lengths)] # {}
=============================================================================
