--------------------------- MODULE SecureChannel ---------------------------
(***************************************************************************)
(* The authenticated datagram layer: SecureChannel::seal_next and ::open   *)
(* (ferrumtty-crypto) on both ends of a session, and the ReplayWindow that  *)
(* ClientProtocol::ingest_packet consults after a packet has opened         *)
(* (ferrumtty-session).  Both ends use one key, so the packet number, with  *)
(* the direction in its top bit, is the only thing that keeps two nonces    *)
(* apart.                                                                   *)
(*                                                                         *)
(* The network keeps every sealed packet: a packet it never hands over is   *)
(* lost, one it hands over again is duplicated, and any order is possible.  *)
(* AES-OCB is external: a packet that was not sealed does not open.         *)
(***************************************************************************)
EXTENDS Integers, FiniteSets

CONSTANTS
    DIRECTION_BIT,       \* 2^63 in the code
    REPLAY_WINDOW_BITS   \* 128 in the code

ASSUME DirectionBitAssumption == DIRECTION_BIT \in Nat \ {0}
ASSUME WindowAssumption == REPLAY_WINDOW_BITS \in Nat \ {0}

VARIABLES
    next_counter,   \* [PeerRole -> counter or None], one per endpoint
    highest,        \* ReplayWindow.highest of the client, or None
    seen,           \* ReplayWindow.seen: the set of ages whose bit is 1
    sealed,         \* every packet sealed so far, by either end
    seals,          \* how many packets were sealed: the next packet's identity
    deliveries      \* packet identity -> times its plaintext was handed over

vars == <<next_counter, highest, seen, sealed, seals, deliveries>>

(***************************************************************************)
(* Packet numbers.                                                          *)
(***************************************************************************)
PeerRole == {"Client", "Server"}
None == -1
MAX_COUNTER == DIRECTION_BIT - 1

\* PacketDirection::encode: the server's packets have the top bit set.
Encode(role, counter) ==
    IF role = "Server" THEN counter + DIRECTION_BIT ELSE counter

\* PacketDirection::decode: who sent the packet, and its counter.
Sender(number) == IF number < DIRECTION_BIT THEN "Client" ELSE "Server"
Counter(number) ==
    IF number < DIRECTION_BIT THEN number ELSE number - DIRECTION_BIT

Packet == [number : Nat, from : PeerRole, body : Nat]

(***************************************************************************)
(* The replay window: the verdict of ReplayWindow::accept, and the window   *)
(* it leaves behind.                                                        *)
(***************************************************************************)
Accepts(counter) ==
    \/ highest = None
    \/ counter > highest
    \/ /\ highest - counter < REPLAY_WINDOW_BITS
       /\ highest - counter \notin seen

\* A bug the properties must catch: the new packet's own bit is not set.
Shifted_NoNewBit(advance) ==
    {a \in 0 .. (REPLAY_WINDOW_BITS - 1) : a - advance \in seen}

\* A bug the properties must catch: a shift smears each bit over two ages.
Shifted_Smeared(advance) ==
    {0} \cup {a \in 0 .. (REPLAY_WINDOW_BITS - 1) :
                a - advance \in seen \/ a - advance + 1 \in seen}

\* The bitmap after an advance: (seen << advance) | 1.
Shifted(advance) ==
    {0} \cup {a \in 0 .. (REPLAY_WINDOW_BITS - 1) : a - advance \in seen}

Record(counter) ==
    IF highest = None
    THEN highest' = counter /\ seen' = {0}
    ELSE IF counter > highest
         THEN /\ highest' = counter
              /\ seen' = IF counter - highest >= REPLAY_WINDOW_BITS
                         THEN {0} ELSE Shifted(counter - highest)
         ELSE highest' = highest /\ seen' = seen \cup {highest - counter}

(***************************************************************************)
(* Operations.                                                              *)
(***************************************************************************)
Init ==
    /\ next_counter = [r \in PeerRole |-> 0]
    /\ highest = None
    /\ seen = {}
    /\ sealed = {}
    /\ seals = 0
    /\ deliveries = [b \in {} |-> 0]

\* A bug the properties must catch: the limit is off by one, so the client's last
\* counter carries the server's direction bit.
CounterAfter_OffByOne(counter) ==
    IF counter + 1 <= MAX_COUNTER + 1 THEN counter + 1 ELSE None

\* The counter seal_next leaves behind: None once the 63-bit space is used up.
CounterAfter(counter) ==
    IF counter + 1 <= MAX_COUNTER THEN counter + 1 ELSE None

\* SecureChannel::seal_next at either end; CounterExhausted is an error that
\* changes nothing.
SealNext(role) ==
    /\ next_counter[role] # None
    /\ LET counter == next_counter[role]
       IN  /\ sealed' = sealed \cup
                 {[number |-> Encode(role, counter), from |-> role, body |-> seals]}
           /\ next_counter' = [next_counter EXCEPT ![role] = CounterAfter(counter)]
    /\ seals' = seals + 1
    /\ deliveries' = [b \in 0 .. seals |-> IF b = seals THEN 0 ELSE deliveries[b]]
    /\ UNCHANGED <<highest, seen>>

\* ClientProtocol::ingest_packet up to the point where the plaintext is used:
\* SecureChannel::open at the client, then ReplayWindow::accept.  A packet that
\* travels in the wrong direction (UnexpectedDirection) and one that the window
\* refuses (ReplayDetected) are errors that change nothing.
IngestPacket(p) ==
    /\ Sender(p.number) = "Server"
    /\ Accepts(Counter(p.number))
    /\ Record(Counter(p.number))
    /\ deliveries' = [deliveries EXCEPT ![p.body] = @ + 1]
    /\ UNCHANGED <<next_counter, sealed, seals>>

Next ==
    \/ \E r \in PeerRole : SealNext(r)
    \/ \E p \in sealed : IngestPacket(p)

Spec == Init /\ [][Next]_vars

(***************************************************************************)
(* Properties.                                                              *)
(***************************************************************************)
\* Every variable stays in its type.
TypeOK ==
    /\ next_counter \in [PeerRole -> 0 .. MAX_COUNTER \cup {None}]
    /\ highest \in 0 .. MAX_COUNTER \cup {None}
    /\ seen \subseteq 0 .. (REPLAY_WINDOW_BITS - 1)
    /\ sealed \subseteq Packet
    /\ seals \in Nat
    /\ deliveries \in [0 .. (seals - 1) -> Nat]

\* No two packets, from either end, are ever sealed under one nonce: the
\* counters of the two directions never run into each other, even when one of
\* them is exhausted (seal_next, crypto lib.rs:136-151).
NonceNeverReused ==
    \A p, q \in sealed : p.number = q.number => p.body = q.body

\* A packet's plaintext reaches the protocol at most once, however often and in
\* whatever order the network hands it over, and a packet the client itself
\* sealed never does (ReplayWindow::accept, session lib.rs:509-536).
DeliveredAtMostOnce ==
    \A p \in sealed :
        deliveries[p.body] <= (IF p.from = "Server" THEN 1 ELSE 0)

\* The window refuses nothing it need not refuse: a server packet that was never
\* delivered and is less than REPLAY_WINDOW_BITS behind the newest one is still
\* accepted, so bounded reordering loses no packet.
ReorderedStillAccepted ==
    \A p \in sealed :
        /\ p.from = "Server"
        /\ deliveries[p.body] = 0
        /\ highest - Counter(p.number) < REPLAY_WINDOW_BITS
        => Accepts(Counter(p.number))

\* The inductive invariant: server packets are numbered by their counters, all
\* below the next one, and the window's bits are exactly the delivered counters
\* that are still inside it; its top is a counter already used.
Numbering ==
    /\ \A p \in sealed :
          /\ p.number = Encode(p.from, Counter(p.number))
          /\ p.from = Sender(p.number)
          /\ Counter(p.number) \in 0 .. MAX_COUNTER
          /\ next_counter[p.from] # None =>
                Counter(p.number) < next_counter[p.from]
          /\ p.body < seals
    /\ \A p, q \in sealed : p.body = q.body => p = q

WindowExact ==
    /\ \A p \in sealed : p.from = "Server" =>
          IF deliveries[p.body] = 0
          THEN highest # None /\ highest - Counter(p.number) \in 0 .. (REPLAY_WINDOW_BITS - 1)
                  => highest - Counter(p.number) \notin seen
          ELSE /\ highest # None
               /\ Counter(p.number) <= highest
               /\ highest - Counter(p.number) < REPLAY_WINDOW_BITS
                  => highest - Counter(p.number) \in seen
    /\ \A p \in sealed : p.from = "Client" => deliveries[p.body] = 0
    /\ next_counter["Server"] # None => highest < next_counter["Server"]

IInv ==
    /\ TypeOK
    /\ Numbering
    /\ WindowExact
    /\ NonceNeverReused
    /\ DeliveredAtMostOnce

=============================================================================
