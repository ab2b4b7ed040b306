----------------------------- MODULE MoshSender -----------------------------
(***************************************************************************)
(* External: how a Mosh server sends its screen.  It numbers the states its   *)
(* screen goes through, sends the newest one as a difference from a state it  *)
(* still keeps (any of them: which one it believes the client to have depends *)
(* on timing), and forgets the states below the one the client acknowledged.  *)
(* A screen that does not change is sent again under the same number.         *)
(*                                                                         *)
(* What the application does is a script.  Where output is only appended the   *)
(* difference is the appended steps, whatever the base; a state in rewrites    *)
(* redraws, so that differences from different bases have nothing in common.   *)
(***************************************************************************)
EXTENDS RemoteState, FiniteSets

CONSTANT
    Scripts    \* what the application may do: records [
               \*   last: the last state of the screen,
               \*   rewrites: the states reached by redrawing,
               \*   resized: the states in which the screen changes its size,
               \*   partials: the states that end inside a sequence,
               \*   controls: the states that carry a session control]

ASSUME ServerAssumption ==
    \A s \in Scripts :
        /\ s.last \in Nat
        /\ {s.rewrites, s.resized, s.partials, s.controls} \subseteq SUBSET (1 .. s.last)

VARIABLES
    script,           \* chosen at the start
    server_current,   \* the newest state of the screen
    server_known      \* the newest state the client acknowledged

serverScreenVars == <<script, server_current, server_known>>

ServerScreenInit == script \in Scripts /\ server_current = 0 /\ server_known = 0

\* What state n shows.
ContentOf(n) == 2 * n + (IF n \in script.partials THEN 1 ELSE 0)

\* The screen alternates between two sizes.
SizeOf(n) == 1 + (Cardinality({r \in script.resized : r <= n}) % 2)

\* Every state echoes more of the input.
EchoOf(n) == IF n = 0 THEN NoEcho ELSE n

ControlsIn(b, t) ==
    FlattenSeq([i \in 1 .. (t - b) |->
                   IF b + i \in script.controls THEN <<SessionControl(b + i)>> ELSE <<>>])

Step(b, t) == Atom(ContentOf(b), ContentOf(t))

\* One appended state: its bytes and its control.
AppendedStep(n) == <<HostBytes(<<Step(n - 1, n)>>)>> \o ControlsIn(n - 1, n)

\* The difference between two states.
Difference(b, t) ==
    <<Marker(EchoOf(t))>>
    \o (IF SizeOf(b) # SizeOf(t) THEN <<Resize(SizeOf(t))>> ELSE <<>>)
    \o (IF script.rewrites \cap (b + 1) .. t # {} \/ SizeOf(b) # SizeOf(t)
        THEN <<HostBytes(<<Step(b, t)>>)>> \o ControlsIn(b, t)
        ELSE FlattenSeq([i \in 1 .. (t - b) |-> AppendedStep(b + i)]))

\* The bases of the updates the server may send now.
Bases == server_known .. (server_current - 1)
ServerUpdate(b) ==
    [base |-> b, target |-> server_current, discard |-> server_known,
     delta |-> Difference(b, server_current)]

ScreenChanges ==
    /\ server_current < script.last
    /\ server_current' = server_current + 1
    /\ UNCHANGED <<script, server_known>>

ServerLearns(ack) ==
    /\ ack > server_known
    /\ server_known' = ack
    /\ UNCHANGED <<script, server_current>>
=============================================================================
