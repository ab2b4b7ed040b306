---------------------------- MODULE InputStream ----------------------------
(***************************************************************************)
(* What the client promises about input: the remote application reads what  *)
(* was submitted, in order, each instruction once, possibly in larger steps  *)
(* than it was submitted in.                                                 *)
(***************************************************************************)
EXTENDS Integers, Sequences

VARIABLES
    submitted,   \* every instruction handed to the protocol
    consumed     \* what the remote application has read

streamVars == <<submitted, consumed>>

Init == submitted = <<>> /\ consumed = <<>>

Submit ==
    /\ Len(submitted') >= Len(submitted)
    /\ SubSeq(submitted', 1, Len(submitted)) = submitted
    /\ UNCHANGED consumed

Consume ==
    /\ \E n \in Len(consumed) .. Len(submitted) :
          consumed' = SubSeq(submitted, 1, n)
    /\ UNCHANGED submitted

Next == Submit \/ Consume
Spec == Init /\ [][Next]_streamVars
=============================================================================
