-------------------------- MODULE MCOutputDelivery --------------------------
(***************************************************************************)
(* The scripts of the application for model checking OutputDelivery.         *)
(***************************************************************************)
EXTENDS OutputDelivery

\* The first state is resized and ends inside an escape sequence, the others are reached
\* by redrawing.
ResizedScript ==
    [last |-> 3, rewrites |-> {2, 3}, resized |-> {1}, partials |-> {1}, controls |-> {}]

\* Two appended states, then a redrawn one, so that branches diverge.  Every state carries
\* a session control, so that one update can hold several.
AppendedScript ==
    [last |-> 3, rewrites |-> {3}, resized |-> {}, partials |-> {}, controls |-> {1, 2, 3}]

\* Two redrawn states, the last with a session control.
RedrawnScript == [AppendedScript EXCEPT !.rewrites = {2, 3}, !.controls = {1, 3}]

\* Appended output, resized in the middle where a sequence is open.
CutScript ==
    [last |-> 3, rewrites |-> {}, resized |-> {2}, partials |-> {2}, controls |-> {}]

OrdinaryScripts == {ResizedScript, AppendedScript, RedrawnScript, CutScript}

\* A state that is resized by redrawing between two others.
ResizeBranchScripts ==
    {[last |-> 3, rewrites |-> 1 .. 3, resized |-> {2}, partials |-> {}, controls |-> {}]}

\* A session control in a state that is reached by redrawing.
ControlBranchScripts ==
    {[last |-> 2, rewrites |-> 1 .. 2, resized |-> {}, partials |-> {}, controls |-> {2}]}
=============================================================================
