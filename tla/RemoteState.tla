---------------------------- MODULE RemoteState ----------------------------
(***************************************************************************)
(* RemoteTerminalState (ferrumtty-state): a terminal together with the       *)
(* operations that produced it, so that a clone can be rebuilt by replaying   *)
(* them and two states can be compared by their histories.                   *)
(*                                                                         *)
(* Data abstraction.  A screen is the number of its content and its size.     *)
(* Host bytes are a run of atoms; an atom is what turns one content into      *)
(* another, and applied to any other content it leaves garbage.  A formatted  *)
(* snapshot is an atom that applies to any content.  An odd content is one     *)
(* that ends inside an escape sequence or a code point.  The vt100 screen      *)
(* (state_diff, state_formatted, set_size) and the vte parser are external.    *)
(***************************************************************************)
EXTENDS Integers, Sequences, SequencesExt

CONSTANTS
    MAX_RETAINED_OPERATIONS,   \* 65,536 in the code
    MAX_RETAINED_HOST_BYTES    \* 16 MiB in the code, here counted in atoms

ASSUME LimitAssumption ==
    /\ MAX_RETAINED_OPERATIONS \in Nat \ {0}
    /\ MAX_RETAINED_HOST_BYTES \in Nat \ {0}

Blank == 0            \* the content of a new terminal
AnyContent == -1      \* a snapshot clears whatever was there
Garbled == -2         \* bytes applied to a screen they were not made for
NoEcho == -1          \* echo_ack: None

\* The content leaves the parser off ground.
Partial(content) == content % 2 = 1

(***************************************************************************)
(* Operations and instructions.                                             *)
(***************************************************************************)
HostBytes(run) == [op |-> "bytes", run |-> run]
Resize(size) == [op |-> "resize", size |-> size]
SessionControl(id) == [op |-> "control", id |-> id]
Marker(value) == [op |-> "marker", value |-> value]
Atom(from, to) == [from |-> from, to |-> to]

(***************************************************************************)
(* The terminal.                                                            *)
(***************************************************************************)
ApplyAtom(screen, atom) ==
    [screen EXCEPT !.content =
        IF atom.from \in {screen.content, AnyContent} THEN atom.to ELSE Garbled]

\* parser.process, set_size; a session control does not touch the screen.
ApplyOperation(screen, o) ==
    CASE o.op = "bytes" -> FoldLeft(ApplyAtom, screen, o.run)
      [] o.op = "resize" -> [screen EXCEPT !.size = o.size]
      [] OTHER -> screen

Replay(history, initial) ==
    FoldLeft(ApplyOperation, [content |-> Blank, size |-> initial], history)

\* RemoteTerminalState::new.
NewState(size) ==
    [initial |-> size, history |-> <<>>, viewport |-> size, echo_ack |-> NoEcho,
     screen |-> [content |-> Blank, size |-> size]]

\* Clone: a new terminal of the initial size, with the history replayed.
Clone(s) == [s EXCEPT !.screen = Replay(s.history, s.initial)]

\* canonical_operations: adjacent host bytes are one operation.
Merge(canonical, o) ==
    IF canonical # <<>> /\ o.op = "bytes" /\ Last(canonical).op = "bytes"
    THEN Append(Front(canonical), HostBytes(Last(canonical).run \o o.run))
    ELSE Append(canonical, o)
Canonical(history) == FoldLeft(Merge, <<>>, history)

\* history_ends_at_ground: the probe after all host bytes is printed.
AllAtoms(history) ==
    FoldLeft(LAMBDA atoms, o : IF o.op = "bytes" THEN atoms \o o.run ELSE atoms,
             <<>>, history)
EndsAtGround(history) ==
    LET atoms == AllAtoms(history)
    IN  atoms = <<>> \/ ~Partial(Last(atoms).to)

(***************************************************************************)
(* apply.                                                                   *)
(***************************************************************************)
\* apply_host_bytes, apply_resize, the marker and the session control.
ApplyInstruction(s, ins) ==
    CASE ins.op = "bytes" /\ ins.run # <<>> ->
            [s EXCEPT !.screen = ApplyOperation(@, ins), !.history = Append(@, ins)]
      [] ins.op = "resize" /\ ins.size # s.viewport ->
            [s EXCEPT !.screen = ApplyOperation(@, ins), !.viewport = ins.size,
                      !.history = Append(@, ins)]
      [] ins.op = "marker" -> [s EXCEPT !.echo_ack = ins.value]
      [] ins.op = "control" -> [s EXCEPT !.history = Append(@, ins)]
      [] OTHER -> s
ApplyAll(s, batch) == FoldLeft(ApplyInstruction, s, batch)

\* validate_history_size: history_growth counts what ApplyAll retains.
FitsHistory(history) ==
    /\ Len(history) <= MAX_RETAINED_OPERATIONS
    /\ Len(AllAtoms(history)) <= MAX_RETAINED_HOST_BYTES

\* state_formatted and state_diff see the screen, not the parser: what a partial
\* content has begun is lost.
Rendered(content) == IF Partial(content) THEN Garbled ELSE content

\* A bug the properties must catch: the snapshot is replayed into a terminal of
\* the size the old history started with.
Compacted_OldInitial(s) ==
    [s EXCEPT !.history = <<HostBytes(<<Atom(AnyContent, Rendered(s.screen.content))>>)>>]

\* compacted_history: one formatted snapshot, in a terminal of today's size.
Compacted(s) ==
    [s EXCEPT !.history = <<HostBytes(<<Atom(AnyContent, Rendered(s.screen.content))>>)>>,
              !.initial = s.viewport]

\* The batch is refused as a whole: a zero viewport, a decreasing marker, or a
\* history that neither fits nor compacts.
EchoDecreases(s, batch) ==
    \E j \in 1 .. Len(batch) :
        /\ batch[j].op = "marker"
        /\ \/ batch[j].value < s.echo_ack
           \/ \E i \in 1 .. (j - 1) :
                 batch[i].op = "marker" /\ batch[i].value > batch[j].value

\* validate_history_growth.
Growable(s, batch) == FitsHistory(ApplyAll(s, batch).history)

CanApply(s, batch) ==
    /\ \A i \in 1 .. Len(batch) : batch[i].op = "resize" => batch[i].size > 0
    /\ ~EchoDecreases(s, batch)
    /\ Growable(s, batch) \/ (EndsAtGround(s.history) /\ Growable(Compacted(s), batch))

\* apply, for a batch that CanApply.
Apply(s, batch) ==
    ApplyAll(IF Growable(s, batch) THEN s ELSE Compacted(s), batch)

(***************************************************************************)
(* diff_from.                                                               *)
(***************************************************************************)
\* history_suffix_start: target extends delivered, the last bytes by a prefix.
Extends(target, delivered) ==
    \/ IsPrefix(delivered, target)
    \/ LET n == Len(delivered)
       IN  /\ n > 0 /\ n <= Len(target)
           /\ IsPrefix(Front(delivered), target)
           /\ target[n].op = "bytes" /\ delivered[n].op = "bytes"
           /\ IsPrefix(delivered[n].run, target[n].run)

\* A bug the properties must catch: the operation that delivered already has in part
\* is handed over whole.
Remainder_WholeOperation(target, delivered) ==
    SubSeq(target, IF delivered = <<>> THEN 1 ELSE Len(delivered), Len(target))

\* What the target has beyond delivered.
Remainder(target, delivered) ==
    LET n == Len(delivered)
        rest == SubSeq(target, n + 1, Len(target))
    IN  IF IsPrefix(delivered, target) THEN rest
        ELSE <<HostBytes(SubSeq(target[n].run, Len(delivered[n].run) + 1,
                                Len(target[n].run)))>> \o rest

\* A bug the properties must catch: the parsers' boundary is not probed.
ScreenDiffSafe_NoProbe(target, delivered) ==
    LET Common(k) == \A i \in 1 .. k : i <= Len(target) /\ i <= Len(delivered)
                                        /\ target[i] = delivered[i]
        Resizes(ops) == \E i \in 1 .. Len(ops) : ops[i].op = "resize" /\ ~Common(i)
    IN  ~Resizes(target) /\ ~Resizes(delivered)

\* diverged_histories_are_screen_diff_safe: after the common operations neither
\* history resizes, and both end at ground.
ScreenDiffSafe(target, delivered) ==
    LET Common(k) == \A i \in 1 .. k : i <= Len(target) /\ i <= Len(delivered)
                                        /\ target[i] = delivered[i]
        Resizes(ops) == \E i \in 1 .. Len(ops) : ops[i].op = "resize" /\ ~Common(i)
    IN  /\ ~Resizes(target) /\ ~Resizes(delivered)
        /\ EndsAtGround(target) /\ EndsAtGround(delivered)

\* state_diff of the two screens.
ScreenDiff(s, delivered) ==
    IF s.screen = delivered.screen THEN <<>>
    ELSE <<HostBytes(<<Atom(Rendered(delivered.screen.content),
                            Rendered(s.screen.content))>>)>>

EchoMarker(s, delivered) ==
    IF s.echo_ack \in {delivered.echo_ack, NoEcho} THEN <<>> ELSE <<Marker(s.echo_ack)>>

HistoryExtends(s, delivered) == Extends(Canonical(s.history), Canonical(delivered.history))
CanDiff(s, delivered) ==
    \/ HistoryExtends(s, delivered)
    \/ /\ s.viewport = delivered.viewport
       /\ ScreenDiffSafe(Canonical(s.history), Canonical(delivered.history))

\* diff_from, for states that CanDiff.
DiffFrom(s, delivered) ==
    EchoMarker(s, delivered) \o
    (IF HistoryExtends(s, delivered)
     THEN Remainder(Canonical(s.history), Canonical(delivered.history))
     ELSE ScreenDiff(s, delivered))
=============================================================================
