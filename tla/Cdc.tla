--------------------------------- MODULE Cdc ---------------------------------
(***************************************************************************)
(* Content-defined cuts (core/cdc).  The rolling hash at a byte depends on *)
(* the last Window bytes alone, so a state of it is those bytes, and a     *)
(* mask is the set of windows whose hash it clears.                        *)
(***************************************************************************)
EXTENDS Integers, Sequences, SequencesExt, FiniteSetsExt

CONSTANTS
    Window,        \* the bytes a hash covers: 48 in the code
    CutMin,        \* Geometry.Min
    CutMax,        \* Geometry.Max
    Hard,          \* the windows the hard mask (mask<<2 | mask) hits
    Easy           \* the windows the easy mask (mask>>2) hits, Hard among them

\* zeroWindowHash: zeros stand for the bytes before a stream.
ZeroWindow == [i \in 1..Window |-> 0]

\* The window once the bytes p have rolled in.
Rolled(win, p) == LET all == win \o p IN SubSeq(all, Len(all) - Window + 1, Len(all))

\* A chunk that a byte makes n long ends there.
Cuts(win, n) == n >= CutMax \/ win \in (IF n < CutMin THEN Hard ELSE Easy)

\* Chunker.scan: how many of p's bytes belong to a chunk of n bytes so far,
\* and whether it ends there.
Scan(win, p, n) ==
    LET hits == {i \in 1..Len(p) : Cuts(Rolled(win, SubSeq(p, 1, i)), n + i)}
    IN  IF hits = {} THEN [end |-> Len(p), cut |-> FALSE] ELSE [end |-> Min(hits), cut |-> TRUE]

----------------------------------------------------------------------------
(* The parallel chunker: marks block by block, cuts placed in order.       *)

\* What a block carries of the bytes before it without the older ones.
CarriedShort(prev, data) == SubSeq(data, Max({1, Len(data) - Window + 2}), Len(data))

\* Parallel.read: the up to Window - 1 bytes before the next block, with
\* older ones when this read was short.
Carried(prev, data) ==
    LET tail == prev \o data IN SubSeq(tail, Max({1, Len(tail) - Window + 2}), Len(tail))

\* Geometry.mark: where in data each mask hits, the window warmed with prev.
Mark(prev, data) ==
    LET hits(mask) == {i \in 1..Len(data) :
                         Rolled(Rolled(ZeroWindow, prev), SubSeq(data, 1, i)) \in mask}
    IN  [hard |-> hits(Hard), easy |-> hits(Easy)]

\* firstSet: the first mark after from and up to to, or 0.
FirstSet(marks, from, to) ==
    LET hits == {i \in marks : from < i /\ i <= to} IN IF hits = {} THEN 0 ELSE Min(hits)

\* Where Parallel.Next ends the chunk under way, n bytes long at pos, in a
\* block of len bytes; 0 when the block ends first.
CutIn(marks, len, pos, n) ==
    LET under == Max({pos, Min({pos + CutMin - n - 1, len})})
        below == Max({under, Min({pos + CutMax - n - 1, len})})
        hard  == FirstSet(marks.hard, pos, under)
        easy  == FirstSet(marks.easy, under, below)
    IN  IF hard > 0 THEN hard
        ELSE IF easy > 0 THEN easy
        ELSE IF below < len THEN below + 1 ELSE 0

----------------------------------------------------------------------------
\* The chunks of a whole stream, and the bytes after the last cut, by the
\* rule alone.
ChunksOf(data) ==
    LET step(s, b) ==
          LET win == Rolled(s.win, <<b>>)  chunk == Append(s.chunk, b)
          IN  IF Cuts(win, Len(chunk)) THEN [win |-> win, chunk |-> <<>>, out |-> Append(s.out, chunk)]
              ELSE [s EXCEPT !.win = win, !.chunk = chunk]
    IN  FoldLeft(step, [win |-> ZeroWindow, chunk |-> <<>>, out |-> <<>>], data)
=============================================================================
