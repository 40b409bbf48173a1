------------------------------ MODULE Boundary ------------------------------
(***************************************************************************)
(* The rule of core/boundary that splits a level's entries into nodes.     *)
(***************************************************************************)
EXTENDS Integers

CONSTANTS
    MinSize,       \* boundary.Geometry.Min
    MaxSize,       \* boundary.Geometry.Max
    Lambda,        \* boundary.Rule.lambda
    Always         \* 2^32 in the code: the number of windows

\* Rule.Threshold: at or over MaxSize a node always ends.
Threshold(before, after) ==
    IF after >= MaxSize THEN Always
    ELSE (Always * (after^4 - before^4)) \div Lambda^4

\* Splitter.ends, for a node of n entries the last of which, whose digest
\* has window w at this level, grew it from before to after.
Splits(level, w, n, before, after) ==
    /\ level >= 1 => n >= 2
    /\ after >= MinSize
    /\ Threshold(before, after) >= Always \/ w < Threshold(before, after)
=============================================================================
