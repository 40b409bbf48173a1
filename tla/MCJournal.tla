------------------------------ MODULE MCJournal ------------------------------
(* Small instances of Journal for TLC.                                     *)
EXTENDS Journal, TLC

CONSTANTS c1, c2

Clients == Permutations({c1, c2})

Setup(faults, does, n, rotations, crashes) ==
  [faults |-> faults, does |-> does, roots |-> n, rotations |-> rotations, crashes |-> crashes]

\* Every failure; a background publish that is tried again; commits that go
\* back to earlier roots, and one more of them where nothing fails.
MCSetups ==
  {Setup({}, {"back"}, 4, 1, 0), Setup({"upload"}, {"back"}, 3, 2, 1),
   Setup({"swap"}, {"back", "old"}, 3, 1, 1), Setup({"write", "finisher"}, {"old"}, 3, 1, 1),
   Setup({"sync", "drop", "reset"}, {"old"}, 3, 1, 1), Setup({"rotate"}, {"old"}, 3, 1, 1)}

\* No failure, and commits that go back.
Returning == {Setup({}, {"back"}, 4, 1, 0)}
==============================================================================
