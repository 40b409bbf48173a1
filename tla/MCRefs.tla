------------------------------- MODULE MCRefs -------------------------------
(* Refs for TLC: two callers of one repository, and mixes of the calls     *)
(* whose interleavings matter to each other.                               *)
EXTENDS Refs, TLC

Callers == Permutations(Client)

Mix(from, calls, n, k, max) ==
    [from |-> from, calls |-> calls, swaps |-> n, beside |-> k, commits |-> max]

MCMixes ==
    {Mix("nothing", {"init", "update", "staged", "create"}, 3, 2, 5),
     Mix("fork", {"merge", "resolve", "staged", "abort"}, 3, 2, 5),
     Mix("fork", {"merge", "update", "abort"}, 4, 1, 5),
     Mix("fork", {"merge", "update"}, 2, 2, 5),
     Mix("fork", {"merge", "commit", "delete"}, 3, 2, 5),
     Mix("fork", {"tag", "untag", "delete", "create"}, 3, 2, 5),
     Mix("fork", {"checkout", "delete", "staged"}, 3, 2, 5),
     Mix("cross", {"merge", "staged"}, 4, 2, 7)}

\* Two callers merging one commit, resolving it and committing.
Remerging == {Mix("fork", {"merge", "resolve", "staged"}, 4, 2, 5)}

\* A branch deleted and made again under a merge.
Recreating == {Mix("fork", {"merge", "commit", "delete", "create"}, 5, 2, 5)}

============================================================================
