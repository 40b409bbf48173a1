------------------------------ MODULE History ------------------------------
(***************************************************************************)
(* The commit graph's algorithms (core/vcs/vcs.go: byHeight, Log and       *)
(* mergeBase).  The graph is a sequence of commits, a commit's number      *)
(* standing for its hash; a commit's parents have smaller numbers.         *)
(***************************************************************************)
EXTENDS Integers, Sequences, FiniteSets

\* A commit's parents (the branch merged into first) and its ancestors: the
\* least set that holds the commit and every member's parents.
Parents(commits, n) == {commits[n].parents[i] : i \in DOMAIN commits[n].parents}

Ancestors(commits, n) ==
    LET closed == {S \in SUBSET (1 .. n - 1) : \A k \in S \cup {n} : Parents(commits, k) \subseteq S}
    IN  {n} \cup {k \in 1 .. n - 1 : \A S \in closed : k \in S}

\* DecodeCommit's canonical forms: two distinct parents, and no parents at
\* height 0 alone.
Decodes(c) ==
    /\ Len(c.parents) <= 2
    /\ Len(c.parents) = 2 => c.parents[1] # c.parents[2]
    /\ (Len(c.parents) = 0) <=> (c.height = 0)

\* A queue that forgets heights: the oldest commit queued is popped first.
PopOldest(commits, q) == CHOOSE n \in q : \A m \in q : n <= m

\* byHeight: the highest commit, the lower hash on a tie.
Pop(commits, q) ==
    CHOOSE n \in q : \A m \in q \ {n} :
        \/ commits[n].height > commits[m].height
        \/ commits[n].height = commits[m].height /\ n < m

\* mergeBase: flags is which of a and b a commit was reached from; a commit
\* is queued only while it has none.  0 when the two share no history.
MergeBase(commits, a, b) ==
    LET Ids == 1 .. Len(commits)
        start == [n \in Ids |-> {i \in 1 .. 2 : <<a, b>>[i] = n}]
        walk[q \in SUBSET Ids, flags \in [Ids -> SUBSET (1 .. 2)]] ==
            IF q = {} THEN 0
            ELSE LET c == Pop(commits, q)
                     up == Parents(commits, c)
                 IN  IF flags[c] = {1, 2} THEN c
                     ELSE walk[(q \ {c}) \cup {p \in up : flags[p] = {}},
                               [n \in Ids |-> IF n \in up THEN flags[n] \cup flags[c]
                                              ELSE flags[n]]]
    IN  walk[{a, b}, start]

\* Log: up to limit commits reachable from one, the highest first.
Log(commits, from, limit) ==
    LET Ids == 1 .. Len(commits)
        walk[q \in SUBSET Ids, seen \in SUBSET Ids, left \in 0 .. limit] ==
            IF q = {} \/ left = 0 THEN << >>
            ELSE LET c == Pop(commits, q)
                     next == Parents(commits, c) \ seen
                 IN  <<c>> \o walk[(q \ {c}) \cup next, seen \cup next, left - 1]
    IN  walk[{from}, {from}, limit]

============================================================================
