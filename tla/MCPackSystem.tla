----------------------------- MODULE MCPackSystem ----------------------------
(* Small instances of PackSystem for TLC: which chunks the roots reach, and *)
(* which client calls which store.                                         *)
EXTENDS PackSystem, TLC

CONSTANTS r0, r1, a, x, c1, c2, s1, s2

\* Two roots that share a chunk: a commit that moves from one to the other
\* leaves the first one's pack half dead.
MCReach == (r0 :> {r0, a}) @@ (r1 :> {r1, a})
MCInitPacks == <<{r0, a}>>
\* The same, one of the roots already left.
MCInitPacksOld == <<{r0, r1, a}>>
\* Three roots that share nothing, so that a commit can overwrite another's root.
MCReachThree == (r0 :> {r0}) @@ (r1 :> {r1}) @@ (x :> {x})
MCInitPacksTwo == <<{r0, x}>>
MCHostAlone == c1 :> s1
MCHostEach  == (c1 :> s1) @@ (c2 :> s2)
==============================================================================
