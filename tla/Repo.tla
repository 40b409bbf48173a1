-------------------------------- MODULE Repo --------------------------------
(***************************************************************************)
(* A repository above its chunk store: how it is made and opened           *)
(* (core/repo), the maps its objects are (core/prolly) and the streams it  *)
(* holds (core/stream).  They meet only in the chunk store, so a behaviour *)
(* exercises one of them.                                                  *)
(***************************************************************************)
EXTENDS Trees, Streams, Opening

CONSTANT Parts     \* the parts a behaviour may exercise

VARIABLE part

vars == <<part, treeVars, streamVars, openVars>>

\* All the starts of a part, or one when the behaviour leaves it alone.
Starts(p, starts) == IF part = p THEN starts ELSE {CHOOSE s \in starts : TRUE}

Init ==
    /\ part \in Parts
    /\ TreeInit(Starts("tree", Windows), Starts("tree", TreeSetups))
    /\ StreamInit(Starts("stream", StreamSetups))
    /\ OpenInit

Editing   == part = "tree" /\ TreeNext /\ UNCHANGED <<part, streamVars, openVars>>
Streaming == part = "stream" /\ StreamNext /\ UNCHANGED <<part, treeVars, openVars>>
Opens     == part = "open" /\ OpenNext /\ UNCHANGED <<part, treeVars, streamVars>>

Next == Editing \/ Streaming \/ Opens

Spec == Init /\ [][Next]_vars /\ StreamFairness
=============================================================================
