------------------------------ MODULE MCStores ------------------------------
(* Small instances of Stores for TLC.                                       *)
EXTENDS Stores, TLC

-----------------------------------------------------------------------------
(* Two threads of one store over two volumes, and a third to add.           *)

OneHandle == [t \in Thread |-> "h1"]

\* Object 1 in a directory that is there, object 2 two directories down.
OwnDirs == 1 :> "x" @@ 2 :> "z"
Nested  == "x" :> "objects" @@ "y" :> "objects" @@ "z" :> "y"

\* Only one thread puts into a directory that is not there yet.
OwnNew   == "t1" :> {1, 2} @@ "t2" :> {1}
AllNames == [t \in Thread |-> Name]

TwoVolumes == <<"v1", "v2">>

\* The volumes rank differently for the two objects.
MCScore == "v1" :> <<3, 1>> @@ "v2" :> <<2, 2>> @@ "v3" :> <<1, 3>>

Mix(calls, n, crashes, faults, unmounts, fills) ==
  [calls |-> calls, n |-> n, crashes |-> crashes, faults |-> faults,
   unmounts |-> unmounts, fills |-> fills]

MCMixes == {Mix({"put", "find", "add"}, 4, 0, 0, 1, 1),
            Mix({"put", "list", "add"}, 3, 1, 0, 1, 0),
            Mix({"put", "add"}, 3, 1, 1, 0, 0),
            Mix({"put", "delete"}, 4, 0, 1, 0, 1),
            Mix({"put", "swap"}, 3, 1, 1, 0, 0)}

Unplugged == {Mix({"put", "list"}, 2, 0, 0, 1, 0)}
Racing    == {Mix({"put"}, 2, 1, 0, 0, 0)}

-----------------------------------------------------------------------------
(* A bucket with two clients, a split store and a cache with two readers.   *)

\* One range of object 2 is larger than the cache.
MCSizes == [k \in Object \X Span |-> IF k = <<2, 2>> THEN 9 ELSE IF k = <<1, 1>> THEN 1 ELSE 2]

Setup(parts, only, m, stored, calls, gets, faults, crashes) ==
  [parts |-> parts, objectsOnly |-> only, mode |-> m, stored |-> stored, calls |-> calls,
   gets |-> gets, faults |-> faults, crashes |-> crashes]

MCSetups ==
  {Setup({"bucket"}, FALSE, "wait", {}, 3, 0, 2, 0), Setup({"bucket"}, TRUE, "wait", {1, 3}, 3, 0, 1, 0),
   Setup({"cache"}, TRUE, "wait", {1, 2}, 0, 4, 1, 1)}
    \cup {Setup({"split"}, TRUE, m, {}, 3, 0, 3, 1) : m \in Mode}

Swaps == {Setup({"split"}, TRUE, "wait", {}, 2, 0, 0, 0)}
Kills == {Setup({"split"}, TRUE, "wait", {}, 1, 0, 0, 1)}
=============================================================================
