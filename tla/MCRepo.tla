------------------------------- MODULE MCRepo -------------------------------
(* Small instances of Repo for TLC.                                         *)
EXTENDS Repo, TLC

\* A small value and one that fills a leaf by itself.
MCSizeOf == 1 :> 1 @@ 2 :> 3

\* Windows from a seed, spread over 0..Always - 1.
Spread(seed) ==
    [l \in 0..4 |-> [k \in Key |-> ((k + l) * (k + seed + 1) + seed * (l + 1)) % Always]]

MCWindows == {Spread(seed) : seed \in {1, 2}}

\* Maps with at least n entries.
Maps(n) == {c \in [Key -> Value \cup {NotFound}] : Cardinality({k \in Key : c[k] # NotFound}) >= n}

Budget(o, t) == [s \in Side |-> IF s = "ours" THEN o ELSE t]

\* Every pair of edits of maps whose entries are all large, or alternate and
\* begin with a large one or are all there; an edit on each side of alternating
\* ones with small values at two keys; and two edits on each side of two keys,
\* so that a conflict stands before, after or beside another and beside changes
\* of one side.
Alternating == {m \in Maps(4) : \A k \in 1..4 : m[k] # m[k + 1]}
Small       == {m \in Alternating : m[1] = 1 /\ m[3] = 1 /\ m[4] = 2}
Full        == [k \in Key |-> IF k % 2 = 1 THEN 1 ELSE 2]
Large       == {m \in Maps(4) : \A k \in Key : m[k] # 1}

Every(keys) == keys \X (Value \cup {NotFound})

Edited(start, set, budget) == [start |-> start, edits |-> set, left |-> budget]

MCTreeSetups ==
    {Edited(c, Every(Key), Budget(2, 0)) : c \in {m \in Alternating : m[1] # 1} \cup {Full} \cup Large}
      \cup {Edited(c, Every(Key), Budget(1, 1)) : c \in Small}
      \cup {Edited(Full, {1, 5} \X {2, NotFound}, Budget(2, 2))}

----------------------------------------------------------------------------
\* Windows of bytes the masks hit.
MCHard == {<<1, 1, 1>>}
MCEasy == {<<1, 1, 1>>, <<0, 1, 1>>, <<1, 0, 1>>}

MCNodeWindow(child, lv) ==
    IF child.level = 0
    THEN (FoldLeft(LAMBDA t, b : t + b, Len(child.data), child.data) + lv) % Always
    ELSE (Len(child.entries) + lv) % Always

Stream(data, hint, faults, reads) == [data |-> data, hint |-> hint, faults |-> faults, reads |-> reads]

Strings(n) == [1..n -> {0, 1}]

\* Every short stream, some read back, and long ones that go through the
\* pipelines, whole or with failures.
MCStreamSetups ==
    {Stream(d, h, {"read", "empty"}, 0) : d \in UNION {Strings(n) : n \in 0..5}, h \in {0, 1}}
      \cup {Stream(d, 0, {}, 2) : d \in {<<0, 1, 1, 1, 1, 0, 1>>, <<0, 0, 1, 1, 0, 1, 1>>, <<>>}}
      \cup {Stream(<<1, 0, 1, 1>>, NoHint, {}, 0), Stream(<<1>>, NoHint, {"empty"}, 0),
            Stream(<<0, 1, 1>>, NoHint, {"read", "put", "prepare"}, 0)}

\* A store that fails under a stream in the pipelines.
Failing == {Stream(<<0, 1, 1, 1>>, NoHint, {"put"}, 0)}

----------------------------------------------------------------------------
\* Two Inits of one key, with geometries of their own, and one of another.
MCKeyOf      == "a" :> "k1" @@ "b" :> "k1" @@ "c" :> "k2"
MCGeometryOf == "a" :> 1 @@ "b" :> 2 @@ "c" :> 1
MCCallsOf    == "a" :> 3 @@ "b" :> 1 @@ "c" :> 1
=============================================================================
