----------------------------- MODULE ProllyReads -----------------------------
(***************************************************************************)
(* Reading prolly trees: lookups, ranges, the walk, and the diff that      *)
(* skips what two trees share (prolly.go, walk.go and diff.go of           *)
(* core/prolly).                                                           *)
(***************************************************************************)
EXTENDS Prolly

NotFound == 0      \* no value is 0

\* Map.Get
RECURSIVE Get(_, _)
Get(n, key) ==
    LET i == Search(n, key)
    IN  IF i > Len(n.entries) THEN NotFound
        ELSE IF n.level > 0 THEN Get(n.entries[i].child, key)
        ELSE IF n.entries[i].key = key THEN n.entries[i].val ELSE NotFound

\* IterRange's cursor: a leaf with nothing from lo on is stepped past.
IterStart(c, lo) ==
    LET from == [c EXCEPT !.i = Search(c.n, lo)]
    IN  IF from.i > Len(c.n.entries) /\ c.n.entries # <<>>
        THEN Advance([from EXCEPT !.i = @ - 1]) ELSE from

\* A range that yields its bound.
PastAfter(hi, key) == hi # Nil /\ key > hi

\* Iter.Next's bound: hi is the first key left out.
Past(hi, key) == hi # Nil /\ key >= hi

\* Iter.Next until it ends.
RECURSIVE Iter(_, _)
Iter(c, hi) ==
    IF ~Valid(c) THEN <<>>
    ELSE IF Past(hi, Current(c).key) THEN <<>>
    ELSE <<Current(c)>> \o Iter(Advance(c), hi)

\* Map.IterRange and the entries it yields.
IterRange(root, lo, hi) == Iter(IterStart(Seek(root, 0, lo), lo), hi)

----------------------------------------------------------------------------
(* What a read refuses (ErrCorrupt).                                       *)

\* checkChild, for the child of p's entry i.
CheckChild(p, i) ==
    LET c == p.entries[i].child
    IN  /\ c.level = p.level - 1
        /\ c.entries # <<>>
        /\ LastKey(c) = p.entries[i].key
        /\ Total(c) = p.entries[i].count
        /\ i > 1 => c.entries[1].key > p.entries[i - 1].key

\* decodeNode's canonical forms, of those that the sizes of fields do not
\* decide: keys strictly increase, and only a leaf may be empty.
Decodes(n) ==
    /\ n.level > 0 => n.entries # <<>>
    /\ \A i \in 2..Len(n.entries) : n.entries[i - 1].key < n.entries[i].key

\* Open's refusal, and Walk's, of a root with one child.
OneChild(n) == n.level > 0 /\ Len(n.entries) < 2

\* Walk: every node the map is made of.  The nodes are the chunks visited.
RECURSIVE Walk(_)
Walk(n) ==
    {n} \cup (IF n.level = 0 THEN {}
              ELSE UNION {Walk(n.entries[i].child) : i \in DOMAIN n.entries})

\* A reader gets through the whole map without an ErrCorrupt.
Reads(root) ==
    /\ ~OneChild(root)
    /\ \A n \in Walk(root) :
         Decodes(n) /\ (n.level > 0 => \A i \in DOMAIN n.entries : CheckChild(n, i))

----------------------------------------------------------------------------
(* The diff.                                                               *)

\* equalItems: the same key and value, or the same child above the leaves.
EqualItems(a, b) ==
    LET x == Current(a)
        y == Current(b)
    IN  x.key = y.key /\ IF a.n.level > 0 THEN x.child = y.child ELSE x.val = y.val

\* skipCommonParents' last loop: the child the parent has come to.
Land(c, parent) ==
    IF Valid(parent) THEN Fetch(c, parent) ELSE [c EXCEPT !.up = <<parent>>, !.end = TRUE]

\* skipCommon and skipCommonParents: both cursors past what they share, at
\* the highest level that shares it.
RECURSIVE SkipCommon(_, _, _)
SkipCommon(a, b, parentsAreNew) ==
    IF ~Valid(a) \/ ~Valid(b) THEN <<a, b>>
    ELSE IF ~EqualItems(a, b) THEN <<a, b>>
    ELSE IF /\ parentsAreNew /\ a.up # <<>> /\ b.up # <<>>
            /\ Valid(a.up[1]) /\ Valid(b.up[1]) /\ EqualItems(a.up[1], b.up[1])
    THEN LET up == SkipCommon(a.up[1], b.up[1], TRUE)
         IN  SkipCommon(Land(a, up[1]), Land(b, up[2]), parentsAreNew)
    ELSE SkipCommon(Advance(a), Advance(b), AtNodeEnd(a) \/ AtNodeEnd(b))

\* DiffIter.Next and send until they end: Removed has no to, Added no from.
RECURSIVE DiffFrom(_, _)
DiffFrom(from, to) ==
    IF ~Valid(from) /\ ~Valid(to) THEN <<>>
    ELSE IF ~Valid(to)
    THEN <<[key |-> Current(from).key, from |-> Current(from).val, to |-> NotFound]>>
         \o DiffFrom(Advance(from), to)
    ELSE IF ~Valid(from)
    THEN <<[key |-> Current(to).key, from |-> NotFound, to |-> Current(to).val]>>
         \o DiffFrom(from, Advance(to))
    ELSE LET f == Current(from)
             t == Current(to)
         IN  IF f.key < t.key
             THEN <<[key |-> f.key, from |-> f.val, to |-> NotFound]>>
                  \o DiffFrom(Advance(from), to)
             ELSE IF f.key > t.key
             THEN <<[key |-> t.key, from |-> NotFound, to |-> t.val]>>
                  \o DiffFrom(from, Advance(to))
             ELSE IF f.val # t.val
             THEN <<[key |-> f.key, from |-> f.val, to |-> t.val]>>
                  \o DiffFrom(Advance(from), Advance(to))
             ELSE LET past == SkipCommon(Advance(from), Advance(to), TRUE)
                  IN  DiffFrom(past[1], past[2])

\* prolly.Diff: equal roots differ nowhere.
Diff(from, to) ==
    IF from = to THEN <<>> ELSE DiffFrom(Seek(from, 0, Nil), Seek(to, 0, Nil))

============================================================================
