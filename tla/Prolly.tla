------------------------------- MODULE Prolly -------------------------------
(***************************************************************************)
(* The prolly tree of core/prolly, as operators on trees.  A chunk's hash  *)
(* stands for its bytes, so an entry above the leaves holds its child      *)
(* itself and two hashes are equal when the nodes are.  A key is an        *)
(* integer, in byte order; 0 is the nil key, before every key.  What a     *)
(* digest gives the split rule, the window of a key at a level, is the     *)
(* variable window, which nothing changes.                                 *)
(***************************************************************************)
EXTENDS Boundary, Sequences, SequencesExt

CONSTANTS
    Key,           \* the keys of a map: 1..n
    SizeOf,        \* entrySize of a leaf entry, by its value
    ChildSize      \* entrySize of an entry above the leaves

VARIABLE window    \* window[level][key]: boundary.Window of the key's digest

Nil == 0

Leaf(entries) == [level |-> 0, entries |-> entries]

\* prolly.Empty: the one node that may have no entries.
EmptyMap == Leaf(<<>>)

LastKey(n) == Last(n.entries).key

\* node.total: the leaf entries under a node.
Total(n) ==
    IF n.level = 0 THEN Len(n.entries)
    ELSE FoldLeft(LAMBDA t, e : t + e.count, 0, n.entries)

\* What Map.store returns: the entry a level up that names the node.
Name(n) == [key |-> LastKey(n), child |-> n, count |-> Total(n)]

EntrySize(level, e) == IF level = 0 THEN SizeOf[e.val] ELSE ChildSize

----------------------------------------------------------------------------
(* The chunker that draws one level's nodes.                               *)

\* chunker: the node being filled, its size, the nodes drawn (out, or nodes
\* when the chunker holds them), and the keys change was called with.
NewChunker == [pending |-> <<>>, size |-> 0, out |-> <<>>, changed |-> <<>>]

\* chunker.end
End(level, ch) ==
    IF ch.pending = <<>> THEN ch
    ELSE [ch EXCEPT !.pending = <<>>, !.size = 0,
                    !.out = Append(@, [level |-> level, entries |-> ch.pending])]

\* chunker.add
Add(level, ch, e) ==
    LET filled == [ch EXCEPT !.pending = Append(@, e), !.size = @ + EntrySize(level, e)]
    IN  IF Splits(level, window[level][e.key], Len(filled.pending), ch.size, filled.size)
        THEN End(level, filled) ELSE filled

\* chunker.change, which only a level-0 chunker logs.
Change(level, ch, key, differs) ==
    IF level = 0 /\ differs THEN [ch EXCEPT !.changed = Append(@, key)] ELSE ch

----------------------------------------------------------------------------
(* Edits.  A put holds the entry it writes, a delete none.                 *)

PutOf(e) == [key |-> e.key, del |-> FALSE, e |-> <<e>>]

DeleteOf(key) == [key |-> key, del |-> TRUE, e |-> <<>>]

\* A change log that holds every edited key, changed or not.
DiffersAlways(level, ed, e) == TRUE

\* Whether an edit of an entry that is there changes its value; above the
\* leaves nobody asks.
Differs(level, ed, e) == level = 0 => ed.del \/ ed.e[1].val # e.val

\* One turn of flush.go's merge: an old entry kept, a new key, or an edited
\* key; due says whether an edit is at most the limit.
MergeStep(level, m, due) ==
    LET ed     == Head(m.edits)
        cmp    == IF ~due THEN 1 ELSE IF m.old = <<>> THEN -1 ELSE ed.key - Head(m.old).key
        logged == Change(level, m.ch, ed.key,
                         IF cmp < 0 THEN ~ed.del ELSE Differs(level, ed, Head(m.old)))
        added  == IF cmp > 0 THEN <<Head(m.old)>> ELSE ed.e
        ch     == IF cmp > 0 THEN m.ch ELSE logged
    IN  [ch    |-> IF added = <<>> THEN ch ELSE Add(level, ch, added[1]),
         old   |-> IF cmp < 0 THEN m.old ELSE Tail(m.old),
         edits |-> IF cmp > 0 THEN m.edits ELSE Tail(m.edits)]

\* flush.go's merge: the entries of old with the edits at most limit (all of
\* them at Nil) applied, in key order, and the edits not yet used.
RECURSIVE Merge(_, _, _)
Merge(level, m, limit) ==
    LET due == m.edits # <<>> /\ (limit # Nil => Head(m.edits).key <= limit)
    IN  IF m.old = <<>> /\ ~due THEN m ELSE Merge(level, MergeStep(level, m, due), limit)

\* replace's default case, for a node that ends where an old one did, when
\* only the counts are compared.
SameNodeCount(removed, added) == removed.count = added.count

\* replace's default case: the node drawn is the one that was there.
SameNode(removed, added) == removed.child = added.child /\ removed.count = added.count

\* replace: old nodes consumed and new nodes drawn, as edits a level up: a
\* new node with an old one's last key replaces it.
Replace(removed, added) ==
    LET old  == ToSet(removed)
        new  == ToSet(added)
        keys == {e.key : e \in old \cup new}
        Of(s, k) == {e \in s : e.key = k}
        EditAt(k) ==
            CASE Of(new, k) = {} -> {DeleteOf(k)}
              [] \E r \in Of(old, k), a \in Of(new, k) : SameNode(r, a) -> {}
              [] OTHER -> {PutOf(a) : a \in Of(new, k)}
    IN  SetToSortSeq(UNION {EditAt(k) : k \in keys}, LAMBDA x, y : x.key < y.key)

----------------------------------------------------------------------------
(* Cursors (cursor.go).  up holds the parent's cursor, or nothing at the   *)
(* root; i counts from 1.                                                  *)

\* search: the first entry whose key is at least key, else one past the last.
Search(n, key) == Cardinality({i \in DOMAIN n.entries : n.entries[i].key < key}) + 1

\* A cursor at the start of a node.
At(n, up) == [n |-> n, i |-> 1, end |-> FALSE, up |-> up]

Valid(c) == ~c.end /\ c.i <= Len(c.n.entries)

Current(c) == c.n.entries[c.i]

AtNodeEnd(c) == c.i = Len(c.n.entries)

\* Map.seek: down to level, into the child whose range holds key.
RECURSIVE SeekFrom(_, _, _)
SeekFrom(c, level, key) ==
    IF c.n.level <= level THEN c
    ELSE LET into == [c EXCEPT !.i = Min({Search(c.n, key), Len(c.n.entries)})]
         IN  SeekFrom(At(Current(into).child, <<into>>), level, key)

Seek(root, level, key) == SeekFrom(At(root, <<>>), level, key)

\* cursor.fetch, once the parent has moved.
Fetch(c, parent) == At(Current(parent).child, <<parent>>)

\* cursor.advance and cursor.nextNode, which call each other.
RECURSIVE Advance(_), NextNode(_)
Advance(c) ==
    IF c.end THEN c
    ELSE IF c.i < Len(c.n.entries) THEN [c EXCEPT !.i = @ + 1]
    ELSE NextNode([c EXCEPT !.i = @ + 1])
NextNode(c) ==
    IF c.up = <<>> THEN [c EXCEPT !.end = TRUE]
    ELSE LET parent == Advance(c.up[1])
         IN  IF Valid(parent) THEN Fetch(c, parent)
             ELSE [c EXCEPT !.up = <<parent>>, !.end = TRUE]

\* cursor.lastNode: every cursor above is at its node's end.
RECURSIVE LastNode(_)
LastNode(c) == c.up = <<>> \/ (AtNodeEnd(c.up[1]) /\ LastNode(c.up[1]))

----------------------------------------------------------------------------
(* Writing edits into a tree (flush.go).                                   *)

\* The node under a cursor merged with the edits up to its last key, or with
\* all of them in the level's last node.
MergeNode(level, c, m) ==
    Merge(level, [m EXCEPT !.old = c.n.entries], IF LastNode(c) THEN Nil ELSE LastKey(c.n))

\* applyLevel's inner loop: a new node ends exactly where an old one did.
Resynced(ch) == ch.pending = <<>>

\* A pass over a tree: the map edited, the edits left at the level it is
\* at, the edits it makes a level up, the keys changed and the nodes put.
Pass(root, edits) == [root |-> root, edits |-> edits, up |-> <<>>, changed |-> <<>>, puts |-> {}]

\* A store that takes a node for one it holds when their last keys agree.
UnstoredByKey(out, removed) ==
    {n \in ToSet(out) : \A i \in DOMAIN removed : removed[i].key # LastKey(n)}

\* Map.store's puts: a node drawn again (chunker.existing) is not put.
Unstored(out, removed) == ToSet(out) \ {removed[i].child : i \in DOMAIN removed}

\* A stretch has ended: the nodes it drew replace the ones it consumed.
Stretched(p, removed, m) ==
    [p EXCEPT !.edits = m.edits,
              !.up = @ \o Replace(removed, [i \in DOMAIN m.ch.out |-> Name(m.ch.out[i])]),
              !.changed = @ \o m.ch.changed,
              !.puts = @ \cup Unstored(m.ch.out, removed)]

\* applyLevel's inner loop, with the node under the cursor merged into m.
RECURSIVE Stretch(_, _, _, _, _)
Stretch(level, p, c, removed, m) ==
    IF Resynced(m.ch) \/ LastNode(c)
    THEN Stretched(p, removed, [m EXCEPT !.ch = End(level, @)])
    ELSE LET next == NextNode(c)
         IN  Stretch(level, p, next, Append(removed, Name(next.n)), MergeNode(level, next, m))

\* applyLevel: stretch by stretch, each from the node of its first edit.
RECURSIVE ApplyLevel(_, _)
ApplyLevel(level, p) ==
    IF p.edits = <<>> THEN p
    ELSE LET c == Seek(p.root, level, Head(p.edits).key)
         IN  ApplyLevel(level, Stretch(level, p, c, <<Name(c.n)>>,
                 MergeNode(level, c, [ch |-> NewChunker, old |-> <<>>, edits |-> p.edits])))

\* applyRoot's loops: the nodes of one level, drawn from entries.
Draw(level, entries) ==
    End(level, FoldLeft(LAMBDA ch, e : Add(level, ch, e), NewChunker, entries)).out

\* applyRoot's loops: the tree grows until a level has one node.
RECURSIVE Grow(_, _)
Grow(p, nodes) ==
    LET stored == [p EXCEPT !.root = nodes[1], !.puts = @ \cup ToSet(nodes)]
    IN  IF Len(nodes) = 1 THEN stored
        ELSE Grow(stored, Draw(nodes[1].level + 1, [i \in DOMAIN nodes |-> Name(nodes[i])]))

\* applyRoot's second case: no single-child root.
RECURSIVE Collapse(_)
Collapse(n) ==
    IF n.level > 0 /\ Len(n.entries) = 1 THEN Collapse(n.entries[1].child) ELSE n

\* applyRoot's three cases, for the nodes the root's level now has.
Top(p, nodes) ==
    CASE nodes = <<>> -> [p EXCEPT !.root = EmptyMap, !.puts = @ \cup {EmptyMap}]
      [] Len(nodes) = 1 ->
           [p EXCEPT !.root = Collapse(nodes[1]), !.puts = @ \cup {Collapse(nodes[1])}]
      [] OTHER -> Grow(p, nodes)

\* applyRoot: the root re-chunked whole with its edits.
ApplyRoot(p) ==
    LET level == p.root.level
        ch    == Merge(level, [ch |-> NewChunker, old |-> p.root.entries, edits |-> p.edits], Nil).ch
    IN  Top([p EXCEPT !.changed = @ \o ch.changed], End(level, ch).out)

\* Map.apply, from a level on: it stops when a level's nodes are unchanged.
RECURSIVE Apply(_, _)
Apply(level, p) ==
    IF level > 0 /\ p.edits = <<>> THEN p
    ELSE IF level = p.root.level THEN ApplyRoot(p)
    ELSE LET q == ApplyLevel(level, p)
         IN  Apply(level + 1, [q EXCEPT !.edits = q.up, !.up = <<>>])

\* Editor.Flush: the edits in key order, applied.
Flushed(root, edits) == Apply(0, Pass(root, edits))

============================================================================
