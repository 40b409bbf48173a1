-------------------------------- MODULE Trees --------------------------------
(***************************************************************************)
(* Two sides edit one prolly map through editors and a merge zips their    *)
(* diffs (core/prolly, core/object's namespace and model/mapobject).  The  *)
(* trees are compared with the plain maps they stand for, which the        *)
(* variable content keeps: nothing in the code reads it.                   *)
(***************************************************************************)
EXTENDS ProllyReads

CONSTANTS
    Value,         \* the values of an entry, all above 0
    Windows,       \* the windows the keys may have
    TreeSetups     \* bounds: the map both sides start from, what they may
                   \* set a key to, and how many edits each makes

VARIABLES
    setup,         \* the setup a behaviour runs, chosen at the start
    base,          \* the map both sides start from, once it is written
    map,           \* each side's Map: its root and the flush that made it
    edits,         \* each side's Editor.edits
    left,          \* edits each side may still make
    store,         \* the nodes the chunk store holds
    content,       \* each side's map as a function; 0 is an absent key
    merged         \* the merge's result, once it has one

treeVars == <<window, setup, base, map, edits, left, store, content, merged>>

Side == {"ours", "theirs"}

Absent == [k \in Key |-> NotFound]

\* Editor.edits: what each key is set to, 0 for a delete, -1 for no edit.
NoEdit == -1

NoEdits == [k \in Key |-> NoEdit]

\* Editor.Flush's first half: the edits in key order.
Edits(ed) ==
    LET keys == SelectSeq([i \in 1..Cardinality(Key) |-> i], LAMBDA k : ed[k] # NoEdit)
        One(k) == IF ed[k] = NotFound THEN DeleteOf(k) ELSE PutOf([key |-> k, val |-> ed[k]])
    IN  [i \in DOMAIN keys |-> One(keys[i])]

\* The map before it is written.
NoMap == [level |-> -1, entries |-> <<>>]

\* A map's entries put into an empty map in one flush, as tree.Write does.
Build(c) == Flushed(EmptyMap, Edits([k \in Key |-> IF c[k] = NotFound THEN NoEdit ELSE c[k]]))

\* Map as Open returns it: Changes answers only for a map a flush made.
Opened(root) == [root |-> root, flushed |-> FALSE, base |-> EmptyMap, changed |-> <<>>]

----------------------------------------------------------------------------
(* Editing.                                                                *)

\* tree.Write: the first map, which both sides then open.
Write ==
    LET f == Build(setup.start)
    IN  /\ base = NoMap
        /\ base' = f.root
        /\ map' = [s \in Side |-> Opened(f.root)]
        /\ content' = [s \in Side |-> setup.start]
        /\ store' = store \cup f.puts
        /\ UNCHANGED <<window, setup, edits, left, merged>>

Edit(s, k, v) ==
    /\ base # NoMap /\ left[s] > 0 /\ merged = <<>>
    /\ <<k, v>> \in setup.edits /\ edits[s][k] # v
    /\ edits' = [edits EXCEPT ![s][k] = v]
    /\ left' = [left EXCEPT ![s] = @ - 1]
    /\ UNCHANGED <<window, setup, base, map, store, content, merged>>

\* Editor.Put and Editor.Delete.
Put(s, k, v) == Edit(s, k, v)

Delete(s, k) == Edit(s, k, NotFound)

\* Editor.Flush.  The editor then edits the new map.
Flush(s) ==
    LET f == Flushed(map[s].root, Edits(edits[s]))
    IN  /\ edits[s] # NoEdits /\ merged = <<>>
        /\ map' = [map EXCEPT ![s] = [root |-> f.root, flushed |-> TRUE,
                                      base |-> @.root, changed |-> f.changed]]
        /\ store' = store \cup f.puts
        /\ edits' = [edits EXCEPT ![s] = NoEdits]
        /\ content' = [content EXCEPT ![s] =
                         [k \in Key |-> IF edits[s][k] = NoEdit THEN @[k] ELSE edits[s][k]]]
        /\ UNCHANGED <<window, setup, base, left, merged>>

\* Neither editor holds edits: the trees are the ones last flushed.
Settled == \A s \in Side : edits[s] = NoEdits

----------------------------------------------------------------------------
(* Merging.                                                                *)

\* mapobject.Disagreement, for changes of one key on both sides.
Disagrees(o, t) == o.to # t.to

\* MergeWith's zip of the two diffs: theirs' changes alone become edits of
\* ours, and a key both changed is decided.
RECURSIVE ZipDiffs(_, _)
ZipDiffs(co, ct) ==
    IF ct = <<>> THEN [edits |-> NoEdits, conflicts |-> <<>>]
    ELSE IF co # <<>> /\ co[1].key < ct[1].key THEN ZipDiffs(Tail(co), ct)
    ELSE IF co = <<>> \/ ct[1].key < co[1].key
    THEN LET z == ZipDiffs(co, Tail(ct)) IN [z EXCEPT !.edits[ct[1].key] = ct[1].to]
    ELSE LET z == ZipDiffs(Tail(co), Tail(ct))
         IN  IF Disagrees(co[1], ct[1]) THEN [z EXCEPT !.conflicts = <<co[1].key>> \o @] ELSE z

\* A merge that keeps what it took of theirs beside a conflict.
MergeWithTaken(b, o, t) ==
    LET z == ZipDiffs(Diff(b, o), Diff(b, t))
        f == Flushed(o, Edits(z.edits))
    IN  [root |-> f.root, puts |-> f.puts, conflicts |-> z.conflicts]

\* Spec.MergeWith: ours with theirs' changes, or ours whole with conflicts.
MergeWith(b, o, t) ==
    LET z == ZipDiffs(Diff(b, o), Diff(b, t))
        f == Flushed(o, Edits(z.edits))
    IN  IF z.conflicts # <<>> THEN [root |-> o, puts |-> {}, conflicts |-> z.conflicts]
        ELSE [root |-> f.root, puts |-> f.puts, conflicts |-> <<>>]

\* A merge of the two sides, once both have made and flushed their edits.
MergeSides ==
    LET r == MergeWith(base, map["ours"].root, map["theirs"].root)
    IN  /\ base # NoMap /\ merged = <<>> /\ Settled /\ \A s \in Side : left[s] = 0
        /\ merged' = <<[root |-> r.root, conflicts |-> r.conflicts]>>
        /\ store' = store \cup r.puts
        /\ UNCHANGED <<window, setup, base, map, edits, left, content>>

----------------------------------------------------------------------------
TreeInit(windows, setups) ==
    /\ window \in windows
    /\ setup \in setups
    /\ base = NoMap
    /\ map = [s \in Side |-> Opened(EmptyMap)]
    /\ edits = [s \in Side |-> NoEdits]
    /\ left = setup.left
    /\ store = {EmptyMap}
    /\ content = [s \in Side |-> Absent]
    /\ merged = <<>>

TreeNext ==
    \/ Write
    \/ \E s \in Side, k \in Key, v \in Value : Put(s, k, v)
    \/ \E s \in Side, k \in Key : Delete(s, k)
    \/ \E s \in Side : Flush(s)
    \/ MergeSides

----------------------------------------------------------------------------
(* Properties.                                                             *)

Roots == {map[s].root : s \in Side} \cup {merged[i].root : i \in DOMAIN merged}

\* A tree does not depend on its history: whatever edits led to it, it is
\* the tree a bulk build of the same entries draws ("The result is the tree
\* a bulk build of the same entries draws", Map.apply).  Stretches that
\* resynchronise, replaced nodes, growth and collapse all have to agree.
Canonical == base # NoMap => \A s \in Side : map[s].root = Build(content[s]).root

\* Changes answers what Diff of the two maps reports, in key order, without
\* reading either (Map.Changes), and Diff, which skips what the trees share,
\* reports every key whose value differs and no other.
ChangesAreDiff ==
    base # NoMap /\ Settled => \A s \in Side :
      /\ map[s].flushed =>
           map[s].changed = [i \in DOMAIN Diff(map[s].base, map[s].root) |->
                               Diff(map[s].base, map[s].root)[i].key]
      /\ LET d == Diff(base, map[s].root)
         IN  /\ \A i \in 1..Len(d) - 1 : d[i].key < d[i + 1].key
             /\ ToSet(d) = {[key |-> k, from |-> Get(base, k), to |-> content[s][k]] :
                              k \in {x \in Key : Get(base, x) # content[s][x]}}

\* Lookups and ranges answer from the tree what the plain map holds: no
\* entry is lost at the edge of a leaf, or past the last key (Get,
\* IterRange).
ReadsExact ==
    base # NoMap /\ Settled => \A s \in Side :
      /\ \A k \in Key : Get(map[s].root, k) = content[s][k]
      /\ \A lo, hi \in Key \cup {Nil} :
           LET it == IterRange(map[s].root, lo, hi)
           IN  /\ \A i \in 1..Len(it) - 1 : it[i].key < it[i + 1].key
               /\ ToSet(it) = {[key |-> k, val |-> content[s][k]] : k \in
                     {x \in Key : content[s][x] # NotFound /\ x >= lo /\ (hi # Nil => x < hi)}}

\* Every tree an editor or a merge hands out is in the store whole, although
\* a flush writes only the nodes it draws anew, and a reader that checks
\* every child against its parent's entry gets through it.
StoredWhole == \A r \in Roots : Walk(r) \subseteq store /\ Reads(r)

Reference == INSTANCE Merging WITH
    Path <- {1}, Entry <- Key, Value <- Value \cup {NotFound}, Model <- {"tree"}, MaxConflicts <- 1

\* The zip of two diffs is the merge entry by entry (mapobject.MergeWith):
\* the result is the tree of the merged map, or ours whole when any key
\* conflicts, whatever of theirs the zip had taken by then; and the conflicts
\* are the keys both sides changed differently, in order.
MergeExact ==
    \A i \in DOMAIN merged :
      LET b == [k \in Key |-> Get(base, k)]
          o == content["ours"]
          t == content["theirs"]
          differ == {k \in Key : o[k] # b[k] /\ t[k] # b[k] /\ o[k] # t[k]}
      IN  /\ merged[i].root = Build(Reference!TreeMerge(b, o, t).root).root
          /\ merged[i].conflicts = SetToSortSeq(differ, <)

============================================================================
