------------------------------ MODULE Merging ------------------------------
(***************************************************************************)
(* The three-way merge of namespaces (core/merge/merge.go) and of the      *)
(* objects they name (core/model, model/blob, model/tree and               *)
(* model/mapobject), path by path.  A namespace is a function from path to *)
(* object reference; an absent path holds the zero reference, as in the    *)
(* code.  An object's root is a function from entry to value, which the    *)
(* tree model merges entry by entry and the blob model compares whole.     *)
(***************************************************************************)
EXTENDS Integers, FiniteSets

CONSTANTS
    Path,          \* the paths a namespace may hold
    Entry,         \* the entries an object may hold
    Value,         \* the values of an entry; 0 is an absent entry
    Model,         \* the registered models: of "blob", "tree" and "counter"
    MaxConflicts   \* merge.Options.MaxConflicts

Root == [Entry -> Value]

NoRoot == [e \in Entry |-> 0]

\* object.Ref, and its zero value: no object at the path.
Ref == [model : Model, root : Root]

Zero == [model |-> "none", root |-> NoRoot]

Empty == [p \in Path |-> Zero]

Namespace == [Path -> Ref \cup {Zero}]

\* object.Diff and prolly.Diff by what they report: the kind of a change.
ChangeKind(from, to) ==
    IF from = Zero THEN "Added" ELSE IF to = Zero THEN "Removed" ELSE "Modified"

\* model.Accumulates and Registry.Accumulates: only a counter accumulates.
Accumulates(m) == m = "counter"

----------------------------------------------------------------------------
(* The models.  A model answers with a root and whether it conflicts.      *)

\* blob.Model.Merge: an opaque file, taken or conflicting as a whole.
BlobMerge(b, o, t) ==
    IF o = t \/ t = b THEN [root |-> o, conflict |-> FALSE]
    ELSE IF o = b THEN [root |-> t, conflict |-> FALSE]
    ELSE [root |-> o, conflict |-> TRUE]

\* mapobject.Disagreement, for an entry both sides changed: only the same
\* outcome on both sides is clean.
Disagreement(o, t) == o # t

\* mapobject.Spec.MergeWith: one side's change of an entry is taken, and any
\* conflict anywhere leaves ours whole.
TreeMerge(b, o, t) ==
    IF \E e \in Entry : o[e] # b[e] /\ t[e] # b[e] /\ Disagreement(o[e], t[e])
    THEN [root |-> o, conflict |-> TRUE]
    ELSE [root |-> [e \in Entry |-> IF o[e] = b[e] THEN t[e] ELSE o[e]], conflict |-> FALSE]

\* A host's model that implements model.Accumulator: the two changes add.
CounterMerge(b, o, t) ==
    [root |-> [e \in Entry |-> o[e] + t[e] - b[e]], conflict |-> FALSE]

ModelMerge(m, b, o, t) ==
    CASE m = "blob" -> BlobMerge(b, o, t)
      [] m = "tree" -> TreeMerge(b, o, t)
      [] m = "counter" -> CounterMerge(b, o, t)

----------------------------------------------------------------------------
(* The namespace merge's decision at one path.                             *)

Keep(o) == [ref |-> o, kind |-> "clean"]

\* zipper.conflict: ours stays in the merged namespace.
Conflicting(kind, o) == [ref |-> o, kind |-> kind]

\* zipper.accumulates: a change within one model that accumulates.
SameButCounts(b, o) == b.model = o.model /\ Accumulates(o.model)

\* zipper.both: the table for a path both sides changed.
Both(b, o, t) ==
    LET r == ModelMerge(o.model, b.root, o.root, t.root)
    IN  CASE o = t /\ (o = Zero \/ ~SameButCounts(b, o)) -> Keep(o)
          [] o # t /\ (o = Zero \/ t = Zero) -> Conflicting("DeleteEdit", o)
          [] o # t /\ o # Zero /\ t # Zero /\ b = Zero -> Conflicting("AddAdd", o)
          [] OTHER ->
               IF b.model # o.model \/ t.model # o.model THEN Conflicting("ModelChange", o)
               ELSE IF r.conflict THEN Conflicting("BothChanged", o)
               ELSE Keep([model |-> o.model, root |-> r.root])

\* merge.Merge's zip at one path: what only theirs changed is taken
\* (zipper.take), what only ours changed is there already.
Decide(b, o, t) ==
    IF t = b THEN Keep(o) ELSE IF o = b THEN Keep(t) ELSE Both(b, o, t)

\* Merge's shortcuts when a side did not change, or both are one namespace.
Shortcut(b, o, t) == b = t \/ b = o \/ (o = t /\ ~\E m \in Model : Accumulates(m))

Merged(b, o, t) ==
    IF Shortcut(b, o, t) THEN IF b = t \/ o = t THEN o ELSE t
    ELSE [p \in Path |-> Decide(b[p], o[p], t[p]).ref]

Conflict == [path : Path, kind : {"BothChanged", "DeleteEdit", "AddAdd", "ModelChange"},
             base : Ref \cup {Zero}, ours : Ref \cup {Zero}, theirs : Ref \cup {Zero}]

Conflicts(b, o, t) ==
    IF Shortcut(b, o, t) THEN {}
    ELSE {[path |-> p, kind |-> Decide(b[p], o[p], t[p]).kind,
           base |-> b[p], ours |-> o[p], theirs |-> t[p]] :
             p \in {q \in Path : Decide(b[q], o[q], t[q]).kind # "clean"}}

\* A merge past MaxConflicts aborts (ErrTooManyConflicts).
Aborts(b, o, t) == Cardinality(Conflicts(b, o, t)) > MaxConflicts

============================================================================
