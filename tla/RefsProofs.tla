----------------------------- MODULE RefsProofs -----------------------------
(***************************************************************************)
(* The refs move only forward and keep their merges, for any clients,      *)
(* branches, tags and mixes of calls: the inductive invariant, one lemma   *)
(* per step, and the theorems.                                             *)
(***************************************************************************)
EXTENDS Refs, SequenceTheorems, TLAPS

\* A value has the fields the calls read, whatever they hold.
IsMerge(m) == DOMAIN m = {"base", "theirs", "conflicts", "pre"}

IsWork(w) ==
    /\ DOMAIN w = {"working", "staged", "merge"}
    /\ IsMerge(w.merge)
    /\ w.merge.theirs \in 0 .. Len(commits)

IsRefs(m) ==
    /\ DOMAIN m = {"zero", "head", "work", "tag"}
    /\ DOMAIN m.head = Branch /\ DOMAIN m.work = Branch /\ DOMAIN m.tag = Tag
    /\ \A b \in Branch : m.head[b] \in 0 .. Len(commits) /\ IsWork(m.work[b])

IsOp(o) ==
    DOMAIN o = {"call", "at", "b", "tag", "prev", "next", "target", "path", "to", "snap", "tries", "rounds"}

\* The commits are a sequence, each with parents stored before it.
CommitsOK ==
    /\ commits \in Seq({commits[n] : n \in DOMAIN commits})
    /\ \A n \in DOMAIN commits : Parents(commits, n) \subseteq 1 .. n - 1

\* A branch's merge is the one the history variables name, and a branch that
\* does not exist has none.
KeptOK ==
    /\ DOMAIN merging = Branch /\ DOMAIN owed = Branch
    /\ \A b \in Branch :
         /\ merging[b].theirs = 0 => merging[b] = NotMerging
         /\ ~Has(refs, b) => merging[b] = NotMerging /\ owed[b] = {}

\* What a call carries to its attempts: what it read, and what it was given.
Carries(o) ==
    /\ o.call \in {"update", "merge", "resolve"} /\ o.at \in {"read", "swap"} =>
         IsWork(o.prev) /\ IsWork(o.next)
    /\ o.call = "merge" => /\ o.next.merge.theirs \in 1 .. Len(commits)
                           /\ o.next.merge.pre = <<o.prev.working, o.prev.staged>>
    /\ o.call = "resolve" /\ o.at \in {"read", "swap"} =>
         o.next.merge = [o.prev.merge EXCEPT !.conflicts = {x \in @ : x.path # o.path}]
    /\ o.call = "create" => o.target \in 1 .. Len(commits)

\* What the refs a swap starts from were found to allow.
Allowed(o) ==
    /\ o.call \in {"update", "merge", "resolve", "staged", "commit", "delete", "abort"} =>
         Has(o.snap, o.b)
    /\ o.call \in {"update", "merge", "resolve"} => o.snap.work[o.b] = o.prev
    /\ o.call = "update" => o.snap.work[o.b].merge = o.next.merge
    /\ o.call \in {"staged", "commit"} => o.snap.work[o.b].merge.conflicts = {}
    /\ o.call = "create" => ~Has(o.snap, o.b)
    /\ o.call = "tag" => o.snap.tag[o.tag] = 0

Calls == {"idle", "init", "update", "merge", "resolve", "staged", "commit", "create", "delete",
          "tag", "untag", "abort", "checkout"}

OpOK(o) ==
    /\ IsOp(o)
    /\ o.call \in Calls /\ o.b \in Branch
    /\ o.at = "prepare" => o.call = "resolve"
    /\ o.at \in {"read", "swap"} => o.call \notin {"idle", "checkout"}
    /\ o.at = "read" => o.call # "init"
    /\ o.call \in {"tag", "untag"} => o.tag \in Tag
    /\ Carries(o)
    /\ o.at = "swap" => IF o.call = "init" THEN o.snap = NoRefs ELSE Allowed(o)

RefsInv ==
    /\ IsRefs(refs)
    /\ CommitsOK
    /\ KeptOK
    /\ MergeKept
    /\ DOMAIN op = Client
    /\ \A c \in Client : OpOK(op[c])

----------------------------------------------------------------------------
(* A commit is its own ancestor, and so is each of its parents.            *)
LEMMA HoldsItself ==
  ASSUME NEW cs, NEW n \in Nat \ {0}
  PROVE  n \in Ancestors(cs, n)
BY DEF Ancestors

LEMMA HoldsParents ==
  ASSUME NEW cs, NEW n \in Nat \ {0}, NEW p \in 1 .. n - 1, p \in Parents(cs, n)
  PROVE  p \in Ancestors(cs, n)
BY DEF Ancestors

(* A sequence is one of its own elements, and so is one element longer.    *)
LEMMA OwnElements ==
  ASSUME NEW S, NEW s \in Seq(S)
  PROVE  s \in Seq({s[n] : n \in DOMAIN s})
<1> DEFINE T == {s[n] : n \in DOMAIN s}
<1>1. Len(s) \in Nat /\ s \in [1 .. Len(s) -> S]
  BY LenProperties
<1>2. s \in [1 .. Len(s) -> T]
  BY <1>1
<1>3. QED
  BY <1>1, <1>2, SeqDef

(* One more commit leaves the others as they are.                          *)
LEMMA Appended ==
  ASSUME CommitsOK, NEW e, commits' = Append(commits, e)
  PROVE  /\ Len(commits) \in Nat /\ Len(commits') = Len(commits) + 1
         /\ DOMAIN commits = 1 .. Len(commits) /\ DOMAIN commits' = 1 .. Len(commits) + 1
         /\ \A n \in DOMAIN commits : commits'[n] = commits[n]
         /\ commits'[Len(commits) + 1] = e
         /\ commits' \in Seq({commits'[n] : n \in DOMAIN commits'})
<1> DEFINE S == {commits[n] : n \in DOMAIN commits} \cup {e}
<1>1. commits \in Seq(S)
  BY DEF CommitsOK
<1>2. /\ Len(commits) \in Nat /\ Len(commits') = Len(commits) + 1
      /\ DOMAIN commits = 1 .. Len(commits) /\ DOMAIN commits' = 1 .. Len(commits) + 1
      /\ \A n \in DOMAIN commits : commits'[n] = commits[n]
      /\ commits'[Len(commits) + 1] = e /\ commits' \in Seq(S)
  BY <1>1
<1> HIDE DEF S
<1>3. QED
  BY <1>2, OwnElements

(* The calls that others are in stay sound as commits are added.           *)
LEMMA OpKept ==
  ASSUME NEW o, OpOK(o), Len(commits) \in Nat, Len(commits') \in Nat, Len(commits) <= Len(commits')
  PROVE  OpOK(o)'
<1>1. ASSUME NEW w, IsWork(w) PROVE IsWork(w)'
  BY <1>1 DEF IsWork
<1>2. Carries(o)'
  BY <1>1 DEF OpOK, Carries
<1>3. QED
  BY <1>2 DEF OpOK

(* A client between calls.                                                 *)
LEMMA IdleOK == OpOK(Idle)
BY MainAssumption DEF OpOK, IsOp, Idle, Carries, Calls

(* A working set with no merge in progress.                                *)
LEMMA NoMergeOK ==
  ASSUME Len(commits) \in Nat
  PROVE  /\ IsMerge(NoMerge) /\ NoMerge.theirs \in 0 .. Len(commits)
         /\ \A w, s : /\ IsWork(Working(w, s)) /\ Working(w, s).merge = NoMerge
<1>1. IsMerge(NoMerge) /\ NoMerge.theirs \in 0 .. Len(commits)
  BY DEF IsMerge, NoMerge
<1>2. ASSUME NEW w, NEW s PROVE IsWork(Working(w, s)) /\ Working(w, s).merge = NoMerge
  BY <1>1 DEF IsWork, Working
<1>3. QED
  BY <1>1, <1>2

(* A step that moves a client on in its call at most.                      *)
LEMMA Unchanged ==
  ASSUME RefsInv, UNCHANGED <<refs, commits, merging, owed, op>>
  PROVE  RefsInv'
BY DEF RefsInv, IsRefs, IsWork, CommitsOK, KeptOK, MergeKept, Has, OpOK, Carries

LEMMA CallStep ==
  ASSUME RefsInv, UNCHANGED <<refs, commits, merging, owed>>,
         NEW c \in Client, NEW o, op' = [op EXCEPT ![c] = o], OpOK(o)
  PROVE  RefsInv'
<1>1. IsRefs(refs)' /\ CommitsOK' /\ KeptOK' /\ MergeKept'
  BY DEF RefsInv, IsRefs, IsWork, CommitsOK, KeptOK, MergeKept, Has
<1>2. \A d \in Client : OpOK(op[d])' <=> OpOK(op'[d])
  BY DEF OpOK, Carries, IsWork
<1>3. QED
  BY <1>1, <1>2 DEF RefsInv

----------------------------------------------------------------------------
(* The begin of each call: what it carries is what it read and was given.  *)
LEMMA BeginInitInv ==
  ASSUME RefsInv, NEW c \in Client, BeginInit(c)
  PROVE  RefsInv'
<1> DEFINE r == [Idle EXCEPT !.call = "init", !.at = "swap"]
<1>1. OpOK(r)
  BY MainAssumption DEF OpOK, IsOp, Idle, Carries, Calls
<1>2. QED
  BY Zenon, <1>1, CallStep DEF BeginInit, Ready, Start

LEMMA BeginUpdateInv ==
  ASSUME RefsInv, NEW c \in Client, NEW b \in Branch, BeginUpdate(c, b)
  PROVE  RefsInv'
<1>1. PICK w \in Namespace, s \in BOOLEAN, m \in {refs.work[b].merge, NoMerge} :
        Start(c, [Idle EXCEPT !.call = "update", !.at = "read", !.b = b, !.prev = refs.work[b],
                    !.next = [working |-> w, merge |-> m,
                              staged |-> IF s THEN w ELSE refs.work[b].staged]])
  BY Zenon DEF BeginUpdate
<1> DEFINE n == [working |-> w, merge |-> m, staged |-> IF s THEN w ELSE refs.work[b].staged]
           r == [Idle EXCEPT !.call = "update", !.at = "read", !.b = b, !.prev = refs.work[b],
                             !.next = n]
<1>2. IsWork(refs.work[b]) /\ Len(commits) \in Nat
  BY LenProperties DEF RefsInv, IsRefs, CommitsOK
<1>3. IsWork(n)
  <2>1. IsMerge(m) /\ m.theirs \in 0 .. Len(commits)
    BY <1>2, NoMergeOK DEF IsWork
  <2>2. QED
    BY <2>1 DEF IsWork
<1> HIDE DEF n
<1>4. OpOK(r)
  BY <1>2, <1>3 DEF OpOK, IsOp, Idle, Carries, Calls
<1>5. QED
  BY Zenon, <1>1, <1>4, CallStep DEF BeginUpdate, Ready, Start, n

LEMMA BeginPlainInv ==
  ASSUME RefsInv, NEW c \in Client, NEW b \in Branch,
         BeginStaged(c, b) \/ BeginDelete(c, b) \/ BeginAbort(c, b) \/ BeginCheckout(c, b)
  PROVE  RefsInv'
<1> DEFINE r(call, at) == [Idle EXCEPT !.call = call, !.at = at, !.b = b]
<1>1. \A call \in {"staged", "delete", "abort"} : OpOK(r(call, "read"))
  BY DEF OpOK, IsOp, Idle, Carries, Calls
<1>2. OpOK(r("checkout", "count"))
  BY DEF OpOK, IsOp, Idle, Carries, Calls
<1>3. \E o : /\ OpOK(o) /\ op' = [op EXCEPT ![c] = o]
             /\ UNCHANGED <<refs, commits, merging, owed>>
  BY <1>1, <1>2 DEF BeginStaged, BeginDelete, BeginAbort, BeginCheckout, Ready, Start
<1>4. QED
  BY Zenon, <1>3, CallStep

LEMMA BeginCommitInv ==
  ASSUME RefsInv, NEW c \in Client, NEW b \in Branch, BeginCommit(c, b)
  PROVE  RefsInv'
<1>1. PICK n \in Namespace :
        Start(c, [Idle EXCEPT !.call = "commit", !.at = "read", !.b = b,
                              !.prev = refs.work[b], !.next = Working(n, n)])
  BY Zenon DEF BeginCommit
<1> DEFINE r == [Idle EXCEPT !.call = "commit", !.at = "read", !.b = b,
                             !.prev = refs.work[b], !.next = Working(n, n)]
<1>2. OpOK(r)
  BY DEF OpOK, IsOp, Idle, Carries, Calls
<1>3. QED
  BY Zenon, <1>1, <1>2, CallStep DEF BeginCommit, Ready, Start

LEMMA BeginNamedInv ==
  ASSUME RefsInv, NEW c \in Client, NEW b \in Branch, NEW n \in DOMAIN commits, BeginCreate(c, b, n)
  PROVE  RefsInv'
<1> DEFINE r == [Idle EXCEPT !.call = "create", !.at = "read", !.b = b, !.target = n]
<1>1. n \in 1 .. Len(commits)
  BY LenProperties DEF RefsInv, CommitsOK
<1>2. OpOK(r)
  BY <1>1 DEF OpOK, IsOp, Idle, Carries, Calls
<1>3. QED
  BY Zenon, <1>2, CallStep DEF BeginCreate, Ready, Start

LEMMA BeginOnTagInv ==
  ASSUME RefsInv, NEW c \in Client, BeginOnTag(c)
  PROVE  RefsInv'
<1>1. ASSUME NEW t \in Tag, BeginUntag(c, t) PROVE RefsInv'
  <2> DEFINE r == [Idle EXCEPT !.call = "untag", !.at = "read", !.tag = t]
  <2>1. OpOK(r)
    BY MainAssumption DEF OpOK, IsOp, Idle, Carries, Calls
  <2>2. QED
    BY Zenon, <1>1, <2>1, CallStep DEF BeginUntag, Ready, Start
<1>2. ASSUME NEW t \in Tag, NEW n \in DOMAIN commits, BeginTag(c, t, n) PROVE RefsInv'
  <2> DEFINE r == [Idle EXCEPT !.call = "tag", !.at = "read", !.tag = t, !.target = n]
  <2>1. OpOK(r)
    BY MainAssumption DEF OpOK, IsOp, Idle, Carries, Calls
  <2>2. QED
    BY Zenon, <1>2, <2>1, CallStep DEF BeginTag, Ready, Start
<1>3. QED
  BY <1>1, <1>2 DEF BeginOnTag

LEMMA BeginMergeInv ==
  ASSUME RefsInv, NEW c \in Client, NEW b \in Branch, NEW n \in DOMAIN commits, BeginMerge(c, b, n)
  PROVE  RefsInv'
<1> DEFINE ws   == refs.work[b]
           base == MergeBase(commits, refs.head[b], n)
           from == commits[base].ns
           into == Merged(from, ws.working, commits[n].ns)
           m    == [base |-> base, theirs |-> n,
                    conflicts |-> Conflicts(from, ws.working, commits[n].ns),
                    pre |-> <<ws.working, ws.staged>>]
           next == [working |-> into, staged |-> into, merge |-> m]
           r    == [Idle EXCEPT !.call = "merge", !.at = "read", !.b = b, !.prev = ws, !.next = next]
<1>1. Start(c, r) /\ UNCHANGED <<refs, commits, merging, owed>>
  BY DEF BeginMerge, Ready
<1>2. IsWork(ws) /\ Len(commits) \in Nat /\ n \in 1 .. Len(commits)
  BY LenProperties DEF RefsInv, IsRefs, CommitsOK
<1>3. IsMerge(m) /\ m.theirs = n /\ m.pre = <<ws.working, ws.staged>>
  BY DEF IsMerge
<1> HIDE DEF m
<1>4. IsWork(next) /\ next.merge = m
  BY <1>2, <1>3 DEF IsWork
<1> HIDE DEF next
<1>5. OpOK(r)
  BY <1>2, <1>3, <1>4 DEF OpOK, IsOp, Idle, Carries, Calls
<1>6. QED
  BY Zenon, <1>1, <1>5, CallStep DEF Start

LEMMA BeginResolveInv ==
  ASSUME RefsInv, NEW c \in Client, NEW b \in Branch, NEW p, NEW to, BeginResolve(c, b, p, to)
  PROVE  RefsInv'
<1> DEFINE r == [Idle EXCEPT !.call = "resolve", !.at = "prepare", !.b = b, !.path = p, !.to = to]
<1>1. OpOK(r)
  BY DEF OpOK, IsOp, Idle, Carries, Calls
<1>2. QED
  BY Zenon, <1>1, CallStep DEF BeginResolve, Ready, Start

----------------------------------------------------------------------------
(* The steps of a call under way.                                          *)
LEMMA PrepareResolveInv ==
  ASSUME RefsInv, NEW c \in Client, PrepareResolve(c)
  PROVE  RefsInv'
<1> DEFINE o    == op[c]
           ws   == refs.work[o.b]
           left == {x \in ws.merge.conflicts : x.path # o.path}
           m    == [ws.merge EXCEPT !.conflicts = left]
           next == [working |-> [ws.working EXCEPT ![o.path] = o.to],
                    staged |-> [ws.staged EXCEPT ![o.path] = o.to], merge |-> m]
           r    == [o EXCEPT !.at = "read", !.prev = ws, !.tries = 0, !.next = next]
<1>1. /\ o.at = "prepare" /\ UNCHANGED <<refs, commits, merging, owed>>
      /\ op' = [op EXCEPT ![c] = r] \/ op' = [op EXCEPT ![c] = Idle]
  BY Zenon DEF PrepareResolve
<1>2. OpOK(o) /\ o.call = "resolve" /\ o.b \in Branch /\ IsWork(ws)
  BY <1>1 DEF RefsInv, OpOK, IsRefs
<1>3. IsMerge(m) /\ m.theirs = ws.merge.theirs
  BY <1>2 DEF IsMerge, IsWork
<1>4. m = [ws.merge EXCEPT !.conflicts = {x \in @ : x.path # o.path}]
  OBVIOUS
<1> HIDE DEF m
<1>5. IsWork(next) /\ next.merge = m
  BY <1>2, <1>3 DEF IsWork
<1> HIDE DEF next
<1>6. IsOp(r) /\ r.at = "read" /\ r.call = "resolve" /\ r.b = o.b /\ r.path = o.path
      /\ r.prev = ws /\ r.next = next
  BY <1>2 DEF OpOK, IsOp
<1>7. OpOK(r)
  <2> HIDE DEF r, ws
  <2> QED
    BY <1>2, <1>4, <1>5, <1>6 DEF OpOK, Carries, Calls
<1>8. QED
  BY <1>1, <1>7, IdleOK, CallStep

LEMMA AttemptInv ==
  ASSUME RefsInv, NEW c \in Client, Attempt(c)
  PROVE  RefsInv'
<1> DEFINE o == op[c]
           r == [o EXCEPT !.at = "swap", !.snap = refs]
           q == [o EXCEPT !.at = "prepare", !.rounds = @ + 1]
<1>1. /\ o.at = "read" /\ UNCHANGED <<refs, commits, merging, owed>>
      /\ \/ op' = [op EXCEPT ![c] = r] /\ Refuses(o, refs) = "ok"
         \/ op' = [op EXCEPT ![c] = q] /\ o.call = "resolve"
         \/ op' = [op EXCEPT ![c] = Idle]
  BY Zenon DEF Attempt
<1>2. OpOK(o) /\ o.call \notin {"idle", "checkout", "init"}
  BY <1>1 DEF RefsInv, OpOK
<1>3. ASSUME o.call = "resolve" PROVE OpOK(q)
  <2>1. IsOp(q) /\ q.at = "prepare" /\ q.call = "resolve" /\ q.b = o.b
    BY <1>2, <1>3 DEF OpOK, IsOp
  <2> HIDE DEF q
  <2>2. QED
    BY <1>2, <2>1 DEF OpOK, Carries, Calls
<1>4. ASSUME Refuses(o, refs) = "ok" PROVE OpOK(r)
  <2>1. /\ IsOp(r) /\ r.at = "swap" /\ r.snap = refs
        /\ \A x \in {"call", "b", "tag", "prev", "next", "target", "path"} : r[x] = o[x]
    BY <1>2 DEF OpOK, IsOp
  <2>2. /\ r.call = o.call /\ r.b = o.b /\ r.tag = o.tag /\ r.prev = o.prev /\ r.next = o.next
        /\ r.target = o.target /\ r.path = o.path
    BY <2>1
  <2> HIDE DEF r
  <2>3. Carries(r)
    BY <1>1, <1>2, <2>1, <2>2 DEF OpOK, Carries
  <2>4. Allowed(r)
    <3>1. CASE o.call \in {"update", "merge", "resolve"}
      BY <1>4, <2>1, <2>2, <3>1 DEF Refuses, SetRefuses, SameMerge, Allowed
    <3>2. CASE o.call \in {"staged", "commit"}
      BY <1>4, <2>1, <2>2, <3>2 DEF Refuses, CommitRefuses, Allowed
    <3>3. CASE o.call \in {"create", "delete", "abort"}
      BY <1>4, <2>1, <2>2, <3>3
         DEF Refuses, CreateRefuses, DeleteRefuses, AbortRefuses, Allowed
    <3>4. CASE o.call \in {"tag", "untag"}
      BY <1>4, <2>1, <2>2, <3>4 DEF Refuses, TagRefuses, Allowed
    <3>5. QED
      BY <1>2, <3>1, <3>2, <3>3, <3>4 DEF OpOK, Calls
  <2>5. QED
    BY <1>2, <2>1, <2>2, <2>3, <2>4 DEF OpOK
<1>5. QED
  BY <1>1, <1>3, <1>4, IdleOK, CallStep

LEMMA LostSwapInv ==
  ASSUME RefsInv, NEW c \in Client, LostSwap(c)
  PROVE  RefsInv'
<1> DEFINE o == op[c]
           r == [o EXCEPT !.at = "read", !.tries = @ + 1, !.snap = NoRefs]
<1>1. /\ o.at = "swap" /\ UNCHANGED <<refs, commits, merging, owed>>
      /\ \/ op' = [op EXCEPT ![c] = r] /\ o.call # "init"
         \/ op' = [op EXCEPT ![c] = Idle]
  BY Zenon DEF LostSwap
<1>2. OpOK(o)
  BY DEF RefsInv
<1>3. ASSUME o.call # "init" PROVE OpOK(r)
  <2>1. /\ IsOp(r) /\ r.at = "read" /\ r.call = o.call /\ r.b = o.b /\ r.tag = o.tag
        /\ r.prev = o.prev /\ r.next = o.next /\ r.target = o.target /\ r.path = o.path
    BY <1>2 DEF OpOK, IsOp
  <2> HIDE DEF r
  <2>2. QED
    BY <1>1, <1>2, <1>3, <2>1 DEF OpOK, Carries
<1>4. QED
  BY <1>1, <1>3, IdleOK, CallStep

LEMMA SessionsInv ==
  ASSUME RefsInv, NEW c \in Client, Checkout(c) \/ CloseSession(c)
  PROVE  RefsInv'
<1>1. CASE Checkout(c)
  BY Zenon, <1>1, IdleOK, CallStep DEF Checkout
<1>2. CASE CloseSession(c)
  <2>1. UNCHANGED <<refs, commits, merging, owed, op>>
    BY <1>2 DEF CloseSession
  <2>2. QED
    BY <2>1, Unchanged
<1>3. QED
  BY <1>1, <1>2

----------------------------------------------------------------------------
(* A swap.                                                                 *)

\* Refs that change one branch, to head h and working set w, with the merge
\* history g and s.
BranchTo(b, h, w, g, s) ==
    /\ DOMAIN refs' = {"zero", "head", "work", "tag"} /\ DOMAIN refs'.tag = Tag
    /\ DOMAIN refs'.head = Branch /\ DOMAIN refs'.work = Branch
    /\ DOMAIN merging' = Branch /\ DOMAIN owed' = Branch
    /\ refs'.head[b] = h /\ refs'.work[b] = w /\ merging'[b] = g /\ owed'[b] = s
    /\ \A x \in Branch \ {b} : /\ refs'.head[x] = refs.head[x] /\ refs'.work[x] = refs.work[x]
                               /\ merging'[x] = merging[x] /\ owed'[x] = owed[x]

\* The merge of a branch at h with working set w is the one g and s name.
MergeNamed(h, w, g, s) ==
    /\ h # 0 => /\ g = [theirs |-> w.merge.theirs, pre |-> w.merge.pre]
                /\ {x.path : x \in w.merge.conflicts} = s
    /\ h = 0 => g = NotMerging /\ s = {}
    /\ g.theirs = 0 => g = NotMerging

(* Such a swap keeps the invariant when w has the merge the history names. *)
LEMMA BranchSwap ==
  ASSUME RefsInv, CommitsOK', Len(commits) \in Nat, Len(commits') \in Nat, Len(commits) <= Len(commits'),
         NEW c \in Client, op' = [op EXCEPT ![c] = Idle],
         NEW b \in Branch, NEW h \in 0 .. Len(commits'), NEW w, NEW g, NEW s,
         BranchTo(b, h, w, g, s), IsWork(w)',
         MergeNamed(h, w, g, s)
  PROVE  RefsInv'
<1>1. BranchTo(b, h, w, g, s)
  OBVIOUS
<1> USE DEF BranchTo, MergeNamed
<1>2. \A x \in Branch : IsWork(refs.work[x]) => IsWork(refs.work[x])'
  <2>1. ASSUME NEW v, IsWork(v) PROVE v.merge.theirs \in 0 .. Len(commits')
    BY <2>1 DEF IsWork
  <2>2. SUFFICES ASSUME NEW x \in Branch, IsWork(refs.work[x]) PROVE IsWork(refs.work[x])'
    OBVIOUS
  <2>3. CASE x = b
    BY <1>1, <2>3 DEF IsWork
  <2>4. CASE x # b
    BY <1>1, <2>1, <2>2, <2>4 DEF IsWork
  <2>5. QED
    BY <2>3, <2>4
<1>3. IsRefs(refs)'
  BY <1>1, <1>2 DEF RefsInv, IsRefs
<1>4. KeptOK'
  BY <1>1 DEF RefsInv, KeptOK, Has
<1>5. MergeKept'
  BY Zenon, <1>1 DEF RefsInv, MergeKept, Has
<1>6. DOMAIN op' = Client /\ \A d \in Client : OpOK(op[d])'
  <2>1. op'[c] = Idle /\ \A d \in Client \ {c} : op'[d] = op[d]
    BY DEF RefsInv
  <2>2. ASSUME NEW d \in Client PROVE OpOK(op[d])'
    <3>1. PICK o : o = op'[d]
      OBVIOUS
    <3>2. OpOK(o)
      BY <2>1, <3>1, IdleOK DEF RefsInv
    <3>3. OpOK(o)'
      BY <3>2, OpKept
    <3>4. QED
      BY ONLY <3>1, <3>3 DEF OpOK, Carries, IsWork
  <2>3. QED
    BY <2>2 DEF RefsInv
<1>7. QED
  BY <1>3, <1>4, <1>5, <1>6 DEF RefsInv

(* A working set put in place of the one read: an update keeps the merge,  *)
(* a resolve settles one path of it, and a merge begins one.               *)
LEMMA SetSwap ==
  ASSUME RefsInv, NEW c \in Client, Swap(c), op[c].call \in {"update", "merge", "resolve"}
  PROVE  RefsInv'
<1> DEFINE o == op[c]
           b == o.b
           n == o.next.merge
           v == refs.work[b].merge
<1>1. /\ OpOK(o) /\ b \in Branch /\ IsOp(o) /\ o.at = "swap"
      /\ refs = o.snap /\ Carries(o) /\ Allowed(o) /\ IsRefs(refs) /\ KeptOK /\ MergeKept /\ CommitsOK
  BY DEF RefsInv, Swap, Unmoved, OpOK
<1>2. /\ refs' = [refs EXCEPT !.work[b] = o.next] /\ commits' = commits
      /\ op' = [op EXCEPT ![c] = Idle]
  BY <1>1 DEF Swap, Unmoved, Writes, SetWrites
<1>3. Len(commits) \in Nat /\ CommitsOK'
  BY <1>1, <1>2, LenProperties DEF CommitsOK
<1>4. /\ refs.head[b] # 0 /\ refs.head[b] \in 0 .. Len(commits)
      /\ refs.work[b] = o.prev /\ IsWork(o.next) /\ IsWork(o.prev)
      /\ merging[b] = [theirs |-> v.theirs, pre |-> v.pre] /\ {x.path : x \in v.conflicts} = owed[b]
      /\ merging[b].theirs = 0 => merging[b] = NotMerging
  BY Zenon, <1>1 DEF Carries, Allowed, Has, IsRefs, KeptOK, MergeKept
<1>5. PICK w : w = o.next
  OBVIOUS
<1>a. IsWork(w) /\ w.merge = n
  BY <1>4, <1>5
<1>b. IsWork(w)'
  BY <1>2, <1>a DEF IsWork
<1>c. PICK k : k = refs.head[b]
  OBVIOUS
<1>d. PICK p : p = b
  OBVIOUS
<1>e. /\ CommitsOK' /\ Len(commits) \in Nat /\ Len(commits') \in Nat /\ Len(commits) <= Len(commits')
      /\ p \in Branch /\ k \in 0 .. Len(commits') /\ k # 0
  <2>1. commits' = commits /\ CommitsOK' /\ Len(commits) \in Nat  BY Zenon, <1>2, <1>3
  <2>2. p \in Branch /\ k \in 0 .. Len(commits) /\ k # 0  BY Zenon, <1>1, <1>4, <1>c, <1>d
  <2> QED  BY ONLY <2>1, <2>2
<1>f. op' = [op EXCEPT ![c] = Idle]
  BY <1>2
<1>6. CASE o.call = "update"
  <2>1. n = v /\ merging' = merging /\ owed' = owed
    BY <1>1, <1>6 DEF Allowed, Swap
  <2>m. PICK m, s : m = merging[b] /\ s = owed[b]
    OBVIOUS
  <2>2. BranchTo(p, k, w, m, s)
    BY <1>1, <1>2, <2>1, <1>5, <1>c, <1>d, <2>m DEF BranchTo, IsRefs, KeptOK
  <2>3. MergeNamed(k, w, m, s)
    BY <1>4, <1>a, <1>e, <2>1, <2>m DEF MergeNamed
  <2>4. QED
    BY ONLY Zenon, RefsInv, c \in Client, <1>b, <1>e, <1>f, <2>2, <2>3, BranchSwap
<1>7. CASE o.call = "resolve"
  <2>1. merging' = merging /\ owed' = [owed EXCEPT ![b] = @ \ {o.path}]
    BY <1>7 DEF Swap
  <2>2. n = [v EXCEPT !.conflicts = {x \in @ : x.path # o.path}]
    BY <1>1, <1>4, <1>7 DEF Carries
  <2>3. n.theirs = v.theirs /\ n.pre = v.pre /\ n.conflicts = {x \in v.conflicts : x.path # o.path}
    BY <1>4, <2>2 DEF IsWork, IsMerge
  <2>4. {x.path : x \in n.conflicts} = owed[b] \ {o.path}
    BY <1>4, <2>3
  <2>m. PICK m, s : m = merging[b] /\ s = owed[b] \ {o.path}
    BY Zenon
  <2>5. BranchTo(p, k, w, m, s)
    BY <1>1, <1>2, <2>1, <1>5, <1>c, <1>d, <2>m DEF BranchTo, IsRefs, KeptOK
  <2>6. MergeNamed(k, w, m, s)
    BY ONLY <1>4, <1>a, <1>e, <2>3, <2>4, <2>m DEF MergeNamed
  <2>7. QED
    BY ONLY Zenon, RefsInv, c \in Client, <1>b, <1>e, <1>f, <2>5, <2>6, BranchSwap
<1>8. CASE o.call = "merge"
  <2> DEFINE g == [theirs |-> n.theirs, pre |-> <<refs.work[b].working, refs.work[b].staged>>]
             s == {x.path : x \in n.conflicts}
  <2>1. merging' = [merging EXCEPT ![b] = g] /\ owed' = [owed EXCEPT ![b] = s]
    BY <1>8 DEF Swap
  <2>2. n.pre = <<refs.work[b].working, refs.work[b].staged>> /\ n.theirs # 0
    <3>1. n.theirs \in 1 .. Len(commits) /\ n.pre = <<o.prev.working, o.prev.staged>>
      BY Zenon, <1>1, <1>8 DEF Carries
    <3>2. \A i : i \in 1 .. Len(commits) => i # 0  BY <1>3
    <3> QED  BY Zenon, <1>4, <3>1, <3>2
  <2>3. g.theirs # 0 /\ g = [theirs |-> n.theirs, pre |-> n.pre]
    BY <2>2
  <2> HIDE DEF g, s
  <2>m. PICK m, r : m = g /\ r = s
    OBVIOUS
  <2>4. BranchTo(p, k, w, m, r)
    BY <1>1, <1>2, <2>1, <1>5, <1>c, <1>d, <2>m DEF BranchTo, IsRefs, KeptOK
  <2>5. MergeNamed(k, w, m, r)
    BY <1>a, <1>e, <2>3, <2>m DEF MergeNamed, s
  <2>6. QED
    BY ONLY Zenon, RefsInv, c \in Client, <1>b, <1>e, <1>f, <2>4, <2>5, BranchSwap
<1>9. QED
  BY <1>6, <1>7, <1>8

(* A branch left with no merge: created, deleted, committed to, or with    *)
(* its merge given up.                                                     *)
LEMMA ClearSwap ==
  ASSUME RefsInv, CommitsOK', Len(commits) \in Nat, Len(commits') \in Nat, Len(commits) <= Len(commits'),
         NEW c \in Client, op' = [op EXCEPT ![c] = Idle],
         NEW b \in Branch, NEW h \in 0 .. Len(commits'), NEW x, NEW y,
         BranchTo(b, h, Working(x, y), NotMerging, {})
  PROVE  RefsInv'
<1>1. PICK w : w = Working(x, y)
  OBVIOUS
<1>2. IsWork(w)'
  BY <1>1 DEF IsWork, IsMerge, Working, NoMerge
<1>3. MergeNamed(h, w, NotMerging, {})
  BY <1>1 DEF MergeNamed, NotMerging, Working, NoMerge
<1>4. BranchTo(b, h, w, NotMerging, {})
  BY <1>1
<1>5. QED
  BY Zenon, <1>2, <1>3, <1>4, BranchSwap

LEMMA PlainSwap ==
  ASSUME RefsInv, NEW c \in Client, Swap(c), op[c].call \in {"create", "delete", "abort"}
  PROVE  RefsInv'
<1> DEFINE o == op[c]
<1>1. /\ OpOK(o) /\ o.b \in Branch /\ IsOp(o) /\ o.at = "swap"
      /\ refs = o.snap /\ Carries(o) /\ Allowed(o) /\ IsRefs(refs) /\ KeptOK /\ CommitsOK
  BY DEF RefsInv, Swap, Unmoved, OpOK
<1>2. refs' = Writes(o, refs) /\ commits' = commits /\ op' = [op EXCEPT ![c] = Idle]
  BY <1>1 DEF Swap, Unmoved
<1>3. Len(commits) \in Nat /\ CommitsOK' /\ Len(commits') \in Nat /\ Len(commits) <= Len(commits')
  BY <1>1, <1>2, LenProperties DEF CommitsOK
<1>4. PICK b \in Branch : b = o.b
  BY <1>1
<1>5. \E h \in 0 .. Len(commits') : \E x, y : BranchTo(b, h, Working(x, y), NotMerging, {})
  <2>1. CASE o.call = "create"
    <3>1. /\ merging' = merging /\ owed' = owed /\ merging[b] = NotMerging /\ owed[b] = {}
      BY <1>1, <1>4, <2>1 DEF Swap, Allowed, KeptOK
    <3>2. PICK x : x = commits[o.target].ns
      OBVIOUS
    <3>3. refs' = [refs EXCEPT !.head[b] = o.target, !.work[b] = Working(x, x)]
      BY <1>2, <1>4, <2>1, <3>2 DEF Writes, CreateWrites
    <3>4. BranchTo(b, o.target, Working(x, x), NotMerging, {})
      BY <1>1, <3>1, <3>3 DEF BranchTo, IsRefs, KeptOK
    <3>5. o.target \in 0 .. Len(commits')
      BY <1>1, <1>2, <1>3, <2>1 DEF Carries
    <3>6. QED
      BY <3>4, <3>5
  <2>2. CASE o.call = "delete"
    <3>1. merging' = [merging EXCEPT ![b] = NotMerging] /\ owed' = [owed EXCEPT ![b] = {}]
      BY <1>4, <2>2 DEF Swap
    <3>2. refs' = [refs EXCEPT !.head[b] = 0, !.work[b] = Working(Empty, Empty)]
      BY <1>2, <1>4, <2>2 DEF Writes, DeleteWrites
    <3>3. BranchTo(b, 0, Working(Empty, Empty), NotMerging, {})
      BY <1>1, <3>1, <3>2 DEF BranchTo, IsRefs, KeptOK
    <3>4. 0 \in 0 .. Len(commits')
      BY <1>3
    <3>5. QED
      BY <3>3, <3>4
  <2>3. CASE o.call = "abort"
    <3>1. merging' = [merging EXCEPT ![b] = NotMerging] /\ owed' = [owed EXCEPT ![b] = {}]
      BY <1>4, <2>3 DEF Swap
    <3>2. PICK x, y : x = refs.work[b].merge.pre[1] /\ y = refs.work[b].merge.pre[2]
      BY Zenon
    <3>3. refs' = [refs EXCEPT !.work[b] = Working(x, y)]
      BY <1>2, <1>4, <2>3, <3>2 DEF Writes, AbortWrites
    <3>4. BranchTo(b, refs.head[b], Working(x, y), NotMerging, {})
      BY <1>1, <3>1, <3>3 DEF BranchTo, IsRefs, KeptOK
    <3>5. refs.head[b] \in 0 .. Len(commits')
      BY <1>1, <1>2 DEF IsRefs
    <3>6. QED
      BY <3>4, <3>5
  <2>4. QED
    BY <2>1, <2>2, <2>3
<1>6. QED
  BY ONLY Zenon, RefsInv, c \in Client, <1>2, <1>3, <1>5, ClearSwap

(* A commit of commits already stored keeps the commits in order.          *)
LEMMA CommitsKept ==
  ASSUME CommitsOK, NEW e, commits' = Append(commits, e),
         {e.parents[i] : i \in DOMAIN e.parents} \subseteq 1 .. Len(commits)
  PROVE  CommitsOK'
<1>1. /\ Len(commits) \in Nat /\ DOMAIN commits = 1 .. Len(commits) /\ DOMAIN commits' = 1 .. Len(commits) + 1
      /\ \A n \in DOMAIN commits : commits'[n] = commits[n]
      /\ commits'[Len(commits) + 1] = e
      /\ commits' \in Seq({commits'[n] : n \in DOMAIN commits'})
  BY Appended
<1>2. SUFFICES ASSUME NEW n \in DOMAIN commits' PROVE Parents(commits', n) \subseteq 1 .. n - 1
  BY <1>1 DEF CommitsOK
<1>3. CASE n \in DOMAIN commits
  BY <1>1, <1>3 DEF CommitsOK, Parents
<1>4. CASE n = Len(commits) + 1
  BY <1>1, <1>4 DEF Parents
<1>5. QED
  BY <1>1, <1>3, <1>4

(* A commit moves its branch to the commit it stored, whose parents are    *)
(* the branch's head and the commit its merge brought in.                  *)
LEMMA CommitSwapped ==
  ASSUME RefsInv, NEW c \in Client, Swap(c), op[c].call \in {"staged", "commit"}
  PROVE  LET b == op[c].b
             theirs == refs.work[b].merge.theirs
         IN  /\ b \in Branch /\ Has(refs, b)
             /\ Len(commits) \in Nat /\ Len(commits') = Len(commits) + 1
             /\ CommitsOK'
             /\ \E x, y : BranchTo(b, Len(commits) + 1, Working(x, y), NotMerging, {})
             /\ refs'.tag = refs.tag
             /\ Parents(commits', Len(commits) + 1) = IF theirs = 0 THEN {refs.head[b]}
                                                      ELSE {refs.head[b], theirs}
             /\ refs.head[b] \in 1 .. Len(commits) /\ theirs \in 0 .. Len(commits)
<1> DEFINE o == op[c]
<1>1. /\ OpOK(o) /\ o.b \in Branch /\ IsOp(o) /\ o.at = "swap"
      /\ refs = o.snap /\ Allowed(o) /\ IsRefs(refs) /\ KeptOK /\ CommitsOK /\ MergeKept
  BY DEF RefsInv, Swap, Unmoved, OpOK
<1>2. PICK b \in Branch : b = o.b
  BY <1>1
<1>3. /\ Has(refs, b) /\ refs.work[b].merge.conflicts = {}
      /\ refs.head[b] \in 1 .. Len(commits) /\ refs.work[b].merge.theirs \in 0 .. Len(commits)
  <2>1. Has(refs, b) /\ refs.work[b].merge.conflicts = {}
    BY <1>1, <1>2 DEF Allowed
  <2>2. refs.head[b] \in 0 .. Len(commits) /\ refs.work[b].merge.theirs \in 0 .. Len(commits)
    BY <1>1, <1>2 DEF IsRefs, IsWork
  <2>3. Len(commits) \in Nat
    BY <1>1, LenProperties DEF CommitsOK
  <2>4. refs.head[b] \in 1 .. Len(commits)
    BY <2>1, <2>2, <2>3 DEF Has
  <2>5. QED
    BY <2>1, <2>2, <2>4
<1>4. PICK e : /\ commits' = Append(commits, e)
               /\ e.parents = NewParents(refs.head[b], refs.work[b].merge.theirs)
  <2>1. commits' = Append(commits, NewCommit(refs, b, Committed(o, refs)))
    BY <1>1, <1>2 DEF Swap
  <2>2. NewCommit(refs, b, Committed(o, refs)).parents = NewParents(refs.head[b], refs.work[b].merge.theirs)
    BY DEF NewCommit
  <2>3. QED
    BY <2>1, <2>2
<1>5. /\ Len(commits) \in Nat /\ Len(commits') = Len(commits) + 1
      /\ commits'[Len(commits) + 1] = e
  BY <1>1, <1>4, Appended
<1>6. {e.parents[i] : i \in DOMAIN e.parents}
         = IF refs.work[b].merge.theirs = 0 THEN {refs.head[b]} ELSE {refs.head[b], refs.work[b].merge.theirs}
  <2>1. PICK ps : ps = e.parents
    OBVIOUS
  <2>2. ps = NewParents(refs.head[b], refs.work[b].merge.theirs)
    BY <1>4, <2>1
  <2>3. {ps[i] : i \in DOMAIN ps}
         = IF refs.work[b].merge.theirs = 0 THEN {refs.head[b]} ELSE {refs.head[b], refs.work[b].merge.theirs}
    <3>1. PICK h, n : h = refs.head[b] /\ n = refs.work[b].merge.theirs
      OBVIOUS
    <3>2. ps = NewParents(h, n)
      BY <2>2, <3>1
    <3>3. {ps[i] : i \in DOMAIN ps} = IF n = 0 THEN {h} ELSE {h, n}
      BY ONLY <3>2 DEF NewParents
    <3>4. QED
      BY <3>1, <3>3
  <2>4. QED
    BY <2>1, <2>3
<1>7. {e.parents[i] : i \in DOMAIN e.parents} \subseteq 1 .. Len(commits)
  <2>1. PICK P : P = {e.parents[i] : i \in DOMAIN e.parents}
    BY Zenon
  <2>2. P = {refs.head[b]} \/ (refs.work[b].merge.theirs # 0 /\ P = {refs.head[b], refs.work[b].merge.theirs})
    BY <1>6, <2>1
  <2>3. P \subseteq 1 .. Len(commits)
    BY <1>3, <1>5, <2>2
  <2>4. QED
    BY <2>1, <2>3
<1>8. CommitsOK'
  BY ONLY <1>1, <1>4, <1>7, CommitsKept
<1>9. merging' = [merging EXCEPT ![b] = NotMerging] /\ owed' = owed
  BY <1>2 DEF Swap
<1>10. owed[b] = {}
  BY Zenon, <1>1, <1>3 DEF MergeKept
<1>11. \E x, y : refs' = [refs EXCEPT !.head[b] = Len(commits) + 1, !.work[b] = Working(x, y)]
  <2>1. refs' = CommitWrites(o, refs)
    BY <1>1 DEF Swap, Writes
  <2>2. CASE o.call = "commit"
    BY Zenon, <1>2, <2>1, <2>2 DEF CommitWrites
  <2>3. CASE o.call # "commit"
    BY Zenon, <1>2, <2>1, <2>3 DEF CommitWrites
  <2>4. QED
    BY Zenon, <2>2, <2>3
<1>12. PICK x, y : refs' = [refs EXCEPT !.head[b] = Len(commits) + 1, !.work[b] = Working(x, y)]
  BY Zenon, <1>11
<1>13. BranchTo(b, Len(commits) + 1, Working(x, y), NotMerging, {}) /\ refs'.tag = refs.tag
  BY <1>1, <1>9, <1>10, <1>12 DEF BranchTo, IsRefs, KeptOK
<1>14. Parents(commits', Len(commits) + 1)
         = IF refs.work[b].merge.theirs = 0 THEN {refs.head[b]} ELSE {refs.head[b], refs.work[b].merge.theirs}
  BY <1>5, <1>6 DEF Parents
<1>15. QED
  BY Zenon, <1>2, <1>3, <1>5, <1>8, <1>13, <1>14

(* Init's swap, a commit's, and a tag's.                                   *)
LEMMA InitSwap ==
  ASSUME RefsInv, NEW c \in Client, Swap(c), op[c].call = "init"
  PROVE  RefsInv'
<1> DEFINE o == op[c]
<1>1. /\ refs = NoRefs /\ IsRefs(refs) /\ KeptOK /\ CommitsOK /\ Main \in Branch
  BY MainAssumption DEF RefsInv, Swap, Unmoved, OpOK
<1>2. /\ refs' = [refs EXCEPT !.zero = FALSE, !.head[Main] = Len(commits) + 1, !.work[Main] = Working(Empty, Empty)]
      /\ op' = [op EXCEPT ![c] = Idle] /\ merging' = merging /\ owed' = owed
  BY DEF Swap, Unmoved, Writes, InitWrites
<1>3. PICK e : commits' = Append(commits, e) /\ e.parents = << >>
  BY DEF Swap
<1>4. {e.parents[i] : i \in DOMAIN e.parents} \subseteq 1 .. Len(commits)
  BY <1>3
<1>5. CommitsOK' /\ Len(commits) \in Nat /\ Len(commits') = Len(commits) + 1
  BY <1>1, <1>3, <1>4, CommitsKept, Appended
<1>6. merging[Main] = NotMerging /\ owed[Main] = {}
  BY <1>1 DEF KeptOK, Has, NoRefs
<1>7. PICK h \in 0 .. Len(commits') : h = Len(commits) + 1
  BY <1>5
<1>8. BranchTo(Main, h, Working(Empty, Empty), NotMerging, {})
  BY <1>1, <1>2, <1>6, <1>7 DEF BranchTo, IsRefs, KeptOK
<1>9. h \in 0 .. Len(commits') /\ Len(commits') \in Nat /\ Len(commits) <= Len(commits')
  BY <1>5, <1>7
<1>10. QED
  BY ONLY Zenon, RefsInv, c \in Client, <1>1, <1>2, <1>5, <1>8, <1>9, ClearSwap

LEMMA CommitSwap ==
  ASSUME RefsInv, NEW c \in Client, Swap(c), op[c].call \in {"staged", "commit"}
  PROVE  RefsInv'
<1>0. PICK b \in Branch :
         /\ Len(commits) \in Nat /\ Len(commits') = Len(commits) + 1 /\ CommitsOK'
         /\ \E x, y : BranchTo(b, Len(commits) + 1, Working(x, y), NotMerging, {})
  BY Zenon, CommitSwapped
<1>1. PICK x, y :
         /\ Len(commits) \in Nat /\ Len(commits') = Len(commits) + 1 /\ CommitsOK'
         /\ BranchTo(b, Len(commits) + 1, Working(x, y), NotMerging, {})
  BY <1>0
<1>2. op' = [op EXCEPT ![c] = Idle]
  BY DEF Swap
<1>3. PICK h \in 0 .. Len(commits') : h = Len(commits) + 1
  BY <1>1
<1>4. BranchTo(b, h, Working(x, y), NotMerging, {})
  BY <1>1, <1>3
<1>5. h \in 0 .. Len(commits') /\ Len(commits') \in Nat /\ Len(commits) <= Len(commits')
  BY <1>1, <1>3
<1>6. b \in Branch
  OBVIOUS
<1>7. QED
  BY ONLY Zenon, RefsInv, c \in Client, <1>1, <1>2, <1>4, <1>5, <1>6, ClearSwap

LEMMA TagSwap ==
  ASSUME RefsInv, NEW c \in Client, Swap(c), op[c].call \in {"tag", "untag"}
  PROVE  RefsInv'
<1> DEFINE o == op[c]
<1>1. /\ OpOK(o) /\ refs = o.snap /\ IsRefs(refs) /\ KeptOK /\ CommitsOK /\ MergeKept
      /\ DOMAIN op = Client /\ \A d \in Client : OpOK(op[d])
  BY DEF RefsInv, Swap, Unmoved
<1>2. PICK n : refs' = [refs EXCEPT !.tag[o.tag] = n]
  BY Zenon, <1>1 DEF Swap, Writes, TagWrites
<1>3. /\ commits' = commits /\ merging' = merging /\ owed' = owed /\ op' = [op EXCEPT ![c] = Idle]
  BY DEF Swap
<1>4. refs'.head = refs.head /\ refs'.work = refs.work /\ DOMAIN refs' = DOMAIN refs /\ DOMAIN refs'.tag = Tag
  BY <1>1, <1>2 DEF IsRefs
<1>5. IsRefs(refs)'
  BY <1>1, <1>3, <1>4 DEF IsRefs, IsWork
<1>6. CommitsOK' /\ KeptOK' /\ MergeKept'
  <2>1. CommitsOK'  BY ONLY <1>1, <1>3 DEF CommitsOK
  <2>2. KeptOK'  BY ONLY <1>1, <1>3, <1>4 DEF KeptOK, Has
  <2>3. MergeKept'  BY ONLY <1>1, <1>3, <1>4 DEF MergeKept, Has
  <2> QED  BY <2>1, <2>2, <2>3
<1>7. DOMAIN op' = Client
  BY <1>1, <1>3
<1>8. SUFFICES ASSUME NEW d \in Client PROVE OpOK(op[d])'
  BY <1>5, <1>6, <1>7 DEF RefsInv
<1>9. QED
  BY <1>1, <1>3, IdleOK, OpKept

LEMMA SwapInv ==
  ASSUME RefsInv, NEW c \in Client, Swap(c)
  PROVE  RefsInv'
<1>1. op[c].call \in Calls \ {"idle", "checkout"}
  BY DEF RefsInv, OpOK, Swap
<1>2. QED
  BY <1>1, InitSwap, SetSwap, CommitSwap, PlainSwap, TagSwap DEF Calls

\* A repository with a few commits, each after its parents, and two heads.
LEMMA HeadsOK ==
  ASSUME NEW S, commits \in Seq(S), NEW m \in DOMAIN commits, NEW n \in DOMAIN commits, Heads(m, n),
         \A k \in DOMAIN commits : Parents(commits, k) \subseteq 1 .. k - 1
  PROVE  Len(commits) \in Nat /\ CommitsOK /\ IsRefs(refs) /\ \A b \in Branch : refs.work[b].merge = NoMerge
<1>1. Len(commits) \in Nat /\ m \in 1 .. Len(commits) /\ n \in 1 .. Len(commits)
  BY LenProperties
<1>2. CommitsOK
  BY OwnElements DEF CommitsOK
<1>3. PICK b \in Branch \ {Main} :
        refs = [NoRefs EXCEPT !.zero = FALSE, !.head[Main] = m, !.head[b] = n,
                              !.work[Main] = Working(commits[m].ns, commits[m].ns),
                              !.work[b] = Working(commits[n].ns, commits[n].ns)]
  BY Zenon DEF Heads
<1>4. PICK u, v : u = Working(commits[m].ns, commits[m].ns) /\ v = Working(commits[n].ns, commits[n].ns)
  OBVIOUS
<1>5. /\ DOMAIN refs = {"zero", "head", "work", "tag"}
      /\ refs.head = [[x \in Branch |-> 0] EXCEPT ![Main] = m, ![b] = n]
      /\ refs.work = [[x \in Branch |-> Working(Empty, Empty)] EXCEPT ![Main] = u, ![b] = v]
      /\ refs.tag = [x \in Tag |-> 0]
  BY <1>3, <1>4 DEF NoRefs
<1>6. \A x \in Branch : refs.head[x] \in 0 .. Len(commits) /\ refs.work[x] \in {u, v, Working(Empty, Empty)}
  BY <1>1, <1>5
<1>7. IsMerge(NoMerge) /\ NoMerge.theirs = 0
  BY DEF IsMerge, NoMerge
<1>8. \A w \in {u, v, Working(Empty, Empty)} : IsWork(w) /\ w.merge = NoMerge
  BY <1>1, <1>4, <1>7 DEF IsWork, Working
<1>9. \A x \in Branch : IsWork(refs.work[x]) /\ refs.work[x].merge = NoMerge
  BY <1>6, <1>8
<1>10. DOMAIN refs.head = Branch /\ DOMAIN refs.work = Branch /\ DOMAIN refs.tag = Tag
  BY <1>5
<1>11. IsRefs(refs)
  BY <1>1, <1>5, <1>6, <1>9, <1>10 DEF IsRefs
<1>12. QED
  BY <1>1, <1>2, <1>9, <1>11

----------------------------------------------------------------------------
(* The invariant holds at first and every step keeps it.                   *)
LEMMA RefsInvInit == Init => RefsInv
<1> SUFFICES ASSUME Init PROVE RefsInv
  OBVIOUS
<1>1. /\ DOMAIN op = Client /\ \A c \in Client : OpOK(op[c])
  BY IdleOK DEF Init
<1>2. /\ merging = [b \in Branch |-> NotMerging] /\ owed = [b \in Branch |-> {}]
  BY DEF Init
<1>3. IsMerge(NoMerge) /\ NoMerge.theirs = 0 /\ NoMerge.pre = NotMerging.pre /\ NotMerging.theirs = 0 /\ NoMerge.conflicts = {}
  BY DEF IsMerge, NoMerge, NotMerging
<1>4. NotMerging = [theirs |-> NoMerge.theirs, pre |-> NoMerge.pre]
  BY DEF NoMerge, NotMerging
<1>5. Len(commits) \in Nat /\ CommitsOK /\ IsRefs(refs) /\ \A b \in Branch : refs.work[b].merge = NoMerge
  <2>1. CASE Fresh
    <3>1. Len(commits) = 0 /\ CommitsOK
      BY <2>1 DEF Fresh, CommitsOK
    <3>2. /\ DOMAIN refs = {"zero", "head", "work", "tag"}
          /\ refs.head = [b \in Branch |-> 0] /\ refs.tag = [x \in Tag |-> 0]
          /\ refs.work = [b \in Branch |-> Working(Empty, Empty)]
      BY <2>1 DEF Fresh, NoRefs
    <3>3. QED
      BY <1>3, <3>1, <3>2 DEF IsRefs, IsWork, Working
  <2>0. \A ps, v : One(ps, v).parents = ps
    BY DEF One
  <2>2. CASE Forked
    <3>1. PICK c1, c2, c3 : commits = <<c1, c2, c3>> /\ c1.parents = << >> /\ c2.parents = <<1>> /\ c3.parents = <<1>>
      BY <2>0, <2>2 DEF Forked, Fork
    <3>2. Len(commits) = 3 /\ DOMAIN commits = 1 .. 3 /\ commits \in Seq({c1, c2, c3})
          /\ commits[1].parents = << >> /\ commits[2].parents = <<1>> /\ commits[3].parents = <<1>>
      BY <3>1
    <3>3. \A k \in 1 .. 3 : Parents(commits, k) \subseteq 1 .. k - 1
      <4>1. Parents(commits, 1) = {} /\ Parents(commits, 2) = {1} /\ Parents(commits, 3) = {1}
        BY <3>2 DEF Parents
      <4>2. QED
        BY <4>1
    <3>4. Heads(2, 3)
      BY <2>2 DEF Forked
    <3>5. 2 \in DOMAIN commits /\ 3 \in DOMAIN commits
      BY <3>2
    <3>6. QED
      BY <3>2, <3>3, <3>4, <3>5, HeadsOK
  <2>3. CASE Crossed
    <3>1. PICK c1, c2, c3, c4, c5 :
            /\ commits = <<c1, c2, c3, c4, c5>>
            /\ c1.parents = << >> /\ c2.parents = <<1>> /\ c3.parents = <<1>>
            /\ c4.parents = <<2, 3>> /\ c5.parents = <<3, 2>>
      <4>1. Fork[1].parents = << >> /\ Fork[2].parents = <<1>> /\ Fork[3].parents = <<1>>
        BY <2>0 DEF Fork
      <4>2. commits = <<Fork[1], Fork[2], Fork[3], One(<<2, 3>>, 1), One(<<3, 2>>, 2)>>
        BY <2>3 DEF Crossed, Cross
      <4>3. QED
        BY <2>0, <4>1, <4>2
    <3>2. Len(commits) = 5 /\ DOMAIN commits = 1 .. 5 /\ commits \in Seq({c1, c2, c3, c4, c5})
          /\ commits[1].parents = << >> /\ commits[2].parents = <<1>> /\ commits[3].parents = <<1>>
          /\ commits[4].parents = <<2, 3>> /\ commits[5].parents = <<3, 2>>
      BY <3>1
    <3>3. \A k \in 1 .. 5 : Parents(commits, k) \subseteq 1 .. k - 1
      <4>1. Parents(commits, 1) = {} /\ Parents(commits, 2) = {1} /\ Parents(commits, 3) = {1}
        BY <3>2 DEF Parents
      <4>2. Parents(commits, 4) = {2, 3} /\ Parents(commits, 5) = {2, 3}
        BY <3>2 DEF Parents
      <4>3. QED
        BY <4>1, <4>2
    <3>4. Heads(4, 5)
      BY <2>3 DEF Crossed
    <3>5. 4 \in DOMAIN commits /\ 5 \in DOMAIN commits
      BY <3>2
    <3>6. QED
      BY <3>2, <3>3, <3>4, <3>5, HeadsOK
  <2>4. QED
    BY Zenon, <2>1, <2>2, <2>3, MixAssumption DEF Init
<1>6. KeptOK /\ MergeKept
  <2>1. ASSUME NEW b \in Branch PROVE {x.path : x \in refs.work[b].merge.conflicts} = {}
    BY <1>3, <1>5
  <2>2. QED
    BY <1>2, <1>3, <1>4, <1>5, <2>1 DEF KeptOK, MergeKept
<1>7. QED
  BY <1>1, <1>5, <1>6 DEF RefsInv

LEMMA RefsInvStep == RefsInv /\ [Next]_vars => RefsInv'
<1> SUFFICES ASSUME RefsInv, [Next]_vars PROVE RefsInv'
  OBVIOUS
<1>1. ASSUME NEW c \in Client, BeginOnBranch(c) PROVE RefsInv'
  BY <1>1, BeginUpdateInv, BeginPlainInv, BeginCommitInv, BeginNamedInv, BeginMergeInv, BeginResolveInv
  DEF BeginOnBranch
<1>2. CASE UNCHANGED vars
  BY <1>2, Unchanged DEF vars
<1>3. QED
  BY <1>1, <1>2, BeginInitInv, BeginOnTagInv, PrepareResolveInv, AttemptInv, SwapInv, LostSwapInv,
     SessionsInv DEF Next

----------------------------------------------------------------------------
(* Only a swap changes the refs.                                           *)
LEMMA RefsStand ==
  ASSUME [Next]_vars, \A c \in Client : ~Swap(c)
  PROVE  refs' = refs
<1>1. ASSUME NEW c \in Client, BeginOnBranch(c) PROVE refs' = refs
  <2>1. CASE \E b \in Branch : \/ BeginUpdate(c, b) \/ BeginStaged(c, b) \/ BeginCommit(c, b)
                               \/ BeginDelete(c, b) \/ BeginAbort(c, b)
    BY Zenon, <2>1 DEF Ready, BeginUpdate, BeginStaged, BeginCommit, BeginDelete, BeginAbort
  <2>2. CASE ~ \E b \in Branch : \/ BeginUpdate(c, b) \/ BeginStaged(c, b) \/ BeginCommit(c, b)
                                 \/ BeginDelete(c, b) \/ BeginAbort(c, b)
    BY Zenon, <1>1, <2>2 DEF BeginOnBranch, Ready, BeginCheckout, BeginCreate, BeginMerge, BeginResolve
  <2> QED  BY <2>1, <2>2
<1>2. ASSUME NEW c \in Client, BeginInit(c) \/ BeginOnTag(c) PROVE refs' = refs
  BY Zenon, <1>2 DEF BeginInit, BeginOnTag, BeginTag, BeginUntag, Ready
<1>3. ASSUME NEW c \in Client,
             PrepareResolve(c) \/ Attempt(c) \/ LostSwap(c) \/ Checkout(c) \/ CloseSession(c)
      PROVE  refs' = refs
  BY Zenon, <1>3 DEF PrepareResolve, Attempt, LostSwap, Checkout, CloseSession
<1>4. QED
  BY <1>1, <1>2, <1>3 DEF Next, vars

(* What a swap does to the head of a branch there before and after it.     *)
LEMMA HeadMoves ==
  ASSUME RefsInv, NEW c \in Client, Swap(c), NEW b \in Branch, Has(refs, b), Has(refs', b),
         refs'.head[b] # refs.head[b]
  PROVE  /\ refs.head[b] \in Ancestors(commits', refs'.head[b])
         /\ merging[b] # NotMerging => merging[b].theirs \in Ancestors(commits', refs'.head[b])
<1> DEFINE o == op[c]
<1>1. /\ OpOK(o) /\ o.b \in Branch /\ o.at = "swap" /\ refs = o.snap /\ IsRefs(refs) /\ KeptOK /\ MergeKept
      /\ refs' = Writes(o, refs)
  BY DEF RefsInv, Swap, Unmoved, OpOK
<1>2. o.call \in {"staged", "commit"}
  <2>1. o.call \in Calls \ {"idle", "checkout"}
    BY <1>1 DEF OpOK
  <2>2. ASSUME o.call = "init" PROVE FALSE
    <3>1. refs = NoRefs  BY Zenon, <1>1, <2>2 DEF OpOK
    <3> QED  BY ONLY <3>1, Has(refs, b), b \in Branch DEF NoRefs, Has
  <2>3. ASSUME o.call \in {"update", "merge", "resolve"} PROVE FALSE
    BY Zenon, <1>1, <2>3 DEF Writes, SetWrites, IsRefs
  <2>4. ASSUME o.call = "create" PROVE FALSE
    <3>1. ~Has(refs, o.b)
      BY <1>1, <2>4 DEF OpOK, Allowed
    <3>2. QED
      BY Zenon, <1>1, <2>4, <3>1 DEF Writes, CreateWrites, IsRefs
  <2>5. ASSUME o.call = "delete" PROVE FALSE
    BY Zenon, <1>1, <2>5 DEF Writes, DeleteWrites, IsRefs, Has
  <2>6. ASSUME o.call \in {"tag", "untag"} PROVE FALSE
    BY <1>1, <2>6 DEF Writes, TagWrites, IsRefs
  <2>7. ASSUME o.call = "abort" PROVE FALSE
    BY Zenon, <1>1, <2>7 DEF Writes, AbortWrites, IsRefs
  <2>8. QED
    BY <2>1, <2>2, <2>3, <2>4, <2>5, <2>6, <2>7 DEF Calls
<1>3. PICK n : n = Len(commits) + 1
  OBVIOUS
<1>4. /\ Len(commits) \in Nat
      /\ refs'.head[o.b] = n /\ \A x \in Branch \ {o.b} : refs'.head[x] = refs.head[x]
      /\ Parents(commits', n) = IF refs.work[o.b].merge.theirs = 0 THEN {refs.head[o.b]}
                                ELSE {refs.head[o.b], refs.work[o.b].merge.theirs}
      /\ refs.head[o.b] \in 1 .. Len(commits) /\ refs.work[o.b].merge.theirs \in 0 .. Len(commits)
  BY Zenon, <1>2, <1>3, CommitSwapped DEF BranchTo
<1>5. b = o.b
  BY <1>4
<1>6. PICK h, m, cs : h = refs.head[b] /\ m = refs.work[b].merge.theirs /\ cs = commits'
  OBVIOUS
<1>7. /\ n \in Nat \ {0} /\ h \in 1 .. n - 1 /\ m \in 0 .. n - 1
      /\ Parents(cs, n) = IF m = 0 THEN {h} ELSE {h, m}
  <2>1. PICK L : L = Len(commits) /\ L \in Nat
    BY ONLY <1>4
  <2>2. n = L + 1 /\ h \in 1 .. L /\ m \in 0 .. L
    BY ONLY <1>3, <1>4, <1>5, <1>6, <2>1
  <2>3. Parents(cs, n) = IF m = 0 THEN {h} ELSE {h, m}
    BY ONLY <1>4, <1>5, <1>6
  <2>4. QED
    BY ONLY <2>1, <2>2, <2>3
<1>8. h \in Ancestors(cs, n) /\ (m # 0 => m \in Ancestors(cs, n))
  <2>1. h \in Parents(cs, n) /\ (m # 0 => m \in Parents(cs, n) /\ m \in 1 .. n - 1)
    BY ONLY <1>7
  <2>2. QED
    BY ONLY <1>7, <2>1, HoldsParents
<1>9. ASSUME merging[b] # NotMerging PROVE merging[b].theirs = m /\ m # 0
  <2>1. merging[b] = [theirs |-> refs.work[b].merge.theirs, pre |-> refs.work[b].merge.pre]
    BY Zenon, <1>1 DEF MergeKept
  <2>2. merging[b].theirs = refs.work[b].merge.theirs
    BY ONLY <2>1
  <2>3. merging[b].theirs # 0
    BY <1>1, <1>9 DEF KeptOK
  <2>4. QED
    BY ONLY <1>6, <2>2, <2>3
<1>10. refs'.head[b] = n
  BY <1>4, <1>5
<1>11. QED
  BY <1>6, <1>8, <1>9, <1>10

(* A tag that stands through a swap names the commit it named.             *)
LEMMA TagStands ==
  ASSUME RefsInv, NEW c \in Client, Swap(c), NEW t \in Tag, refs.tag[t] # 0, refs'.tag[t] # 0
  PROVE  refs'.tag[t] = refs.tag[t]
<1> DEFINE o == op[c]
<1>1. /\ OpOK(o) /\ o.b \in Branch /\ o.at = "swap" /\ refs = o.snap /\ IsRefs(refs)
      /\ refs' = Writes(o, refs) /\ o.call \in Calls \ {"idle", "checkout"}
  BY DEF RefsInv, Swap, Unmoved, OpOK
<1>2. CASE o.call = "tag"
  <2>1. o.tag \in Tag /\ refs.tag[o.tag] = 0
    BY <1>1, <1>2 DEF OpOK, Allowed
  <2>2. QED
    BY <1>1, <1>2, <2>1 DEF Writes, TagWrites, IsRefs
<1>3. CASE o.call = "untag"
  BY <1>1, <1>3 DEF Writes, TagWrites, IsRefs
<1>4. CASE o.call \notin {"tag", "untag"}
  BY Zenon, <1>1, <1>4 DEF Calls, Writes, InitWrites, SetWrites, CommitWrites, CreateWrites, DeleteWrites,
                    AbortWrites, IsRefs
<1>5. QED
  BY <1>2, <1>3, <1>4

----------------------------------------------------------------------------
(* The merge in progress a branch holds is the last that landed there,     *)
(* with every conflict no one has resolved: no update of a working set,    *)
(* however stale what it read, drops it or revives a finished one.         *)
THEOREM MergeStays == Spec => []MergeKept
<1>1. RefsInv => MergeKept
  BY DEF RefsInv
<1>2. QED
  BY <1>1, RefsInvInit, RefsInvStep, PTL DEF Spec

(* Heads only move to commits that hold the ones they named, and a tag     *)
(* names one commit until it is deleted, whatever swaps interleave.        *)
THEOREM RefsMoveForward == Spec => RefsAdvance
<1>1. ASSUME RefsInv, [Next]_vars
      PROVE  [/\ \A b \in Branch : Has(refs, b) /\ Has(refs', b) /\ refs'.head[b] # refs.head[b] =>
                   refs.head[b] \in Ancestors(commits', refs'.head[b])
              /\ \A t \in Tag : refs.tag[t] # 0 /\ refs'.tag[t] # 0 => refs'.tag[t] = refs.tag[t]]_vars
  <2>1. CASE \E c \in Client : Swap(c)
    BY <1>1, <2>1, HeadMoves, TagStands
  <2>2. CASE \A c \in Client : ~Swap(c)
    BY <1>1, <2>2, RefsStand
  <2>3. QED
    BY <2>1, <2>2
<1>2. QED
  BY <1>1, RefsInvInit, RefsInvStep, PTL DEF Spec, RefsAdvance

(* A commit that concludes a merge holds the commit merged.                *)
THEOREM MergesLand == Spec => MergeLands
<1>1. ASSUME RefsInv, [Next]_vars
      PROVE  [\A b \in Branch :
                Has(refs, b) /\ Has(refs', b) /\ merging[b] # NotMerging /\ refs'.head[b] # refs.head[b] =>
                  merging[b].theirs \in Ancestors(commits', refs'.head[b])]_vars
  <2>1. CASE \E c \in Client : Swap(c)
    BY <1>1, <2>1, HeadMoves
  <2>2. CASE \A c \in Client : ~Swap(c)
    BY <1>1, <2>2, RefsStand
  <2>3. QED
    BY <2>1, <2>2
<1>2. QED
  BY <1>1, RefsInvInit, RefsInvStep, PTL DEF Spec, MergeLands
=============================================================================
