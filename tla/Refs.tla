-------------------------------- MODULE Refs --------------------------------
(***************************************************************************)
(* The version graph (core/vcs): the refs map under the chunk store's      *)
(* root, commits, branches with their working sets, tags, sessions and     *)
(* merges in progress.  Every change is one CompareAndSetRoot of the refs  *)
(* map a call read; chunks are named by their content, so a commit's       *)
(* number, a working set's value and the refs' value stand for hashes.     *)
(***************************************************************************)
EXTENDS History, Merging

CONSTANTS
    Client,        \* callers of one process's Repo
    Branch, Main,  \* branch names
    Tag,           \* tag names
    Recreates,     \* whether a deleted branch's name is used again
    Mixes,         \* the mixes of calls the clients make: from what history,
                   \* which, how many swaps land, how many calls run at once,
                   \* and how many commits there come to be
    MaxAttempts, MaxSessions

ASSUME MainAssumption == Main \in Branch
ASSUME MixAssumption == \A m \in Mixes : m.from \in {"nothing", "fork", "cross"}

VARIABLES
    refs,          \* the refs map at the store's root
    commits,       \* the commits stored
    checkedOut,    \* Repo.checkedOut
    session,       \* the branch a client's open Session holds, or "none"
    op,            \* the call each client is in
    merging,       \* history: the commit a branch's merge brings in, and the
                   \* namespaces the branch had when it began
    owed,          \* history: the paths of that merge no one has resolved
    dropped,       \* history: the branches deleted
    mix,           \* the calls the clients make in this behaviour
    swaps          \* root swaps landed (bounded by mix.swaps)

vars == <<refs, commits, checkedOut, session, op, merging, owed, dropped, mix, swaps>>

NoMerge == [base |-> 0, theirs |-> 0, conflicts |-> {}, pre |-> <<Empty, Empty>>]

Working(w, s) == [working |-> w, staged |-> s, merge |-> NoMerge]

NoRefs == [zero |-> TRUE, head |-> [b \in Branch |-> 0],
           work |-> [b \in Branch |-> Working(Empty, Empty)], tag |-> [t \in Tag |-> 0]]

Idle == [call |-> "idle", at |-> "idle", b |-> Main, tag |-> CHOOSE t \in Tag : TRUE,
         prev |-> Working(Empty, Empty), next |-> Working(Empty, Empty), target |-> 0,
         path |-> CHOOSE p \in Path : TRUE, to |-> Zero, snap |-> NoRefs, tries |-> 0, rounds |-> 0]

NotMerging == [theirs |-> 0, pre |-> <<Empty, Empty>>]

Has(m, b) == m.head[b] # 0

Held(n) == Ancestors(commits, n)

----------------------------------------------------------------------------
(* What a call's fn does to the refs map m it read: the reason it refuses, *)
(* and the map it writes.                                                  *)

\* A working-set update that may change the merge in progress.
SameMergeAny(a, b) == TRUE

SameMerge(a, b) == a = b

\* setWorkingSet: the branch's working set must still be prev, and an
\* UpdateWorkingSet keeps the merge in progress.
SetRefuses(o, m) ==
    IF ~Has(m, o.b) THEN "notfound"
    ELSE IF m.work[o.b] # o.prev THEN "conflict"
    ELSE IF o.call = "update" /\ ~SameMerge(m.work[o.b].merge, o.next.merge) THEN "mergestate"
    ELSE "ok"

SetWrites(o, m) == [m EXCEPT !.work[o.b] = o.next]

Height(head, theirs) ==
    LET h == commits[head].height
        t == IF theirs = 0 THEN 0 ELSE commits[theirs].height
    IN  1 + IF h > t THEN h ELSE t

\* A commit that forgets the merge it concludes.
NewParentsOne(head, theirs) == <<head>>

NewParents(head, theirs) == IF theirs = 0 THEN <<head>> ELSE <<head, theirs>>

\* The commit both ways of committing write: a merge adds its second parent.
NewCommit(m, b, ns) ==
    LET theirs == m.work[b].merge.theirs
    IN  [parents |-> NewParents(m.head[b], theirs), ns |-> ns,
         height |-> Height(m.head[b], theirs)]

\* commitWorkingSet ("staged") commits what is staged; commit ("commit")
\* commits the namespace it is given onto the working set it was given.
CommitRefuses(o, m) ==
    IF ~Has(m, o.b) THEN "notfound"
    ELSE IF o.call = "commit" /\ m.work[o.b] # o.prev THEN "conflict"
    ELSE IF o.call = "commit" /\ ~SameMerge(m.work[o.b].merge, o.prev.merge) THEN "mergestate"
    ELSE IF m.work[o.b].merge.conflicts # {} THEN "unresolved"
    ELSE IF ~Decodes(commits[m.head[o.b]]) THEN "corrupt"
    ELSE "ok"

Committed(o, m) == IF o.call = "commit" THEN o.next.staged ELSE m.work[o.b].staged

CommitWrites(o, m) ==
    [m EXCEPT !.head[o.b] = Len(commits) + 1,
              !.work[o.b] = IF o.call = "commit" THEN Working(o.next.working, o.next.staged)
                            ELSE Working(m.work[o.b].working, m.work[o.b].staged)]

\* CreateBranch and DeleteBranch.
CreateRefuses(o, m) == IF Has(m, o.b) THEN "exists" ELSE "ok"

CreateWrites(o, m) ==
    [m EXCEPT !.head[o.b] = o.target,
              !.work[o.b] = Working(commits[o.target].ns, commits[o.target].ns)]

DeleteRefuses(o, m) == IF Has(m, o.b) THEN "ok" ELSE "notfound"

DeleteWrites(o, m) ==
    [m EXCEPT !.head[o.b] = 0, !.work[o.b] = Working(Empty, Empty)]

\* CreateTag and DeleteTag.
TagRefuses(o, m) ==
    IF (m.tag[o.tag] = 0) <=> (o.call = "tag") THEN "ok" ELSE "exists"

TagWrites(o, m) == [m EXCEPT !.tag[o.tag] = IF o.call = "tag" THEN o.target ELSE 0]

\* AbortMerge puts back the namespaces the merge started from.
AbortRefuses(o, m) ==
    IF ~Has(m, o.b) THEN "notfound" ELSE IF m.work[o.b].merge = NoMerge THEN "nomerge" ELSE "ok"

AbortWrites(o, m) ==
    LET pre == m.work[o.b].merge.pre IN [m EXCEPT !.work[o.b] = Working(pre[1], pre[2])]

\* Init's swap from no root at all: main at an empty first commit.
InitWrites(o, m) ==
    [m EXCEPT !.zero = FALSE, !.head[Main] = Len(commits) + 1,
              !.work[Main] = Working(Empty, Empty)]

Refuses(o, m) ==
    CASE o.call = "init" -> "ok"
      [] o.call \in {"update", "merge", "resolve"} -> SetRefuses(o, m)
      [] o.call \in {"staged", "commit"} -> CommitRefuses(o, m)
      [] o.call = "create" -> CreateRefuses(o, m)
      [] o.call = "delete" -> DeleteRefuses(o, m)
      [] o.call \in {"tag", "untag"} -> TagRefuses(o, m)
      [] o.call = "abort" -> AbortRefuses(o, m)

Writes(o, m) ==
    CASE o.call = "init" -> InitWrites(o, m)
      [] o.call \in {"update", "merge", "resolve"} -> SetWrites(o, m)
      [] o.call \in {"staged", "commit"} -> CommitWrites(o, m)
      [] o.call = "create" -> CreateWrites(o, m)
      [] o.call = "delete" -> DeleteWrites(o, m)
      [] o.call \in {"tag", "untag"} -> TagWrites(o, m)
      [] o.call = "abort" -> AbortWrites(o, m)

----------------------------------------------------------------------------
(* What a call reads and checks before its first attempt.                  *)

Ready(c, call) ==
    /\ call \in mix.calls
    /\ op[c] = Idle
    /\ swaps < mix.swaps
    /\ Cardinality({d \in Client : op[d] # Idle}) < mix.beside
    /\ UNCHANGED <<refs, commits, checkedOut, session, merging, owed, dropped, mix, swaps>>

Committing == {c \in Client : op[c].call \in {"init", "staged", "commit"}}

MayCommit == Len(commits) + Cardinality(Committing) < mix.commits

Start(c, o) == op' = [op EXCEPT ![c] = o]

\* Init reads a zero root and swaps from it.
BeginInit(c) ==
    /\ Ready(c, "init")
    /\ refs.zero
    /\ MayCommit
    /\ Start(c, [Idle EXCEPT !.call = "init", !.at = "swap"])

\* UpdateWorkingSet: the host read prev, and may hand in any namespaces and
\* either merge state.
BeginUpdate(c, b) ==
    /\ Ready(c, "update")
    /\ Has(refs, b)
    /\ \E w \in Namespace, s \in BOOLEAN, m \in {refs.work[b].merge, NoMerge} :
          Start(c, [Idle EXCEPT !.call = "update", !.at = "read", !.b = b, !.prev = refs.work[b],
                                !.next = [working |-> w, merge |-> m,
                                          staged |-> IF s THEN w ELSE refs.work[b].staged]])

BeginStaged(c, b) ==
    /\ Ready(c, "staged")
    /\ MayCommit
    /\ Has(refs, b)
    /\ Start(c, [Idle EXCEPT !.call = "staged", !.at = "read", !.b = b])

\* Commit and CommitNamespace: a namespace in place of the working set read.
BeginCommit(c, b) ==
    /\ Ready(c, "commit")
    /\ MayCommit
    /\ Has(refs, b)
    /\ \E n \in Namespace :
          Start(c, [Idle EXCEPT !.call = "commit", !.at = "read", !.b = b,
                                !.prev = refs.work[b], !.next = Working(n, n)])

\* CreateBranch and CreateTag read the commit they are to name.
Names(n) == ~refs.zero /\ n \in DOMAIN commits /\ Decodes(commits[n])

BeginCreate(c, b, n) ==
    /\ Ready(c, "create")
    /\ Names(n)
    /\ b \in dropped => Recreates
    /\ Start(c, [Idle EXCEPT !.call = "create", !.at = "read", !.b = b, !.target = n])

BeginTag(c, t, n) ==
    /\ Ready(c, "tag")
    /\ Names(n)
    /\ Start(c, [Idle EXCEPT !.call = "tag", !.at = "read", !.tag = t, !.target = n])

BeginUntag(c, t) ==
    /\ Ready(c, "untag")
    /\ refs.tag[t] # 0
    /\ Start(c, [Idle EXCEPT !.call = "untag", !.at = "read", !.tag = t])

\* DeleteBranch asks whether a session holds the branch once, under the
\* lock, before its update.
BeginDelete(c, b) ==
    /\ Ready(c, "delete")
    /\ Has(refs, b)
    /\ checkedOut[b] = 0
    /\ Start(c, [Idle EXCEPT !.call = "delete", !.at = "read", !.b = b])

BeginAbort(c, b) ==
    /\ Ready(c, "abort")
    /\ Has(refs, b)
    /\ Start(c, [Idle EXCEPT !.call = "abort", !.at = "read", !.b = b])

Merges(base, n) == base # 0 /\ base # n

\* Merge reads the head and the working set once, merges theirs into what is
\* working, and sets a working set holding the merge state, if the one it
\* read is still there.  It does nothing where a merge is in progress, the
\* branch holds the commit already, or the conflicts are past the limit.
BeginMerge(c, b, n) ==
    /\ Ready(c, "merge")
    /\ Has(refs, b)
    /\ Names(n)
    /\ Decodes(commits[refs.head[b]])
    /\ LET ws == refs.work[b]
           base == MergeBase(commits, refs.head[b], n)
           from == commits[base].ns
           into == Merged(from, ws.working, commits[n].ns)
       IN  /\ ws.merge = NoMerge
           /\ Merges(base, n)
           /\ ~Aborts(from, ws.working, commits[n].ns)
           /\ Start(c, [Idle EXCEPT !.call = "merge", !.at = "read", !.b = b, !.prev = ws,
                !.next = [working |-> into, staged |-> into,
                          merge |-> [base |-> base, theirs |-> n,
                                     conflicts |-> Conflicts(from, ws.working, commits[n].ns),
                                     pre |-> <<ws.working, ws.staged>>]]])

BeginResolve(c, b, p, to) ==
    /\ Ready(c, "resolve")
    /\ Has(refs, b)
    /\ refs.work[b].merge # NoMerge
    /\ Start(c, [Idle EXCEPT !.call = "resolve", !.at = "prepare", !.b = b, !.path = p, !.to = to])

\* ResolveConflict's loop: read the working set, settle the path in both
\* namespaces and drop its conflict.
PrepareResolve(c) ==
    LET o == op[c]
        ws == refs.work[o.b]
        left == {x \in ws.merge.conflicts : x.path # o.path}
    IN  /\ o.at = "prepare"
        /\ op' = [op EXCEPT ![c] =
             IF Has(refs, o.b) /\ ws.merge # NoMerge /\ left # ws.merge.conflicts
             THEN [o EXCEPT !.at = "read", !.prev = ws, !.tries = 0,
                            !.next = [working |-> [ws.working EXCEPT ![o.path] = o.to],
                                      staged |-> [ws.staged EXCEPT ![o.path] = o.to],
                                      merge |-> [ws.merge EXCEPT !.conflicts = left]]]
             ELSE Idle]
        /\ UNCHANGED <<refs, commits, checkedOut, session, merging, owed, dropped, mix, swaps>>

----------------------------------------------------------------------------
(* update: read the refs, apply fn, swap; a lost swap reads again.         *)

Attempt(c) ==
    LET o == op[c]
        why == Refuses(o, refs)
    IN  /\ o.at = "read"
        /\ op' = [op EXCEPT ![c] =
             CASE why = "ok" -> [o EXCEPT !.at = "swap", !.snap = refs]
               [] why = "conflict" /\ o.call = "resolve" /\ o.rounds + 1 < MaxAttempts ->
                    [o EXCEPT !.at = "prepare", !.rounds = @ + 1]
               [] OTHER -> Idle]
        /\ UNCHANGED <<refs, commits, checkedOut, session, merging, owed, dropped, mix, swaps>>

\* A writer that looks only at its own branch before it swaps.
UnmovedBranch(o) == refs.zero = o.snap.zero /\ refs.work[o.b] = o.snap.work[o.b]

Unmoved(o) == refs = o.snap

\* CompareAndSetRoot took the swap.
Swap(c) ==
    LET o == op[c]
    IN  /\ o.at = "swap"
        /\ Unmoved(o)
        /\ refs' = Writes(o, o.snap)
        /\ commits' = CASE o.call = "init" ->
                             Append(commits, [parents |-> << >>, ns |-> Empty, height |-> 0])
                        [] o.call \in {"staged", "commit"} ->
                             Append(commits, NewCommit(o.snap, o.b, Committed(o, o.snap)))
                        [] OTHER -> commits
        /\ op' = [op EXCEPT ![c] = Idle]
        /\ swaps' = swaps + 1
        /\ merging' = CASE o.call = "merge" ->
                             [merging EXCEPT ![o.b] = [theirs |-> o.next.merge.theirs,
                                 pre |-> <<refs.work[o.b].working, refs.work[o.b].staged>>]]
                        [] o.call \in {"staged", "commit", "abort", "delete"} ->
                             [merging EXCEPT ![o.b] = NotMerging]
                        [] OTHER -> merging
        /\ owed' = CASE o.call = "merge" ->
                          [owed EXCEPT ![o.b] = {x.path : x \in o.next.merge.conflicts}]
                     [] o.call = "resolve" -> [owed EXCEPT ![o.b] = @ \ {o.path}]
                     [] o.call \in {"abort", "delete"} -> [owed EXCEPT ![o.b] = {}]
                     [] OTHER -> owed
        /\ dropped' = IF o.call = "delete" THEN dropped \cup {o.b} ELSE dropped
        /\ UNCHANGED <<checkedOut, session, mix>>

\* ErrRootConflict: Init found a repository made first (ErrExists), and any
\* other writer pauses and tries again, up to its attempts.
LostSwap(c) ==
    LET o == op[c]
    IN  /\ o.at = "swap"
        /\ ~Unmoved(o)
        /\ op' = [op EXCEPT ![c] =
             IF o.call = "init" \/ o.tries + 1 >= MaxAttempts THEN Idle
             ELSE [o EXCEPT !.at = "read", !.tries = @ + 1, !.snap = NoRefs]]
        /\ UNCHANGED <<refs, commits, checkedOut, session, merging, owed, dropped, mix, swaps>>

----------------------------------------------------------------------------
(* Sessions: Checkout reads the head, then counts itself under the lock.   *)

BeginCheckout(c, b) ==
    /\ Ready(c, "checkout")
    /\ Has(refs, b)
    /\ session[c] = "none"
    /\ checkedOut[b] < MaxSessions
    /\ Start(c, [Idle EXCEPT !.call = "checkout", !.at = "count", !.b = b])

Checkout(c) ==
    /\ op[c].at = "count"
    /\ checkedOut' = [checkedOut EXCEPT ![op[c].b] = @ + 1]
    /\ session' = [session EXCEPT ![c] = op[c].b]
    /\ op' = [op EXCEPT ![c] = Idle]
    /\ UNCHANGED <<refs, commits, merging, owed, dropped, mix, swaps>>

CloseSession(c) ==
    /\ session[c] # "none"
    /\ op[c] = Idle
    /\ checkedOut' = [checkedOut EXCEPT ![session[c]] = @ - 1]
    /\ session' = [session EXCEPT ![c] = "none"]
    /\ UNCHANGED <<refs, commits, op, merging, owed, dropped, mix, swaps>>

----------------------------------------------------------------------------
\* The store before Init; a repository whose branches have diverged, each
\* with a commit of its own on the first; and one where each has then merged
\* the other's, so that the two share two latest ancestors.
Fresh == refs = NoRefs /\ commits = << >>

One(parents, v) ==
    [parents |-> parents, height |-> Len(parents),
     ns |-> [q \in Path |-> IF v = 0 THEN Zero ELSE [model |-> "blob", root |-> [e \in Entry |-> v]]]]

Fork  == <<One(<< >>, 0), One(<<1>>, 1), One(<<1>>, 2)>>
Cross == <<Fork[1], Fork[2], Fork[3], One(<<2, 3>>, 1), One(<<3, 2>>, 2)>>

Heads(m, n) ==
    \E b \in Branch \ {Main} :
        refs = [NoRefs EXCEPT !.zero = FALSE, !.head[Main] = m, !.head[b] = n,
                              !.work[Main] = Working(commits[m].ns, commits[m].ns),
                              !.work[b] = Working(commits[n].ns, commits[n].ns)]

Forked  == commits = Fork /\ Heads(2, 3)
Crossed == commits = Cross /\ Heads(4, 5)

Init ==
    /\ mix \in Mixes
    /\ CASE mix.from = "nothing" -> Fresh
         [] mix.from = "fork" -> Forked
         [] mix.from = "cross" -> Crossed
    /\ checkedOut = [b \in Branch |-> 0]
    /\ session = [c \in Client |-> "none"]
    /\ op = [c \in Client |-> Idle]
    /\ merging = [b \in Branch |-> NotMerging]
    /\ owed = [b \in Branch |-> {}]
    /\ dropped = {}
    /\ swaps = 0

BeginOnBranch(c) ==
    \E b \in Branch :
        \/ BeginUpdate(c, b) \/ BeginStaged(c, b) \/ BeginCommit(c, b)
        \/ BeginDelete(c, b) \/ BeginAbort(c, b) \/ BeginCheckout(c, b)
        \/ \E n \in DOMAIN commits : BeginCreate(c, b, n) \/ BeginMerge(c, b, n)
        \/ \E p \in Path, to \in Ref \cup {Zero} : BeginResolve(c, b, p, to)

BeginOnTag(c) ==
    \E t \in Tag : BeginUntag(c, t) \/ \E n \in DOMAIN commits : BeginTag(c, t, n)

Next ==
    \/ \E c \in Client : BeginInit(c)
    \/ \E c \in Client : BeginOnBranch(c)
    \/ \E c \in Client : BeginOnTag(c)
    \/ \E c \in Client : PrepareResolve(c)
    \/ \E c \in Client : Attempt(c)
    \/ \E c \in Client : Swap(c)
    \/ \E c \in Client : LostSwap(c)
    \/ \E c \in Client : Checkout(c)
    \/ \E c \in Client : CloseSession(c)

Spec == Init /\ [][Next]_vars

----------------------------------------------------------------------------
(* vcs.Walk: every chunk the repository whose refs are m reaches.          *)

ObjectsOf(ns) == {<<"object", ns[p]>> : p \in {q \in Path : ns[q] # Zero}}

NamespaceOf(ns) == {<<"namespace", ns>>} \cup ObjectsOf(ns)

\* history: each commit named and its parents, and their namespaces.
HistoryOf(n) ==
    IF n = 0 THEN {}
    ELSE UNION {{<<"commit", k>>} \cup NamespaceOf(commits[k].ns) : k \in Held(n)}

Sides(x) == {<<"object", r>> : r \in {x.base, x.ours, x.theirs} \ {Zero}}

\* A walk that forgets the namespaces AbortMerge puts back.
WorkingSetOfNow(ws) ==
    NamespaceOf(ws.working) \cup NamespaceOf(ws.staged)
    \cup HistoryOf(ws.merge.base) \cup HistoryOf(ws.merge.theirs)
    \cup UNION {Sides(x) : x \in ws.merge.conflicts}

WorkingSetOf(ws) ==
    NamespaceOf(ws.working) \cup NamespaceOf(ws.staged)
    \cup IF ws.merge = NoMerge THEN {}
         ELSE UNION {NamespaceOf(ws.merge.pre[i]) : i \in 1 .. 2}
              \cup HistoryOf(ws.merge.base) \cup HistoryOf(ws.merge.theirs)
              \cup UNION {Sides(x) : x \in ws.merge.conflicts}

Walk(m) ==
    UNION {HistoryOf(m.head[b]) \cup WorkingSetOf(m.work[b]) : b \in {x \in Branch : Has(m, x)}}
    \cup UNION {HistoryOf(m.tag[t]) : t \in Tag}

----------------------------------------------------------------------------
\* A branch's head only moves to a commit that holds the one it named, and a
\* tag names one commit until it is deleted: no writer that read an older
\* root overwrites what landed since (update, commitWorkingSet, commit,
\* CreateTag).
RefsAdvance ==
    [][/\ \A b \in Branch : Has(refs, b) /\ Has(refs', b) /\ refs'.head[b] # refs.head[b] =>
            refs.head[b] \in Ancestors(commits', refs'.head[b])
       /\ \A t \in Tag : refs.tag[t] # 0 /\ refs'.tag[t] # 0 => refs'.tag[t] = refs.tag[t]]_vars

\* The merge in progress a branch's working set holds is the last merge that
\* landed there, with every conflict no one has resolved and the namespaces
\* the branch had when it began, which AbortMerge is to put back: updates of
\* the working set neither drop it nor revive a finished one (ErrMergeState).
MergeKept ==
    \A b \in Branch : Has(refs, b) =>
        LET m == refs.work[b].merge
        IN  /\ merging[b] = [theirs |-> m.theirs, pre |-> m.pre]
            /\ {x.path : x \in m.conflicts} = owed[b]

\* Every commit on a branch with a merge in progress brings in the commit
\* merged: after it the branch holds theirs (commitWorkingSet, commit).
MergeLands ==
    [][\A b \in Branch :
          Has(refs, b) /\ Has(refs', b) /\ merging[b] # NotMerging /\ refs'.head[b] # refs.head[b] =>
              merging[b].theirs \in Ancestors(commits', refs'.head[b])]_vars

\* Whatever a call makes the refs reach, the walk of the refs before it
\* reached, the call wrote, or its caller named: so a collection that kept
\* only what Walk named took nothing that committing, resolving, deleting or
\* abandoning a merge brings back.
Brought(o) ==
    NamespaceOf(o.next.working) \cup NamespaceOf(o.next.staged) \cup HistoryOf(o.target)
    \cup HistoryOf(o.next.merge.theirs) \cup HistoryOf(o.next.merge.base)
    \cup UNION {Sides(x) : x \in o.next.merge.conflicts}

WalkReaches ==
    [][\A c \in Client : op[c].at = "swap" /\ refs' # refs /\ op'[c] # op[c] =>
          Walk(refs)' \subseteq Walk(refs) \cup Brought(op[c])
                                \cup {<<"commit", Len(commits')>>, <<"namespace", Empty>>}]_vars

\* The searches of the graph are exact, on every graph a commit makes.
\* mergeBase finds a common ancestor of any two commits, and none that
\* another descends from; Log lists the commits reachable from one, each
\* once, none before one that descends from it, and a limit keeps the first
\* of them; and DecodeCommit refuses no commit stored.
GraphExact(cs) ==
    LET reach == UNION {{n} \X Ancestors(cs, n) : n \in DOMAIN cs}
        Reached(n) == {k \in DOMAIN cs : <<n, k>> \in reach}
    IN  /\ \A a, b \in DOMAIN cs :
             LET base == MergeBase(cs, a, b)
                 common == Reached(a) \cap Reached(b)
             IN  base \in common /\ \A n \in common \ {base} : <<n, base>> \notin reach
        /\ \A n \in DOMAIN cs :
             LET log == Log(cs, n, Len(cs))
             IN  /\ {log[i] : i \in DOMAIN log} = Reached(n)
                 /\ Len(log) = Cardinality(Reached(n))
                 /\ \A i, j \in DOMAIN log : i < j => <<log[j], log[i]>> \notin reach
                 /\ \A k \in 1 .. Len(log) : Log(cs, n, k) = SubSeq(log, 1, k)
        /\ \A n \in DOMAIN cs : Decodes(cs[n])

HistoryExact == [][commits' # commits => GraphExact(commits')]_vars

============================================================================
