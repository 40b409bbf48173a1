--------------------------- MODULE VolumesProofs ---------------------------
(***************************************************************************)
(* What a store over several volumes keeps for any threads, handles,       *)
(* volumes, objects and bounds, when volumes come and go only between      *)
(* operations: the root only moves by compare-and-swap and no swap that    *)
(* returned is undone.                                                     *)
(***************************************************************************)
EXTENDS Volumes, TLAPS

OpFields == {"pc", "kind", "name", "raced", "vols", "todo", "vol", "dirs", "missing", "was", "seen",
             "expected", "version"}

DiskFields == {"dirs", "keptDirs", "files", "keptFiles", "root", "keptRoot"}

HandleFields == {"open", "vols", "lost", "readOnly", "known"}

LeftFields == {"calls", "crashes", "faults", "unmounts", "fills", "version"}

Shapes ==
  /\ op = [t \in Thread |-> op[t]] /\ \A t \in Thread : DOMAIN op[t] = OpFields
  /\ disk = [v \in Volume |-> disk[v]] /\ \A v \in Volume : DOMAIN disk[v] = DiskFields
  /\ handle = [h \in Handle |-> handle[h]] /\ \A h \in Handle : DOMAIN handle[h] = HandleFields
  /\ at = [v \in Volume |-> at[v]]
  /\ DOMAIN left = LeftFields /\ DOMAIN map = {"vols", "kept"}

----------------------------------------------------------------------------
(* Handles and the volumes they hold.                                      *)

\* A list of volumes begins with the primary.
Vols(s) == s \in Seq(Volume) /\ Len(s) > 0 /\ s[1] = Primary

\* Some operation of handle h that a missing volume would have refused is
\* under way.
Busy(h) == \E t \in Thread : HandleOf[t] = h /\ op[t].pc \notin {"idle", "find"}

HandleOK(h) ==
  /\ handle[h].open => Vols(handle[h].vols)
  /\ Busy(h) => /\ handle[h].open /\ handle[h].lost = {}
                /\ \A v \in Range(handle[h].vols) : at[v] = "own"

\* Whoever has the volume map's lock has just added a volume.
Adding(t) == op[t].pc \in {"map", "mapsync"}

LockOK ==
  /\ mapLock # Nobody => mapLock \in Thread /\ Adding(mapLock)
  /\ \A t \in Thread : Adding(t) => mapLock = t /\ Len(handle[HandleOf[t]].vols) > 1

HandlesInv ==
  /\ Vols(map.vols) /\ Vols(map.kept)
  /\ Primary \in created /\ created \subseteq Volume
  /\ \A v \in Volume : v \notin created => at[v] = "own"
  /\ \A h \in Handle : HandleOK(h)
  /\ LockOK
  /\ ~panicked

\* The volumes before the one that is being added.
Before(t) == SubSeq(handle[HandleOf[t]].vols, 1, Len(handle[HandleOf[t]].vols) - 1)

----------------------------------------------------------------------------
(* The root.                                                               *)

SwapOK(t) ==
  /\ op[t].pc \in {"lock", "rename", "rootsync"} => at[Primary] = "own"
  /\ op[t].pc \in {"rename", "rootsync"} => rootLock = t
  /\ op[t].pc = "rename" => op[t].expected = disk[Primary].root.version
  /\ op[t].pc = "rootsync" => op[t].version = disk[Primary].root.version

RootInv ==
  /\ left.version \in Nat
  /\ disk[Primary].root.version \in 0 .. left.version
  /\ disk[Primary].keptRoot.version \in 0 .. disk[Primary].root.version
  /\ swapped \in 0 .. disk[Primary].keptRoot.version
  /\ \A t \in Thread : SwapOK(t)

----------------------------------------------------------------------------
(* What a step of one thread leaves alone.                                 *)

Same(new, old) ==
  /\ new.pc = old.pc /\ new.kind = old.kind /\ new.name = old.name /\ new.vols = old.vols
  /\ new.todo = old.todo /\ new.vol = old.vol /\ new.expected = old.expected
  /\ new.version = old.version /\ (old.raced => new.raced)

\* Only thread t's call moves; a call that starts may race with others.
Moves(t) ==
  /\ op' = [u \in Thread |-> op'[u]] /\ \A u \in Thread : DOMAIN op'[u] = OpFields
  /\ \A u \in Thread \ {t} : Same(op'[u], op[u])

SameHandles ==
  /\ handle' = [h \in Handle |-> handle'[h]] /\ \A h \in Handle : DOMAIN handle'[h] = HandleFields
  /\ \A h \in Handle : /\ handle'[h].open = handle[h].open
                       /\ handle'[h].vols = handle[h].vols
                       /\ handle'[h].lost = handle[h].lost

SameRoots ==
  /\ disk' = [v \in Volume |-> disk'[v]] /\ \A v \in Volume : DOMAIN disk'[v] = DiskFields
  /\ \A v \in Volume : disk'[v].root = disk[v].root /\ disk'[v].keptRoot = disk[v].keptRoot

SameLeft == DOMAIN left' = LeftFields /\ left'.version = left.version

SwapPc == {"lock", "rename", "rootsync"}
AddPc == {"map", "mapsync"}

\* A step inside a Put, Get, List or Delete.
Works(t) ==
  /\ Moves(t) /\ SameHandles /\ SameRoots /\ SameLeft
  /\ UNCHANGED <<created, at, map, rootLock, mapLock, swapped, panicked>>
  /\ op[t].pc \notin {"idle"} \cup SwapPc \cup AddPc /\ op'[t].pc \notin SwapPc \cup AddPc
  /\ op[t].pc = "find" => op'[t].pc \in {"idle", "find"}

\* A call that takes a snapshot of the volumes, and is refused or begins.
Asks(t) ==
  LET store == Verified(H(t), Range(H(t).vols))
  IN  /\ Moves(t) /\ SameRoots /\ SameLeft
      /\ H(t).open /\ op[t].pc = "idle"
      /\ handle' = [handle EXCEPT ![HandleOf[t]] = store]
      /\ Refused(store) => op' = op
      /\ UNCHANGED <<created, at, map, rootLock, mapLock, swapped, panicked>>
      /\ op'[t].pc \notin {"rename", "rootsync"} \cup AddPc

\* A call that steps on, or returns, is the only one that moves.
LEMMA StepMoves ==
  ASSUME Shapes, NEW t \in Thread, DOMAIN op'[t] = OpFields, op' = [op EXCEPT ![t] = op'[t]]
  PROVE  Moves(t)
  BY DEF Shapes, Moves, Same

\* A call that begins is the only one that moves, but for the calls it races
\* with.
LEMMA BegunMoves ==
  ASSUME Shapes, NEW t \in Thread, NEW call, DOMAIN call = OpFields, NEW races,
         op' = Begun(t, call, races)
  PROVE  Moves(t) /\ op'[t] = [call EXCEPT !.raced = races # {}]
  BY Zenon DEF Shapes, Moves, Same, Begun, OpFields

\* A system call on one volume keeps the disks' shape.
LEMMA OnRoots ==
  ASSUME Shapes, NEW v, NEW changed, On(v, changed),
         v \in Volume => /\ DOMAIN changed = DiskFields
                         /\ changed.root = disk[v].root /\ changed.keptRoot = disk[v].keptRoot
  PROVE  SameRoots
  BY DEF Shapes, SameRoots, On

\* An idle call has its fields.
LEMMA IdleFields == DOMAIN Idle = OpFields /\ Idle.pc = "idle" /\ Idle.kind = "none"
  BY DEF Idle, OpFields

\* Nothing but a call's own record moves when a call reads or returns.
LEMMA Untouched ==
  ASSUME Shapes
  PROVE  /\ UNCHANGED handle => SameHandles
         /\ UNCHANGED disk => SameRoots
         /\ UNCHANGED left => SameLeft
  BY DEF Shapes, SameHandles, SameRoots, SameLeft

\* A handle that learns of a directory is otherwise as it was.
LEMMA KnownHandles ==
  ASSUME Shapes, NEW h \in Handle, NEW v, NEW d, handle' = [handle EXCEPT ![h] = Known(@, v, d)]
  PROVE  SameHandles
  BY Zenon DEF Shapes, SameHandles, Known, HandleFields

\* Each system call on an object's directory or file leaves the root files
\* alone.
LEMMA DiskCalls ==
  ASSUME Shapes, NEW v, NEW x,
         On(v, Mkdir(disk[v], x)) \/ On(v, SyncDir(disk[v], x)) \/ On(v, Link(disk[v], x)) \/ On(v, Unlink(disk[v], x))
  PROVE  SameRoots
  <1>1. CASE On(v, Mkdir(disk[v], x))
    BY Zenon, <1>1, OnRoots DEF Shapes, Mkdir, DiskFields
  <1>2. CASE On(v, SyncDir(disk[v], x))
    BY Zenon, <1>2, OnRoots DEF Shapes, SyncDir, DiskFields
  <1>3. CASE On(v, Link(disk[v], x))
    BY Zenon, <1>3, OnRoots DEF Shapes, Link, DiskFields
  <1>4. CASE On(v, Unlink(disk[v], x))
    BY Zenon, <1>4, OnRoots DEF Shapes, Unlink, DiskFields
  <1> QED  BY <1>1, <1>2, <1>3, <1>4

WorkStep(t) ==
  \/ PutRank(t) \/ PutStat(t) \/ PutPlace(t) \/ PutMkdir(t) \/ PutMkSync(t) \/ PutLink(t) \/ PutSync(t)
  \/ FindStep(t) \/ ListStep(t) \/ Answer(t) \/ DeleteStep(t) \/ DeleteSync(t)

\* The steps of a Put, Get, List or Delete move only that call, and touch
\* neither the root nor the handle's volumes.
LEMMA WorkWorks ==
  ASSUME Shapes, NEW t \in Thread, WorkStep(t)
  PROVE  Works(t)
  <1> USE DEF SwapPc, AddPc
  <1>h. HandleOf[t] \in Handle  BY VolumesAssumption
  <1>r. ASSUME Return(t) PROVE Moves(t) /\ op'[t].pc = "idle"
    BY <1>r, StepMoves, IdleFields DEF Return, Shapes
  <1>d. DOMAIN op[t] = OpFields  BY DEF Shapes
  <1>1. CASE PutRank(t)
    <2>1. PICK ranked : Step(t, [op[t] EXCEPT !.pc = "stat", !.vols = ranked, !.todo = ranked])
      BY Zenon, <1>1 DEF PutRank
    <2>2. Moves(t) /\ op'[t].pc = "stat"  BY Zenon, <1>d, <2>1, StepMoves DEF Step, Shapes, OpFields
    <2> QED  BY ONLY <1>1, <2>2, Untouched, Shapes DEF PutRank, Works, Rest
  <1>2. CASE PutStat(t)
    <2>1. ASSUME NEW todo, NEW pc, Step(t, [op[t] EXCEPT !.todo = todo, !.pc = pc]) PROVE Moves(t) /\ op'[t].pc = pc
      BY Zenon, <1>d, <2>1, StepMoves DEF Step, Shapes, OpFields
    <2>2. Moves(t) /\ op'[t].pc \in {"idle", "place", "stat"}
      BY Zenon, <1>2, <1>r, <2>1 DEF PutStat
    <2> QED  BY ONLY <1>2, <2>2, Untouched, Shapes DEF PutStat, Works, Rest
  <1>3. CASE PutPlace(t)
    <2>1. ASSUME NEW v, NEW dirs, NEW pc, Step(t, [op[t] EXCEPT !.vol = v, !.dirs = dirs, !.pc = pc]) PROVE Moves(t) /\ op'[t].pc = pc
      BY Zenon, <1>d, <2>1, StepMoves DEF Step, Shapes, OpFields
    <2>2. Moves(t) /\ op'[t].pc \in {"idle", "link", "mkdir"}
      BY Zenon, <1>3, <1>r, <2>1 DEF PutPlace
    <2>3. SameHandles
      BY Zenon, <1>3, <1>h, Untouched, KnownHandles DEF PutPlace
    <2> QED  BY ONLY Zenon, <1>3, <2>2, <2>3, Untouched, Shapes DEF PutPlace, Works, Rest
  <1>4. CASE PutMkdir(t)
    <2>2. Moves(t) /\ op'[t].pc = "mksync"
      BY <1>4, <1>d, StepMoves DEF PutMkdir, Step, Shapes, OpFields
    <2>3. SameRoots  BY <1>4, DiskCalls DEF PutMkdir
    <2> QED  BY ONLY <1>4, <2>2, <2>3, Untouched, Shapes DEF PutMkdir, Works, Rest
  <1>5. CASE PutMkSync(t)
    <2>1. ASSUME NEW dirs, NEW pc, Step(t, [op[t] EXCEPT !.pc = pc, !.dirs = dirs]) PROVE Moves(t) /\ op'[t].pc = pc
      BY Zenon, <1>d, <2>1, StepMoves DEF Step, Shapes, OpFields
    <2>2. Moves(t) /\ op'[t].pc \in {"link", "mkdir"}
      BY Zenon, <1>5, <2>1 DEF PutMkSync
    <2>3. SameRoots  BY <1>5, DiskCalls DEF PutMkSync, SyncMade
    <2>4. SameHandles  BY <1>5, <1>h, Untouched, KnownHandles DEF PutMkSync
    <2> QED  BY ONLY <1>5, <2>2, <2>3, <2>4, Untouched, Shapes DEF PutMkSync, Works, Rest
  <1>6. CASE PutLink(t)
    <2>1. ASSUME Step(t, [op[t] EXCEPT !.pc = "sync"]) PROVE Moves(t) /\ op'[t].pc = "sync"
      BY <1>d, <2>1, StepMoves DEF Step, Shapes, OpFields
    <2>2. Moves(t) /\ op'[t].pc \in {"idle", "sync"}
      BY <1>6, <1>r, <2>1 DEF PutLink
    <2>3. SameRoots  BY <1>6, DiskCalls, Untouched DEF PutLink
    <2> QED  BY ONLY <1>6, <2>2, <2>3, Untouched, Shapes DEF PutLink, Works, Rest
  <1>7. CASE PutSync(t)
    <2>2. Moves(t) /\ op'[t].pc = "idle"  BY <1>7, <1>r DEF PutSync
    <2>3. SameRoots  BY <1>7, DiskCalls DEF PutSync
    <2> QED  BY ONLY <1>7, <2>2, <2>3, Untouched, Shapes DEF PutSync, Works, Rest
  <1>8. CASE FindStep(t)
    <2>1. ASSUME NEW todo, Step(t, [op[t] EXCEPT !.todo = todo]) PROVE Moves(t) /\ op'[t].pc = op[t].pc
      BY <1>d, <2>1, StepMoves DEF Step, Shapes, OpFields
    <2>2. Moves(t) /\ op'[t].pc \in {"idle", "find"}
      BY <1>8, <1>r, <2>1 DEF FindStep
    <2> QED  BY ONLY <1>8, <2>2, Untouched, Shapes DEF FindStep, Works, Rest
  <1>9. CASE ListStep(t)
    <2>1. ASSUME NEW todo, NEW seen, Step(t, [op[t] EXCEPT !.todo = todo, !.seen = seen]) PROVE Moves(t) /\ op'[t].pc = op[t].pc
      BY Zenon, <1>d, <2>1, StepMoves DEF Step, Shapes, OpFields
    <2>2. Moves(t) /\ op'[t].pc = "list"
      BY Zenon, <1>9, <2>1 DEF ListStep
    <2> QED  BY ONLY <1>9, <2>2, Untouched, Shapes DEF ListStep, Works, Rest
  <1>10. CASE Answer(t)
    <2>2. Moves(t) /\ op'[t].pc = "idle"  BY <1>10, <1>r DEF Answer
    <2> QED  BY ONLY <1>10, <2>2, Untouched, Shapes DEF Answer, Works, Rest
  <1>n. ASSUME DeleteNext(t) PROVE Moves(t) /\ op'[t].pc \in {"idle", "delete"}
    <2>1. ASSUME NEW todo, Step(t, [op[t] EXCEPT !.todo = todo, !.pc = "delete"]) PROVE Moves(t) /\ op'[t].pc = "delete"
      BY Zenon, <1>d, <2>1, StepMoves DEF Step, Shapes, OpFields
    <2> QED  BY Zenon, <1>n, <1>r, <2>1 DEF DeleteNext
  <1>11. CASE DeleteStep(t)
    <2>1. ASSUME Step(t, [op[t] EXCEPT !.pc = "unlinked"]) PROVE Moves(t) /\ op'[t].pc = "unlinked"
      BY <1>d, <2>1, StepMoves DEF Step, Shapes, OpFields
    <2>2. Moves(t) /\ op'[t].pc \in {"idle", "delete", "unlinked"}
      BY <1>11, <1>n, <2>1 DEF DeleteStep
    <2>3. SameRoots  BY <1>11, DiskCalls, Untouched DEF DeleteStep
    <2> QED  BY ONLY <1>11, <2>2, <2>3, Untouched, Shapes DEF DeleteStep, Works, Rest
  <1>12. CASE DeleteSync(t)
    <2>2. Moves(t) /\ op'[t].pc \in {"idle", "delete"}  BY <1>12, <1>n DEF DeleteSync
    <2>3. SameRoots  BY <1>12, DiskCalls DEF DeleteSync
    <2> QED  BY ONLY <1>12, <2>2, <2>3, Untouched, Shapes DEF DeleteSync, Works, Rest
  <1> QED  BY <1>1, <1>2, <1>3, <1>4, <1>5, <1>6, <1>7, <1>8, <1>9, <1>10, <1>11, <1>12 DEF WorkStep

AskStep(t) ==
  \/ \E n \in Name : Put(t, n) \/ Delete(t, n)
  \/ \E after \in {0} \cup Name : List(t, after)
  \/ \E e \in {0, left.version} : SwapRoot(t, e)

\* A Put, Delete, List or SwapRoot that is called takes a snapshot.
LEMMA AskAsks ==
  ASSUME Shapes, NEW t \in Thread, AskStep(t)
  PROVE  Asks(t)
  <1> USE DEF AddPc
  <1>l. ASSUME NEW c, Call(t, c) PROVE SameLeft /\ op[t].pc = "idle"
    BY <1>l DEF Call, SameLeft, Shapes, LeftFields
  <1>u. ASSUME op' = op, op[t].pc = "idle" PROVE Moves(t) /\ op'[t].pc = "idle"
    BY <1>u DEF Moves, Same, Shapes
  <1>1. ASSUME NEW n \in Name, Put(t, n) PROVE Asks(t)
    <2>1. ASSUME op' = Begun(t, [Idle EXCEPT !.pc = "rank", !.kind = "put", !.name = n], Races("delete", n))
          PROVE  Moves(t) /\ op'[t].pc = "rank"
      <3>1. PICK call : call = [Idle EXCEPT !.pc = "rank", !.kind = "put", !.name = n]  OBVIOUS
      <3>2. PICK races : races = Races("delete", n)  OBVIOUS
      <3>3. DOMAIN call = OpFields /\ call.pc = "rank"  BY <3>1, IdleFields DEF OpFields
      <3>4. Moves(t) /\ op'[t] = [call EXCEPT !.raced = races # {}]  BY ONLY Zenon, <2>1, <3>1, <3>2, <3>3, t \in Thread, Shapes, BegunMoves
      <3> QED  BY <3>3, <3>4 DEF OpFields
    <2>2. Moves(t) /\ op'[t].pc \in {"idle", "rank"}
      BY <1>1, <1>l, <1>u, <2>1 DEF Put, Snapshot
    <2> QED  BY ONLY <1>1, <1>l, <2>2, Untouched, Shapes DEF Put, Snapshot, Asks, Rest
  <1>2. ASSUME NEW n \in Name, Delete(t, n) PROVE Asks(t)
    <2>1. PICK call : call = [Idle EXCEPT !.pc = "delete", !.kind = "delete", !.name = n, !.todo = Deletes(H(t), n)]
      OBVIOUS
    <2>2. PICK races : races = Races("put", n)  OBVIOUS
    <2>3. PICK ops : ops = Begun(t, call, races)  OBVIOUS
    <2>4. ASSUME op' = [u \in Thread |-> [ops[u] EXCEPT !.was = @ \ {n}]]
          PROVE  Moves(t) /\ op'[t].pc = "delete"
      <3>1. DOMAIN call = OpFields /\ call.pc = "delete"  BY <2>1, IdleFields DEF OpFields
      <3>2. \A u \in Thread \ {t} : ops[u] = [op[u] EXCEPT !.raced = @ \/ u \in races]
        BY <2>3 DEF Begun
      <3>3. ops[t] = [call EXCEPT !.raced = races # {}]  BY <2>3 DEF Begun
      <3>4. \A u \in Thread \ {t} : DOMAIN ops[u] = OpFields /\ Same(ops[u], op[u])
        <4> TAKE u \in Thread \ {t}
        <4>1. DOMAIN op[u] = OpFields  BY DEF Shapes
        <4>2. PICK raced : raced = (op[u].raced \/ u \in races)  OBVIOUS
        <4>3. ops[u] = [op[u] EXCEPT !.raced = raced]  BY <3>2, <4>2
        <4> QED  BY Zenon, <4>1, <4>2, <4>3 DEF Same, OpFields
      <3>5. DOMAIN ops[t] = OpFields /\ ops[t].pc = "delete"
        BY <3>1, <3>3 DEF OpFields
      <3>6. \A u \in Thread : op'[u] = [ops[u] EXCEPT !.was = @ \ {n}]  BY <2>4
      <3>7. \A u \in Thread \ {t} : DOMAIN op'[u] = OpFields /\ Same(op'[u], op[u])
        <4> TAKE u \in Thread \ {t}
        <4>1. PICK o : o = ops[u]  OBVIOUS
        <4>2. PICK was : was = o.was \ {n}  BY Zenon
        <4>3. op'[u] = [o EXCEPT !.was = was]  BY <3>6, <4>1, <4>2
        <4>4. DOMAIN o = OpFields /\ Same(o, op[u])  BY <3>4, <4>1
        <4> QED  BY <4>3, <4>4 DEF Same, OpFields
      <3>8. DOMAIN op'[t] = OpFields /\ op'[t].pc = "delete"  BY Zenon, <3>5, <3>6 DEF OpFields
      <3> QED  BY Zenon, <2>4, <3>7, <3>8 DEF Moves
    <2>5. Moves(t) /\ op'[t].pc \in {"idle", "delete"}
      BY <1>2, <1>l, <1>u, <2>1, <2>2, <2>3, <2>4 DEF Delete, Snapshot
    <2> QED  BY ONLY <1>2, <1>l, <2>5, Untouched, Shapes DEF Delete, Snapshot, Asks, Rest
  <1>3. ASSUME NEW after, List(t, after) PROVE Asks(t)
    <2>1. PICK call : call = [Idle EXCEPT !.pc = "list", !.kind = "list", !.name = after, !.was = acked, !.todo = H(t).vols]
      OBVIOUS
    <2>2. ASSUME op' = Begun(t, call, {}) PROVE Moves(t) /\ op'[t].pc = "list"
      <3>1. DOMAIN call = OpFields /\ call.pc = "list"  BY <2>1, IdleFields DEF OpFields
      <3>2. Moves(t) /\ op'[t] = [call EXCEPT !.raced = {} # {}]  BY ONLY <2>2, <3>1, t \in Thread, Shapes, BegunMoves
      <3> QED  BY <3>1, <3>2 DEF OpFields
    <2>3. Moves(t) /\ op'[t].pc \in {"idle", "list"}
      BY <1>3, <1>l, <1>u, <2>1, <2>2 DEF List, Snapshot
    <2> QED  BY ONLY <1>3, <1>l, <2>3, Untouched, Shapes DEF List, Snapshot, Asks, Rest
  <1>4. ASSUME NEW e, SwapRoot(t, e) PROVE Asks(t)
    <2>1. PICK call : call = [Idle EXCEPT !.pc = "lock", !.kind = "swap", !.expected = e, !.was = acked]
      OBVIOUS
    <2>2. ASSUME op' = Begun(t, call, {}) PROVE Moves(t) /\ op'[t].pc = "lock"
      <3>1. DOMAIN call = OpFields /\ call.pc = "lock"  BY <2>1, IdleFields DEF OpFields
      <3>2. Moves(t) /\ op'[t] = [call EXCEPT !.raced = {} # {}]  BY ONLY <2>2, <3>1, t \in Thread, Shapes, BegunMoves
      <3> QED  BY <3>1, <3>2 DEF OpFields
    <2>3. Moves(t) /\ op'[t].pc \in {"idle", "lock"}
      BY <1>4, <1>l, <1>u, <2>1, <2>2 DEF SwapRoot, Snapshot
    <2> QED  BY ONLY <1>4, <1>l, <2>3, Untouched, Shapes DEF SwapRoot, Snapshot, Asks, Rest
  <1>5. PICK e : SwapRoot(t, e) \/ (\E n \in Name : Put(t, n) \/ Delete(t, n)) \/ \E after \in {0} \cup Name : List(t, after)
    BY DEF AskStep
  <1> QED  BY <1>1, <1>2, <1>3, <1>4, <1>5

----------------------------------------------------------------------------
(* Handles.                                                                *)

\* A step of a call that is under way keeps what is known of handles.
LEMMA StaysHandles ==
  ASSUME Shapes, HandlesInv, NEW t \in Thread, Moves(t), SameHandles,
         UNCHANGED <<created, at, map, mapLock, panicked>>,
         op[t].pc \notin {"idle"} \cup AddPc, op'[t].pc \notin AddPc,
         op[t].pc = "find" => op'[t].pc \in {"idle", "find"}
  PROVE  HandlesInv'
  <1> USE DEF AddPc
  <1>1. \A u \in Thread \ {t} : op'[u].pc = op[u].pc  BY DEF Moves, Same
  <1>2. \A h \in Handle : Busy(h)' => Busy(h)
    BY <1>1 DEF Busy
  <1>3. \A h \in Handle : HandleOK(h)'
    BY <1>2 DEF HandlesInv, HandleOK, SameHandles, Vols
  <1>4. \A u \in Thread : Adding(u)' = Adding(u)
    BY <1>1 DEF Adding
  <1>5. LockOK'
    BY <1>4, VolumesAssumption DEF HandlesInv, LockOK, SameHandles
  <1> QED  BY <1>3, <1>5 DEF HandlesInv, Vols

\* What verifying a handle's volumes does to it.
LEMMA VerifiedHandle ==
  ASSUME Shapes, HandlesInv, NEW h \in Handle, NEW vols, vols \subseteq Range(handle[h].vols), 
         NEW store, store = Verified(handle[h], vols)
  PROVE  /\ DOMAIN store = HandleFields /\ store.open = handle[h].open /\ store.vols = handle[h].vols
         /\ Busy(h) => store.lost = {}
         /\ ~Refused(store) /\ vols = Range(handle[h].vols) => store.lost = {} /\ \A v \in Range(handle[h].vols) : at[v] = "own"
  <1>1. PICK lost : lost = {v \in vols : at[v] # "own"}  BY Zenon
  <1>2. PICK all, no : all = handle[h].lost \cup lost /\ no = (handle[h].readOnly \/ lost # {})  BY Zenon
  <1>3. store = [handle[h] EXCEPT !.lost = all, !.readOnly = no]  BY <1>1, <1>2 DEF Verified
  <1>4. DOMAIN handle[h] = HandleFields  BY DEF Shapes
  <1>5. /\ DOMAIN store = HandleFields /\ store.open = handle[h].open /\ store.vols = handle[h].vols
        /\ store.lost = all
    BY <1>3, <1>4 DEF HandleFields
  <1>6. ASSUME Busy(h) PROVE store.lost = {}
    <2>1. handle[h].lost = {} /\ \A v \in Range(handle[h].vols) : at[v] = "own"
      BY <1>6 DEF HandlesInv, HandleOK
    <2> QED  BY <2>1, <1>1, <1>2, <1>5
  <1>7. ASSUME ~Refused(store), vols = Range(handle[h].vols)
        PROVE  store.lost = {} /\ \A v \in Range(handle[h].vols) : at[v] = "own"
    BY <1>1, <1>2, <1>5, <1>7 DEF Refused
  <1> QED  BY <1>5, <1>6, <1>7

\* A call that verifies the volumes and is not refused finds them all there.
LEMMA AsksHandles ==
  ASSUME Shapes, HandlesInv, NEW t \in Thread, Asks(t)
  PROVE  Shapes' /\ HandlesInv'
  <1> USE DEF AddPc
  <1>h. HandleOf[t] \in Handle  BY VolumesAssumption
  <1>0. PICK store : store = Verified(H(t), Range(H(t).vols))  OBVIOUS
  <1>1. /\ DOMAIN store = HandleFields /\ store.open = H(t).open /\ store.vols = H(t).vols
        /\ Busy(HandleOf[t]) => store.lost = {}
        /\ ~Refused(store) => store.lost = {} /\ \A v \in Range(H(t).vols) : at[v] = "own"
    BY <1>0, <1>h, VerifiedHandle DEF H
  <1>2. handle' = [handle EXCEPT ![HandleOf[t]] = store]  BY <1>0 DEF Asks
  <1>3. Shapes'  BY <1>1, <1>2, <1>h DEF Shapes, Asks, Moves, SameRoots, SameLeft
  <1>4. \A u \in Thread \ {t} : op'[u].pc = op[u].pc  BY DEF Asks, Moves, Same
  <1>5. Refused(store) => op' = op  BY <1>0 DEF Asks
  <1>6. \A h \in Handle \ {HandleOf[t]} : HandleOK(h)'
    <2>1. \A h \in Handle \ {HandleOf[t]} : Busy(h)' => Busy(h)  BY <1>4 DEF Busy
    <2>2. \A h \in Handle \ {HandleOf[t]} : handle'[h] = handle[h]  BY <1>2 DEF Shapes
    <2>3. UNCHANGED <<at, created>>  BY DEF Asks
    <2>4. \A h \in Handle : HandleOK(h)  BY DEF HandlesInv
    <2> QED  BY ONLY <2>1, <2>2, <2>3, <2>4 DEF HandleOK, Vols
  <1>7. HandleOK(HandleOf[t])'
    <2>1. handle'[HandleOf[t]] = store  BY <1>2, <1>h DEF Shapes
    <2>2. HandleOK(HandleOf[t]) /\ H(t).open  BY <1>h DEF HandlesInv, Asks
    <2>3. CASE Refused(store)
      <3>1. Busy(HandleOf[t])' = Busy(HandleOf[t])  BY <1>5, <2>3 DEF Busy
      <3> QED  BY Zenon, <3>1, <2>1, <2>2, <1>1 DEF HandleOK, Vols, Asks, H
    <2>4. CASE ~Refused(store)
      BY Zenon, <2>4, <2>1, <2>2, <1>1 DEF HandleOK, Vols, Asks, H
    <2> QED  BY <2>3, <2>4
  <1>8. \A u \in Thread : Adding(u)' = Adding(u)
    <2>1. ~Adding(t) /\ ~Adding(t)'  BY DEF Asks, Adding
    <2>2. \A u \in Thread \ {t} : Adding(u)' = Adding(u)  BY ONLY <1>4 DEF Adding
    <2> QED  BY <2>1, <2>2 DEF Adding
  <1>9. \A h \in Handle : handle'[h].vols = handle[h].vols
    BY <1>1, <1>2, <1>h DEF Shapes, H
  <1>10. LockOK'  BY <1>8, <1>9, VolumesAssumption DEF HandlesInv, LockOK, Asks
  <1> QED  BY <1>3, <1>6, <1>7, <1>10 DEF HandlesInv, Vols, Asks

\* The first of a handle's volumes is the primary.
LEMMA VolsFirst ==
  ASSUME NEW s, Vols(s)
  PROVE  Primary \in Range(s) /\ Range(s) \subseteq Volume
  BY DEF Vols, Range

\* A call that only verifies volumes gives none up while another is busy.
LEMMA VerifiesHandles ==
  ASSUME Shapes, HandlesInv, NEW t \in Thread, Moves(t), SameRoots, SameLeft,
         op[t].pc = "idle", op'[t].pc \in {"idle", "find"},
         NEW vols, vols \subseteq Range(H(t).vols),
         handle' = [handle EXCEPT ![HandleOf[t]] = Verified(H(t), vols)],
         UNCHANGED <<created, at, map, mapLock, panicked>>
  PROVE  Shapes' /\ HandlesInv'
  <1>h. HandleOf[t] \in Handle  BY VolumesAssumption
  <1>0. PICK store : store = Verified(H(t), vols)  OBVIOUS
  <1>1. /\ DOMAIN store = HandleFields /\ store.open = H(t).open /\ store.vols = H(t).vols
        /\ Busy(HandleOf[t]) => store.lost = {}
    <2>1. PICK h : h = HandleOf[t]  OBVIOUS
    <2>2. h \in Handle /\ vols \subseteq Range(handle[h].vols) /\ store = Verified(handle[h], vols)
      BY <2>1, <1>0, <1>h DEF H
    <2>3. /\ DOMAIN store = HandleFields /\ store.open = handle[h].open /\ store.vols = handle[h].vols
          /\ Busy(h) => store.lost = {}
      BY ONLY <2>2, Shapes, HandlesInv, VerifiedHandle
    <2> QED  BY ONLY <2>1, <2>3 DEF H
  <1>2. handle' = [handle EXCEPT ![HandleOf[t]] = store]  BY <1>0
  <1>3. Shapes'  BY <1>1, <1>2, <1>h DEF Shapes, Moves, SameRoots, SameLeft
  <1>4. \A u \in Thread \ {t} : op'[u].pc = op[u].pc  BY DEF Moves, Same
  <1>5. \A h \in Handle : Busy(h)' => Busy(h)  BY <1>4 DEF Busy
  <1>6. \A h \in Handle : /\ handle'[h].open = handle[h].open /\ handle'[h].vols = handle[h].vols
                          /\ Busy(h) => handle'[h].lost = {}
    BY <1>1, <1>2, <1>h DEF Shapes, H, HandlesInv, HandleOK
  <1>7. \A h \in Handle : HandleOK(h)'  BY <1>5, <1>6 DEF HandlesInv, HandleOK, Vols
  <1>8. \A u \in Thread : Adding(u)' = Adding(u)  BY <1>4 DEF Adding
  <1>9. LockOK'  BY <1>6, <1>8, VolumesAssumption DEF HandlesInv, LockOK
  <1> QED  BY <1>3, <1>7, <1>9 DEF HandlesInv, Vols

\* Get and Stat verify, and then ask the volumes that are left.
LEMMA FindHandles ==
  ASSUME Shapes, HandlesInv, NEW t \in Thread, NEW n, Find(t, n)
  PROVE  Shapes' /\ HandlesInv' /\ Moves(t) /\ op'[t].pc = "find" /\ op'[t].kind = "find" /\ SameLeft
  <1>1. PICK todo, call : op' = Begun(t, call, {}) /\
          call = [Idle EXCEPT !.pc = "find", !.kind = "find", !.name = n, !.was = acked \cap {n},
                              !.missing = Verified(H(t), Range(H(t).vols)).lost # {}, !.todo = todo]
    BY Zenon DEF Find
  <1>2. DOMAIN call = OpFields /\ call.pc = "find" /\ call.kind = "find"
    BY <1>1, IdleFields DEF OpFields
  <1>r. PICK races : races = {}  BY Zenon
  <1>b. DOMAIN call = OpFields /\ op' = Begun(t, call, races)  BY <1>1, <1>2, <1>r
  <1>3. Moves(t) /\ op'[t] = [call EXCEPT !.raced = races # {}]
    BY <1>b, BegunMoves
  <1>4. op'[t].pc = "find" /\ op'[t].kind = "find"  BY <1>2, <1>3 DEF OpFields
  <1>5. SameLeft /\ op[t].pc = "idle"  BY DEF Find, Call, SameLeft, Shapes, LeftFields
  <1>6. SameRoots  BY Untouched DEF Find
  <1>7. PICK vols : vols = Range(H(t).vols)  OBVIOUS
  <1>8. handle' = [handle EXCEPT ![HandleOf[t]] = Verified(H(t), vols)]  BY <1>7 DEF Find
  <1>9. UNCHANGED <<created, at, map, mapLock, panicked>>  BY DEF Find, Rest
  <1> QED  BY ONLY Zenon, <1>3, <1>4, <1>5, <1>6, <1>7, <1>8, <1>9, VerifiesHandles, Shapes, HandlesInv, t \in Thread

\* Root verifies the primary.
LEMMA RootHandles ==
  ASSUME Shapes, HandlesInv, NEW t \in Thread, Root(t)
  PROVE  Shapes' /\ HandlesInv'
  <1>h. HandleOf[t] \in Handle  BY VolumesAssumption
  <1>1. Vols(H(t).vols)  BY <1>h DEF Root, HandlesInv, HandleOK, H
  <1>2. {Primary} \subseteq Range(H(t).vols)  BY <1>1, VolsFirst
  <1>3. handle' = [handle EXCEPT ![HandleOf[t]] = Verified(H(t), {Primary})]  BY DEF Root, H
  <1>4. Moves(t)  BY DEF Root, Moves, Same, Shapes
  <1>5. SameLeft /\ SameRoots  BY Untouched DEF Root
  <1>6. op[t].pc = "idle" /\ op'[t].pc = "idle" /\ UNCHANGED <<created, at, map, mapLock, panicked>>
    BY DEF Root, Rest
  <1>7. PICK vols : vols = {Primary}  BY Zenon
  <1> QED
    BY ONLY Zenon, <1>2, <1>3, <1>4, <1>5, <1>6, <1>7, VerifiesHandles, Shapes, HandlesInv, t \in Thread

\* AddVolume verifies; the volume it adds is there.
LEMMA AddHandles ==
  ASSUME Shapes, HandlesInv, NEW t \in Thread, NEW v \in Volume, AddVolume(t, v)
  PROVE  /\ Shapes' /\ HandlesInv' /\ Moves(t) /\ SameLeft
         /\ \/ /\ UNCHANGED <<created, disk, mapLock, op>>
               /\ handle'[HandleOf[t]].vols = H(t).vols /\ handle'[HandleOf[t]].open = H(t).open
            \/ /\ v \notin created /\ created' = created \cup {v} /\ disk' = [disk EXCEPT ![v] = NewDisk]
               /\ mapLock' = t /\ op'[t].pc = "map" /\ op'[t].kind = "add"
               /\ handle'[HandleOf[t]].vols = Append(H(t).vols, v)
         /\ \A h \in Handle \ {HandleOf[t]} : handle'[h] = handle[h]
         /\ handle'[HandleOf[t]].open
  <1>h. HandleOf[t] \in Handle  BY VolumesAssumption
  <1>l. SameLeft /\ op[t].pc = "idle"  BY DEF AddVolume, Call, SameLeft, Shapes, LeftFields
  <1>v. PICK vols : vols = Range(H(t).vols)  OBVIOUS
  <1>s. PICK store : store = Verified(H(t), vols)  OBVIOUS
  <1>1. /\ DOMAIN store = HandleFields /\ store.open = H(t).open /\ store.vols = H(t).vols
        /\ Busy(HandleOf[t]) => store.lost = {}
        /\ ~Refused(store) => store.lost = {} /\ \A w \in Range(H(t).vols) : at[w] = "own"
    <2>1. PICK h : h = HandleOf[t]  OBVIOUS
    <2>2. h \in Handle /\ vols = Range(handle[h].vols) /\ store = Verified(handle[h], vols)
      BY <2>1, <1>h, <1>v, <1>s DEF H
    <2>3. /\ DOMAIN store = HandleFields /\ store.open = handle[h].open /\ store.vols = handle[h].vols
          /\ Busy(h) => store.lost = {}
          /\ ~Refused(store) => store.lost = {} /\ \A w \in Range(handle[h].vols) : at[w] = "own"
      BY <2>2, VerifiedHandle
    <2> QED  BY <2>1, <2>3 DEF H
  <1>u. UNCHANGED <<at, full, map, rootLock, panicked>> /\ H(t).open /\ mapLock = Nobody  BY DEF AddVolume
  <1>2. CASE ~Adds(store, v)
    <2>1. handle' = [handle EXCEPT ![HandleOf[t]] = store] /\ UNCHANGED <<created, disk, mapLock, op>>
      BY <1>v, <1>s, <1>2 DEF AddVolume
    <2>2. Moves(t) /\ SameRoots  BY <2>1, Untouched DEF Moves, Same, Shapes
    <2>3. Shapes' /\ HandlesInv'
      BY ONLY Zenon, <2>1, <2>2, <1>l, <1>v, <1>s, <1>u, VerifiesHandles, Shapes, HandlesInv, t \in Thread
    <2> QED  BY Zenon, <2>1, <2>2, <2>3, <1>l, <1>1, <1>h, <1>u DEF Shapes
  <1>3. CASE Adds(store, v)
    <2>1. PICK call : call = [Idle EXCEPT !.pc = "map", !.kind = "add", !.vol = v]  OBVIOUS
    <2>2. DOMAIN call = OpFields /\ call.pc = "map" /\ call.kind = "add"  BY <2>1, IdleFields DEF OpFields
    <2>3. op' = Begun(t, call, {})  BY <2>1, <1>v, <1>s, <1>3 DEF AddVolume
    <2>4. Moves(t) /\ op'[t] = [call EXCEPT !.raced = {} # {}]
      BY ONLY <2>2, <2>3, t \in Thread, Shapes, BegunMoves
    <2>5. op'[t].pc = "map" /\ op'[t].kind = "add"  BY <2>2, <2>4 DEF OpFields
    <2>6. /\ created' = created \cup {v} /\ disk' = [disk EXCEPT ![v] = NewDisk] /\ mapLock' = t
          /\ handle' = [handle EXCEPT ![HandleOf[t]] = [store EXCEPT !.vols = Append(@, v)]]
      BY <1>v, <1>s, <1>3 DEF AddVolume
    <2>7. v \notin created /\ ~Refused(store)  BY <1>3 DEF Adds
    <2>8. PICK new : new = [store EXCEPT !.vols = Append(@, v)]  BY Zenon
    <2>9. /\ DOMAIN new = HandleFields /\ new.open /\ new.vols = Append(H(t).vols, v) /\ new.lost = {}
      BY Zenon, <2>8, <1>1, <1>u, <2>7 DEF HandleFields
    <2>10. handle' = [handle EXCEPT ![HandleOf[t]] = new]  BY <2>6, <2>8
    <2>11. handle'[HandleOf[t]] = new /\ \A h \in Handle \ {HandleOf[t]} : handle'[h] = handle[h]
      BY <2>10, <1>h DEF Shapes
    <2>12. Shapes'
      BY Zenon, <2>4, <2>6, <2>9, <2>10, <1>l, <1>h, <1>u DEF Shapes, Moves, SameLeft, NewDisk, NoDisk, DiskFields
    <2>13. Vols(H(t).vols)  BY <1>h, <1>u DEF HandlesInv, HandleOK, H
    <2>14. Vols(new.vols) /\ Len(new.vols) > 1 /\ Range(new.vols) = Range(H(t).vols) \cup {v}
      BY <2>13, <2>9 DEF Vols, Range
    <2>15. at[v] = "own"  BY <2>7 DEF HandlesInv
    <2>16. \A w \in Range(new.vols) : at[w] = "own"  BY <2>14, <2>15, <2>7, <1>1
    <2>17. \A u \in Thread \ {t} : op'[u].pc = op[u].pc  BY <2>4 DEF Moves, Same
    <2>18. \A h \in Handle \ {HandleOf[t]} : HandleOK(h)'
      <3>1. \A h \in Handle \ {HandleOf[t]} : Busy(h)' => Busy(h)  BY <2>17 DEF Busy
      <3> QED  BY <3>1, <2>11, <1>u DEF HandlesInv, HandleOK, Vols
    <2>19. HandleOK(HandleOf[t])'
      BY Zenon, <2>9, <2>11, <2>14, <2>16, <1>u DEF HandleOK, Vols
    <2>20. LockOK'
      <3>1. \A u \in Thread \ {t} : ~Adding(u)'
        BY <2>17, <1>u, VolumesAssumption DEF HandlesInv, LockOK, Adding
      <3> QED  BY Zenon, <3>1, <2>5, <2>6, <2>11, <2>14 DEF LockOK, Adding
    <2>21. HandlesInv'
      BY <2>6, <2>18, <2>19, <2>20, <1>u DEF HandlesInv, Vols
    <2> QED  BY Zenon, <2>4, <2>5, <2>6, <2>7, <2>9, <2>11, <2>12, <2>21, <1>l
  <1> QED  BY <1>2, <1>3

\* A volume that is being added is written into the map.
LEMMA AddMapHandles ==
  ASSUME Shapes, HandlesInv, NEW t \in Thread, AddMap(t)
  PROVE  Shapes' /\ HandlesInv' /\ Moves(t) /\ op'[t] = [op[t] EXCEPT !.pc = "mapsync"]
  <1>h. HandleOf[t] \in Handle  BY VolumesAssumption
  <1>1. op[t].pc = "map" /\ op' = [op EXCEPT ![t] = [op[t] EXCEPT !.pc = "mapsync"]] /\ map' = [map EXCEPT !.vols = H(t).vols]
    BY DEF AddMap, Step
  <1>2. DOMAIN op[t] = OpFields  BY DEF Shapes
  <1>3. op'[t] = [op[t] EXCEPT !.pc = "mapsync"] /\ op'[t].pc = "mapsync" /\ DOMAIN op'[t] = OpFields
    BY <1>1, <1>2 DEF Shapes, OpFields
  <1>4. Moves(t)  BY Zenon, <1>1, <1>3, StepMoves
  <1>5. Shapes'  BY <1>1, <1>4 DEF Shapes, Moves, AddMap
  <1>6. \A u \in Thread \ {t} : op'[u].pc = op[u].pc  BY <1>4 DEF Moves, Same
  <1>7. Busy(HandleOf[t])  BY <1>1 DEF Busy
  <1>8. Vols(H(t).vols)  BY <1>h, <1>7 DEF HandlesInv, HandleOK, H
  <1>9. \A h \in Handle : Busy(h)' => Busy(h)  BY <1>1, <1>6 DEF Busy
  <1>10. \A h \in Handle : HandleOK(h)'  BY <1>9 DEF HandlesInv, HandleOK, Vols, AddMap
  <1>11. \A u \in Thread : Adding(u)' = Adding(u)  BY <1>1, <1>3, <1>6 DEF Adding
  <1>12. LockOK'  BY <1>11, VolumesAssumption DEF HandlesInv, LockOK, AddMap
  <1>13. map'.vols = H(t).vols /\ map'.kept = map.kept  BY <1>1 DEF Shapes
  <1> QED  BY <1>3, <1>4, <1>5, <1>8, <1>10, <1>12, <1>13 DEF HandlesInv, Vols, AddMap

\* The map is durable: AddVolume returns.
LEMMA AddSyncHandles ==
  ASSUME Shapes, HandlesInv, NEW t \in Thread, AddSync(t)
  PROVE  Shapes' /\ HandlesInv' /\ Moves(t) /\ op'[t] = Idle
  <1>1. op[t].pc = "mapsync" /\ op' = [op EXCEPT ![t] = Idle] /\ map' = [map EXCEPT !.kept = map.vols] /\ mapLock' = Nobody
    BY DEF AddSync, Return
  <1>2. op'[t] = Idle /\ DOMAIN op'[t] = OpFields /\ op'[t].pc = "idle"
    BY <1>1, IdleFields DEF Shapes
  <1>3. Moves(t)  BY Zenon, <1>1, <1>2, StepMoves
  <1>4. Shapes'  BY <1>1, <1>3 DEF Shapes, Moves, AddSync
  <1>5. \A u \in Thread \ {t} : op'[u].pc = op[u].pc  BY <1>3 DEF Moves, Same
  <1>6. \A h \in Handle : Busy(h)' => Busy(h)  BY <1>2, <1>5 DEF Busy
  <1>7. \A h \in Handle : HandleOK(h)'  BY <1>6 DEF HandlesInv, HandleOK, Vols, AddSync
  <1>8. \A u \in Thread : ~Adding(u)'
    BY <1>1, <1>2, <1>5 DEF HandlesInv, LockOK, Adding
  <1>9. LockOK'  BY <1>1, <1>8 DEF LockOK
  <1>10. map'.vols = map.vols /\ map'.kept = map.vols  BY <1>1 DEF Shapes
  <1> QED  BY <1>2, <1>3, <1>4, <1>7, <1>9, <1>10 DEF HandlesInv, Vols, AddSync

\* A call that fails drops its locks and the volume it was adding; it never
\* meets a volume another has given up.
LEMMA ErrsHandles ==
  ASSUME Shapes, HandlesInv, NEW t \in Thread, Errs(t)
  PROVE  /\ Shapes' /\ HandlesInv' /\ Moves(t) /\ op'[t] = Idle /\ SameLeft
         /\ \A h \in Handle : handle'[h].open = handle[h].open /\ handle'[h].lost = handle[h].lost
         /\ \A h \in Handle : ~(mapLock = t /\ h = HandleOf[t]) => handle'[h].vols = handle[h].vols
         /\ mapLock = t => handle'[HandleOf[t]].vols = Before(t)
  <1>h. HandleOf[t] \in Handle  BY VolumesAssumption
  <1>1. op' = [op EXCEPT ![t] = Idle]  BY DEF Errs, Return
  <1>2. op'[t] = Idle /\ DOMAIN op'[t] = OpFields /\ op'[t].pc = "idle"
    BY <1>1, IdleFields DEF Shapes
  <1>3. Moves(t)  BY Zenon, <1>1, <1>2, StepMoves
  <1>4. SameLeft  BY DEF Errs, SameLeft, Shapes, LeftFields
  <1>5. handle' = IF mapLock = t THEN [handle EXCEPT ![HandleOf[t]] = [handle[HandleOf[t]] EXCEPT !.vols = Before(t)]] ELSE handle
    BY DEF Errs, Before
  <1>6. DOMAIN handle[HandleOf[t]] = HandleFields  BY <1>h DEF Shapes
  <1>7. PICK new : new = [handle[HandleOf[t]] EXCEPT !.vols = Before(t)]  BY Zenon
  <1>8. DOMAIN new = HandleFields /\ new.vols = Before(t) /\ new.open = handle[HandleOf[t]].open /\ new.lost = handle[HandleOf[t]].lost
    BY <1>6, <1>7 DEF HandleFields
  <1>9. /\ \A h \in Handle : handle'[h].open = handle[h].open /\ handle'[h].lost = handle[h].lost /\ DOMAIN handle'[h] = HandleFields
        /\ \A h \in Handle : ~(mapLock = t /\ h = HandleOf[t]) => handle'[h] = handle[h]
        /\ mapLock = t => handle'[HandleOf[t]].vols = Before(t)
    BY <1>5, <1>7, <1>8, <1>h DEF Shapes
  <1>10. handle' = [h \in Handle |-> handle'[h]]  BY Zenon, <1>5, <1>7 DEF Shapes
  <1>11. Shapes'  BY Zenon, <1>3, <1>4, <1>9, <1>10 DEF Shapes, Moves, SameLeft, Errs
  <1>12. ~panicked'
    <2>1. ASSUME NEW v \in Uses(t), Nil(t, v) PROVE FALSE
      <3>1. op[t].pc \in {"stat", "delete", "list", "place", "lock"}  BY <2>1 DEF Uses
      <3>2. Busy(HandleOf[t])  BY <3>1 DEF Busy
      <3> QED  BY <3>2, <2>1, <1>h DEF HandlesInv, HandleOK, Nil, H
    <2> QED  BY Zenon, <2>1 DEF Errs, HandlesInv
  <1>13. \A u \in Thread \ {t} : op'[u].pc = op[u].pc  BY <1>3 DEF Moves, Same
  <1>14. \A h \in Handle : Busy(h)' => Busy(h)  BY <1>2, <1>13 DEF Busy
  <1>15. ASSUME mapLock = t PROVE Vols(Before(t)) /\ Range(Before(t)) \subseteq Range(H(t).vols)
    <2>1. Adding(t) /\ Len(H(t).vols) > 1  BY <1>15, VolumesAssumption DEF HandlesInv, LockOK, H
    <2>2. Busy(HandleOf[t])  BY <2>1 DEF Adding, Busy
    <2>3. Vols(H(t).vols)  BY <2>2, <1>h DEF HandlesInv, HandleOK, H
    <2>4. PICK s : s = H(t).vols  OBVIOUS
    <2>5. PICK b : b = SubSeq(s, 1, Len(s) - 1)  BY Zenon
    <2>6. Len(s) \in Nat /\ Len(s) > 1 /\ s \in Seq(Volume) /\ s[1] = Primary  BY <2>1, <2>3, <2>4 DEF Vols
    <2>7. b \in Seq(Volume) /\ Len(b) = Len(s) - 1 /\ \A i \in 1 .. Len(s) - 1 : b[i] = s[i]
      BY <2>5, <2>6
    <2>8. Vols(b) /\ Range(b) \subseteq Range(s)
      BY <2>6, <2>7 DEF Vols, Range
    <2> QED  BY <2>4, <2>5, <2>8 DEF Before, H
  <1>16. \A h \in Handle : HandleOK(h)'
    <2> TAKE h \in Handle
    <2>1. HandleOK(h)  BY DEF HandlesInv
    <2>2. CASE mapLock = t /\ h = HandleOf[t]
      <3>1. Vols(Before(t)) /\ Range(Before(t)) \subseteq Range(handle[h].vols)  BY <2>2, <1>15 DEF H
      <3>2. UNCHANGED <<at, created>>  BY DEF Errs
      <3> QED  BY <2>1, <2>2, <3>1, <3>2, <1>9, <1>14 DEF HandleOK, Vols
    <2>3. CASE ~(mapLock = t /\ h = HandleOf[t])
      BY <2>1, <2>3, <1>9, <1>14 DEF HandleOK, Vols, Errs
    <2> QED  BY <2>2, <2>3
  <1>17. LockOK'
    <2>1. ~Adding(t)'  BY <1>2 DEF Adding
    <2>2. \A u \in Thread \ {t} : Adding(u)' = Adding(u)  BY <1>13 DEF Adding
    <2>3. CASE mapLock = t
      <3>1. \A u \in Thread : ~Adding(u)'  BY <2>1, <2>2, <2>3 DEF HandlesInv, LockOK
      <3> QED  BY <3>1, <2>3 DEF LockOK, Errs
    <2>4. CASE mapLock # t
      BY <2>1, <2>2, <2>4, <1>9, VolumesAssumption DEF HandlesInv, LockOK, Errs
    <2> QED  BY <2>3, <2>4
  <1>18. HandlesInv'  BY <1>12, <1>16, <1>17 DEF HandlesInv, Vols, Errs
  <1> QED  BY <1>2, <1>3, <1>4, <1>9, <1>11, <1>18

\* A store is opened on the volumes of the map; no call of it is under way.
LEMMA OpenHandles ==
  ASSUME Shapes, HandlesInv, NEW h \in Handle, Open(h)
  PROVE  /\ Shapes' /\ HandlesInv' /\ handle'[h].vols = map.vols /\ handle'[h].open
         /\ \A k \in Handle \ {h} : handle'[k] = handle[k]
  <1>1. PICK lost, no : handle' = [handle EXCEPT ![h] = [open |-> TRUE, vols |-> map.vols, lost |-> lost, readOnly |-> no, known |-> {}]]
    BY Zenon DEF Open
  <1>2. PICK new : new = [open |-> TRUE, vols |-> map.vols, lost |-> lost, readOnly |-> no, known |-> {}]  BY Zenon
  <1>3. DOMAIN new = HandleFields /\ new.open /\ new.vols = map.vols  BY <1>2 DEF HandleFields
  <1>4. handle'[h] = new /\ \A k \in Handle \ {h} : handle'[k] = handle[k]
    BY <1>1, <1>2 DEF Shapes
  <1>5. Shapes'  BY Zenon, <1>1, <1>2, <1>3 DEF Shapes, Open, Rest
  <1>6. ~Busy(h)  BY DEF Open, HandlesInv, HandleOK
  <1>7. \A k \in Handle : Busy(k)' = Busy(k)  BY Zenon DEF Busy, Open
  <1>8. \A k \in Handle : HandleOK(k)'
    <2>1. UNCHANGED <<at, created>>  BY DEF Open, Rest
    <2>2. \A k \in Handle : HandleOK(k)  BY DEF HandlesInv
    <2>3. \A k \in Handle \ {h} : HandleOK(k)'
      BY ONLY <1>4, <1>7, <2>1, <2>2 DEF HandleOK, Vols
    <2>4. Vols(map.vols)  BY DEF HandlesInv
    <2>5. HandleOK(h)'  BY <1>3, <1>4, <1>6, <1>7, <2>1, <2>4 DEF HandleOK, Vols
    <2> QED  BY <2>3, <2>5
  <1>9. LockOK'
    <2>1. \A u \in Thread : Adding(u)' = Adding(u)  BY DEF Adding, Open
    <2>2. \A u \in Thread : Adding(u) => HandleOf[u] # h
      BY <1>6 DEF Busy, Adding
    <2> QED  BY Zenon, <2>1, <2>2, <1>4, VolumesAssumption DEF HandlesInv, LockOK, Open, Rest
  <1> QED  BY <1>3, <1>4, <1>5, <1>8, <1>9 DEF HandlesInv, Vols, Open, Rest

\* The free space of a volume changes, or nothing does.
LEMMA FillHandles ==
  ASSUME Shapes, HandlesInv, (\E v \in Volume : Fill(v)) \/ UNCHANGED volumeVars
  PROVE  Shapes' /\ HandlesInv' /\ SameLeft
  <1>1. SameLeft  BY DEF Fill, volumeVars, Shapes, LeftFields, SameLeft
  <1>2. UNCHANGED <<disk, created, at, map, handle, rootLock, mapLock, op, panicked>>  BY DEF Fill, volumeVars
  <1>3. Shapes'  BY <1>1, <1>2 DEF Shapes, SameLeft
  <1>4. HandlesInv'
    BY <1>2 DEF HandlesInv, HandleOK, LockOK, Vols, Busy, Adding
  <1> QED  BY <1>1, <1>3, <1>4

\* A volume goes missing or comes back while no call is under way.
LEMMA RemountHandles ==
  ASSUME UnmountsIdle, Shapes, HandlesInv, NEW v \in Volume, NEW what, Remount(v, what)
  PROVE  Shapes' /\ HandlesInv' /\ SameLeft
  <1>1. SameLeft  BY DEF Remount, Shapes, LeftFields, SameLeft
  <1>2. UNCHANGED <<disk, created, map, handle, rootLock, mapLock, op, panicked>> /\ at' = [at EXCEPT ![v] = what]
    BY DEF Remount
  <1>3. Shapes'  BY Zenon, <1>1, <1>2 DEF Shapes, SameLeft
  <1>4. \A t \in Thread : op[t].pc = "idle"  BY DEF Remount
  <1>5. \A h \in Handle : ~Busy(h)'  BY <1>2, <1>4 DEF Busy
  <1>6. \A h \in Handle : HandleOK(h)'  BY <1>2, <1>5 DEF HandlesInv, HandleOK, Vols
  <1>7. \A w \in Volume : w \notin created => at'[w] = "own"
    BY <1>2 DEF Remount, HandlesInv, Shapes
  <1> QED  BY <1>1, <1>2, <1>3, <1>6, <1>7 DEF HandlesInv, LockOK, Adding, Vols

\* What a crash leaves of one disk.
LEMMA CrashedDisk ==
  ASSUME NEW d, NEW c \in Crashed(d)
  PROVE  /\ DOMAIN c = DiskFields /\ c.root \in {d.root, d.keptRoot} /\ c.keptRoot = c.root
         /\ c.files \subseteq d.files \cup d.keptFiles /\ c.keptFiles = c.files
  <1>0. PICK D : c \in {[dirs |-> D, keptDirs |-> D, files |-> F, keptFiles |-> F, root |-> r, keptRoot |-> r] :
                        F \in {G \cap {n \in Name : DirOf[n] \in D} :
                                 G \in {E \in SUBSET (d.files \cup d.keptFiles) : (d.files \cap d.keptFiles) \subseteq E}},
                        r \in {d.root, d.keptRoot}}
    BY SMTT(20) DEF Crashed
  <1>1. PICK F, r : /\ c = [dirs |-> D, keptDirs |-> D, files |-> F, keptFiles |-> F, root |-> r, keptRoot |-> r]
                       /\ r \in {d.root, d.keptRoot}
                       /\ F \in {G \cap {n \in Name : DirOf[n] \in D} :
                                   G \in {E \in SUBSET (d.files \cup d.keptFiles) : (d.files \cap d.keptFiles) \subseteq E}}
    BY <1>0
  <1>2. F \subseteq d.files \cup d.keptFiles  BY <1>1
  <1>3. DOMAIN c = DiskFields  BY <1>1 DEF DiskFields
  <1> QED  BY <1>1, <1>2, <1>3

\* After a crash every handle is closed and no call is under way.
LEMMA CrashHandles ==
  ASSUME Shapes, HandlesInv, Crash
  PROVE  /\ Shapes' /\ HandlesInv' /\ SameLeft
         /\ \A h \in Handle : ~handle'[h].open
         /\ \A t \in Thread : op'[t] = Idle
         /\ \A v \in Volume : disk'[v] \in Crashed(disk[v])
  <1>1. SameLeft  BY DEF Crash, Shapes, LeftFields, SameLeft
  <1>2. op' = [t \in Thread |-> Idle] /\ handle' = [h \in Handle |-> Closed]  BY DEF Crash
  <1>3. disk' = [v \in Volume |-> disk'[v]] /\ \A v \in Volume : disk'[v] \in Crashed(disk[v])
    BY DEF Crash
  <1>4. \A v \in Volume : DOMAIN disk'[v] = DiskFields
    <2> TAKE v \in Volume
    <2>1. PICK d, c : d = disk[v] /\ c = disk'[v]  OBVIOUS
    <2> QED  BY <2>1, <1>3, CrashedDisk
  <1>5. PICK vols : vols \in {map.vols, map.kept} /\ map' = [vols |-> vols, kept |-> vols]
    BY Zenon DEF Crash
  <1>6. DOMAIN Closed = HandleFields /\ ~Closed.open  BY DEF Closed, HandleFields
  <1>7. Shapes'
    <2>1. /\ op' = [t \in Thread |-> op'[t]] /\ \A t \in Thread : DOMAIN op'[t] = OpFields
      BY <1>2, IdleFields
    <2>2. /\ handle' = [h \in Handle |-> handle'[h]] /\ \A h \in Handle : DOMAIN handle'[h] = HandleFields
      BY <1>2, <1>6
    <2> QED  BY <2>1, <2>2, <1>1, <1>3, <1>4, <1>5 DEF Shapes, SameLeft, Crash
  <1>8. Vols(map'.vols) /\ Vols(map'.kept)  BY <1>5 DEF HandlesInv
  <1>9. \A t \in Thread : op'[t].pc = "idle"  BY <1>2, IdleFields
  <1>10. \A h \in Handle : ~Busy(h)'  BY <1>9 DEF Busy
  <1>11. \A h \in Handle : HandleOK(h)'  BY <1>2, <1>6, <1>10 DEF HandleOK
  <1>12. LockOK'  BY <1>9 DEF LockOK, Adding, Crash
  <1> QED  BY <1>1, <1>2, <1>3, <1>6, <1>7, <1>8, <1>11, <1>12 DEF HandlesInv, Vols, Crash

SwapStep(t) == SwapLock(t) \/ SwapRename(t) \/ SwapSync(t)

\* The steps of a SwapRoot touch no handle.
LEMMA SwapHandles ==
  ASSUME Shapes, HandlesInv, NEW t \in Thread, SwapStep(t)
  PROVE  /\ Shapes' /\ HandlesInv' /\ Moves(t)
         /\ op'[t] = Idle \/ op'[t] = [op[t] EXCEPT !.pc = "rename"]
              \/ op'[t] = [op[t] EXCEPT !.pc = "rootsync", !.version = left.version + 1]
  <1> USE DEF AddPc
  <1>d. DOMAIN op[t] = OpFields  BY DEF Shapes
  <1>1. /\ op' = [op EXCEPT ![t] = op'[t]]
        /\ op'[t] = Idle \/ op'[t] = [op[t] EXCEPT !.pc = "rename"]
              \/ op'[t] = [op[t] EXCEPT !.pc = "rootsync", !.version = left.version + 1]
    BY DEF SwapStep, SwapLock, SwapRename, SwapSync, Step, Return, Shapes
  <1>2. DOMAIN op'[t] = OpFields /\ op'[t].pc \in {"idle", "rename", "rootsync"}
    BY Zenon, <1>1, <1>d, IdleFields DEF OpFields
  <1>3. Moves(t)  BY <1>1, <1>2, StepMoves
  <1>4. op[t].pc \in {"lock", "rename", "rootsync"} /\ UNCHANGED <<created, at, map, handle, mapLock, panicked>>
    BY DEF SwapStep, SwapLock, SwapRename, SwapSync, Rest
  <1>5. SameHandles  BY <1>4, Untouched
  <1>6. HandlesInv'
    BY ONLY <1>2, <1>3, <1>4, <1>5, StaysHandles, Shapes, HandlesInv, t \in Thread DEF AddPc
  <1>7. DOMAIN left' = LeftFields
    BY DEF SwapStep, SwapLock, SwapRename, SwapSync, Shapes
  <1>8. disk' = [v \in Volume |-> disk'[v]] /\ \A v \in Volume : DOMAIN disk'[v] = DiskFields
    BY DEF SwapStep, SwapLock, SwapRename, SwapSync, Shapes, On, Rename, SyncRoot
  <1>9. Shapes'  BY <1>3, <1>4, <1>7, <1>8 DEF Shapes, Moves
  <1> QED  BY <1>1, <1>3, <1>6, <1>9

ThreadStep(t) ==
  \/ AskStep(t) \/ WorkStep(t) \/ SwapStep(t) \/ Root(t) \/ AddMap(t) \/ AddSync(t) \/ Errs(t)
  \/ \E n \in Name : Find(t, n)
  \/ \E v \in Volume : AddVolume(t, v)

\* Every step is a thread's, or the environment's.
LEMMA Steps ==
  ASSUME [VolumesNext]_volumeVars
  PROVE  \/ \E t \in Thread : ThreadStep(t)
         \/ \E h \in Handle : Open(h)
         \/ (\E v \in Volume : Fill(v)) \/ UNCHANGED volumeVars
         \/ \E v \in Volume, what \in {"own", "none", "other"} : Remount(v, what)
         \/ Crash
  BY Zenon DEF VolumesNext, ThreadStep, AskStep, WorkStep, SwapStep

\* Handles keep their volumes while calls of theirs are under way.
LEMMA HandlesStep ==
  ASSUME UnmountsIdle, Shapes, HandlesInv, [VolumesNext]_volumeVars
  PROVE  Shapes' /\ HandlesInv'
  <1>1. ASSUME NEW t \in Thread, WorkStep(t) PROVE Shapes' /\ HandlesInv'
    <2>1. Works(t)  BY <1>1, WorkWorks
    <2>2. Shapes'  BY <2>1 DEF Works, Shapes, Moves, SameHandles, SameRoots, SameLeft
    <2>3. HandlesInv'  BY Zenon, <2>1, StaysHandles DEF Works
    <2> QED  BY <2>2, <2>3
  <1>2. ASSUME NEW t \in Thread, AskStep(t) PROVE Shapes' /\ HandlesInv'
    BY <1>2, AskAsks, AsksHandles
  <1>3. ASSUME NEW t \in Thread, ThreadStep(t) PROVE Shapes' /\ HandlesInv'
    BY Zenon, <1>1, <1>2, <1>3, SwapHandles, RootHandles, AddMapHandles, AddSyncHandles, ErrsHandles, FindHandles, AddHandles
    DEF ThreadStep
  <1> QED  BY <1>3, Steps, OpenHandles, FillHandles, RemountHandles, CrashHandles

\* The store as Create leaves it.
LEMMA HandlesInit ==
  ASSUME VolumesInit
  PROVE  Shapes /\ HandlesInv
  <1>1. DOMAIN NewDisk = DiskFields /\ DOMAIN NoDisk = DiskFields  BY DEF NewDisk, NoDisk, DiskFields
  <1>2. PICK opened : opened = [Closed EXCEPT !.open = TRUE, !.vols = First]  OBVIOUS
  <1>3. DOMAIN opened = HandleFields /\ opened.vols = First  BY <1>2 DEF Closed, HandleFields
  <1>4. handle = [h \in Handle |-> opened]  BY <1>2 DEF VolumesInit
  <1>5. Shapes
    <2>1. disk = [v \in Volume |-> disk[v]] /\ \A v \in Volume : DOMAIN disk[v] = DiskFields  BY <1>1 DEF VolumesInit
    <2>2. DOMAIN left = LeftFields  BY DEF VolumesInit, LeftFields
    <2> QED  BY Zenon, <2>1, <2>2, <1>3, <1>4, IdleFields DEF Shapes, VolumesInit
  <1>6. Vols(First)  BY VolumesAssumption DEF Vols, Primary
  <1>7. \A t \in Thread : op[t].pc = "idle"  BY IdleFields DEF VolumesInit
  <1>8. \A h \in Handle : HandleOK(h)  BY <1>3, <1>4, <1>6, <1>7 DEF HandleOK, Busy
  <1>9. LockOK  BY <1>7 DEF LockOK, Adding, VolumesInit
  <1>10. Primary \in Range(First) /\ Range(First) \subseteq Volume  BY <1>6, VolsFirst
  <1> QED  BY <1>5, <1>6, <1>8, <1>9, <1>10 DEF HandlesInv, VolumesInit

----------------------------------------------------------------------------
(* The root.                                                               *)

\* What one step may do to the root.
RootMove ==
  /\ disk'[Primary].root.version > disk[Primary].root.version => disk'[Primary].root.from = disk[Primary].root.version
  /\ swapped <= disk'[Primary].root.version

\* The primary is a volume.
LEMMA PrimaryVolume == Primary \in Volume
  BY VolumesAssumption DEF Primary

\* A step that neither renames nor syncs the root keeps what is known of it.
LEMMA RootStill ==
  ASSUME RootInv, SameLeft, UNCHANGED swapped, disk'[Primary].root = disk[Primary].root,
         disk'[Primary].keptRoot = disk[Primary].keptRoot, \A t \in Thread : SwapOK(t)'
  PROVE  RootInv' /\ RootMove
  <1>1. PICK n, k, s, m : /\ n = disk[Primary].root.version /\ k = disk[Primary].keptRoot.version
                          /\ s = swapped /\ m = left.version
    OBVIOUS
  <1>2. m \in Nat /\ n \in 0 .. m /\ k \in 0 .. n /\ s \in 0 .. k  BY <1>1 DEF RootInv
  <1>3. ~ n > n /\ s <= n  BY <1>2
  <1>4. /\ n = disk'[Primary].root.version /\ k = disk'[Primary].keptRoot.version
        /\ s = swapped' /\ m = left'.version
    BY <1>1 DEF SameLeft
  <1>5. RootInv'  BY <1>2, <1>4 DEF RootInv
  <1>6. RootMove  BY <1>1, <1>3 DEF RootMove
  <1> QED  BY <1>5, <1>6

\* So a step of a thread outside the swap keeps it.
LEMMA RootStays ==
  ASSUME Shapes, RootInv, NEW t \in Thread, Moves(t), SameRoots, SameLeft,
         UNCHANGED <<at, swapped>>, rootLock' = rootLock \/ rootLock = t,
         op'[t].pc \notin {"rename", "rootsync"}, op'[t].pc = "lock" => at[Primary] = "own"
  PROVE  RootInv' /\ RootMove
  <1>1. disk'[Primary].root = disk[Primary].root /\ disk'[Primary].keptRoot = disk[Primary].keptRoot
    BY PrimaryVolume DEF SameRoots
  <1>2. \A u \in Thread \ {t} : SwapOK(u)'
    <2>1. \A u \in Thread \ {t} : op'[u].pc = op[u].pc /\ op'[u].expected = op[u].expected /\ op'[u].version = op[u].version
      BY DEF Moves, Same
    <2>2. \A u \in Thread : SwapOK(u)  BY DEF RootInv
    <2>3. UNCHANGED at /\ (rootLock' = rootLock \/ rootLock = t)  OBVIOUS
    <2> QED  BY ONLY <1>1, <2>1, <2>2, <2>3 DEF SwapOK
  <1>3. SwapOK(t)'  BY DEF SwapOK
  <1>4. \A u \in Thread : SwapOK(u)'  BY <1>2, <1>3
  <1> QED  BY <1>1, <1>4, RootStill

\* SwapLock, SwapRename and SwapSync: the lock is held from the comparison to
\* the sync, so the root that is renamed over is the one compared with.
LEMMA SwapRoots ==
  ASSUME Shapes, HandlesInv, RootInv, NEW t \in Thread, SwapStep(t)
  PROVE  RootInv' /\ RootMove
  <1>p. Primary \in Volume  BY PrimaryVolume
  <1>m. Moves(t)  BY Zenon, SwapHandles
  <1>u. \A u \in Thread \ {t} : op'[u].pc = op[u].pc /\ op'[u].expected = op[u].expected /\ op'[u].version = op[u].version
    BY <1>m DEF Moves, Same
  <1>o. SwapOK(t)  BY DEF RootInv
  <1>d. DOMAIN op[t] = OpFields /\ DOMAIN disk[Primary] = DiskFields  BY <1>p DEF Shapes
  <1>1. CASE SwapLock(t)
    <2>1. rootLock = Nobody /\ UNCHANGED <<disk, at, swapped, left>>  BY <1>1 DEF SwapLock, RootFree
    <2>2. \A u \in Thread : op[u].pc \notin {"rename", "rootsync"}
      BY <2>1, VolumesAssumption DEF RootInv, SwapOK
    <2>3. \A u \in Thread \ {t} : SwapOK(u)'
      BY <1>u, <2>1, <2>2 DEF RootInv, SwapOK
    <2>4. SwapOK(t)'
      <3>1. CASE Return(t)
        <4>1. op'[t].pc = "idle"  BY <3>1, IdleFields DEF Return, Shapes
        <4> QED  BY <4>1 DEF SwapOK
      <3>2. CASE ~Return(t)
        <4>1. /\ disk[Primary].root.version = op[t].expected /\ rootLock' = t
              /\ op' = [op EXCEPT ![t] = [op[t] EXCEPT !.pc = "rename"]]
          BY <1>1, <3>2 DEF SwapLock, Step
        <4>2. op'[t].pc = "rename" /\ op'[t].expected = op[t].expected  BY <4>1, <1>d DEF Shapes, OpFields
        <4>3. at[Primary] = "own"  BY <1>1, <1>o DEF SwapLock, SwapOK
        <4> QED  BY <4>1, <4>2, <4>3, <2>1 DEF SwapOK
      <3> QED  BY <3>1, <3>2
    <2>5. \A u \in Thread : SwapOK(u)'  BY <2>3, <2>4
    <2>6. SameLeft /\ disk'[Primary].root = disk[Primary].root /\ disk'[Primary].keptRoot = disk[Primary].keptRoot
      BY <2>1, Untouched
    <2> QED  BY <2>1, <2>5, <2>6, RootStill
  <1>2. CASE SwapRename(t)
    <2>1. /\ at[Primary] = "own" /\ rootLock = t /\ op[t].expected = disk[Primary].root.version
      BY <1>2, <1>o DEF SwapRename, SwapOK
    <2>2. PICK n : n = left.version + 1  OBVIOUS
    <2>3. PICK root : root = [version |-> n, from |-> op[t].expected, names |-> op[t].was]  BY Zenon
    <2>4. disk' = [disk EXCEPT ![Primary] = [disk[Primary] EXCEPT !.root = root]]
      BY <1>2, <2>1, <2>2, <2>3 DEF SwapRename, On, Rename
    <2>5. disk'[Primary].root = root /\ disk'[Primary].keptRoot = disk[Primary].keptRoot
      BY <2>4, <1>p, <1>d DEF Shapes, DiskFields
    <2>6. op' = [op EXCEPT ![t] = [op[t] EXCEPT !.pc = "rootsync", !.version = n]]
      BY <1>2, <2>2 DEF SwapRename, Step
    <2>7. op'[t].pc = "rootsync" /\ op'[t].version = n  BY Zenon, <2>6, <1>d DEF Shapes, OpFields
    <2>8. left'.version = n  BY <1>2, <2>2 DEF SwapRename, Shapes, LeftFields
    <2>9. UNCHANGED <<at, rootLock, swapped>>  BY <1>2 DEF SwapRename, Rest
    <2>10. root.version = n /\ root.from = disk[Primary].root.version  BY <2>1, <2>3
    <2>11. \A u \in Thread \ {t} : op[u].pc \notin {"rename", "rootsync"}
      BY <2>1 DEF RootInv, SwapOK
    <2>12. \A u \in Thread \ {t} : SwapOK(u)'
      BY <1>u, <2>1, <2>9, <2>11 DEF SwapOK
    <2>13. SwapOK(t)'  BY <2>1, <2>5, <2>7, <2>9, <2>10 DEF SwapOK
    <2>14. left.version \in Nat /\ disk[Primary].root.version \in 0 .. left.version
           /\ disk[Primary].keptRoot.version \in 0 .. disk[Primary].root.version
           /\ swapped \in 0 .. disk[Primary].keptRoot.version
      BY DEF RootInv
    <2>15. left'.version \in Nat /\ disk'[Primary].root.version \in 0 .. left'.version
           /\ disk'[Primary].keptRoot.version \in 0 .. disk'[Primary].root.version
           /\ swapped' \in 0 .. disk'[Primary].keptRoot.version
      BY <2>2, <2>5, <2>8, <2>9, <2>10, <2>14
    <2>16. RootMove  BY <2>2, <2>5, <2>10, <2>14 DEF RootMove
    <2> QED  BY <2>12, <2>13, <2>15, <2>16 DEF RootInv
  <1>3. CASE SwapSync(t)
    <2>1. /\ at[Primary] = "own" /\ rootLock = t /\ op[t].version = disk[Primary].root.version
      BY <1>3, <1>o DEF SwapSync, SwapOK
    <2>2. disk' = [disk EXCEPT ![Primary] = [disk[Primary] EXCEPT !.keptRoot = disk[Primary].root]]
      BY <1>3, <2>1 DEF SwapSync, On, SyncRoot
    <2>3. disk'[Primary].root = disk[Primary].root /\ disk'[Primary].keptRoot = disk[Primary].root
      BY <2>2, <1>p, <1>d DEF Shapes, DiskFields
    <2>4. op'[t].pc = "idle"  BY <1>3, IdleFields DEF SwapSync, Return, Shapes
    <2>5. swapped' = disk[Primary].root.version /\ UNCHANGED <<at, left>>  BY <1>3, <2>1 DEF SwapSync
    <2>6. \A u \in Thread \ {t} : op[u].pc \notin {"rename", "rootsync"}
      BY <2>1 DEF RootInv, SwapOK
    <2>7. \A u \in Thread : SwapOK(u)'
      BY Zenon, <1>u, <2>1, <2>4, <2>5, <2>6 DEF SwapOK
    <2>8. PICK n, k, s, m : /\ n = disk[Primary].root.version /\ k = disk[Primary].keptRoot.version
                            /\ s = swapped /\ m = left.version
      OBVIOUS
    <2>9. m \in Nat /\ n \in 0 .. m /\ k \in 0 .. n /\ s \in 0 .. k  BY <2>8 DEF RootInv
    <2>10. n \in 0 .. n /\ ~ n > n /\ s <= n  BY <2>9
    <2>11. /\ disk'[Primary].root.version = n /\ disk'[Primary].keptRoot.version = n
           /\ swapped' = n /\ left'.version = m
      BY <2>3, <2>5, <2>8
    <2>12. RootInv'  BY <2>7, <2>9, <2>10, <2>11 DEF RootInv
    <2>13. RootMove  BY <2>8, <2>10, <2>11 DEF RootMove
    <2> QED  BY <2>12, <2>13
  <1> QED  BY <1>1, <1>2, <1>3 DEF SwapStep

\* Every step keeps the root's invariant and moves the root as RootChains
\* allows.
LEMMA RootStep ==
  ASSUME UnmountsIdle, Shapes, HandlesInv, RootInv, [VolumesNext]_volumeVars
  PROVE  RootInv' /\ RootMove
  <1>i. Shapes' /\ HandlesInv'  BY HandlesStep
  <1>1. ASSUME NEW t \in Thread, WorkStep(t) PROVE RootInv' /\ RootMove
    <2>1. Works(t)  BY <1>1, WorkWorks
    <2> QED  BY <2>1, RootStays DEF Works, SwapPc
  <1>2. ASSUME NEW t \in Thread, AskStep(t) PROVE RootInv' /\ RootMove
    <2>1. Asks(t)  BY <1>2, AskAsks
    <2>2. ASSUME op'[t].pc = "lock" PROVE at[Primary] = "own"
      <3>h. HandleOf[t] \in Handle  BY VolumesAssumption
      <3>1. Busy(HandleOf[t])'  BY <2>2 DEF Busy
      <3>2. HandleOK(HandleOf[t])'  BY Zenon, <1>i, <3>h DEF HandlesInv
      <3>3. Vols(handle'[HandleOf[t]].vols) /\ \A v \in Range(handle'[HandleOf[t]].vols) : at'[v] = "own"
        BY <3>1, <3>2 DEF HandleOK, Vols
      <3>4. PICK s : s = handle'[HandleOf[t]].vols  OBVIOUS
      <3>5. Primary \in Range(s)  BY <3>3, <3>4, VolsFirst
      <3> QED  BY <3>3, <3>4, <3>5, <2>1 DEF Asks
    <2> QED  BY <2>1, <2>2, RootStays DEF Asks
  <1>3. ASSUME NEW t \in Thread, Root(t) \/ AddMap(t) PROVE RootInv' /\ RootMove
    <2>1. UNCHANGED <<disk, at, swapped, left, rootLock>>  BY <1>3 DEF Root, AddMap, Rest
    <2>2. Moves(t) /\ op'[t].pc \in {"idle", "mapsync"}
      <3>1. CASE Root(t)  BY <3>1 DEF Root, Moves, Same, Shapes
      <3>2. CASE AddMap(t)
        <4>1. Moves(t) /\ op'[t] = [op[t] EXCEPT !.pc = "mapsync"]  BY <3>2, AddMapHandles
        <4> QED  BY <4>1 DEF Shapes, OpFields
      <3> QED  BY <1>3, <3>1, <3>2
    <2> QED  BY <2>1, <2>2, RootStays, Untouched
  <1>4. ASSUME NEW t \in Thread, AddSync(t) \/ Errs(t) PROVE RootInv' /\ RootMove
    <2>1. UNCHANGED <<disk, at, swapped>> /\ (rootLock' = rootLock \/ rootLock = t)  BY <1>4 DEF AddSync, Errs
    <2>2. Moves(t) /\ op'[t] = Idle  BY <1>4, AddSyncHandles, ErrsHandles
    <2>3. SameLeft  BY <1>4, ErrsHandles, Untouched DEF AddSync
    <2> QED  BY <2>1, <2>2, <2>3, RootStays, Untouched, IdleFields
  <1>5. ASSUME NEW t \in Thread, NEW n, Find(t, n) PROVE RootInv' /\ RootMove
    <2>1. Moves(t) /\ op'[t].pc = "find" /\ SameLeft  BY <1>5, FindHandles
    <2>2. UNCHANGED <<disk, at, swapped, rootLock>>  BY <1>5 DEF Find, Rest
    <2> QED  BY <2>1, <2>2, RootStays, Untouched
  <1>6. ASSUME NEW t \in Thread, NEW v \in Volume, AddVolume(t, v) PROVE RootInv' /\ RootMove
    <2>1. /\ Moves(t) /\ SameLeft
          /\ \/ UNCHANGED <<created, disk, mapLock, op>>
             \/ v \notin created /\ disk' = [disk EXCEPT ![v] = NewDisk] /\ op'[t].pc = "map"
      BY Zenon, <1>6, AddHandles
    <2>2. op[t].pc = "idle" /\ UNCHANGED <<at, swapped, rootLock>>  BY <1>6 DEF AddVolume, Call
    <2>3. disk'[Primary] = disk[Primary]
      BY <2>1, PrimaryVolume DEF HandlesInv, Shapes
    <2>m. Moves(t) /\ SameLeft  BY <2>1
    <2>u. \A u \in Thread \ {t} : op'[u].pc = op[u].pc /\ op'[u].expected = op[u].expected /\ op'[u].version = op[u].version
      BY <2>m DEF Moves, Same
    <2>o. \A u \in Thread : SwapOK(u)  BY DEF RootInv
    <2>4. \A u \in Thread \ {t} : SwapOK(u)'
      BY ONLY <2>u, <2>o, <2>2, <2>3 DEF SwapOK
    <2>5. SwapOK(t)'
      <3>1. op'[t].pc \in {"idle", "map"}  BY <2>1, <2>2
      <3> QED  BY <3>1 DEF SwapOK
    <2>6. \A u \in Thread : SwapOK(u)'  BY <2>4, <2>5
    <2>7. disk'[Primary].root = disk[Primary].root /\ disk'[Primary].keptRoot = disk[Primary].keptRoot  BY <2>3
    <2> QED  BY <2>m, <2>2, <2>6, <2>7, RootStill
  <1>7. ASSUME NEW t \in Thread, ThreadStep(t) PROVE RootInv' /\ RootMove
    BY <1>1, <1>2, <1>3, <1>4, <1>5, <1>6, <1>7, SwapRoots DEF ThreadStep
  <1>8. ASSUME \/ \E h \in Handle : Open(h)
               \/ (\E v \in Volume : Fill(v)) \/ UNCHANGED volumeVars
        PROVE  RootInv' /\ RootMove
    <2>1. UNCHANGED <<disk, at, swapped, rootLock, op>>  BY <1>8 DEF Open, Fill, volumeVars, Rest
    <2>2. SameLeft  BY <1>8, FillHandles, Untouched DEF Open
    <2>3. \A t \in Thread : SwapOK(t)'  BY <2>1 DEF RootInv, SwapOK
    <2> QED  BY <2>1, <2>2, <2>3, RootStill
  <1>9. ASSUME NEW v \in Volume, NEW what, Remount(v, what) PROVE RootInv' /\ RootMove
    <2>1. UNCHANGED <<disk, swapped, rootLock, op>> /\ \A t \in Thread : op[t].pc = "idle"  BY <1>9 DEF Remount
    <2>2. SameLeft  BY <1>9, RemountHandles
    <2>3. \A t \in Thread : SwapOK(t)'  BY <2>1 DEF SwapOK
    <2> QED  BY <2>1, <2>2, <2>3, RootStill
  <1>10. CASE Crash
    <2>1. SameLeft /\ \A t \in Thread : op'[t].pc = "idle"  BY <1>10, CrashHandles, IdleFields
    <2>2. PICK d, c : d = disk[Primary] /\ c = disk'[Primary]  OBVIOUS
    <2>3. c \in Crashed(d)  BY <1>10, <2>2, CrashHandles, PrimaryVolume
    <2>4. c.root \in {d.root, d.keptRoot} /\ c.keptRoot = c.root  BY <2>3, CrashedDisk
    <2>5. UNCHANGED swapped  BY <1>10 DEF Crash
    <2>6. \A t \in Thread : SwapOK(t)'  BY <2>1 DEF SwapOK
    <2>7. PICK n, k, s, m : n = d.root.version /\ k = d.keptRoot.version /\ s = swapped /\ m = left.version
      OBVIOUS
    <2>8. m \in Nat /\ n \in 0 .. m /\ k \in 0 .. n /\ s \in 0 .. k  BY <2>2, <2>7 DEF RootInv
    <2>9. PICK w : w = c.root.version  OBVIOUS
    <2>10. w = n \/ w = k  BY <2>4, <2>7, <2>9
    <2>11. w \in 0 .. m /\ w \in 0 .. w /\ s \in 0 .. w /\ ~ w > n /\ s <= w  BY <2>8, <2>10
    <2>12. /\ disk'[Primary].root.version = w /\ disk'[Primary].keptRoot.version = w
           /\ swapped' = s /\ left'.version = m
      BY <2>1, <2>2, <2>4, <2>5, <2>7, <2>9 DEF SameLeft
    <2>13. RootInv'  BY <2>6, <2>8, <2>11, <2>12 DEF RootInv
    <2>14. RootMove  BY <2>2, <2>7, <2>11, <2>12 DEF RootMove
    <2> QED  BY <2>13, <2>14
  <1> QED  BY <1>7, <1>8, <1>9, <1>10, Steps

----------------------------------------------------------------------------
(* Theorems.                                                               *)

\* Handles keep their volumes, always.
LEMMA HandlesAlways == UnmountsIdle => (VolumesSpec => [](Shapes /\ HandlesInv))
  <1> SUFFICES ASSUME UnmountsIdle PROVE VolumesSpec => [](Shapes /\ HandlesInv)  OBVIOUS
  <1>1. VolumesInit => Shapes /\ HandlesInv  BY HandlesInit
  <1>2. Shapes /\ HandlesInv /\ [VolumesNext]_volumeVars => (Shapes /\ HandlesInv)'  BY HandlesStep
  <1> QED  BY <1>1, <1>2, PTL DEF VolumesSpec

\* SwapRoot is a compare-and-swap: the root file only moves from the version
\* the swap compared with under root.lock, and no crash and no other swap
\* undoes one that returned (local.go's SwapRoot, one lock from the read to
\* the directory sync).
THEOREM RootsChain ==
  ASSUME UnmountsIdle
  PROVE  VolumesSpec => RootChains
  <1>1. VolumesInit => RootInv
    <2>1. ASSUME VolumesInit PROVE RootInv
      <3>1. disk[Primary] = NewDisk \/ disk[Primary] = NoDisk  BY <2>1, PrimaryVolume DEF VolumesInit
      <3>2. disk[Primary].root.version = 0 /\ disk[Primary].keptRoot.version = 0
        <4>1. NoDisk.root.version = 0 /\ NoDisk.keptRoot.version = 0 /\ DOMAIN NoDisk = DiskFields  BY Zenon DEF NoDisk, DiskFields
        <4>2. NewDisk.root = NoDisk.root /\ NewDisk.keptRoot = NoDisk.keptRoot  BY <4>1 DEF NewDisk, DiskFields
        <4> QED  BY <3>1, <4>1, <4>2
      <3>3. left.version = 0 /\ swapped = 0 /\ \A t \in Thread : op[t].pc = "idle"  BY <2>1, IdleFields DEF VolumesInit
      <3> QED  BY <3>2, <3>3 DEF RootInv, SwapOK
    <2> QED  BY <2>1
  <1>2. Shapes /\ HandlesInv /\ RootInv /\ [VolumesNext]_volumeVars => RootInv' /\ RootMove  BY RootStep
  <1>3. RootMove => [RootMove]_volumeVars  OBVIOUS
  <1>4. VolumesSpec => [](Shapes /\ HandlesInv)  BY HandlesAlways
  <1>5. VolumesSpec => [][RootMove]_volumeVars  BY <1>1, <1>2, <1>3, <1>4, PTL DEF VolumesSpec
  <1>6. [RootMove]_volumeVars
          => [LET old == disk[Primary].root
                  new == disk'[Primary].root
              IN  /\ new.version > old.version => new.from = old.version
                  /\ swapped <= new.version]_volumeVars
    BY DEF RootMove
  <1> QED  BY <1>5, <1>6, PTL DEF RootChains
============================================================================
