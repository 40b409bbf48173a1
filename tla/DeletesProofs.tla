--------------------------- MODULE DeletesProofs ---------------------------
(***************************************************************************)
(* What a process deletes from a store over several volumes is gone from   *)
(* every one of them, for any threads, volumes, objects and bounds, when   *)
(* volumes come and go only between operations.                            *)
(***************************************************************************)
EXTENDS VolumesProofs

OneHandle == \A h, k \in Handle : h = k

Putting(t, n) == op[t].kind = "put" /\ op[t].name = n /\ op[t].pc # "idle"

\* A volume every later open finds, and every open handle holds.
Held(v) ==
  /\ v \in Range(map.vols) \cap Range(map.kept)
  /\ \A h \in Handle : handle[h].open => v \in Range(handle[h].vols)

\* The volume that is being added.
Added(t) == handle[HandleOf[t]].vols[Len(handle[HandleOf[t]].vols)]

PutPc == {"rank", "stat", "place", "mkdir", "mksync", "link", "sync"}

\* A Put goes to volumes that are held.
PutOK(t) ==
  /\ op[t].pc \in PutPc => op[t].kind = "put"
  /\ op[t].kind = "put" => \A v \in Range(op[t].vols) : v \in Volume /\ Held(v)
  /\ op[t].pc \in {"mkdir", "mksync", "link", "sync"} => op[t].vol \in Range(op[t].vols)

\* A volume that is being added is not in the durable map yet; all others
\* are in the map and in its durable copy.
AddOK(t) ==
  Adding(t) =>
    /\ Added(t) \notin Range(map.kept)
    /\ Range(Before(t)) \subseteq Range(map.vols) \cap Range(map.kept)
    /\ op[t].pc = "mapsync" => map.vols = handle[HandleOf[t]].vols

\* Objects are only on volumes that are held.
FilesOK == \A v \in Volume : disk[v].files \cup disk[v].keptFiles # {} => Held(v)

MapOK ==
  /\ Range(map.vols) \cup Range(map.kept) \subseteq created
  /\ \A h \in Handle : handle[h].open =>
       /\ Range(handle[h].vols) \subseteq created
       /\ mapLock = Nobody => Range(handle[h].vols) \subseteq Range(map.vols) \cap Range(map.kept)
  /\ \A h \in Handle : ~handle[h].open => Range(map.vols) \subseteq Range(map.kept)

ListedOK == FilesOK /\ MapOK /\ \A t \in Thread : PutOK(t) /\ AddOK(t)

\* A Delete that no Put of its name runs beside leaves the name only on
\* volumes it has still to visit.
DeleteOK(t) ==
  op[t].pc \in {"delete", "unlinked"} =>
    /\ op[t].kind = "delete" /\ op[t].todo \in Seq(Volume) /\ op[t].todo # <<>>
    /\ \A v \in Range(op[t].todo) : at[v] = "own"
    /\ ~op[t].raced =>
         /\ \A u \in Thread : ~Putting(u, op[t].name)
         /\ \A v \in Volume : op[t].name \in disk[v].files =>
              v \in Range(IF op[t].pc = "delete" THEN op[t].todo ELSE Tail(op[t].todo))

\* No volume has object n, and no Put of it is under way.
Clean(n) == (\A v \in Volume : n \notin disk[v].files) /\ \A t \in Thread : ~Putting(t, n)

GoneOK == \A n \in gone : Clean(n)

DeleteInv == ListedOK /\ GoneOK /\ \A t \in Thread : DeleteOK(t)

----------------------------------------------------------------------------
(* What one handle deletes.                                                *)

FilePc == {"mkdir", "mksync", "link", "sync"}

\* Files appear only where a Put links its object, and become durable only
\* where they are.
FilesMove(t) ==
  \A v \in Volume :
    /\ \A m \in disk'[v].files : m \in disk[v].files \/ (op[t].pc = "link" /\ m = op[t].name /\ v = op[t].vol)
    /\ disk'[v].keptFiles \subseteq disk[v].files \cup disk[v].keptFiles

\* A Put stays with the volumes it has ranked.
CallMoves(t) ==
  \/ op'[t] = Idle
  \/ /\ op'[t].kind = op[t].kind /\ op'[t].name = op[t].name
     /\ op'[t].pc \in PutPc => op[t].pc \in PutPc
     /\ op'[t].pc \in {"delete", "unlinked"} => op[t].pc \in {"delete", "unlinked"}
     /\ op'[t].vols = op[t].vols
     /\ op'[t].pc \in FilePc => \/ op[t].pc \in FilePc /\ op'[t].vol = op[t].vol
                                \/ op'[t].vol \in Range(op[t].vols)

\* A system call on one volume's directories and files.
LEMMA DiskFiles ==
  ASSUME Shapes, NEW t \in Thread, NEW v, NEW x,
         \/ On(v, Mkdir(disk[v], x)) \/ On(v, SyncDir(disk[v], x)) \/ On(v, Unlink(disk[v], x))
         \/ On(v, Link(disk[v], x)) /\ op[t].pc = "link" /\ op[t].name = x /\ op[t].vol = v
  PROVE  FilesMove(t)
  <1>1. CASE On(v, Mkdir(disk[v], x))
    BY <1>1 DEF Shapes, On, Mkdir, DiskFields, FilesMove
  <1>2. CASE On(v, SyncDir(disk[v], x))
    BY <1>2 DEF Shapes, On, SyncDir, DiskFields, FilesMove
  <1>3. CASE On(v, Unlink(disk[v], x))
    BY <1>3 DEF Shapes, On, Unlink, DiskFields, FilesMove
  <1>4. CASE On(v, Link(disk[v], x)) /\ op[t].pc = "link" /\ op[t].name = x /\ op[t].vol = v
    BY <1>4 DEF Shapes, On, Link, DiskFields, FilesMove
  <1> QED  BY <1>1, <1>2, <1>3, <1>4

\* What the steps of a Put, Get, List or Delete do to files and to the call.
LEMMA WorkMoves ==
  ASSUME Shapes, NEW t \in Thread, WorkStep(t)
  PROVE  FilesMove(t) /\ (CallMoves(t) \/ PutRank(t))
  <1> USE DEF FilePc, PutPc
  <1>d. DOMAIN op[t] = OpFields  BY DEF Shapes
  <1>r. ASSUME Return(t) PROVE CallMoves(t)
    BY <1>r DEF Return, Shapes, CallMoves
  <1>u. ASSUME UNCHANGED disk PROVE FilesMove(t)
    BY <1>u DEF FilesMove
  <1>s. ASSUME NEW o, o = op'[t], o.kind = op[t].kind, o.name = op[t].name, o.vols = op[t].vols,
               o.pc \in PutPc => op[t].pc \in PutPc,
               o.pc \in {"delete", "unlinked"} => op[t].pc \in {"delete", "unlinked"},
               o.pc \in FilePc => (op[t].pc \in FilePc /\ o.vol = op[t].vol) \/ o.vol \in Range(op[t].vols)
        PROVE  CallMoves(t)
    BY <1>s DEF CallMoves
  <1>1. CASE PutRank(t)
    BY <1>1, <1>u, Zenon DEF PutRank
  <1>2. CASE PutStat(t)
    <2>1. ASSUME NEW todo, NEW pc, pc \in {"place", "stat"}, Step(t, [op[t] EXCEPT !.todo = todo, !.pc = pc]) PROVE CallMoves(t)
      <3>1. op'[t] = [op[t] EXCEPT !.todo = todo, !.pc = pc] /\ op[t].pc = "stat"  BY <2>1, <1>2 DEF Step, Shapes, PutStat
      <3> QED  BY <1>d, <2>1, <3>1, <1>s, Zenon DEF OpFields
    <2> QED  BY <1>2, <1>r, <1>u, <2>1, Zenon DEF PutStat
  <1>3. CASE PutPlace(t)
    <2>1. ASSUME NEW v, v \in FirstRoomy(op[t].vols), NEW dirs, NEW pc, pc \in {"link", "mkdir"},
                 Step(t, [op[t] EXCEPT !.vol = v, !.dirs = dirs, !.pc = pc])
          PROVE  CallMoves(t)
      <3>1. op'[t] = [op[t] EXCEPT !.vol = v, !.dirs = dirs, !.pc = pc] /\ op[t].pc = "place"
        BY <2>1, <1>3, Zenon DEF Step, Shapes, PutPlace
      <3>2. v \in Range(op[t].vols)  BY <2>1 DEF FirstRoomy, Range
      <3> QED  BY <1>d, <2>1, <3>1, <3>2, <1>s, Zenon DEF OpFields
    <2>2. CallMoves(t)  BY <1>3, <1>r, <2>1, Zenon DEF PutPlace
    <2> QED  BY <1>3, <1>u, <2>2, Zenon DEF PutPlace
  <1>4. CASE PutMkdir(t)
    <2>1. op'[t] = [op[t] EXCEPT !.pc = "mksync"] /\ op[t].pc = "mkdir"  BY <1>4 DEF PutMkdir, Step, Shapes
    <2>2. CallMoves(t)  BY <1>d, <2>1, <1>s DEF OpFields
    <2>3. FilesMove(t)  BY <1>4, DiskFiles DEF PutMkdir
    <2> QED  BY <2>2, <2>3
  <1>5. CASE PutMkSync(t)
    <2>1. ASSUME NEW dirs, NEW pc, pc \in {"link", "mkdir"}, Step(t, [op[t] EXCEPT !.pc = pc, !.dirs = dirs]) PROVE CallMoves(t)
      <3>1. op'[t] = [op[t] EXCEPT !.pc = pc, !.dirs = dirs] /\ op[t].pc = "mksync"  BY <2>1, <1>5 DEF Step, Shapes, PutMkSync
      <3> QED  BY <1>d, <2>1, <3>1, <1>s, Zenon DEF OpFields
    <2>2. CallMoves(t)  BY <1>5, <2>1, Zenon DEF PutMkSync
    <2>3. FilesMove(t)  BY <1>5, DiskFiles, Zenon DEF PutMkSync, SyncMade
    <2> QED  BY <2>2, <2>3
  <1>6. CASE PutLink(t)
    <2>1. ASSUME Step(t, [op[t] EXCEPT !.pc = "sync"]) PROVE CallMoves(t)
      <3>1. op'[t] = [op[t] EXCEPT !.pc = "sync"] /\ op[t].pc = "link"  BY <2>1, <1>6 DEF Step, Shapes, PutLink
      <3> QED  BY <1>d, <3>1, <1>s DEF OpFields
    <2>2. CallMoves(t)  BY <1>6, <1>r, <2>1 DEF PutLink
    <2>3. FilesMove(t)  BY <1>6, <1>u, DiskFiles, Zenon DEF PutLink
    <2> QED  BY <2>2, <2>3
  <1>7. CASE PutSync(t)
    BY <1>7, <1>r, DiskFiles, Zenon DEF PutSync
  <1>8. CASE FindStep(t)
    <2>1. ASSUME NEW todo, Step(t, [op[t] EXCEPT !.todo = todo]) PROVE CallMoves(t)
      <3>1. op'[t] = [op[t] EXCEPT !.todo = todo] /\ op[t].pc = "find"  BY <2>1, <1>8 DEF Step, Shapes, FindStep
      <3> QED  BY <1>d, <3>1, <1>s DEF OpFields
    <2> QED  BY <1>8, <1>r, <1>u, <2>1 DEF FindStep
  <1>9. CASE ListStep(t)
    <2>1. ASSUME NEW todo, NEW seen, Step(t, [op[t] EXCEPT !.todo = todo, !.seen = seen]) PROVE CallMoves(t)
      <3>1. op'[t] = [op[t] EXCEPT !.todo = todo, !.seen = seen] /\ op[t].pc = "list"  BY <2>1, <1>9 DEF Step, Shapes, ListStep
      <3> QED  BY <1>d, <3>1, <1>s, Zenon DEF OpFields
    <2> QED  BY <1>9, <1>u, <2>1, Zenon DEF ListStep
  <1>10. CASE Answer(t)
    BY <1>10, <1>r, <1>u DEF Answer
  <1>n. ASSUME DeleteNext(t), op[t].pc \in {"delete", "unlinked"} PROVE CallMoves(t)
    <2>1. ASSUME NEW todo, Step(t, [op[t] EXCEPT !.todo = todo, !.pc = "delete"]) PROVE CallMoves(t)
      <3>1. op'[t] = [op[t] EXCEPT !.todo = todo, !.pc = "delete"]  BY <2>1 DEF Step, Shapes
      <3> QED  BY <1>d, <1>n, <3>1, <1>s, Zenon DEF OpFields
    <2> QED  BY <1>n, <1>r, <2>1, Zenon DEF DeleteNext
  <1>11. CASE DeleteStep(t)
    <2>1. ASSUME Step(t, [op[t] EXCEPT !.pc = "unlinked"]) PROVE CallMoves(t)
      <3>1. op'[t] = [op[t] EXCEPT !.pc = "unlinked"] /\ op[t].pc = "delete"  BY <2>1, <1>11 DEF Step, Shapes, DeleteStep
      <3> QED  BY <1>d, <3>1, <1>s DEF OpFields
    <2>2. CallMoves(t)  BY <1>11, <1>n, <2>1 DEF DeleteStep
    <2>3. FilesMove(t)  BY <1>11, <1>u, DiskFiles DEF DeleteStep
    <2> QED  BY <2>2, <2>3
  <1>12. CASE DeleteSync(t)
    BY <1>12, <1>n, DiskFiles DEF DeleteSync
  <1> QED  BY <1>1, <1>2, <1>3, <1>4, <1>5, <1>6, <1>7, <1>8, <1>9, <1>10, <1>11, <1>12 DEF WorkStep

\* A Put begins, and every Delete of its name under way races with it.
PutBegins(t, n) ==
  /\ op'[t].pc = "rank" /\ op'[t].kind = "put" /\ op'[t].name = n /\ op'[t].vols = <<>>
  /\ \A u \in Thread \ {t} : op[u].kind = "delete" /\ op[u].name = n => op'[u].raced
  /\ gone' = gone \ {n}

\* A Delete begins on all the volumes of its handle; without a race no Put of
\* its name is under way.
DeleteBegins(t, n) ==
  /\ op'[t].pc = "delete" /\ op'[t].kind = "delete" /\ op'[t].name = n /\ op'[t].todo = H(t).vols
  /\ ~op'[t].raced => \A u \in Thread : ~(op[u].kind = "put" /\ op[u].name = n)
  /\ gone' = gone

\* What the calls that take a snapshot begin with.
LEMMA AskMoves ==
  ASSUME Shapes, NEW t \in Thread, AskStep(t)
  PROVE  \/ op' = op /\ gone' \subseteq gone
         \/ op'[t].pc \in {"list", "lock"} /\ op'[t].kind \in {"list", "swap"} /\ gone' = gone
         \/ \E n \in Name : PutBegins(t, n) \/ DeleteBegins(t, n)
  <1>1. ASSUME NEW n \in Name, Put(t, n), op' # op PROVE PutBegins(t, n)
    <2>1. PICK call : call = [Idle EXCEPT !.pc = "rank", !.kind = "put", !.name = n]  OBVIOUS
    <2>2. PICK races : races = Races("delete", n)  OBVIOUS
    <2>3. op' = Begun(t, call, races)  BY <1>1, <2>1, <2>2 DEF Put, Snapshot
    <2>4. DOMAIN call = OpFields /\ call.pc = "rank" /\ call.kind = "put" /\ call.name = n /\ call.vols = <<>>
      BY <2>1 DEF Idle, OpFields
    <2>5. op'[t] = [call EXCEPT !.raced = races # {}]  BY <2>3 DEF Begun
    <2>6. op'[t].pc = "rank" /\ op'[t].kind = "put" /\ op'[t].name = n /\ op'[t].vols = <<>>
      BY <2>4, <2>5 DEF OpFields
    <2>7. ASSUME NEW u \in Thread \ {t}, op[u].kind = "delete", op[u].name = n PROVE op'[u].raced
      <3>1. u \in races  BY <2>2, <2>7 DEF Races
      <3>2. op'[u] = [op[u] EXCEPT !.raced = @ \/ u \in races]  BY <2>3 DEF Begun
      <3>3. "raced" \in DOMAIN op[u]  BY DEF Shapes, OpFields
      <3> QED  BY <3>1, <3>2, <3>3, Zenon
    <2> QED  BY <1>1, <2>6, <2>7 DEF Put, PutBegins
  <1>2. ASSUME NEW n \in Name, Delete(t, n), op' # op PROVE DeleteBegins(t, n)
    <2>1. PICK call : call = [Idle EXCEPT !.pc = "delete", !.kind = "delete", !.name = n, !.todo = Deletes(H(t), n)]
      OBVIOUS
    <2>2. PICK races : races = Races("put", n)  OBVIOUS
    <2>3. PICK ops : ops = Begun(t, call, races)  OBVIOUS
    <2>4. op' = [u \in Thread |-> [ops[u] EXCEPT !.was = @ \ {n}]]
      BY <1>2, <2>1, <2>2, <2>3 DEF Delete, Snapshot
    <2>5. DOMAIN call = OpFields /\ call.pc = "delete" /\ call.kind = "delete" /\ call.name = n /\ call.todo = H(t).vols
      BY <2>1 DEF Idle, OpFields, Deletes
    <2>6. PICK raced : raced = (races # {})  OBVIOUS
    <2>7. ops[t] = [call EXCEPT !.raced = raced]  BY <2>3, <2>6 DEF Begun
    <2>8. op'[t] = [ops[t] EXCEPT !.was = @ \ {n}]  BY <2>4
    <2>9. /\ op'[t].pc = "delete" /\ op'[t].kind = "delete" /\ op'[t].name = n /\ op'[t].todo = H(t).vols
          /\ op'[t].raced = raced
      BY <2>5, <2>7, <2>8 DEF OpFields
    <2>10. ASSUME ~raced, NEW u \in Thread, op[u].kind = "put", op[u].name = n PROVE FALSE
      BY <2>2, <2>6, <2>10, Zenon DEF Races
    <2> QED  BY <1>2, <2>9, <2>10 DEF Delete, DeleteBegins
  <1>3. ASSUME NEW after, List(t, after), op' # op PROVE op'[t].pc = "list" /\ op'[t].kind = "list"
    <2>1. PICK call : call = [Idle EXCEPT !.pc = "list", !.kind = "list", !.name = after, !.was = acked, !.todo = H(t).vols]
      OBVIOUS
    <2>2. op'[t] = [call EXCEPT !.raced = {} # {}]  BY <1>3, <2>1 DEF List, Snapshot, Begun
    <2>3. DOMAIN call = OpFields /\ call.pc = "list" /\ call.kind = "list"  BY <2>1 DEF Idle, OpFields
    <2> QED  BY <2>2, <2>3 DEF OpFields
  <1>4. ASSUME NEW e, SwapRoot(t, e), op' # op PROVE op'[t].pc = "lock" /\ op'[t].kind = "swap"
    <2>1. PICK call : call = [Idle EXCEPT !.pc = "lock", !.kind = "swap", !.expected = e, !.was = acked]
      OBVIOUS
    <2>2. op'[t] = [call EXCEPT !.raced = {} # {}]  BY <1>4, <2>1 DEF SwapRoot, Snapshot, Begun
    <2>3. DOMAIN call = OpFields /\ call.pc = "lock" /\ call.kind = "swap"  BY <2>1 DEF Idle, OpFields
    <2> QED  BY <2>2, <2>3 DEF OpFields
  <1>5. PICK e : SwapRoot(t, e) \/ (\E n \in Name : Put(t, n) \/ Delete(t, n)) \/ \E after \in {0} \cup Name : List(t, after)
    BY DEF AskStep
  <1>6. CASE SwapRoot(t, e)  BY <1>6, <1>4, Zenon DEF SwapRoot
  <1>7. CASE \E n \in Name : Put(t, n) \/ Delete(t, n)
    <2>1. PICK n \in Name : Put(t, n) \/ Delete(t, n)  BY <1>7
    <2> QED  BY <2>1, <1>1, <1>2, Zenon DEF Put, Delete
  <1>8. CASE \E after \in {0} \cup Name : List(t, after)
    <2>1. PICK after : List(t, after)  BY <1>8
    <2> QED  BY <2>1, <1>3, Zenon DEF List
  <1> QED  BY <1>5, <1>6, <1>7, <1>8

SameVols == \A h \in Handle : handle'[h].open = handle[h].open /\ handle'[h].vols = handle[h].vols

\* A step that moves no volume keeps what is known of where objects are.
LEMMA ListedKept ==
  ASSUME ListedOK, NEW t \in Thread, Moves(t), SameVols, UNCHANGED <<created, map, mapLock>>,
         FilesMove(t), PutOK(t)', ~Adding(t)'
  PROVE  ListedOK'
  <1>h. \A u \in Thread : HandleOf[u] \in Handle  BY VolumesAssumption
  <1>1. \A v : Held(v)' = Held(v)  BY DEF Held, SameVols
  <1>2. FilesOK'
    <2> SUFFICES ASSUME NEW v \in Volume, NEW m \in disk'[v].files \cup disk'[v].keptFiles PROVE Held(v)
      BY <1>1 DEF FilesOK
    <2>1. CASE m \in disk[v].files \cup disk[v].keptFiles  BY <2>1 DEF ListedOK, FilesOK
    <2>2. CASE op[t].pc = "link" /\ v = op[t].vol  BY <2>2 DEF ListedOK, PutOK, PutPc
    <2> QED  BY <2>1, <2>2 DEF FilesMove
  <1>3. MapOK'  BY DEF ListedOK, MapOK, SameVols
  <1>4. \A u \in Thread \ {t} : PutOK(u)'
    BY <1>1 DEF ListedOK, PutOK, Moves, Same
  <1>5. \A u \in Thread \ {t} : AddOK(u)'
    <2> TAKE u \in Thread \ {t}
    <2>1. op'[u].pc = op[u].pc  BY DEF Moves, Same
    <2>2. handle'[HandleOf[u]].vols = handle[HandleOf[u]].vols  BY <1>h DEF SameVols
    <2>3. AddOK(u)  BY DEF ListedOK
    <2> QED  BY <2>1, <2>2, <2>3 DEF AddOK, Adding, Added, Before
  <1>6. AddOK(t)'  BY DEF AddOK
  <1> QED  BY <1>2, <1>3, <1>4, <1>5, <1>6 DEF ListedOK

\* A call that stays with its volumes, or is no Put.
LEMMA PutKept ==
  ASSUME Shapes, ListedOK, NEW t \in Thread, \A v : Held(v) => Held(v)',
         CallMoves(t) \/ (op'[t].kind # "put" /\ op'[t].pc \notin PutPc)
  PROVE  PutOK(t)'
  <1> USE DEF PutPc, FilePc
  <1>1. PutOK(t)  BY DEF ListedOK
  <1>2. CASE op'[t] = Idle  BY <1>2, IdleFields DEF PutOK
  <1>3. CASE CallMoves(t) /\ op'[t] # Idle
    BY <1>1, <1>3 DEF PutOK, CallMoves
  <1>4. CASE op'[t].kind # "put" /\ op'[t].pc \notin PutPc  BY <1>4 DEF PutOK
  <1> QED  BY <1>2, <1>3, <1>4

\* With one handle, s.mu is free only while nobody adds a volume.
LEMMA MuFreeOne ==
  ASSUME OneHandle, HandlesInv, NEW t \in Thread, MuFree(t)
  PROVE  mapLock = Nobody
  BY VolumesAssumption DEF OneHandle, HandlesInv, LockOK, MuFree

\* Put ranks volumes that every later open finds.
LEMMA RankListed ==
  ASSUME OneHandle, Shapes, HandlesInv, ListedOK, NEW t \in Thread, PutRank(t)
  PROVE  PutOK(t)'
  <1>h. HandleOf[t] \in Handle  BY VolumesAssumption
  <1>1. op[t].pc = "rank" /\ mapLock = Nobody /\ UNCHANGED <<map, handle>>
    BY MuFreeOne DEF PutRank, Rest
  <1>2. Busy(HandleOf[t])  BY <1>1 DEF Busy
  <1>3. H(t).open /\ Vols(H(t).vols)  BY <1>2, <1>h DEF HandlesInv, HandleOK, H
  <1>4. PICK ranked : /\ op' = [op EXCEPT ![t] = [op[t] EXCEPT !.pc = "stat", !.vols = ranked, !.todo = ranked]]
                      /\ Range(ranked) = Range(H(t).vols)
    BY Zenon DEF PutRank, Step, Ranked
  <1>5. DOMAIN op[t] = OpFields  BY DEF Shapes
  <1>6. op'[t].pc = "stat" /\ op'[t].vols = ranked /\ op'[t].kind = op[t].kind
    BY <1>4, <1>5, Zenon DEF OpFields, Shapes
  <1>7. Range(H(t).vols) \subseteq Volume  BY <1>3, VolsFirst
  <1>8. Range(H(t).vols) \subseteq Range(map.vols) \cap Range(map.kept)
    BY <1>1, <1>3, <1>h DEF ListedOK, MapOK, H
  <1>9. \A v \in Range(H(t).vols) : Held(v)
    BY <1>8, <1>h DEF Held, OneHandle, H
  <1>10. \A v : Held(v)' = Held(v)  BY <1>1 DEF Held
  <1>11. PutOK(t)  BY DEF ListedOK
  <1> QED  BY <1>1, <1>4, <1>6, <1>7, <1>9, <1>10, <1>11 DEF PutOK, PutPc

\* AddVolume adds a volume that no map has listed.
LEMMA AddListed ==
  ASSUME OneHandle, Shapes, HandlesInv, ListedOK, NEW t \in Thread, NEW v \in Volume, AddVolume(t, v),
         op' # op
  PROVE  ListedOK'
  <1>h. HandleOf[t] \in Handle /\ \A h \in Handle : h = HandleOf[t]  BY VolumesAssumption DEF OneHandle
  <1>a. /\ Moves(t) /\ v \notin created /\ created' = created \cup {v} /\ disk' = [disk EXCEPT ![v] = NewDisk]
        /\ mapLock' = t /\ op'[t].pc = "map" /\ op'[t].kind = "add"
        /\ handle'[HandleOf[t]].vols = Append(H(t).vols, v) /\ handle'[HandleOf[t]].open
    BY AddHandles
  <1>b. UNCHANGED map /\ H(t).open /\ mapLock = Nobody  BY DEF AddVolume
  <1>c. Vols(H(t).vols)  BY <1>b, <1>h DEF HandlesInv, HandleOK, H
  <1>d. PICK s : s = H(t).vols  OBVIOUS
  <1>e. s \in Seq(Volume) /\ Len(s) \in Nat /\ Len(s) > 0  BY <1>c, <1>d DEF Vols
  <1>f. PICK new : new = Append(s, v)  BY Zenon
  <1>g. /\ Len(new) = Len(s) + 1 /\ new[Len(s) + 1] = v /\ SubSeq(new, 1, Len(s)) = s
        /\ Range(new) = Range(s) \cup {v}
    <2>1. new \in Seq(Volume) /\ Len(new) = Len(s) + 1 /\ new[Len(s) + 1] = v /\ \A i \in 1 .. Len(s) : new[i] = s[i]
      BY <1>e, <1>f
    <2>2. Range(new) = Range(s) \cup {v}  BY <2>1, <1>e DEF Range
    <2>3. SubSeq(new, 1, Len(s)) = s  BY <2>1, <1>e
    <2> QED  BY <2>1, <2>2, <2>3
  <1>i. handle'[HandleOf[t]].vols = new  BY <1>a, <1>d, <1>f
  <1>1. \A w : Held(w) => Held(w)'
    BY <1>h, <1>a, <1>b, <1>d, <1>g, <1>i DEF Held, H
  <1>2. FilesOK'
    BY <1>1, <1>a DEF ListedOK, FilesOK, Shapes, NewDisk, NoDisk
  <1>3. MapOK'
    <2>1. Range(map.vols) \cup Range(map.kept) \subseteq created /\ Range(s) \subseteq created
      BY <1>b, <1>d, <1>h DEF ListedOK, MapOK, H
    <2> QED  BY <2>1, <1>a, <1>b, <1>g, <1>h, <1>i, VolumesAssumption DEF MapOK
  <1>4. \A u \in Thread \ {t} : PutOK(u)'
    BY <1>1, <1>a DEF ListedOK, PutOK, Moves, Same
  <1>5. PutOK(t)'  BY <1>a DEF PutOK, PutPc
  <1>6. \A u \in Thread \ {t} : AddOK(u)'
    BY <1>a, <1>b, VolumesAssumption DEF AddOK, Adding, Moves, Same, HandlesInv, LockOK
  <1>7. AddOK(t)'
    <2>1. v \notin Range(map.kept) /\ Range(s) \subseteq Range(map.vols) \cap Range(map.kept)
      BY <1>a, <1>b, <1>d, <1>h DEF ListedOK, MapOK, H
    <2>2. Added(t)' = v /\ Before(t)' = s
      BY <1>e, <1>g, <1>i DEF Added, Before
    <2> QED  BY <2>1, <2>2, <1>a, <1>b DEF AddOK
  <1> QED  BY <1>2, <1>3, <1>4, <1>5, <1>6, <1>7 DEF ListedOK

\* A thread with the map's lock has an open handle, whose last volume is the
\* one it adds.
LEMMA AddingHandle ==
  ASSUME HandlesInv, NEW t \in Thread, Adding(t)
  PROVE  /\ mapLock = t /\ H(t).open /\ H(t).vols \in Seq(Volume) /\ Len(H(t).vols) > 1
         /\ Range(H(t).vols) = Range(Before(t)) \cup {Added(t)}
         /\ \A u \in Thread \ {t} : ~Adding(u)
  <1>h. HandleOf[t] \in Handle  BY VolumesAssumption
  <1>1. mapLock = t /\ Len(H(t).vols) > 1 /\ \A u \in Thread \ {t} : ~Adding(u)  BY DEF HandlesInv, LockOK, H
  <1>2. Busy(HandleOf[t])  BY DEF Adding, Busy
  <1>3. H(t).open /\ H(t).vols \in Seq(Volume)  BY <1>2, <1>h DEF HandlesInv, HandleOK, H, Vols
  <1>4. PICK s : s = H(t).vols  OBVIOUS
  <1>5. PICK b : b = SubSeq(s, 1, Len(s) - 1)  BY Zenon
  <1>6. s \in Seq(Volume) /\ Len(s) \in Nat /\ Len(s) > 1  BY <1>1, <1>3, <1>4
  <1>7. Len(b) = Len(s) - 1 /\ b \in Seq(Volume) /\ \A i \in 1 .. Len(s) - 1 : b[i] = s[i]  BY <1>5, <1>6
  <1>8. Range(s) = Range(b) \cup {s[Len(s)]}  BY <1>6, <1>7 DEF Range
  <1> QED  BY <1>1, <1>3, <1>4, <1>5, <1>8 DEF H, Added, Before

\* AddVolume's two writes of the map, and its giving up between them.
LEMMA AddingListed ==
  ASSUME OneHandle, Shapes, HandlesInv, ListedOK, NEW t \in Thread, Adding(t),
         AddMap(t) \/ AddSync(t) \/ Errs(t)
  PROVE  ListedOK'
  <1>h. HandleOf[t] \in Handle /\ (\A h \in Handle : h = HandleOf[t]) /\ \A u \in Thread : HandleOf[u] = HandleOf[t]
    BY VolumesAssumption DEF OneHandle
  <1>a. /\ mapLock = t /\ H(t).open /\ Range(H(t).vols) = Range(Before(t)) \cup {Added(t)}
        /\ \A u \in Thread \ {t} : ~Adding(u)
    BY AddingHandle
  <1>b. /\ Added(t) \notin Range(map.kept)
        /\ Range(Before(t)) \subseteq Range(map.vols) \cap Range(map.kept)
        /\ op[t].pc = "mapsync" => map.vols = H(t).vols
    BY DEF ListedOK, AddOK, H
  <1>c. Range(H(t).vols) \subseteq created /\ Range(map.vols) \cup Range(map.kept) \subseteq created
    BY <1>a, <1>h DEF ListedOK, MapOK, H
  <1>m. Moves(t) /\ (op'[t] = Idle \/ op'[t] = [op[t] EXCEPT !.pc = "mapsync"])
    BY AddMapHandles, AddSyncHandles, ErrsHandles
  <1>u. \A u \in Thread \ {t} : Same(op'[u], op[u])  BY <1>m DEF Moves
  <1>v. \A u \in Thread \ {t} : AddOK(u)'
    BY <1>a, <1>u DEF AddOK, Adding, Same
  <1>d. UNCHANGED <<disk, created>>  BY DEF AddMap, AddSync, Errs
  <1>o. CallMoves(t)
    <2>1. CASE op'[t] = Idle  BY <2>1 DEF CallMoves
    <2>2. CASE op'[t] = [op[t] EXCEPT !.pc = "mapsync"]
      <3>1. DOMAIN op[t] = OpFields  BY DEF Shapes
      <3> QED  BY <2>2, <3>1 DEF CallMoves, OpFields, PutPc, FilePc
    <2> QED  BY <1>m, <2>1, <2>2
  <1>k. ASSUME \A w : Held(w) => Held(w)', MapOK', AddOK(t)' PROVE ListedOK'
    <2>1. PutOK(t)'  BY <1>k, <1>o, PutKept
    <2>2. FilesOK'  BY <1>k, <1>d DEF ListedOK, FilesOK
    <2>3. \A u \in Thread \ {t} : PutOK(u)'  BY <1>k, <1>u DEF ListedOK, PutOK, Same
    <2> QED  BY <2>1, <2>2, <2>3, <1>k, <1>v DEF ListedOK
  <1>1. CASE AddMap(t)
    <2>1. map'.vols = H(t).vols /\ map'.kept = map.kept /\ UNCHANGED <<handle, mapLock>>
      BY <1>1 DEF AddMap, Shapes
    <2>2. \A w : Held(w) => Held(w)'  BY <2>1, <1>a, <1>h DEF Held, H
    <2>3. MapOK'  BY <2>1, <1>a, <1>c, <1>d, <1>h, VolumesAssumption DEF MapOK, H
    <2>4. AddOK(t)'  BY <2>1, <1>a, <1>b DEF AddOK, Added, Before, H
    <2> QED  BY <2>2, <2>3, <2>4, <1>k
  <1>2. CASE AddSync(t)
    <2>1. map'.vols = map.vols /\ map'.kept = map.vols /\ UNCHANGED handle /\ op[t].pc = "mapsync"
      BY <1>2 DEF AddSync, Shapes
    <2>2. \A w : Held(w) => Held(w)'  BY <2>1 DEF Held
    <2>3. map.vols = H(t).vols  BY <2>1, <1>b
    <2>4. MapOK'  BY <2>1, <2>3, <1>a, <1>c, <1>d, <1>h DEF MapOK, H
    <2>5. AddOK(t)'
      <3>1. op'[t].pc = "idle"  BY <1>2, AddSyncHandles, IdleFields
      <3> QED  BY <3>1 DEF AddOK, Adding
    <2> QED  BY <2>2, <2>4, <2>5, <1>k
  <1>3. CASE Errs(t)
    <2>1. /\ handle'[HandleOf[t]].vols = Before(t) /\ handle'[HandleOf[t]].open /\ UNCHANGED map
      BY <1>3, <1>a, <1>h, ErrsHandles, Zenon DEF Errs, H
    <2>2. \A w : Held(w) => Held(w)'
      <3> SUFFICES ASSUME NEW w, Held(w) PROVE Held(w)'  OBVIOUS
      <3>1. w \in Range(map.vols) \cap Range(map.kept) /\ w \in Range(H(t).vols)  BY <1>a, <1>h DEF Held, H
      <3>2. w \in Range(Before(t))  BY <3>1, <1>a, <1>b
      <3> QED  BY <3>1, <3>2, <2>1, <1>h DEF Held
    <2>3. MapOK'  BY <2>1, <1>a, <1>b, <1>c, <1>d, <1>h DEF MapOK
    <2>4. AddOK(t)'
      <3>1. op'[t].pc = "idle"  BY <1>3, ErrsHandles, IdleFields
      <3> QED  BY <3>1 DEF AddOK, Adding
    <2> QED  BY <2>2, <2>3, <2>4, <1>k
  <1> QED  BY <1>1, <1>2, <1>3

\* A store is opened on the volumes of the map; a crash leaves of each disk
\* what was there, and one of the two maps.
LEMMA RestartListed ==
  ASSUME OneHandle, Shapes, HandlesInv, ListedOK, Crash \/ \E h \in Handle : Open(h)
  PROVE  ListedOK'
  <1>1. ASSUME NEW h \in Handle, Open(h) PROVE ListedOK'
    <2>h. \A k \in Handle : k = h  BY DEF OneHandle
    <2>1. /\ handle'[h].vols = map.vols /\ handle'[h].open /\ ~handle[h].open
          /\ UNCHANGED <<disk, op, map, created, mapLock>>
      BY <1>1, OpenHandles, Zenon DEF Open, Rest
    <2>2. \A w : Held(w) => Held(w)'  BY <2>1, <2>h DEF Held
    <2>3. FilesOK'  BY <2>1, <2>2 DEF ListedOK, FilesOK
    <2>4. MapOK'  BY <2>1, <2>h DEF ListedOK, MapOK
    <2>5. \A t \in Thread : PutOK(t)'  BY <2>1, <2>2 DEF ListedOK, PutOK
    <2>6. \A t \in Thread : ~Adding(t)
      BY <2>1, <2>h, AddingHandle, VolumesAssumption DEF H
    <2>7. \A t \in Thread : AddOK(t)'  BY <2>1, <2>6 DEF AddOK, Adding
    <2> QED  BY <2>3, <2>4, <2>5, <2>7 DEF ListedOK
  <1>2. CASE Crash
    <2>1. /\ \A h \in Handle : ~handle'[h].open
          /\ \A t \in Thread : op'[t] = Idle
          /\ \A v \in Volume : disk'[v] \in Crashed(disk[v])
      BY <1>2, CrashHandles
    <2>2. PICK vols : vols \in {map.vols, map.kept} /\ map' = [vols |-> vols, kept |-> vols]  BY <1>2, Zenon DEF Crash
    <2>3. \A w : Held(w) => Held(w)'  BY <2>1, <2>2 DEF Held
    <2>4. \A v \in Volume : disk'[v].files \cup disk'[v].keptFiles \subseteq disk[v].files \cup disk[v].keptFiles
      <3> TAKE v \in Volume
      <3>1. PICK d, c : d = disk[v] /\ c = disk'[v]  OBVIOUS
      <3>2. c.files \subseteq d.files \cup d.keptFiles /\ c.keptFiles = c.files  BY <2>1, <3>1, CrashedDisk
      <3> QED  BY <3>1, <3>2
    <2>5. FilesOK'  BY <2>3, <2>4 DEF ListedOK, FilesOK
    <2>6. MapOK'  BY <1>2, <2>1, <2>2 DEF ListedOK, MapOK, Crash
    <2>7. \A t \in Thread : PutOK(t)' /\ AddOK(t)'
      BY <2>1, IdleFields DEF PutOK, AddOK, Adding, PutPc
    <2> QED  BY <2>5, <2>6, <2>7 DEF ListedOK
  <1> QED  BY <1>1, <1>2

\* A swap of the root touches no file, and begins no Put and no Delete.
LEMMA SwapMoves ==
  ASSUME Shapes, HandlesInv, NEW t \in Thread, SwapStep(t)
  PROVE  /\ Moves(t) /\ CallMoves(t) /\ ~Adding(t)' /\ FilesMove(t)
         /\ op'[t].pc \notin {"delete", "unlinked"} /\ op[t].pc # "idle"
  <1>d. DOMAIN op[t] = OpFields  BY DEF Shapes
  <1>1. /\ Moves(t)
        /\ op'[t] = Idle \/ op'[t] = [op[t] EXCEPT !.pc = "rename"]
             \/ op'[t] = [op[t] EXCEPT !.pc = "rootsync", !.version = left.version + 1]
    BY Zenon, SwapHandles
  <1>2. op[t].pc \in {"lock", "rename", "rootsync"}  BY Zenon DEF SwapStep, SwapLock, SwapRename, SwapSync
  <1>f. FilesMove(t)
    BY PrimaryVolume DEF SwapStep, SwapLock, SwapRename, SwapSync, On, Rename, SyncRoot, FilesMove, Shapes, DiskFields
  <1>3. CASE op'[t] = Idle
    BY <1>1, <1>2, <1>f, <1>3, IdleFields DEF CallMoves, Adding
  <1>4. CASE op'[t].kind = op[t].kind /\ op'[t].name = op[t].name /\ op'[t].vols = op[t].vols
             /\ op'[t].pc \in {"rename", "rootsync"}
    BY <1>1, <1>2, <1>f, <1>4 DEF CallMoves, Adding, PutPc, FilePc
  <1>5. CASE op'[t] = [op[t] EXCEPT !.pc = "rename"]
    BY <1>d, <1>5, <1>4 DEF OpFields
  <1>6. CASE op'[t] = [op[t] EXCEPT !.pc = "rootsync", !.version = left.version + 1]
    BY <1>d, <1>6, <1>4 DEF OpFields
  <1> QED  BY <1>1, <1>3, <1>5, <1>6

\* Every step keeps objects on volumes that every later open finds.
LEMMA ListedStep ==
  ASSUME UnmountsIdle, OneHandle, Shapes, HandlesInv, ListedOK, [VolumesNext]_volumeVars
  PROVE  ListedOK'
  <1> USE DEF PutPc
  <1>f. ASSUME UNCHANGED disk, NEW t \in Thread PROVE FilesMove(t)  BY <1>f DEF FilesMove
  <1>s. ASSUME UNCHANGED map, SameVols PROVE \A v : Held(v) => Held(v)'  BY <1>s DEF Held, SameVols
  <1>1. ASSUME NEW t \in Thread, WorkStep(t) PROVE ListedOK'
    <2>1. Works(t)  BY <1>1, WorkWorks
    <2>2. FilesMove(t) /\ (CallMoves(t) \/ PutRank(t))  BY <1>1, WorkMoves
    <2>3. SameVols /\ UNCHANGED <<created, map, mapLock>> /\ Moves(t)  BY <2>1 DEF Works, SameHandles, SameVols
    <2>4. PutOK(t)'  BY <2>2, <2>3, <1>s, PutKept, RankListed
    <2>5. ~Adding(t)'  BY <2>1 DEF Works, Adding, AddPc
    <2> QED  BY <2>2, <2>3, <2>4, <2>5, ListedKept
  <1>2. ASSUME NEW t \in Thread, AskStep(t) PROVE ListedOK'
    <2>1. Asks(t)  BY <1>2, AskAsks
    <2>2. UNCHANGED <<created, map, mapLock, disk>> /\ Moves(t)
      BY <1>2, <2>1, Zenon DEF Asks, AskStep, Put, Delete, List, SwapRoot, Rest
    <2>3. SameVols
      BY <2>1, VolumesAssumption DEF Asks, SameVols, Verified, H, Shapes, HandleFields
    <2>4. ~Adding(t)'  BY <2>1 DEF Asks, Adding, AddPc
    <2>5. PutOK(t)'
      <3>1. CASE op' = op
        <4>1. CallMoves(t)  BY <3>1 DEF CallMoves
        <4> QED  BY <4>1, <2>2, <2>3, <1>s, PutKept
      <3>2. CASE op'[t].kind # "put" /\ op'[t].pc \notin PutPc
        BY <3>2, <2>2, <2>3, <1>s, PutKept
      <3>3. ASSUME NEW n, PutBegins(t, n) PROVE PutOK(t)'
        <4>1. op'[t].pc = "rank" /\ op'[t].kind = "put" /\ op'[t].vols = <<>>  BY <3>3 DEF PutBegins
        <4>2. Range(<<>>) = {}  BY DEF Range
        <4> QED  BY <4>1, <4>2 DEF PutOK
      <3> QED  BY <1>2, <3>1, <3>2, <3>3, AskMoves DEF DeleteBegins
    <2> QED  BY <2>2, <2>3, <2>4, <2>5, <1>f, ListedKept
  <1>3. ASSUME NEW t \in Thread, SwapStep(t) PROVE ListedOK'
    <2>1. Moves(t) /\ CallMoves(t) /\ ~Adding(t)' /\ FilesMove(t)  BY <1>3, SwapMoves
    <2>2. UNCHANGED <<created, map, mapLock, handle>>
      BY <1>3 DEF SwapStep, SwapLock, SwapRename, SwapSync, Rest
    <2>3. SameVols  BY <2>2 DEF SameVols
    <2>4. PutOK(t)'  BY <2>1, <2>2, <2>3, <1>s, PutKept
    <2> QED  BY <2>1, <2>2, <2>3, <2>4, ListedKept
  <1>4. ASSUME NEW t \in Thread, Root(t) PROVE ListedOK'
    <2>1. UNCHANGED <<created, map, mapLock, disk, op>> /\ op[t].pc = "idle"  BY <1>4 DEF Root, Rest
    <2>2. SameVols  BY <1>4, VolumesAssumption DEF Root, SameVols, Verified, Shapes, HandleFields
    <2>3. Moves(t) /\ CallMoves(t) /\ ~Adding(t)'  BY <2>1 DEF Moves, Same, CallMoves, Adding, Shapes
    <2>4. PutOK(t)'  BY <2>1, <2>2, <2>3, <1>s, PutKept
    <2> QED  BY <2>1, <2>2, <2>3, <2>4, <1>f, ListedKept
  <1>5. ASSUME NEW t \in Thread, NEW n, Find(t, n) PROVE ListedOK'
    <2>1. UNCHANGED <<created, map, mapLock, disk>>  BY <1>5 DEF Find, Rest
    <2>2. SameVols  BY <1>5, VolumesAssumption DEF Find, SameVols, Verified, H, Shapes, HandleFields
    <2>3. Moves(t) /\ op'[t].kind = "find" /\ op'[t].pc = "find"  BY <1>5, FindHandles
    <2>4. PutOK(t)'  BY <2>1, <2>2, <2>3, <1>s, PutKept
    <2>5. ~Adding(t)'  BY <2>3 DEF Adding
    <2> QED  BY <2>1, <2>2, <2>3, <2>4, <2>5, <1>f, ListedKept
  <1>6. ASSUME NEW t \in Thread, NEW v \in Volume, AddVolume(t, v) PROVE ListedOK'
    <2>1. CASE op' = op
      <3>0. op[t].pc = "idle" /\ UNCHANGED map  BY <1>6 DEF AddVolume, Call
      <3>1. /\ Moves(t) /\ UNCHANGED <<created, mapLock, disk>> /\ handle'[HandleOf[t]].vols = H(t).vols
            /\ \A h \in Handle \ {HandleOf[t]} : handle'[h] = handle[h]
            /\ handle'[HandleOf[t]].open = H(t).open
        BY <1>6, <2>1, <3>0, AddHandles
      <3>2. SameVols  BY <3>1, VolumesAssumption DEF SameVols, H
      <3>3. CallMoves(t) /\ ~Adding(t)'  BY <2>1, <3>0 DEF CallMoves, Adding
      <3>4. PutOK(t)'  BY <3>0, <3>2, <3>3, <1>s, PutKept
      <3> QED  BY <3>0, <3>1, <3>2, <3>3, <3>4, <1>f, ListedKept
    <2>2. CASE op' # op  BY <1>6, <2>2, AddListed
    <2> QED  BY <2>1, <2>2
  <1>7. ASSUME NEW t \in Thread, AddMap(t) \/ AddSync(t) PROVE ListedOK'
    <2>1. Adding(t)  BY <1>7 DEF AddMap, AddSync, Adding
    <2> QED  BY <1>7, <2>1, AddingListed
  <1>8. ASSUME NEW t \in Thread, Errs(t) PROVE ListedOK'
    <2>1. CASE Adding(t)  BY <1>8, <2>1, AddingListed
    <2>2. CASE ~Adding(t)
      <3>1. mapLock # t  BY <2>2, VolumesAssumption DEF HandlesInv, LockOK
      <3>2. Moves(t) /\ op'[t] = Idle /\ SameVols  BY <1>8, <3>1, ErrsHandles DEF SameVols
      <3>3. UNCHANGED <<created, map, mapLock, disk>>  BY <1>8, <3>1 DEF Errs
      <3>4. CallMoves(t) /\ ~Adding(t)'  BY <3>2, IdleFields DEF CallMoves, Adding
      <3>5. PutOK(t)'  BY <3>2, <3>3, <3>4, <1>s, PutKept
      <3> QED  BY <3>2, <3>3, <3>4, <3>5, <1>f, ListedKept
    <2> QED  BY <2>1, <2>2
  <1>9. ASSUME NEW t \in Thread, ThreadStep(t) PROVE ListedOK'
    BY <1>1, <1>2, <1>3, <1>4, <1>5, <1>6, <1>7, <1>8, <1>9 DEF ThreadStep
  <1>10. ASSUME \/ (\E v \in Volume : Fill(v)) \/ UNCHANGED volumeVars
                \/ \E v \in Volume, what \in {"own", "none", "other"} : Remount(v, what)
         PROVE  ListedOK'
    <2>1. UNCHANGED <<disk, created, map, handle, mapLock, op>>  BY <1>10 DEF Fill, volumeVars, Remount
    <2>2. \A v : Held(v)' = Held(v)  BY <2>1 DEF Held
    <2> QED  BY <2>1, <2>2, Zenon DEF ListedOK, FilesOK, MapOK, PutOK, AddOK, Adding, Added, Before
  <1> QED  BY <1>9, <1>10, Steps, RestartListed

\* What the other calls and the deleted names are due, when thread t moves.
LEMMA CallsKept ==
  ASSUME NEW t \in Thread, Moves(t), UNCHANGED at, GoneOK, \A u \in Thread : DeleteOK(u),
         \A v \in Volume : \A m \in disk'[v].files : m \in disk[v].files \/ Putting(t, m)
  PROVE  /\ \A u \in Thread \ {t} :
              (\A n : op[u].kind = "delete" /\ op[u].name = n /\ ~op'[u].raced /\ Putting(t, n)' => Putting(t, n)) => DeleteOK(u)'
         /\ \A n \in gone : (Putting(t, n)' => Putting(t, n)) => Clean(n)'
  <1>1. \A u \in Thread \ {t} : \A n : Putting(u, n)' = Putting(u, n)
    BY DEF Moves, Same, Putting
  <1>2. ASSUME NEW n \in gone, Putting(t, n)' => Putting(t, n) PROVE Clean(n)'
    BY <1>1, <1>2 DEF GoneOK, Clean
  <1>3. ASSUME NEW u \in Thread \ {t},
               \A n : op[u].kind = "delete" /\ op[u].name = n /\ ~op'[u].raced /\ Putting(t, n)' => Putting(t, n)
        PROVE  DeleteOK(u)'
    <2>1. DeleteOK(u)  OBVIOUS
    <2>2. Same(op'[u], op[u])  BY DEF Moves
    <2>3. PICK n, todo, pc : n = op[u].name /\ todo = op[u].todo /\ pc = op[u].pc  BY Zenon
    <2>4. op'[u].name = n /\ op'[u].todo = todo /\ op'[u].pc = pc /\ op'[u].kind = op[u].kind /\ (op[u].raced => op'[u].raced)
      BY <2>2, <2>3 DEF Same
    <2>5. ASSUME pc \in {"delete", "unlinked"}, ~op'[u].raced
          PROVE  /\ \A w \in Thread : ~Putting(w, n)'
                 /\ \A v \in Volume : n \in disk'[v].files => v \in Range(IF pc = "delete" THEN todo ELSE Tail(todo))
      <3>1. /\ op[u].kind = "delete" /\ \A w \in Thread : ~Putting(w, n)
            /\ \A v \in Volume : n \in disk[v].files => v \in Range(IF pc = "delete" THEN todo ELSE Tail(todo))
        BY <2>1, <2>3, <2>4, <2>5 DEF DeleteOK
      <3> QED  BY <3>1, <1>1, <1>3, <2>3, <2>5
    <2>6. pc \in {"delete", "unlinked"} =>
            op[u].kind = "delete" /\ todo \in Seq(Volume) /\ todo # <<>> /\ \A v \in Range(todo) : at[v] = "own"
      BY <2>1, <2>3, Zenon DEF DeleteOK
    <2> QED  BY <2>4, <2>5, <2>6 DEF DeleteOK
  <1> QED  BY <1>2, <1>3

\* The same, for a thread that begins no Put.
LEMMA CallsStay ==
  ASSUME NEW t \in Thread, Moves(t), UNCHANGED at, DeleteInv, FilesMove(t),
         op'[t] = Idle \/ op'[t].kind # "put" \/ (CallMoves(t) /\ op[t].pc # "idle") \/ op'[t] = op[t]
  PROVE  /\ \A u \in Thread \ {t} : DeleteOK(u)'
         /\ \A n \in gone : Clean(n)'
  <1>1. \A v \in Volume : \A m \in disk'[v].files : m \in disk[v].files \/ Putting(t, m)
    BY Zenon DEF FilesMove, DeleteInv, ListedOK, PutOK, PutPc, Putting
  <1>2. \A n : Putting(t, n)' => Putting(t, n)
    <2>1. CASE op'[t] = Idle  BY <2>1, IdleFields DEF Putting
    <2>2. CASE op'[t].kind # "put"  BY <2>2 DEF Putting
    <2>3. CASE op'[t] # Idle /\ CallMoves(t) /\ op[t].pc # "idle"  BY <2>3, Zenon DEF Putting, CallMoves
    <2>4. CASE op'[t] = op[t]  BY <2>4 DEF Putting
    <2> QED  BY Zenon, <2>1, <2>2, <2>3, <2>4
  <1>3. GoneOK /\ \A u \in Thread : DeleteOK(u)  BY DEF DeleteInv
  <1> QED  BY ONLY <1>1, <1>2, <1>3, t \in Thread, Moves(t), UNCHANGED at, CallsKept, Zenon

\* A Delete that goes on to its next volume, or returns after its last.
LEMMA NextDelete ==
  ASSUME Shapes, NEW t \in Thread, DeleteOK(t), op[t].pc \in {"delete", "unlinked"}, DeleteNext(t), UNCHANGED at,
         ~op[t].raced => \A v \in Volume : op[t].name \in disk'[v].files => v \in Range(Tail(op[t].todo)),
         \A n : n = op[t].name /\ ~op[t].raced => \A u \in Thread \ {t} : ~Putting(u, n)'
  PROVE  DeleteOK(t)' /\ \A n \in gone' : n \in gone \/ Clean(n)'
  <1>1. PICK n, todo : n = op[t].name /\ todo = op[t].todo  OBVIOUS
  <1>2. /\ op[t].kind = "delete" /\ todo \in Seq(Volume) /\ todo # <<>> /\ \A v \in Range(todo) : at[v] = "own"
    BY <1>1 DEF DeleteOK
  <1>3. Len(todo) \in Nat /\ Len(todo) > 0 /\ Tail(todo) \in Seq(Volume) /\ Len(Tail(todo)) = Len(todo) - 1
        /\ \A i \in 1 .. Len(todo) - 1 : Tail(todo)[i] = todo[i + 1]
    BY <1>2
  <1>4. CASE Len(todo) = 1
    <2>1. op'[t] = Idle /\ (gone' = IF ~op[t].raced THEN gone \cup {n} ELSE gone)
      BY <1>1, <1>4 DEF DeleteNext, Return, Shapes
    <2>2. Range(Tail(todo)) = {}
      <3>1. PICK tail : tail = Tail(todo)  BY Zenon
      <3>2. tail \in Seq(Volume) /\ Len(tail) = 0  BY <3>1, <1>3, <1>4
      <3>3. DOMAIN tail = {}  BY <3>2
      <3> QED  BY <3>1, <3>3 DEF Range
    <2>3. ~Putting(t, n)' /\ DeleteOK(t)'  BY <2>1, IdleFields DEF Putting, DeleteOK
    <2>4. ASSUME ~op[t].raced PROVE Clean(n)'
      <3>1. \A v \in Volume : n \notin disk'[v].files  BY <2>4, <1>1, <2>2
      <3>2. \A u \in Thread : ~Putting(u, n)'  BY <2>4, <1>1, <2>3
      <3> QED  BY <3>1, <3>2 DEF Clean
    <2> QED  BY <2>1, <2>3, <2>4
  <1>5. CASE Len(todo) # 1
    <2>1. op'[t] = [op[t] EXCEPT !.todo = Tail(todo), !.pc = "delete"] /\ gone' = gone
      BY <1>1, <1>5 DEF DeleteNext, Step, Shapes
    <2>2. DOMAIN op[t] = OpFields  BY DEF Shapes
    <2>3. op'[t].pc = "delete" /\ op'[t].todo = Tail(todo) /\ op'[t].name = n /\ op'[t].kind = "delete" /\ op'[t].raced = op[t].raced
      BY <2>1, <2>2, <1>1, <1>2 DEF OpFields
    <2>4. Tail(todo) # <<>>
      <3>1. PICK tail : tail = Tail(todo)  BY Zenon
      <3>2. PICK l, k : l = Len(todo) /\ k = Len(tail)  BY Zenon
      <3>3. l \in Nat /\ l > 0 /\ k = l - 1 /\ l # 1  BY ONLY <3>1, <3>2, <1>3, <1>5
      <3>4. k # 0  BY ONLY <3>3
      <3>5. Len(tail) # 0 /\ Len(<<>>) = 0  BY <3>2, <3>4
      <3> QED  BY ONLY <3>1, <3>5, Zenon
    <2>5. \A v \in Range(Tail(todo)) : at'[v] = "own"
      <3>1. PICK tail : tail = Tail(todo)  BY Zenon
      <3>2. tail \in Seq(Volume) /\ Len(tail) = Len(todo) - 1 /\ \A i \in 1 .. Len(todo) - 1 : tail[i] = todo[i + 1]
        BY <1>3, <3>1
      <3>3. \A i \in DOMAIN tail : i + 1 \in DOMAIN todo /\ tail[i] = todo[i + 1]  BY <3>2, <1>2, <1>3
      <3>4. \A i \in DOMAIN tail : tail[i] \in Range(todo)  BY <3>3 DEF Range
      <3>5. \A v \in Range(tail) : v \in Range(todo)  BY <3>4 DEF Range
      <3> QED  BY <3>1, <3>5, <1>2
    <2>6. ~Putting(t, n)'  BY <2>3 DEF Putting
    <2>7. DeleteOK(t)'  BY <1>1, <1>3, <2>3, <2>4, <2>5, <2>6, Zenon DEF DeleteOK
    <2> QED  BY <2>1, <2>7
  <1> QED  BY <1>4, <1>5

\* A Delete under way visits each volume that has its object.
LEMMA DeletesStep ==
  ASSUME Shapes, DeleteInv, NEW t \in Thread, DeleteStep(t) \/ DeleteSync(t)
  PROVE  GoneOK' /\ \A u \in Thread : DeleteOK(u)'
  <1>1. WorkStep(t)  BY DEF WorkStep
  <1>2. Works(t)  BY <1>1, WorkWorks
  <1>3. FilesMove(t) /\ CallMoves(t)
    <2>1. ~PutRank(t)  BY Zenon DEF PutRank, DeleteStep, DeleteSync
    <2> QED  BY <1>1, <2>1, WorkMoves
  <1>4. Moves(t) /\ UNCHANGED at /\ op[t].pc \in {"delete", "unlinked"}  BY <1>2 DEF Works, DeleteStep, DeleteSync
  <1>5. (\A u \in Thread \ {t} : DeleteOK(u)') /\ \A n \in gone : Clean(n)'
    BY ONLY <1>3, <1>4, CallsStay, DeleteInv, t \in Thread
  <1>6. PICK n, todo, v : n = op[t].name /\ todo = op[t].todo /\ v = Head(op[t].todo)  OBVIOUS
  <1>7. DeleteOK(t)  BY DEF DeleteInv
  <1>8. todo \in Seq(Volume) /\ todo # <<>> /\ \A w \in Range(todo) : at[w] = "own"
    BY <1>4, <1>6, <1>7 DEF DeleteOK
  <1>9. v \in Volume /\ v \in Range(todo) /\ Range(todo) = {v} \cup Range(Tail(todo))
    <2>1. PICK tail : tail = Tail(todo)  BY Zenon
    <2>2. /\ Len(todo) \in Nat /\ Len(todo) > 0 /\ v = todo[1] /\ tail \in Seq(Volume) /\ Len(tail) = Len(todo) - 1
          /\ \A i \in 1 .. Len(todo) - 1 : tail[i] = todo[i + 1]
      BY <2>1, <1>6, <1>8
    <2>3. DOMAIN todo = 1 .. Len(todo) /\ DOMAIN tail = 1 .. Len(todo) - 1  BY <2>2, <1>8
    <2>4. ASSUME NEW w \in Range(tail) PROVE w \in Range(todo)
      <3>1. PICK i \in 1 .. Len(todo) - 1 : tail[i] = w  BY <2>3, <2>4 DEF Range
      <3>2. i + 1 \in 1 .. Len(todo) /\ todo[i + 1] = w  BY <3>1, <2>2
      <3> QED  BY <3>2, <2>3 DEF Range
    <2>5. ASSUME NEW w \in Range(todo), w # v PROVE w \in Range(tail)
      <3>1. PICK i \in 1 .. Len(todo) : todo[i] = w  BY <2>3, <2>5 DEF Range
      <3>2. i - 1 \in 1 .. Len(todo) - 1 /\ tail[i - 1] = todo[i]  BY <3>1, <2>2, <2>5
      <3> QED  BY <3>1, <3>2, <2>3 DEF Range
    <2>6. v \in Range(todo)  BY <2>2, <2>3 DEF Range
    <2>7. v \in Volume  BY <2>2, <1>8
    <2> QED  BY <2>1, <2>4, <2>5, <2>6, <2>7
  <1>10. at[v] = "own"  BY <1>8, <1>9
  <1>11. ASSUME ~op[t].raced
         PROVE  /\ \A u \in Thread : ~Putting(u, n)
                /\ \A w \in Volume : n \in disk[w].files => w \in Range(IF op[t].pc = "delete" THEN todo ELSE Tail(todo))
    BY <1>4, <1>6, <1>7, <1>11 DEF DeleteOK
  <1>12. ~op[t].raced => \A u \in Thread \ {t} : ~Putting(u, n)'
    BY <1>4, <1>11 DEF Moves, Same, Putting
  <1>13. \A w \in Volume : n \in disk'[w].files => n \in disk[w].files
    BY <1>3, <1>4, Zenon DEF FilesMove
  <1>14. ASSUME DeleteNext(t), ~op[t].raced => \A w \in Volume : n \in disk'[w].files => w \in Range(Tail(todo))
         PROVE  GoneOK' /\ DeleteOK(t)'
    <2>1. DeleteOK(t)' /\ \A m \in gone' : m \in gone \/ Clean(m)'
      BY ONLY <1>4, <1>6, <1>7, <1>12, <1>14, t \in Thread, Shapes, NextDelete
    <2> QED  BY <2>1, <1>5 DEF GoneOK
  <1>15. CASE DeleteStep(t) /\ n \in Files(v)
    <2>1. /\ disk' = [disk EXCEPT ![v] = [disk[v] EXCEPT !.files = @ \ {n}]] /\ gone' = gone
          /\ op' = [op EXCEPT ![t] = [op[t] EXCEPT !.pc = "unlinked"]] /\ op[t].pc = "delete"
      BY <1>15, <1>6, <1>10 DEF DeleteStep, On, Unlink, Step
    <2>2. n \notin disk'[v].files  BY <2>1, <1>9 DEF Shapes, DiskFields
    <2>3. DOMAIN op[t] = OpFields  BY DEF Shapes
    <2>4. op'[t].pc = "unlinked" /\ op'[t].todo = todo /\ op'[t].name = n /\ op'[t].kind = op[t].kind /\ op'[t].raced = op[t].raced
      BY <2>1, <2>3, <1>6 DEF Shapes, OpFields
    <2>5. op[t].kind = "delete"  BY <1>4, <1>7, Zenon DEF DeleteOK
    <2>6. ~Putting(t, n)'  BY <2>4, <2>5 DEF Putting
    <2>7. ASSUME ~op[t].raced, NEW w \in Volume, n \in disk'[w].files PROVE w \in Range(Tail(todo))
      <3>1. w \in Range(todo) /\ w # v  BY <2>1, <2>2, <2>7, <1>11, <1>13
      <3> QED  BY <3>1, <1>9
    <2>8. DeleteOK(t)'
      BY <1>4, <1>8, <1>12, <2>4, <2>5, <2>6, <2>7, Zenon DEF DeleteOK
    <2>9. GoneOK'  BY <1>5, <2>1 DEF GoneOK
    <2> QED  BY <1>5, <2>8, <2>9
  <1>16. CASE DeleteStep(t) /\ n \notin Files(v)
    <2>1. DeleteNext(t) /\ UNCHANGED disk /\ op[t].pc = "delete"  BY <1>16, <1>6 DEF DeleteStep
    <2>2. n \notin disk[v].files  BY <1>16, <1>10 DEF Files
    <2>3. ~op[t].raced => \A w \in Volume : n \in disk'[w].files => w \in Range(Tail(todo))
      BY <2>1, <2>2, <1>9, <1>11
    <2> QED  BY <2>1, <2>3, <1>5, <1>14, Zenon
  <1>17. CASE DeleteSync(t)
    <2>1. DeleteNext(t) /\ op[t].pc = "unlinked"  BY <1>17 DEF DeleteSync
    <2>2. ~op[t].raced => \A w \in Volume : n \in disk'[w].files => w \in Range(Tail(todo))
      BY <2>1, <1>11, <1>13
    <2> QED  BY <2>1, <2>2, <1>5, <1>14
  <1> QED  BY <1>15, <1>16, <1>17

\* A Put or a Delete begins.
LEMMA AskDeletes ==
  ASSUME Shapes, HandlesInv, HandlesInv', DeleteInv, NEW t \in Thread, AskStep(t)
  PROVE  GoneOK' /\ \A u \in Thread : DeleteOK(u)'
  <1>1. Asks(t)  BY AskAsks
  <1>2. Moves(t) /\ UNCHANGED at /\ op[t].pc = "idle" /\ H(t).open /\ UNCHANGED disk
    BY <1>1, Zenon DEF Asks, AskStep, Put, Delete, List, SwapRoot
  <1>3. FilesMove(t) /\ \A v \in Volume : \A m \in disk'[v].files : m \in disk[v].files \/ Putting(t, m)
    BY <1>2 DEF FilesMove
  <1>4. GoneOK /\ \A u \in Thread : DeleteOK(u)  BY DEF DeleteInv
  <1>5. ASSUME op'[t] = op[t] \/ op'[t].kind # "put"
        PROVE  (\A u \in Thread \ {t} : DeleteOK(u)') /\ \A n \in gone : Clean(n)'
    BY ONLY <1>2, <1>3, <1>5, CallsStay, DeleteInv, t \in Thread
  <1>6. CASE op' = op /\ gone' \subseteq gone
    <2>1. DeleteOK(t)'  BY <1>2, <1>6 DEF DeleteOK
    <2> QED  BY <2>1, <1>5, <1>6 DEF GoneOK
  <1>7. CASE op'[t].pc \in {"list", "lock"} /\ op'[t].kind \in {"list", "swap"} /\ gone' = gone
    <2>1. DeleteOK(t)'  BY <1>7 DEF DeleteOK
    <2> QED  BY <2>1, <1>5, <1>7 DEF GoneOK
  <1>8. ASSUME NEW n \in Name, PutBegins(t, n) PROVE GoneOK' /\ \A u \in Thread : DeleteOK(u)'
    <2>1. /\ op'[t].pc = "rank" /\ op'[t].name = n /\ gone' = gone \ {n}
          /\ \A u \in Thread \ {t} : op[u].kind = "delete" /\ op[u].name = n => op'[u].raced
      BY <1>8 DEF PutBegins
    <2>2. \A m : Putting(t, m)' => m = n  BY <2>1 DEF Putting
    <2>3. \A u \in Thread \ {t} :
            \A m : op[u].kind = "delete" /\ op[u].name = m /\ ~op'[u].raced /\ Putting(t, m)' => Putting(t, m)
      BY <2>1, <2>2
    <2>4. /\ \A u \in Thread \ {t} : DeleteOK(u)'
          /\ \A m \in gone : (Putting(t, m)' => Putting(t, m)) => Clean(m)'
      BY ONLY <1>2, <1>3, <1>4, <2>3, CallsKept, t \in Thread, Zenon
    <2>5. DeleteOK(t)'  BY <2>1, Zenon DEF DeleteOK
    <2>6. GoneOK'  BY <2>1, <2>2, <2>4 DEF GoneOK
    <2> QED  BY <2>4, <2>5, <2>6
  <1>9. ASSUME NEW n \in Name, DeleteBegins(t, n) PROVE GoneOK' /\ \A u \in Thread : DeleteOK(u)'
    <2>h. HandleOf[t] \in Handle  BY VolumesAssumption
    <2>1. /\ op'[t].pc = "delete" /\ op'[t].kind = "delete" /\ op'[t].name = n /\ op'[t].todo = H(t).vols /\ gone' = gone
          /\ ~op'[t].raced => \A u \in Thread : ~(op[u].kind = "put" /\ op[u].name = n)
      BY <1>9 DEF DeleteBegins
    <2>2. Vols(H(t).vols)  BY <1>2, <2>h DEF HandlesInv, HandleOK, H
    <2>3. H(t).vols \in Seq(Volume) /\ H(t).vols # <<>>  BY <2>2 DEF Vols
    <2>4. \A v \in Range(H(t).vols) : at'[v] = "own"
      <3>1. Busy(HandleOf[t])'  BY <2>1 DEF Busy
      <3>2. handle'[HandleOf[t]].vols = H(t).vols
        BY <1>1, <2>h DEF Asks, Verified, H, Shapes, HandleFields
      <3> QED  BY <3>1, <3>2, <2>h, Zenon DEF HandlesInv, HandleOK
    <2>5. \A v \in Volume : n \in disk'[v].files => v \in Range(H(t).vols)
      BY <1>2, <2>h DEF DeleteInv, ListedOK, FilesOK, Held, H
    <2>6. ASSUME ~op'[t].raced PROVE \A u \in Thread : ~Putting(u, n)'
      <3>1. \A u \in Thread : ~(op[u].kind = "put" /\ op[u].name = n)  BY <2>1, <2>6
      <3>2. \A u \in Thread \ {t} : op'[u].kind = op[u].kind /\ op'[u].name = op[u].name  BY <1>2 DEF Moves, Same
      <3>3. op'[t].kind = "delete"  BY <2>1
      <3> QED  BY ONLY <3>1, <3>2, <3>3 DEF Putting
    <2>7. DeleteOK(t)'  BY <2>1, <2>3, <2>4, <2>5, <2>6, Zenon DEF DeleteOK
    <2> QED  BY <2>1, <2>7, <1>5 DEF GoneOK
  <1> QED  BY <1>6, <1>7, <1>8, <1>9, AskMoves

\* Every step keeps what deleted objects are due.
LEMMA DeleteKept ==
  ASSUME UnmountsIdle, OneHandle, Shapes, HandlesInv, DeleteInv, [VolumesNext]_volumeVars
  PROVE  DeleteInv'
  <1>l. ListedOK'  BY ListedStep DEF DeleteInv
  <1>i. HandlesInv'  BY HandlesStep
  <1>f. ASSUME UNCHANGED disk, NEW t \in Thread PROVE FilesMove(t)  BY <1>f DEF FilesMove
  <1>g. ASSUME NEW t \in Thread, Moves(t), UNCHANGED <<at, gone>>, FilesMove(t), op'[t].pc \notin {"delete", "unlinked"},
               op'[t] = Idle \/ op'[t].kind # "put" \/ (CallMoves(t) /\ op[t].pc # "idle") \/ op'[t] = op[t]
        PROVE  DeleteInv'
    <2>1. (\A u \in Thread \ {t} : DeleteOK(u)') /\ \A n \in gone : Clean(n)'
      BY ONLY <1>g, CallsStay, DeleteInv
    <2>2. DeleteOK(t)'  BY <1>g DEF DeleteOK
    <2> QED  BY <2>1, <2>2, <1>g, <1>l, Zenon DEF DeleteInv, GoneOK
  <1>1. ASSUME NEW t \in Thread, WorkStep(t) PROVE DeleteInv'
    <2>1. CASE DeleteStep(t) \/ DeleteSync(t)  BY <2>1, <1>l, DeletesStep DEF DeleteInv
    <2>2. CASE ~(DeleteStep(t) \/ DeleteSync(t))
      <3>1. Works(t)  BY <1>1, WorkWorks
      <3>2. FilesMove(t) /\ (CallMoves(t) \/ PutRank(t))  BY <1>1, WorkMoves
      <3>3. op[t].pc \notin {"delete", "unlinked"} /\ UNCHANGED gone
        BY <1>1, <2>2, Zenon DEF WorkStep, PutRank, PutStat, PutPlace, PutMkdir, PutMkSync, PutLink, PutSync, FindStep, ListStep, Answer
      <3>4. Moves(t) /\ UNCHANGED at /\ op[t].pc # "idle"  BY <3>1, Zenon DEF Works
      <3>5. CASE CallMoves(t)
        <4>1. op'[t].pc \notin {"delete", "unlinked"}  BY <3>3, <3>5, IdleFields DEF CallMoves
        <4> QED  BY <4>1, <3>2, <3>3, <3>4, <3>5, <1>g, Zenon
      <3>6. CASE PutRank(t)
        <4>1. PICK ranked : op' = [op EXCEPT ![t] = [op[t] EXCEPT !.pc = "stat", !.vols = ranked, !.todo = ranked]]
          BY <3>6, Zenon DEF PutRank, Step
        <4>2. DOMAIN op[t] = OpFields  BY DEF Shapes
        <4>3. op'[t].pc = "stat" /\ op'[t].kind = op[t].kind /\ op'[t].name = op[t].name
          BY <4>1, <4>2, Zenon DEF Shapes, OpFields
        <4>4. \A n : Putting(t, n)' => Putting(t, n)  BY <4>3, <3>4 DEF Putting
        <4>5. \A v \in Volume : \A m \in disk'[v].files : m \in disk[v].files \/ Putting(t, m)
          BY <3>6 DEF PutRank
        <4>6. GoneOK /\ \A u \in Thread : DeleteOK(u)  BY DEF DeleteInv
        <4>7. (\A u \in Thread \ {t} : DeleteOK(u)') /\ \A n \in gone : Clean(n)'
          BY ONLY <3>4, <4>4, <4>5, <4>6, CallsKept, t \in Thread, Zenon
        <4>8. DeleteOK(t)'  BY <4>3, Zenon DEF DeleteOK
        <4> QED  BY <4>7, <4>8, <3>3, <1>l DEF DeleteInv, GoneOK
      <3> QED  BY <3>2, <3>5, <3>6
    <2> QED  BY <2>1, <2>2
  <1>2. ASSUME NEW t \in Thread, AskStep(t) PROVE DeleteInv'
    BY <1>2, <1>i, <1>l, AskDeletes DEF DeleteInv
  <1>3. ASSUME NEW t \in Thread, SwapStep(t) PROVE DeleteInv'
    <2>1. /\ Moves(t) /\ CallMoves(t) /\ FilesMove(t)
          /\ op'[t].pc \notin {"delete", "unlinked"} /\ op[t].pc # "idle"
      BY <1>3, SwapMoves
    <2>2. UNCHANGED <<at, gone>>
      BY <1>3 DEF SwapStep, SwapLock, SwapRename, SwapSync, Rest
    <2> QED  BY <2>1, <2>2, <1>g
  <1>4. ASSUME NEW t \in Thread, Root(t) PROVE DeleteInv'
    <2>1. UNCHANGED <<at, gone, disk, op>> /\ op[t].pc = "idle"  BY <1>4 DEF Root, Rest
    <2>2. Moves(t)  BY <2>1 DEF Moves, Same, Shapes
    <2> QED  BY <2>1, <2>2, <1>f, <1>g
  <1>5. ASSUME NEW t \in Thread, NEW n, Find(t, n) PROVE DeleteInv'
    <2>1. UNCHANGED <<at, gone, disk>>  BY <1>5 DEF Find, Rest
    <2>2. Moves(t) /\ op'[t].kind = "find" /\ op'[t].pc = "find"  BY <1>5, FindHandles
    <2> QED  BY <2>1, <2>2, <1>f, <1>g
  <1>6. ASSUME NEW t \in Thread, NEW v \in Volume, AddVolume(t, v) PROVE DeleteInv'
    <2>0. op[t].pc = "idle" /\ UNCHANGED <<at, gone>>  BY <1>6 DEF AddVolume, Call
    <2>1. /\ Moves(t)
          /\ \/ UNCHANGED <<created, disk, mapLock, op>>
             \/ disk' = [disk EXCEPT ![v] = NewDisk] /\ op'[t].pc = "map" /\ op'[t].kind = "add"
      BY Zenon, <1>6, AddHandles
    <2>2. FilesMove(t)
      <3>1. NewDisk.files = {} /\ NewDisk.keptFiles = {}  BY DEF NewDisk, NoDisk
      <3>2. \A w \in Volume : disk'[w] = disk[w] \/ disk'[w] = NewDisk  BY <2>1 DEF Shapes
      <3> QED  BY <3>1, <3>2 DEF FilesMove
    <2> QED  BY <2>0, <2>1, <2>2, <1>g
  <1>7. ASSUME NEW t \in Thread, AddMap(t) PROVE DeleteInv'
    <2>1. UNCHANGED <<at, gone, disk>> /\ op[t].pc = "map"  BY <1>7 DEF AddMap
    <2>2. Moves(t) /\ op'[t] = [op[t] EXCEPT !.pc = "mapsync"]  BY <1>7, AddMapHandles
    <2>3. CallMoves(t) /\ op'[t].pc = "mapsync"
      <3>1. DOMAIN op[t] = OpFields  BY DEF Shapes
      <3> QED  BY <2>2, <3>1 DEF CallMoves, OpFields, FilePc, PutPc
    <2> QED  BY <2>1, <2>2, <2>3, <1>f, <1>g, Zenon
  <1>8. ASSUME NEW t \in Thread, AddSync(t) \/ Errs(t) PROVE DeleteInv'
    <2>1. UNCHANGED <<at, gone, disk>>  BY <1>8 DEF AddSync, Errs
    <2>2. Moves(t) /\ op'[t] = Idle  BY <1>8, AddSyncHandles, ErrsHandles
    <2> QED  BY <2>1, <2>2, <1>f, <1>g, IdleFields
  <1>9. ASSUME NEW t \in Thread, ThreadStep(t) PROVE DeleteInv'
    BY <1>1, <1>2, <1>3, <1>4, <1>5, <1>6, <1>7, <1>8, <1>9 DEF ThreadStep
  <1>10. ASSUME (\E h \in Handle : Open(h)) \/ (\E v \in Volume : Fill(v)) \/ UNCHANGED volumeVars PROVE DeleteInv'
    <2>1. UNCHANGED <<disk, at, op, gone>>  BY <1>10 DEF Open, Fill, volumeVars, Rest
    <2> QED  BY <2>1, <1>l DEF DeleteInv, GoneOK, Clean, DeleteOK, Putting
  <1>11. ASSUME NEW v \in Volume, NEW what, Remount(v, what) PROVE DeleteInv'
    <2>1. UNCHANGED <<disk, op, gone>> /\ \A t \in Thread : op[t].pc = "idle"  BY <1>11 DEF Remount
    <2> QED  BY <2>1, <1>l, Zenon DEF DeleteInv, GoneOK, Clean, DeleteOK, Putting
  <1>12. CASE Crash
    <2>1. gone' = {} /\ \A t \in Thread : op'[t].pc = "idle"  BY <1>12, CrashHandles, IdleFields DEF Crash
    <2> QED  BY <2>1, <1>l, Zenon DEF DeleteInv, GoneOK, DeleteOK
  <1> QED  BY <1>9, <1>10, <1>11, <1>12, Steps

----------------------------------------------------------------------------
(* Theorem.                                                                *)

\* Delete visits every volume, also one the object is not ranked on and one
\* added since it was stored, so once it has returned no volume has the
\* object, until it is put again or the machine crashes.
THEOREM DeletesAll ==
  ASSUME UnmountsIdle, OneHandle
  PROVE  VolumesSpec => []DeletedGone
  <1>1. VolumesInit => DeleteInv
    <2>1. ASSUME VolumesInit PROVE DeleteInv
      <3>1. gone = {} /\ created = Range(First) /\ mapLock = Nobody  BY <2>1 DEF VolumesInit
      <3>2. \A t \in Thread : op[t].pc = "idle" /\ op[t].kind = "none"  BY <2>1, IdleFields DEF VolumesInit
      <3>3. \A v \in Volume : disk[v].files = {} /\ disk[v].keptFiles = {}  BY <2>1 DEF VolumesInit, NewDisk, NoDisk
      <3>4. map.vols = First /\ map.kept = First  BY <2>1 DEF VolumesInit
      <3>5. \A h \in Handle : handle[h].vols = First /\ handle[h].open  BY <2>1, Zenon DEF VolumesInit, Closed
      <3>6. MapOK  BY <3>1, <3>4, <3>5 DEF MapOK
      <3>7. FilesOK  BY <3>3 DEF FilesOK
      <3>8. \A t \in Thread : PutOK(t) /\ AddOK(t) /\ DeleteOK(t)
        BY <3>2, Zenon DEF PutOK, AddOK, DeleteOK, Adding, PutPc
      <3> QED  BY <3>1, <3>6, <3>7, <3>8 DEF DeleteInv, ListedOK, GoneOK
    <2> QED  BY <2>1
  <1>2. Shapes /\ HandlesInv /\ DeleteInv /\ [VolumesNext]_volumeVars => DeleteInv'  BY DeleteKept
  <1>3. HandlesInv /\ DeleteInv => DeletedGone
    BY DEF HandlesInv, DeleteInv, GoneOK, Clean, DeletedGone
  <1>4. VolumesSpec => [](Shapes /\ HandlesInv)  BY HandlesAlways
  <1> QED  BY <1>1, <1>2, <1>3, <1>4, PTL DEF VolumesSpec
============================================================================
