------------------------------ MODULE Volumes ------------------------------
(***************************************************************************)
(* A store spread over several mount points                                *)
(* (src/core/blob/multivol/multivol.go), each a local store on a disk of   *)
(* its own (src/core/blob/local/local.go).  Threads of one or more open    *)
(* handles put, find, list and delete objects, swap the root and add       *)
(* volumes, a system call at a time, while volumes fill up, go missing and *)
(* the machine crashes.                                                    *)
(***************************************************************************)
EXTENDS Disk

CONSTANTS
  Thread, Handle,
  HandleOf,       \* HandleOf[t]: the open Store thread t calls
  Volume,         \* the paths volumes can be made at, by their ids
  Names,          \* Names[t]: the objects thread t puts
  First,          \* the volumes Create makes, the primary first
  Score,          \* Score[v][n]: the rendezvous hash of volume v for name n
  Limit,          \* the limit List is called with
  MaxVolumes,
  UnmountsIdle,   \* volumes go missing only between operations
  Fragile,        \* the calls in which a system call may fail, by their pc
  TrustExists,    \* a caller takes ErrExists for an object that is stored
  Mixes           \* what happens: the calls made, and how many calls, crashes,
                  \* failing system calls, unmounts and changes of free space

Nobody == "nobody"

ASSUME VolumesAssumption ==
  /\ First \in Seq(Volume) /\ First # <<>>
  /\ HandleOf \in [Thread -> Handle] /\ Nobody \notin Thread
  /\ Name \subseteq Nat \ {0}

VARIABLES
  disk,      \* disk[v]: the local store in v's directory
  created,   \* volumes whose directory holds a store
  at,        \* at[v]: what is mounted at v's path: its own store, none, another
  full,      \* volumes below their free-space floor
  map,       \* the volume map in the primary's directory, and its durable copy
  handle,    \* handle[h]: the Store in memory
  rootLock,  \* the thread with the primary's root.lock, or Nobody
  mapLock,   \* the thread with multivol.lock (and its handle's mu), or Nobody
  op,        \* op[t]: thread t's call in progress
  acked,     \* names whose Put returned success and that no Delete was called for
  gone,      \* names whose Delete returned, with no Put called for or crash since
  swapped,   \* the last version a SwapRoot returned
  panicked,  \* a nil volume was used
  mix, left  \* the calls that may be made; what is left of each bound

volumeVars == <<disk, created, at, full, map, handle, rootLock, mapLock, op, acked, gone,
                swapped, panicked, mix, left>>

Idle == [pc |-> "idle", kind |-> "none", name |-> 0, raced |-> FALSE, vols |-> <<>>, todo |-> <<>>, vol |-> First[1],
         dirs |-> <<>>, missing |-> FALSE, was |-> {}, seen |-> {}, expected |-> 0,
         version |-> 0]

Closed == [open |-> FALSE, vols |-> <<>>, lost |-> {}, readOnly |-> FALSE, known |-> {}]

-----------------------------------------------------------------------------
(* The handle: placement and verification, under s.mu.                      *)

H(t) == handle[HandleOf[t]]

\* s.mu is free for thread t: only AddVolume keeps it across system calls.
MuFree(t) == mapLock \notin {u \in Thread : HandleOf[u] = HandleOf[t]}

\* rank: volumes in the order of their scores for n, best first.
Ranked(vols, n) ==
  {s \in [1 .. Cardinality(vols) -> vols] :
     Range(s) = vols /\ \A i, j \in DOMAIN s : i < j => Score[s[i]][n] >= Score[s[j]][n]}

\* verifyLocked over vols: a volume whose directory is not the one opened
\* is lost, and the store read-only.
Verified(store, vols) ==
  LET lost == {v \in vols : at[v] # "own"}
  IN  [store EXCEPT !.lost = @ \cup lost, !.readOnly = @ \/ lost # {}]

RefusedNever(store) == FALSE
Refused(store) == store.lost # {} \/ store.readOnly

\* snapshot: verify every volume; an operation a missing one refuses
\* returns at once.
Snapshot(t, ops) ==
  LET store == Verified(H(t), Range(H(t).vols))
  IN  /\ H(t).open /\ MuFree(t)
      /\ handle' = [handle EXCEPT ![HandleOf[t]] = store]
      /\ op' = IF Refused(store) THEN op ELSE ops

\* A Put and a Delete of one name at once promise nothing of each other.
Races(k, n) == {t \in Thread : op[t].kind = k /\ op[t].name = n}

Begun(t, call, races) ==
  [u \in Thread |-> IF u = t THEN [call EXCEPT !.raced = races # {}]
                    ELSE [op[u] EXCEPT !.raced = @ \/ u \in races]]

\* A call of thread t, one of those the mix allows.
Call(t, c) ==
  /\ op[t].pc = "idle"
  /\ c \in mix.calls /\ left.calls > 0
  /\ left' = [left EXCEPT !.calls = @ - 1]

Return(t) == op' = [op EXCEPT ![t] = Idle]
Step(t, call) == op' = [op EXCEPT ![t] = call]

\* Thread t uses a volume another call has set to nil since its snapshot.
Nil(t, v) == v \in H(t).lost

Files(v) == IF at[v] = "own" THEN disk[v].files ELSE {}

Rest == <<created, at, full, map, rootLock, mapLock, swapped, panicked, mix>>

-----------------------------------------------------------------------------
(* Put                                                                      *)

Put(t, n) ==
  /\ n \in Names[t] /\ Call(t, "put")
  /\ Snapshot(t, Begun(t, [Idle EXCEPT !.pc = "rank", !.kind = "put", !.name = n], Races("delete", n)))
  /\ gone' = gone \ {n}
  /\ UNCHANGED <<disk, acked, Rest>>

PutRank(t) ==
  /\ op[t].pc = "rank" /\ MuFree(t)
  /\ \E ranked \in Ranked(Range(H(t).vols), op[t].name) :
         Step(t, [op[t] EXCEPT !.pc = "stat", !.vols = ranked, !.todo = ranked])
  /\ UNCHANGED <<disk, handle, acked, gone, left, Rest>>

Stored(t) == acked' = IF op[t].raced THEN acked ELSE acked \cup {op[t].name}
Exists(t) == IF TrustExists THEN Stored(t) ELSE UNCHANGED acked

\* Put-if-absent across volumes: any copy anywhere is ErrExists.
PutStat(t) ==
  LET v == Head(op[t].todo)
  IN  /\ op[t].pc = "stat" /\ ~Nil(t, v)
      /\ IF op[t].name \in Files(v) THEN Return(t) /\ Exists(t)
         ELSE /\ Step(t, [op[t] EXCEPT !.todo = Tail(op[t].todo), !.pc = IF Len(op[t].todo) = 1 THEN "place" ELSE "stat"])
              /\ UNCHANGED acked
      /\ UNCHANGED <<disk, handle, gone, left, Rest>>

Room(v) == at[v] # "none" /\ v \notin full

Known(store, v, d) == [store EXCEPT !.known = @ \cup {<<v, d>>}]

FirstRoomy(vols) ==
  {vols[k] : k \in {i \in DOMAIN vols : Room(vols[i]) /\ \A j \in 1 .. i - 1 : ~Room(vols[j])}}

\* The first volume with room takes the object: its body is written and
\* synced beside the objects, and ensureDir looks for its directory.
PutPlace(t) ==
  LET d == DirOf[op[t].name]
  IN  /\ op[t].pc = "place"
      /\ \/ FirstRoomy(op[t].vols) = {} /\ Return(t) /\ UNCHANGED handle
         \/ \E v \in FirstRoomy(op[t].vols) :
              LET dirs == IF <<v, d>> \in H(t).known THEN <<>> ELSE Missing(disk[v], d)
              IN  /\ ~Nil(t, v)
                  /\ Step(t, [op[t] EXCEPT !.vol = v, !.dirs = dirs, !.pc = IF dirs = <<>> THEN "link" ELSE "mkdir"])
                  /\ handle' = IF dirs = <<>> THEN [handle EXCEPT ![HandleOf[t]] = Known(@, v, d)] ELSE handle
      /\ UNCHANGED <<disk, acked, gone, left, Rest>>

\* A system call on volume v: its own disk, or one that is not there.
On(v, changed) == disk' = IF at[v] = "own" THEN [disk EXCEPT ![v] = changed] ELSE disk

PutMkdir(t) ==
  LET v == op[t].vol
  IN  /\ op[t].pc = "mkdir" /\ at[v] # "none"
      /\ On(v, Mkdir(disk[v], Head(op[t].dirs)))
      /\ Step(t, [op[t] EXCEPT !.pc = "mksync"])
      /\ UNCHANGED <<handle, acked, gone, left, Rest>>

\* The new directory's entry is in the directory above it.
SyncMadeSelf(store, d) == SyncDir(store, d)
SyncMade(store, d)     == SyncDir(store, Parent[d])

PutMkSync(t) ==
  LET v == op[t].vol
      last == Len(op[t].dirs) = 1
  IN  /\ op[t].pc = "mksync" /\ at[v] # "none"
      /\ On(v, SyncMade(disk[v], Head(op[t].dirs)))
      /\ Step(t, [op[t] EXCEPT !.pc = IF last THEN "link" ELSE "mkdir", !.dirs = Tail(op[t].dirs)])
      /\ handle' = IF last THEN [handle EXCEPT ![HandleOf[t]] = Known(@, v, DirOf[op[t].name])]
                   ELSE handle
      /\ UNCHANGED <<acked, gone, left, Rest>>

\* link(2) refuses a name that is there.
PutLink(t) ==
  LET v == op[t].vol
      n == op[t].name
  IN  /\ op[t].pc = "link" /\ at[v] # "none"
      /\ IF n \in Files(v) THEN Return(t) /\ Exists(t) /\ UNCHANGED disk
         ELSE Step(t, [op[t] EXCEPT !.pc = "sync"]) /\ On(v, Link(disk[v], n)) /\ UNCHANGED acked
      /\ UNCHANGED <<handle, gone, left, Rest>>

PutSync(t) ==
  LET v == op[t].vol
      n == op[t].name
  IN  /\ op[t].pc = "sync" /\ at[v] # "none"
      /\ On(v, SyncDir(disk[v], DirOf[n]))
      /\ Stored(t)
      /\ Return(t)
      /\ UNCHANGED <<handle, gone, left, Rest>>

-----------------------------------------------------------------------------
(* Get and Stat, List, Delete                                               *)

Best(vols, n) == {v \in vols : \A w \in vols : Score[v][n] >= Score[w][n]}

\* find: the volumes still there, in rendezvous order; each is asked until
\* one has the object.
PresentBest(store, n) == Best(Range(store.vols), n) \ store.lost
Present(store, n)     == Range(store.vols) \ store.lost

Find(t, n) ==
  LET store == Verified(H(t), Range(H(t).vols))
  IN  /\ Call(t, "find")
      /\ H(t).open /\ MuFree(t)
      /\ handle' = [handle EXCEPT ![HandleOf[t]] = store]
      /\ \E todo \in Ranked(Present(store, n), n) :
           op' = Begun(t, [Idle EXCEPT !.pc = "find", !.kind = "find", !.name = n, !.was = acked \cap {n},
                                       !.missing = store.lost # {}, !.todo = todo], {})
      /\ UNCHANGED <<disk, acked, gone, Rest>>

\* The object is served, or the next volume is asked.
FindStep(t) ==
  /\ op[t].pc = "find" /\ op[t].todo # <<>>
  /\ IF op[t].name \in Files(Head(op[t].todo)) THEN Return(t)
     ELSE Step(t, [op[t] EXCEPT !.todo = Tail(op[t].todo)])
  /\ UNCHANGED <<disk, handle, acked, gone, left, Rest>>

\* find is about to answer ErrNotFound; with a volume missing it answers
\* ErrVolumeMissing instead.
SaysNotFound(t) == op[t].pc = "find" /\ op[t].todo = <<>> /\ ~op[t].missing

List(t, after) ==
  /\ Call(t, "list")
  /\ Snapshot(t, Begun(t, [Idle EXCEPT !.pc = "list", !.kind = "list", !.name = after, !.was = acked, !.todo = H(t).vols], {}))
  /\ UNCHANGED <<disk, acked, gone, Rest>>

ListStep(t) ==
  LET v == Head(op[t].todo)
  IN  /\ op[t].pc = "list" /\ op[t].todo # <<>> /\ ~Nil(t, v)
      /\ Step(t, [op[t] EXCEPT !.todo = Tail(op[t].todo),
                  !.seen = op[t].seen \cup FirstNames(Files(v), op[t].name, Limit)])
      /\ UNCHANGED <<disk, handle, acked, gone, left, Rest>>

\* What List returns: the union, in order, cut at the limit.
Listed(t) == FirstNames(op[t].seen, op[t].name, Limit)

\* The answer of a find or a List reaches its caller.
Answer(t) ==
  /\ op[t].pc \in {"find", "list"} /\ op[t].todo = <<>>
  /\ Return(t)
  /\ UNCHANGED <<disk, handle, acked, gone, left, Rest>>

DeletesBest(store, n) == SelectSeq(store.vols, LAMBDA v : v \in Best(Range(store.vols), n))
Deletes(store, n)     == store.vols

Delete(t, n) ==
  LET races == Races("put", n)
      ops == Begun(t, [Idle EXCEPT !.pc = "delete", !.kind = "delete", !.name = n, !.todo = Deletes(H(t), n)], races)
  IN  /\ Call(t, "delete")
      /\ Snapshot(t, [u \in Thread |-> [ops[u] EXCEPT !.was = @ \ {n}]])
      /\ acked' = acked \ {n}
      /\ UNCHANGED <<disk, gone, Rest>>

\* Delete goes on with the next volume, or returns.
DeleteNext(t) ==
  LET last == Len(op[t].todo) = 1
  IN  /\ IF last THEN Return(t) ELSE Step(t, [op[t] EXCEPT !.todo = Tail(op[t].todo), !.pc = "delete"])
      /\ gone' = IF last /\ ~op[t].raced THEN gone \cup {op[t].name} ELSE gone

\* One volume after another: a file that is there is removed and its
\* directory synced.
DeleteStep(t) ==
  LET v == Head(op[t].todo)
  IN  /\ op[t].pc = "delete" /\ ~Nil(t, v)
      /\ IF op[t].name \in Files(v)
         THEN On(v, Unlink(disk[v], op[t].name)) /\ Step(t, [op[t] EXCEPT !.pc = "unlinked"]) /\ UNCHANGED gone
         ELSE DeleteNext(t) /\ UNCHANGED disk
      /\ UNCHANGED <<handle, acked, left, Rest>>

DeleteSync(t) ==
  LET v == Head(op[t].todo)
  IN  /\ op[t].pc = "unlinked" /\ at[v] # "none"
      /\ On(v, SyncDir(disk[v], DirOf[op[t].name]))
      /\ DeleteNext(t)
      /\ UNCHANGED <<handle, acked, left, Rest>>

-----------------------------------------------------------------------------
(* The root, in the primary volume                                          *)

Primary == First[1]

\* SwapRoot, from a version the caller has read to a root that names every
\* object it knows is stored.
SwapRoot(t, expected) ==
  /\ Call(t, "swap")
  /\ Snapshot(t, Begun(t, [Idle EXCEPT !.pc = "lock", !.kind = "swap", !.expected = expected, !.was = acked], {}))
  /\ UNCHANGED <<disk, acked, gone, Rest>>

RootFreeAlways == TRUE
RootFree       == rootLock = Nobody

\* The lock file is taken, the root read and compared; the new one is
\* written beside it under a fresh version.
SwapLock(t) ==
  /\ op[t].pc = "lock" /\ at[Primary] # "none" /\ ~Nil(t, Primary)
  /\ RootFree
  /\ IF disk[Primary].root.version # op[t].expected THEN Return(t) /\ UNCHANGED rootLock
     ELSE Step(t, [op[t] EXCEPT !.pc = "rename"]) /\ rootLock' = t
  /\ UNCHANGED <<disk, created, at, full, map, handle, mapLock, acked, gone, swapped, panicked, mix, left>>

\* Versions are random: none was ever handed out before.
SwapRename(t) ==
  /\ op[t].pc = "rename" /\ at[Primary] # "none"
  /\ Step(t, [op[t] EXCEPT !.pc = "rootsync", !.version = left.version + 1])
  /\ On(Primary, Rename(disk[Primary], [version |-> left.version + 1, from |-> op[t].expected,
                                        names |-> op[t].was]))
  /\ left' = [left EXCEPT !.version = @ + 1]
  /\ UNCHANGED <<handle, acked, gone, Rest>>

SwapSync(t) ==
  /\ op[t].pc = "rootsync" /\ at[Primary] # "none"
  /\ On(Primary, SyncRoot(disk[Primary]))
  /\ swapped' = op[t].version
  /\ rootLock' = IF rootLock = t THEN Nobody ELSE rootLock
  /\ Return(t)
  /\ UNCHANGED <<created, at, full, map, handle, mapLock, acked, gone, panicked, mix, left>>

\* Root reads through the primary alone, and verifies only it.
Root(t) ==
  /\ op[t].pc = "idle" /\ H(t).open /\ MuFree(t)
  /\ at[Primary] # "own" /\ Primary \notin H(t).lost
  /\ handle' = [handle EXCEPT ![HandleOf[t]] = Verified(@, {Primary})]
  /\ UNCHANGED <<disk, op, acked, gone, left, Rest>>

-----------------------------------------------------------------------------
(* Volumes are added, opened, and lost                                      *)

\* local.Create refuses a directory that is not empty.
Adds(store, v) == ~Refused(store) /\ Len(store.vols) < MaxVolumes /\ v \notin created

\* AddVolume: under multivol.lock and s.mu, verify, make the volume, and
\* list it.
AddVolume(t, v) ==
  LET store == Verified(H(t), Range(H(t).vols))
      adds == Adds(store, v)
  IN  /\ Call(t, "add")
      /\ H(t).open /\ mapLock = Nobody
      /\ handle' = [handle EXCEPT ![HandleOf[t]] = IF adds THEN [store EXCEPT !.vols = Append(@, v)] ELSE store]
      /\ IF adds
         THEN /\ created' = created \cup {v}
              /\ disk' = [disk EXCEPT ![v] = NewDisk]
              /\ mapLock' = t
              /\ op' = Begun(t, [Idle EXCEPT !.pc = "map", !.kind = "add", !.vol = v], {})
         ELSE UNCHANGED <<created, disk, mapLock, op>>
      /\ UNCHANGED <<at, full, map, rootLock, acked, gone, swapped, panicked, mix>>

\* writeMap: the map file is replaced, then its directory synced.
AddMap(t) ==
  /\ op[t].pc = "map"
  /\ map' = [map EXCEPT !.vols = H(t).vols]
  /\ Step(t, [op[t] EXCEPT !.pc = "mapsync"])
  /\ UNCHANGED <<disk, created, at, full, handle, rootLock, mapLock, acked, gone, swapped, panicked, mix, left>>

AddSync(t) ==
  /\ op[t].pc = "mapsync"
  /\ map' = [map EXCEPT !.kept = map.vols]
  /\ mapLock' = Nobody
  /\ Return(t)
  /\ UNCHANGED <<disk, created, at, full, handle, rootLock, acked, gone, swapped, panicked, mix, left>>

\* The volume thread t calls into next, if any.
FirstOf(vols) == {vols[k] : k \in DOMAIN vols \cap {1}}

Uses(t) ==
  CASE op[t].pc \in {"stat", "delete", "list"} -> FirstOf(op[t].todo)
    [] op[t].pc = "place" -> FirstRoomy(op[t].vols)
    [] op[t].pc = "lock" -> {Primary}
    [] OTHER -> {}

\* A system call fails, or a volume is nil that was not at the snapshot: the
\* call returns an error or panics, and drops its locks and the volume it
\* was adding.
Errs(t) ==
  LET unplugged == op[t].pc \in {"mkdir", "mksync", "link", "sync", "unlinked", "lock", "rename", "rootsync"}
                     /\ at[op[t].vol] = "none"
      nil == \E v \in Uses(t) : Nil(t, v)
  IN  /\ unplugged \/ nil \/ (op[t].pc \in Fragile /\ left.faults > 0)
      /\ panicked' = (panicked \/ nil)
      /\ left' = IF unplugged \/ nil THEN left ELSE [left EXCEPT !.faults = @ - 1]
      /\ Return(t)
      /\ rootLock' = IF rootLock = t THEN Nobody ELSE rootLock
      /\ mapLock' = IF mapLock = t THEN Nobody ELSE mapLock
      /\ handle' = IF mapLock = t THEN [handle EXCEPT ![HandleOf[t]].vols = SubSeq(@, 1, Len(@) - 1)] ELSE handle
      /\ UNCHANGED <<disk, created, at, full, map, acked, gone, swapped, mix>>

\* Open reads the map; a missing primary or a volume of another store is
\* refused, a missing secondary makes the store read-only.
Open(h) ==
  LET lost == {v \in Range(map.vols) : at[v] = "none"}
  IN  /\ ~handle[h].open
      /\ at[Primary] = "own" /\ \A v \in Range(map.vols) : at[v] # "other"
      /\ handle' = [handle EXCEPT ![h] = [open |-> TRUE, vols |-> map.vols, lost |-> lost,
                                          readOnly |-> lost # {}, known |-> {}]]
      /\ UNCHANGED <<disk, op, acked, gone, left, Rest>>

-----------------------------------------------------------------------------
(* The environment                                                          *)

\* A volume is unmounted, replaced by another store, or put back.
Remount(v, what) ==
  /\ v \in created /\ at[v] # what
  /\ UnmountsIdle => \A t \in Thread : op[t].pc = "idle"
  /\ what # "own" => left.unmounts > 0
  /\ left' = IF what = "own" THEN left ELSE [left EXCEPT !.unmounts = @ - 1]
  /\ at' = [at EXCEPT ![v] = what]
  /\ UNCHANGED <<disk, created, full, map, handle, rootLock, mapLock, op, acked, gone, swapped, panicked, mix>>

Fill(v) ==
  /\ left.fills > 0
  /\ left' = [left EXCEPT !.fills = @ - 1]
  /\ full' = IF v \in full THEN full \ {v} ELSE full \cup {v}
  /\ UNCHANGED <<disk, created, at, map, handle, rootLock, mapLock, op, acked, gone, swapped, panicked, mix>>

\* The machine crashes: every handle is gone, and each disk keeps what was
\* synced and any of the rest.
Crash ==
  /\ left.crashes > 0
  /\ left' = [left EXCEPT !.crashes = @ - 1]
  /\ disk' \in {d \in [Volume -> UNION {Crashed(disk[v]) : v \in Volume}] :
                  \A v \in Volume : d[v] \in Crashed(disk[v])}
  /\ \E vols \in {map.vols, map.kept} : map' = [vols |-> vols, kept |-> vols]
  /\ handle' = [h \in Handle |-> Closed]
  /\ op' = [t \in Thread |-> Idle]
  /\ rootLock' = Nobody /\ mapLock' = Nobody
  /\ gone' = {}
  /\ UNCHANGED <<created, at, full, acked, swapped, panicked, mix>>

VolumesInit ==
  /\ disk = [v \in Volume |-> IF v \in Range(First) THEN NewDisk ELSE NoDisk]
  /\ created = Range(First)
  /\ at = [v \in Volume |-> "own"]
  /\ full = {}
  /\ map = [vols |-> First, kept |-> First]
  /\ handle = [h \in Handle |-> [Closed EXCEPT !.open = TRUE, !.vols = First]]
  /\ rootLock = Nobody /\ mapLock = Nobody
  /\ op = [t \in Thread |-> Idle]
  /\ acked = {} /\ gone = {} /\ swapped = 0 /\ panicked = FALSE
  /\ mix \in Mixes
  /\ left = [calls |-> mix.n, crashes |-> mix.crashes, faults |-> mix.faults,
             unmounts |-> mix.unmounts, fills |-> mix.fills, version |-> 0]

VolumesNext ==
  \/ \E t \in Thread :
       \/ \E n \in Name : Put(t, n) \/ Find(t, n) \/ Delete(t, n)
       \/ \E after \in {0} \cup Name : List(t, after)
       \/ \E e \in {0, left.version} : SwapRoot(t, e)
       \/ \E v \in Volume : AddVolume(t, v)
       \/ PutRank(t) \/ PutStat(t) \/ PutPlace(t) \/ PutMkdir(t) \/ PutMkSync(t)
       \/ PutLink(t) \/ PutSync(t) \/ FindStep(t) \/ ListStep(t) \/ Answer(t)
       \/ DeleteStep(t) \/ DeleteSync(t) \/ SwapLock(t) \/ SwapRename(t) \/ SwapSync(t)
       \/ Root(t) \/ AddMap(t) \/ AddSync(t) \/ Errs(t)
  \/ \E h \in Handle : Open(h)
  \/ \E v \in Volume : Fill(v) \/ \E what \in {"own", "none", "other"} : Remount(v, what)
  \/ Crash

VolumesSpec == VolumesInit /\ [][VolumesNext]_volumeVars

-----------------------------------------------------------------------------
(* Properties                                                               *)

\* An object whose Put returned success stays on a volume of the map, and
\* every entry on the way to it is durable: a crash now would keep it
\* (ensureDir: "an object the root will reference cannot vanish").
PutDurable ==
  \A n \in acked : \E v \in Range(map.kept) \cap Range(map.vols) :
    \A d \in Crashed(disk[v]) : n \in d.files

\* find never answers ErrNotFound for an object stored before it began, and
\* List leaves out none that sorts into its page: not over a volume that is
\* full, added since, or missing.
FindsHonest ==
  \A t \in Thread :
    /\ SaysNotFound(t) => op[t].was = {}
    /\ op[t].pc = "list" /\ op[t].todo = <<>> => FirstNames(op[t].was \cup op[t].seen, op[t].name, Limit) = Listed(t)

\* A deleted object is on no volume, whichever of them took copies of it
\* while others were full or not added yet.  (A Delete that finds nothing
\* syncs nothing, so a crash may undo an earlier removal.)
DeletedGone == \A n \in gone, v \in created : n \notin disk[v].files

\* The root only moves from the version its swap compared with, and a swap
\* that returned is never undone, by a crash or by another.
RootChains ==
  [][LET old == disk[Primary].root
         new == disk'[Primary].root
     IN  /\ new.version > old.version => new.from = old.version
         /\ swapped <= new.version]_volumeVars

\* No operation uses a volume that another has found missing and set to nil
\* (multivol.go's package comment: a missing volume "is detected at open and
\* on every operation").  It holds while volumes go missing only between
\* operations.
NeverPanics == ~panicked
=============================================================================
