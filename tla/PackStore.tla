------------------------------ MODULE PackStore ------------------------------
(***************************************************************************)
(* The pack store (src/core/chunk/packstore/packstore.go, compact.go):     *)
(* stores that put chunks, finish them into packs, upload them, and        *)
(* publish them under the compare-and-swapped manifest, without a journal. *)
(***************************************************************************)
EXTENDS Objects

CONSTANTS
  Store,            \* open stores (processes, or handles in one process)
  Client,           \* goroutines calling a store
  Host,             \* Host[c]: the store client c calls
  Writer,           \* clients that write; the others only read
  PackCap,          \* chunks a pack holds (Options.PackSize)
  FanIn,            \* index objects a compaction needs (compactFanIn)
  MaxSwapAttempts,  \* swaps, and carries, one publish tries
  HoldAcross,       \* clients keep chunks they put across their own commits
  Faults            \* failures the environment may inject, see Fault

\* One pack of a publish not uploaded, all of them, its index object not
\* written, a finisher's upload or pack build failing, the build of a
\* publish's own pack failing, a swap that lands and reports an error.
Fault == {"part", "upload", "index", "finisher", "build", "pending", "swap"}

ASSUME HostAssumption == Host \in [Client -> Store] /\ Client # {} /\ Writer \subseteq Client

ASSUME StoreAssumption ==
  /\ {PackCap, FanIn, MaxSwapAttempts} \subseteq Nat \ {0}
  /\ HoldAcross \in BOOLEAN
  /\ Faults \subseteq Fault

VARIABLES
  st,     \* each store's session
  pub,    \* each store's publish under way, under its commitMu
  cl      \* each client

------------------------------------------------------------------------------
(* A store's index of located chunks, and taking a newer manifest.         *)

\* Packs P added to the index x: a chunk already located stays where it
\* is, and packs outside cond are added before those in it.
AddPacks(x, P, cond) ==
  [h \in Chunk |-> IF x[h] # None THEN x[h] ELSE FirstHolder(h, P, cond)]

\* The index x once the packs in new (one or none), holding chunks, are built.
AddBuilt(x, new, chunks) ==
  [h \in Chunk |-> IF x[h] = None /\ h \in chunks /\ new # {} THEN Min(new) ELSE x[h]]

Unlocated == [h \in Chunk |-> None]

\* Mutated: a collection does not make the store rebuild its index.
RefreshPlanKeep(r, m) ==
  [man |-> m, rebuild |-> FALSE, toLoad |-> IF m.seq = r.man.seq THEN {} ELSE m.indexes \ r.loaded]

\* Mutated: the objects already loaded are taken to be all there are.
RefreshPlanLoaded(r, m) ==
  LET rebuild == m.seq > r.man.seq /\ m.gcGen # r.man.gcGen
  IN  [man |-> m, rebuild |-> rebuild, toLoad |-> IF rebuild THEN m.indexes ELSE {}]

\* What a refresh of store record r decides to do about manifest m, before
\* it loads anything: nothing when r holds m, rebuild when a collection
\* expired packs, else load the objects not loaded yet.
RefreshPlan(r, m) ==
  LET rebuild == m.seq > r.man.seq /\ m.gcGen # r.man.gcGen
  IN  [man |-> m, rebuild |-> rebuild,
       toLoad |-> IF m.seq = r.man.seq THEN {}
                  ELSE IF rebuild THEN m.indexes ELSE m.indexes \ r.loaded]

\* Store record r once the loaded plan is applied to it, however far r has
\* moved since the plan was made.
RefreshApply(r, plan) ==
  LET m     == plan.man
      newer == m.seq > r.man.seq
      more  == plan.toLoad \ r.loaded
  IN  IF plan.rebuild
      THEN IF newer
           THEN [r EXCEPT
                   !.loc = AddPacks(AddPacks(Unlocated, ListedBy(m.indexes), condemnedPacks(m)),
                                    r.unpublished, {}),
                   !.loaded = m.indexes,
                   !.man = m, !.cond = condemnedPacks(m)]
           ELSE r
      ELSE [r EXCEPT
              !.loc = AddPacks(@, ListedBy(more), condemnedPacks(m)),
              !.loaded = @ \cup more,
              !.man = IF newer THEN m ELSE @,
              !.cond = IF newer THEN condemnedPacks(m) ELSE @]

refresh(r) == RefreshApply(r, RefreshPlan(r, man))

\* Every index object the plan loads is there to be loaded.
Loadable(plan) == \A i \in plan.toLoad : objs[i].has

------------------------------------------------------------------------------
(* Sessions: putting, finishing, uploading and reading chunks.             *)

\* A store as Open leaves it: the manifest in force taken, nothing put.
Opened ==
  [man |-> man, loaded |-> man.indexes,
   loc |-> AddPacks(Unlocated, ListedBy(man.indexes), condemnedPacks(man)),
   cond |-> condemnedPacks(man), \* packs on their way out (Store.condemned)
   pending |-> {},       \* chunks in the pending pack
   finishing |-> {},     \* full packs handed to a finisher, not named yet
   uploading |-> {},     \* packs a finisher has named and is uploading
   unuploaded |-> {},    \* packs whose upload failed, for the next publish
   session |-> {},       \* uploaded packs no index object lists
   sessionIdx |-> {},    \* index objects written, in no manifest yet
   unpublished |-> {},   \* packs built here that no manifest of ours lists
   deduped |-> {},       \* published chunks a put counted on
   sessGen |-> man.gcGen,\* the gcGen those counts began under
   finishErr |-> FALSE, lost |-> FALSE]

\* No publish under way (commitMu free); the other fields are its locals.
NoPublish ==
  [pc |-> "idle", client |-> CHOOSE c \in Client : TRUE,
   expected |-> InitRoot, next |-> InitRoot,
   toUpload |-> {},      \* packs this publish uploads itself
   packsDone |-> "no",   \* their upload: no, yes, failed
   index |-> None,       \* the index object it wrote, if it had packs to list
   indexDone |-> "no",   \* that write: no, yes, failed
   upd |-> InitManifest, \* the manifest it swaps in
   written |-> {}, replaced |-> {}, \* the index objects its compaction did
   carries |-> 0, attempt |-> 0]

\* A client that has read the root, put nothing and called nothing.
NoPlan   == [man |-> InitManifest, rebuild |-> FALSE, toLoad |-> {}]
NoClient == [pc |-> "idle", seen |-> InitRoot, told |-> {}, plan |-> NoPlan]

Session ==
  [man : Manifest, loaded : SUBSET IndexId, loc : [Chunk -> PackId \cup {None}],
   cond : SUBSET PackId, pending : SUBSET Chunk,
   finishing : SUBSET PackId, uploading : SUBSET PackId,
   unuploaded : SUBSET PackId, session : SUBSET PackId, sessionIdx : SUBSET IndexId,
   unpublished : SUBSET PackId, deduped : SUBSET Chunk, sessGen : Nat,
   finishErr : BOOLEAN, lost : BOOLEAN]
Done == {"no", "yes", "failed"}
Publish ==
  [pc : {"idle", "carry", "wait", "write", "attempt", "swap", "landed"}, client : Client,
   expected : Root, next : Root, toUpload : SUBSET PackId, packsDone : Done,
   index : IndexId \cup {None}, indexDone : Done, upd : Manifest,
   written : SUBSET IndexId, replaced : SUBSET IndexId,
   carries : Nat, attempt : Nat]
Plan == [man : Manifest, rebuild : BOOLEAN, toLoad : SUBSET IndexId]
Caller == [pc : {"idle", "refresh", "publish"}, seen : Root, told : SUBSET Chunk,
           plan : Plan]

\* What the stores and their clients may hold.
StoreTypeOK ==
  /\ st \in [Store -> Session]
  /\ pub \in [Store -> Publish]
  /\ cl \in [Client -> Caller]

Unfinished(r) == r.pending \cup HeldBy(r.finishing)

\* Packs whose bytes store s keeps, and packs it can read.
InMemory(s) == st[s].finishing \cup st[s].uploading \cup st[s].unuploaded
                 \cup (IF pub[s].packsDone = "no" THEN pub[s].toUpload ELSE {})
Readable(s) == {p \in PackId : packs[p].has} \cup InMemory(s)

Update(s, r) == st' = [st EXCEPT ![s] = r]

\* The pending pack of r handed to a finisher as pack p.
TakePending(r, p) == [r EXCEPT !.pending = {}, !.finishing = @ \cup {p}]
Build(p, chunks)  == packs' = [packs EXCEPT ![p].chunks = chunks]

\* A put may count on the copy located: its pack is in service.
Countable(r, h) == r.loc[h] \notin r.cond \cup {None}

\* PutPrepared of chunk h by store s whose record is r: counted on where a
\* pack in service holds it, else added to the pending pack, a full one
\* going to a finisher first.
PutPrepared(s, r, h) ==
  \/ /\ h \in Unfinished(r)
     /\ Update(s, r)
     /\ UNCHANGED packs
  \/ /\ h \notin Unfinished(r)
     /\ Countable(r, h)
     /\ Update(s, [r EXCEPT !.deduped = @ \cup {h}])
     /\ UNCHANGED packs
  \/ /\ h \notin Unfinished(r)
     /\ ~Countable(r, h)
     /\ Cardinality(r.pending) < PackCap
     /\ Update(s, [r EXCEPT !.pending = @ \cup {h}])
     /\ UNCHANGED packs
  \/ /\ h \notin Unfinished(r)
     /\ ~Countable(r, h)
     /\ Cardinality(r.pending) = PackCap
     /\ \E p \in FreshPacks :
          /\ Update(s, [TakePending(r, p) EXCEPT !.pending = {h}])
          /\ Build(p, r.pending)

Put(c, h) ==
  LET s == Host[c]
  IN  /\ cl[c].pc = "idle"
      /\ ~st[s].lost
      /\ PutPrepared(s, st[s], h)
      /\ cl' = [cl EXCEPT ![c].told = @ \cup {h}]
      /\ UNCHANGED <<now, objs, man, pub, crashes>>

\* Flush: the pending pack goes to a finisher early.
Flush(c) ==
  LET s == Host[c]
  IN  /\ cl[c].pc = "idle"
      /\ st[s].pending # {}
      /\ \E p \in FreshPacks : /\ Update(s, TakePending(st[s], p))
                               /\ Build(p, st[s].pending)
      /\ UNCHANGED <<now, objs, man, pub, cl, crashes>>

\* A finisher names pack p and makes its chunks locatable, or fails to
\* build it, which fails every later publish.
Finish(s, p) ==
  /\ p \in st[s].finishing
  /\ \/ Update(s, [st[s] EXCEPT !.finishing = @ \ {p}, !.uploading = @ \cup {p},
                                !.unpublished = @ \cup {p},
                                !.loc = AddBuilt(@, {p}, packs[p].chunks)])
     \/ /\ "build" \in Faults
        /\ Update(s, [st[s] EXCEPT !.finishing = @ \ {p}, !.finishErr = TRUE])
  /\ UNCHANGED <<now, packs, objs, man, pub, cl, crashes>>

\* A pack whose upload failed is kept for the next publish.
Requeue(r, bad) == [r EXCEPT !.unuploaded = @ \cup bad]

\* Mutated: a finisher that has uploaded its pack still counts as running.
UploadRunning(s, p) ==
  /\ p \in st[s].uploading \ st[s].session
  /\ Update(s, [st[s] EXCEPT !.session = @ \cup {p}])
  /\ packs' = [packs EXCEPT ![p].has = TRUE, ![p].at = now]
  /\ UNCHANGED <<now, objs, man, pub, cl, crashes>>

\* The finisher uploads it, or leaves it to the next publish.
Upload(s, p) ==
  /\ p \in st[s].uploading
  /\ \/ /\ Update(s, [st[s] EXCEPT !.uploading = @ \ {p}, !.session = @ \cup {p}])
        /\ packs' = [packs EXCEPT ![p].has = TRUE, ![p].at = now]
     \/ /\ "finisher" \in Faults
        /\ Update(s, Requeue([st[s] EXCEPT !.uploading = @ \ {p}], {p}))
        /\ UNCHANGED packs
  /\ UNCHANGED <<now, objs, man, pub, cl, crashes>>

\* Root, first half: the manifest in force is read and, unless the store
\* holds it, the index objects it needs are loaded.
RootRead(c) ==
  LET plan == RefreshPlan(st[Host[c]], man)
  IN  /\ cl[c].pc = "idle"
      /\ st[Host[c]].man.seq # man.seq \/ cl[c].seen # man.root
      /\ Loadable(plan)
      /\ cl' = [cl EXCEPT ![c].pc = "refresh", ![c].plan = plan]
      /\ UNCHANGED <<now, packs, objs, man, st, pub, crashes>>

\* Root, second half, under the store's lock.
RootTake(c) ==
  LET s == Host[c]
      r == RefreshApply(st[s], cl[c].plan)
  IN  /\ cl[c].pc = "refresh"
      /\ Update(s, r)
      /\ cl' = [cl EXCEPT ![c].pc = "idle", ![c].plan = NoPlan,
                          ![c].seen = r.man.root]
      /\ UNCHANGED <<now, packs, objs, man, pub, crashes>>

\* r once Get(h) has looked: unchanged when the pack located holds the
\* chunk, else refreshed, and ended when a promised chunk is gone.
Got(s, h) ==
  LET r == st[s]
      n == refresh(r)
      promised == h \in n.deduped \/ n.loc[h] \in n.unpublished
  IN  IF h \in Unfinished(r) \/ r.loc[h] \in Readable(s) THEN r
      ELSE [n EXCEPT !.lost = @ \/ (n.loc[h] \notin Readable(s) /\ promised)]

Get(c, h) ==
  LET s == Host[c]
  IN  /\ cl[c].pc = "idle"
      /\ Got(s, h) # st[s]
      /\ Loadable(RefreshPlan(st[s], man))
      /\ Update(s, Got(s, h))
      /\ UNCHANGED <<now, packs, objs, man, pub, cl, crashes>>

------------------------------------------------------------------------------
(* Publishing a root: CompareAndSetRoot, one step per wait or backend call.*)

\* The publish under way ends without having landed, as far as its client
\* is told (a conflict, an error, or the session lost).
Refuse(s) ==
  /\ pub' = [pub EXCEPT ![s] = NoPublish]
  /\ cl' = [cl EXCEPT ![pub[s].client].pc = "idle"]

\* Mutated: a root that moved is overwritten.
RootMovedUnread(r, expected) == FALSE

RootMoved(r, expected) == r.man.root # expected

\* The call: refused when the session is lost or next is nowhere stored, a
\* conflict when the root in force is not the one the client read.
CompareAndSetRoot(c, next) ==
  LET s == Host[c]
      r == refresh(st[s])
      stored == next \in Unfinished(st[s]) \/ st[s].loc[next] # None
  IN  /\ cl[c].pc = "idle"
      /\ pub[s].pc = "idle"
      /\ man.seq < MaxSeq
      /\ ~st[s].lost
      /\ stored
      /\ next # cl[c].seen
      /\ Reach[next] \subseteq cl[c].told \cup Reach[cl[c].seen]
      /\ Loadable(RefreshPlan(st[s], man))
      /\ Update(s, r)
      /\ \/ /\ RootMoved(r, cl[c].seen)
            /\ UNCHANGED <<pub, cl>>
         \/ /\ ~RootMoved(r, cl[c].seen)
            /\ cl' = [cl EXCEPT ![c].pc = "publish"]
            /\ pub' = [pub EXCEPT ![s] = [NoPublish EXCEPT !.pc = "carry",
                         !.client = c, !.expected = cl[c].seen, !.next = next]]
      /\ UNCHANGED <<now, packs, objs, man, crashes>>

\* Mutated: nothing is carried forward.
CarrySetNone(r) == {}

\* Counted chunks only a pack on its way out holds, once a collection moved.
CarrySet(r) ==
  IF r.man.gcGen = r.sessGen THEN {}
  ELSE {h \in r.deduped \ Unfinished(r) : r.loc[h] \in r.cond}

\* carryForward: one such chunk is read and put again, or found gone; when
\* none is left the publish goes on.
CarryForward(s) ==
  /\ pub[s].pc = "carry"
  /\ \/ /\ CarrySet(st[s]) = {}
        /\ pub' = [pub EXCEPT ![s].pc = "wait"]
        /\ UNCHANGED <<packs, st, cl>>
     \/ \E h \in CarrySet(st[s]) :
          LET r == Got(s, h)
          IN  \/ /\ ~r.lost
                 /\ PutPrepared(s, [r EXCEPT !.deduped = @ \ {h}], h)
                 /\ UNCHANGED <<pub, cl>>
              \/ /\ r.lost
                 /\ Update(s, r)
                 /\ Refuse(s)
                 /\ UNCHANGED packs
  /\ UNCHANGED <<now, objs, man, crashes>>

\* Every finisher has ended: the pending pack, if it holds anything, is
\* built, and it and the packs left unuploaded are this publish's to upload.
\* A pack that cannot be built is dropped, chunks and all, and only this
\* publish fails (finishPendingLocked).
CollectPacks(s) ==
  LET r == st[s]
  IN  /\ pub[s].pc = "wait"
      /\ r.finishing \cup r.uploading = {}
      /\ \/ /\ r.finishErr
            /\ Refuse(s)
            /\ UNCHANGED <<packs, st>>
         \/ /\ ~r.finishErr /\ r.pending # {} /\ "pending" \in Faults
            /\ Update(s, [r EXCEPT !.pending = {}])
            /\ Refuse(s)
            /\ UNCHANGED packs
         \/ /\ ~r.finishErr
            /\ \E new \in IF r.pending = {} THEN {{}} ELSE {{p} : p \in FreshPacks} :
                 /\ packs' = [p \in PackId |-> IF p \in new
                                 THEN [packs[p] EXCEPT !.chunks = r.pending] ELSE packs[p]]
                 /\ Update(s, [r EXCEPT !.pending = {}, !.unuploaded = {},
                                 !.unpublished = @ \cup new,
                                 !.loc = AddBuilt(@, new, r.pending)])
                 /\ pub' = [pub EXCEPT ![s].pc = "write",
                                       ![s].toUpload = r.unuploaded \cup new]
            /\ UNCHANGED cl
      /\ UNCHANGED <<now, objs, man, crashes>>

\* The publish's packs are uploaded; those that fail wait for the next
\* publish.  Packs uploaded here are not queued in the session.
UploadPacks(s) ==
  /\ pub[s].pc = "write" /\ pub[s].packsDone = "no"
  /\ \E bad \in SUBSET pub[s].toUpload :
       /\ bad = {} \/ "part" \in Faults \/ (bad = pub[s].toUpload /\ "upload" \in Faults)
       /\ packs' = [p \in PackId |-> IF p \in pub[s].toUpload \ bad
                       THEN [packs[p] EXCEPT !.has = TRUE, !.at = now] ELSE packs[p]]
       /\ Update(s, Requeue(st[s], bad))
       /\ pub' = [pub EXCEPT ![s].packsDone = IF bad = {} THEN "yes" ELSE "failed"]
  /\ UNCHANGED <<now, objs, man, cl, crashes>>

\* Beside it, one index object is written listing the session's packs and
\* the publish's.
WriteSessionIndex(s) ==
  LET listed == st[s].session \cup pub[s].toUpload
  IN  /\ pub[s].pc = "write" /\ pub[s].indexDone = "no"
      /\ \/ /\ listed = {}
            /\ pub' = [pub EXCEPT ![s].indexDone = "yes"]
            /\ UNCHANGED objs
         \/ /\ listed # {}
            /\ \E i \in FreshObjs :
                 /\ objs' = [objs EXCEPT ![i] = [packs |-> listed, at |-> now, has |-> TRUE]]
                 /\ pub' = [pub EXCEPT ![s].indexDone = "yes", ![s].index = i]
         \/ /\ listed # {} /\ "index" \in Faults
            /\ pub' = [pub EXCEPT ![s].indexDone = "failed"]
            /\ UNCHANGED objs
      /\ UNCHANGED <<now, packs, man, st, cl, crashes>>

\* An upload of index object i or of a pack it lists that the backend no
\* longer has, old enough to be looked up again.
StaleUpload(i) ==
  \/ now - objs[i].at > RecheckAfter /\ ~objs[i].has
  \/ \E p \in objs[i].packs : now - packs[p].at > RecheckAfter /\ ~packs[p].has

\* Mutated: packs that were not uploaded do not fail the publish.
FailedIndexOnly(q) == q.indexDone = "failed"

Failed(q) == "failed" \in {q.packsDone, q.indexDone}

\* Both done: the publish fails if either did; else the index object is the
\* session's, and old uploads are looked up, ending the session if one is
\* gone (recordSessionIndex, stillStored).
RecordIndex(s) ==
  LET new == {pub[s].index} \ {None}
      idx == st[s].sessionIdx \cup new
      r   == [st[s] EXCEPT !.session = @ \ ListedBy(new), !.sessionIdx = idx,
                           !.loaded = @ \cup new]
      gone == \E i \in idx : StaleUpload(i)
  IN  /\ pub[s].pc = "write"
      /\ "no" \notin {pub[s].packsDone, pub[s].indexDone}
      /\ \/ /\ Failed(pub[s])
            /\ Refuse(s)
            /\ UNCHANGED st
         \/ /\ ~Failed(pub[s])
            /\ \/ gone /\ Update(s, [r EXCEPT !.lost = TRUE]) /\ Refuse(s)
               \/ /\ ~gone
                  /\ Update(s, r)
                  /\ pub' = [pub EXCEPT ![s].pc = "attempt"]
                  /\ UNCHANGED cl
      /\ UNCHANGED <<now, packs, objs, man, crashes>>

\* survived: a collection moved since the puts, and a counted chunk is gone
\* (or is held only by a pack on its way out: CarrySet).
Expired(r) == r.man.gcGen # r.sessGen
              /\ \E h \in r.deduped \ Unfinished(r) : r.loc[h] = None

\* Mutated: the records of deleted orphans are not read.
RecordedUnread(r) == FALSE

\* unrecorded: the manifest about to be replaced records as deleted an
\* upload this publish would name.
Recorded(r) ==
  \/ r.sessionIdx \cap IdsOf(r.man.condemned, "deletedIndex") # {}
  \/ ListedBy(r.sessionIdx) \cap IdsOf(r.man.condemned, "deletedPack") # {}

\* One turn of the swap loop up to the swap: the store's manifest, read
\* again after a conflict or when its root is not the expected one, is
\* checked, and the one to replace it is made, compacting its index
\* objects when enough of them may merge (compact).
Attempt(s) ==
  LET q == pub[s]
      stale == q.attempt > 0 \/ st[s].man.root # q.expected
      r == IF stale THEN refresh(st[s]) ELSE st[s]
      list == r.man.indexes \cup r.sessionIdx
      upd(indexes) == [r.man EXCEPT !.seq = @ + 1, !.root = q.next, !.indexes = indexes]
      swapping(written, replaced) ==
        pub' = [pub EXCEPT ![s].pc = "swap", ![s].upd = upd((list \ replaced) \cup written),
                           ![s].written = written, ![s].replaced = replaced]
  IN  /\ q.pc = "attempt"
      /\ stale => Loadable(RefreshPlan(st[s], man))
      /\ \/ /\ RootMoved(r, q.expected)
            /\ Update(s, r) /\ Refuse(s)
            /\ UNCHANGED objs
         \/ /\ ~RootMoved(r, q.expected) /\ (Expired(r) \/ (CarrySet(r) = {} /\ Recorded(r)))
            /\ Update(s, [r EXCEPT !.lost = TRUE]) /\ Refuse(s)
            /\ UNCHANGED objs
         \/ /\ ~RootMoved(r, q.expected) /\ CarrySet(r) # {}
            /\ Update(s, r)
            /\ \/ /\ q.carries + 1 < MaxSwapAttempts
                  /\ pub' = [pub EXCEPT ![s] = [NoPublish EXCEPT !.pc = "carry",
                                !.client = q.client, !.expected = q.expected,
                                !.next = q.next, !.carries = q.carries + 1]]
                  /\ UNCHANGED cl
               \/ q.carries + 1 = MaxSwapAttempts /\ Refuse(s)
            /\ UNCHANGED objs
         \/ /\ ~RootMoved(r, q.expected) /\ CarrySet(r) = {} /\ ~Expired(r) /\ ~Recorded(r)
            /\ Update(s, r)
            /\ \/ swapping({}, {}) /\ UNCHANGED objs
               \/ \E some \in SUBSET list, i \in FreshObjs :
                    /\ Cardinality(some) >= FanIn
                    /\ \A j \in some : objs[j].has
                    /\ objs' = [objs EXCEPT ![i] = [packs |-> ListedBy(some), at |-> now, has |-> TRUE]]
                    /\ swapping({i}, some)
            /\ UNCHANGED cl
      /\ UNCHANGED <<now, packs, man, crashes>>

\* Mutated: a swap that lost goes in over the version that won.
SwapRootOver(s) ==
  LET upd == [pub[s].upd EXCEPT !.seq = man.seq + 1]
  IN  /\ pub[s].pc = "swap"
      /\ man' = upd
      /\ pub' = [pub EXCEPT ![s].pc = "landed", ![s].upd = upd]
      /\ UNCHANGED <<now, packs, objs, st, cl, crashes>>

\* The swap: it lands if the backend still has the version it replaces,
\* perhaps reporting an error all the same; else it is tried again, or
\* given up.
SwapRoot(s) ==
  LET q == pub[s]
  IN  /\ q.pc = "swap"
      /\ \/ /\ q.upd.seq = man.seq + 1
            /\ man' = q.upd
            /\ \/ /\ pub' = [pub EXCEPT ![s].pc = "landed"]
                  /\ UNCHANGED cl
               \/ "swap" \in Faults /\ Refuse(s)
         \/ /\ q.upd.seq # man.seq + 1
            /\ \/ /\ q.attempt + 1 < MaxSwapAttempts
                  /\ pub' = [pub EXCEPT ![s].pc = "attempt", ![s].attempt = @ + 1,
                           ![s].upd = InitManifest, ![s].written = {}, ![s].replaced = {}]
                  /\ UNCHANGED cl
               \/ q.attempt + 1 = MaxSwapAttempts /\ Refuse(s)
            /\ UNCHANGED man
      /\ UNCHANGED <<now, packs, objs, st, crashes>>

\* The store takes the manifest it swapped in, whatever it has refreshed to
\* since, and the session forgets what it published and counted on.
Landed(s) ==
  LET q == pub[s]
      r == st[s]
  IN  /\ q.pc = "landed"
      /\ Update(s, [r EXCEPT !.man = q.upd, !.sessionIdx = {},
                     !.loaded = (@ \cup q.written) \ q.replaced,
                     !.unpublished = @ \ ListedBy(r.sessionIdx),
                     !.deduped = {}, !.sessGen = q.upd.gcGen])
      /\ pub' = [pub EXCEPT ![s] = NoPublish]
      /\ cl' = [cl EXCEPT ![q.client].pc = "idle", ![q.client].seen = q.next,
                          ![q.client].told = IF HoldAcross THEN @ ELSE {}]
      /\ UNCHANGED <<now, packs, objs, man, crashes>>

\* The process crashes, or its host closes a lost store, and opens it
\* again: what was not published is dropped, and a pack never uploaded was
\* nowhere but in its memory.
Reopen(s) ==
  /\ \/ st[s].lost /\ UNCHANGED crashes
     \/ crashes < MaxCrashes /\ crashes' = crashes + 1
  /\ packs' = [p \in PackId |-> IF ~packs[p].has /\ p \in InMemory(s) THEN NoPack ELSE packs[p]]
  /\ st' = [st EXCEPT ![s] = Opened]
  /\ pub' = [pub EXCEPT ![s] = NoPublish]
  /\ cl' = [c \in Client |-> IF Host[c] = s
            THEN [NoClient EXCEPT !.seen = man.root]
            ELSE cl[c]]
  /\ UNCHANGED <<now, objs, man>>

------------------------------------------------------------------------------
StoreInit ==
  /\ st = [s \in Store |-> Opened]
  /\ pub = [s \in Store |-> NoPublish]
  /\ cl = [c \in Client |-> NoClient]

ClientStep(c) ==
  \/ RootRead(c) \/ RootTake(c)
  \/ \E h \in Chunk : Get(c, h)
  \/ c \in Writer /\ \E h \in Chunk : Put(c, h)
  \/ c \in Writer /\ Flush(c)
  \/ c \in Writer /\ \E next \in Root : CompareAndSetRoot(c, next)

FinisherStep(s) == \E p \in PackId : Finish(s, p) \/ Upload(s, p)

PublishStep(s) ==
  \/ CarryForward(s) \/ CollectPacks(s) \/ UploadPacks(s) \/ WriteSessionIndex(s)
  \/ RecordIndex(s) \/ Attempt(s) \/ SwapRoot(s) \/ Landed(s)
==============================================================================
