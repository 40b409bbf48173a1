--------------------------- MODULE RegisterProofs ---------------------------
(***************************************************************************)
(* The root of a PackSystem is a compare-and-set register: Spec implements *)
(* RootRegister, by way of SwapsSucceed.                                   *)
(***************************************************************************)
EXTENDS PackSystemProofs

(* A refresh leaves a store with the manifest it had or the one it read.   *)
LEMMA RefreshMan ==
  ASSUME NEW r \in Session, NEW plan \in Plan
  PROVE  RefreshApply(r, plan).man \in {r.man, plan.man}
BY DEF RefreshApply, Session, Plan

(* So does reading and taking the one in force (refresh).                  *)
LEMMA refreshMan ==
  ASSUME ObjectsTypeOK, NEW r \in Session
  PROVE  refresh(r).man \in {r.man, man}
<1>1. RefreshPlan(r, man) \in Plan
  BY PlanType DEF ObjectsTypeOK
<1>2. RefreshPlan(r, man).man = man
  BY DEF RefreshPlan
<1>3. QED
  BY <1>1, <1>2, RefreshMan DEF refresh

(* So does a Get.                                                          *)
LEMMA GotMan ==
  ASSUME TypeOK, NEW s \in Store, NEW x \in Chunk
  PROVE  Got(s, x).man \in {st[s].man, man}
<1>1. st[s] \in Session
  BY DEF TypeOK, StoreTypeOK
<1>2. refresh(st[s]).man \in {st[s].man, man} /\ refresh(st[s]) \in Session
  BY <1>1, refreshMan, RefreshType DEF TypeOK
<1>3. QED
  BY <1>1, <1>2 DEF Got, Session

(* A put changes no store's manifest.                                      *)
LEMMA PutMan ==
  ASSUME TypeOK, NEW s \in Store, NEW r \in Session, NEW x \in Chunk, PutPrepared(s, r, x)
  PROVE  \E n \in Session : st' = [st EXCEPT ![s] = n] /\ n.man = r.man
<1>1. CASE Update(s, r)
  BY Zenon, <1>1 DEF Update
<1>2. CASE Update(s, [r EXCEPT !.deduped = @ \cup {x}])
  <2>1. [r EXCEPT !.deduped = @ \cup {x}] \in Session /\ [r EXCEPT !.deduped = @ \cup {x}].man = r.man
    BY DEF Session
  <2>2. QED
    BY Zenon, <1>2, <2>1 DEF Update
<1>3. CASE Update(s, [r EXCEPT !.pending = @ \cup {x}])
  <2>1. [r EXCEPT !.pending = @ \cup {x}] \in Session /\ [r EXCEPT !.pending = @ \cup {x}].man = r.man
    BY DEF Session
  <2>2. QED
    BY Zenon, <1>3, <2>1 DEF Update
<1>4. CASE \E p \in FreshPacks : Update(s, [TakePending(r, p) EXCEPT !.pending = {x}])
  <2>1. PICK p \in PackId : Update(s, [TakePending(r, p) EXCEPT !.pending = {x}])
    BY Zenon, <1>4, FreshIn DEF TypeOK
  <2>2. /\ [TakePending(r, p) EXCEPT !.pending = {x}] \in Session
        /\ [TakePending(r, p) EXCEPT !.pending = {x}].man = r.man
    BY Zenon DEF TakePending, Session
  <2>3. QED
    BY Zenon, <2>1, <2>2 DEF Update
<1>5. QED
  BY <1>1, <1>2, <1>3, <1>4 DEF PutPrepared
------------------------------------------------------------------------------
(* Where the manifests held after a step come from.                        *)

\* A store's is its own, the one in force, one a refresh read, or the one
\* its publish landed.
StoresHold ==
  \A s \in Store : \/ st'[s].man \in {st[s].man, man}
                   \/ \E c \in Client : st'[s].man = cl[c].plan.man
                   \/ pub[s].pc = "landed" /\ st'[s].man = pub[s].upd

PlansHold == \A c \in Client : cl'[c].plan.man \in {cl[c].plan.man, man, InitManifest}

\* A publish has landed the manifest in force; the one it is about to swap
\* in succeeds its store's, or the one in force, over the expected root.
PublishesHold ==
  \A s \in Store :
     /\ pub'[s].pc = "landed" =>
          pub'[s].upd = man' \/ (pub[s].pc = "landed" /\ pub'[s].upd = pub[s].upd)
     /\ pub'[s].pc = "swap" =>
          \/ pub'[s] = pub[s]
          \/ /\ man' = man
             /\ \E m \in {st[s].man, man} :
                  /\ m.root = pub'[s].expected
                  /\ pub'[s].upd.seq = m.seq + 1 /\ pub'[s].upd.root = pub'[s].next

RoundsHold ==
  \A g \in Collectors :
     /\ gc'[g].man \in {gc[g].man, man, InitManifest}
     /\ gc'[g].pc = "swap" =>
          \/ gc'[g] = gc[g]
          \/ /\ man' = man
             /\ gc'[g].upd.seq = gc[g].man.seq + 1 /\ gc'[g].upd.root = gc[g].man.root

Holds == StoresHold /\ PlansHold /\ PublishesHold /\ RoundsHold

Moves == man' = man \/ man'.seq = man.seq + 1

(* A step that changes one store's record, and nothing of its manifest but *)
(* to take the one in force.                                               *)
LEMMA OneStoreHolds ==
  ASSUME TypeOK, NEW s \in Store, NEW n, st' = [st EXCEPT ![s] = n], n.man \in {st[s].man, man}
  PROVE  StoresHold
BY DEF StoresHold, TypeOK, StoreTypeOK

(* A publish that is not about to swap, and has not.                       *)
LEMMA OnePublishHolds ==
  ASSUME TypeOK, NEW s \in Store, NEW q, pub' = [pub EXCEPT ![s] = q],
         q.pc \notin {"swap", "landed"}
  PROVE  PublishesHold
BY DEF PublishesHold, TypeOK, StoreTypeOK

(* A step that leaves state alone holds nothing new.                       *)
LEMMA SameHold ==
  /\ st' = st => StoresHold
  /\ cl' = cl => PlansHold
  /\ pub' = pub => PublishesHold
  /\ gc' = gc => RoundsHold
BY DEF StoresHold, PlansHold, PublishesHold, RoundsHold

(* Ending a publish holds nothing new (a conflict, an error).              *)
LEMMA RefuseHolds ==
  ASSUME TypeOK, NEW s \in Store, Refuse(s)
  PROVE  PublishesHold /\ PlansHold
<1>1. PublishesHold
  <2>1. NoPublish.pc = "idle"
    BY DEF NoPublish
  <2>2. QED
    BY Zenon, <2>1, OnePublishHolds DEF Refuse
<1>2. PlansHold
  BY DEF Refuse, PlansHold, TypeOK, StoreTypeOK, Caller
<1>3. QED
  BY <1>1, <1>2

(* A client's step moves no manifest: what it takes was read from the      *)
(* backend.                                                                *)
LEMMA ClientHolds ==
  ASSUME TypeOK, NEW c \in Client, ClientStep(c), gc' = gc
  PROVE  man' = man /\ Holds
<1> DEFINE s == Host[c]
<1>0. s \in Store /\ st[s] \in Session /\ cl[c] \in Caller /\ NoPlan.man = InitManifest
  BY HostAssumption DEF TypeOK, StoreTypeOK, NoPlan
<1>1. CASE RootRead(c)
  <2>1. RefreshPlan(st[s], man).man = man
    BY DEF RefreshPlan
  <2>2. UNCHANGED <<man, st, pub>>
    BY <1>1 DEF RootRead
  <2>3. PlansHold
    BY <1>0, <1>1, <2>1 DEF RootRead, PlansHold, TypeOK, StoreTypeOK, Caller
  <2>4. QED
    BY <2>2, <2>3, SameHold DEF Holds
<1>2. CASE RootTake(c)
  <2>1. UNCHANGED <<man, pub>> /\ st' = [st EXCEPT ![s] = RefreshApply(st[s], cl[c].plan)]
    BY <1>2 DEF RootTake, Update
  <2>2. RefreshApply(st[s], cl[c].plan).man \in {st[s].man, cl[c].plan.man}
    BY <1>0, RefreshMan DEF Caller
  <2>3. StoresHold
    BY <1>0, <2>1, <2>2 DEF StoresHold, TypeOK, StoreTypeOK
  <2>4. PlansHold
    BY <1>0, <1>2 DEF RootTake, PlansHold, TypeOK, StoreTypeOK, Caller
  <2>5. QED
    BY <2>1, <2>3, <2>4, SameHold DEF Holds
<1>3. CASE \E x \in Chunk : Get(c, x)
  <2>1. PICK x \in Chunk : Get(c, x)
    BY <1>3
  <2>2. UNCHANGED <<man, pub, cl>> /\ st' = [st EXCEPT ![s] = Got(s, x)]
    BY <2>1 DEF Get, Update
  <2>3. QED
    BY Zenon, <1>0, <2>2, GotMan, OneStoreHolds, SameHold DEF Holds
<1>4. CASE \E x \in Chunk : Put(c, x)
  <2>1. PICK x \in Chunk : Put(c, x)
    BY <1>4
  <2>2. PutPrepared(s, st[s], x) /\ UNCHANGED <<man, pub>> /\ cl' = [cl EXCEPT ![c].told = @ \cup {x}]
    BY <2>1, Zenon DEF Put
  <2>3. StoresHold
    BY <1>0, <2>2, PutMan, OneStoreHolds
  <2>4. PlansHold
    BY <1>0, <2>2 DEF PlansHold, TypeOK, StoreTypeOK, Caller
  <2>5. QED
    BY <2>2, <2>3, <2>4, SameHold DEF Holds
<1>5. CASE Flush(c)
  <2>1. UNCHANGED <<man, pub, cl>> /\ \E p \in FreshPacks : st' = [st EXCEPT ![s] = TakePending(st[s], p)]
    BY <1>5, Zenon DEF Flush, Update
  <2>2. \A p : TakePending(st[s], p).man = st[s].man
    BY <1>0 DEF TakePending, Session
  <2>3. QED
    BY Zenon, <1>0, <2>1, <2>2, OneStoreHolds, SameHold DEF Holds
<1>6. CASE \E next \in Root : CompareAndSetRoot(c, next)
  <2>1. PICK next \in Root : CompareAndSetRoot(c, next)
    BY <1>6
  <2>2. man' = man /\ st' = [st EXCEPT ![s] = refresh(st[s])]
    BY <2>1, Zenon DEF CompareAndSetRoot, Update
  <2>3. StoresHold
    BY Zenon, <1>0, <2>2, refreshMan, OneStoreHolds DEF TypeOK
  <2> DEFINE q == [NoPublish EXCEPT !.pc = "carry", !.client = c, !.expected = cl[c].seen, !.next = next]
  <2>4. \/ UNCHANGED <<pub, cl>>
        \/ cl' = [cl EXCEPT ![c].pc = "publish"] /\ pub' = [pub EXCEPT ![s] = q]
    BY <2>1, Zenon DEF CompareAndSetRoot
  <2>5. q.pc = "carry"
    BY DEF NoPublish
  <2> HIDE DEF q
  <2>6. PublishesHold
    BY <1>0, <2>4, <2>5, OnePublishHolds, SameHold
  <2>7. PlansHold
    BY <1>0, <2>4, SameHold DEF PlansHold, TypeOK, StoreTypeOK, Caller
  <2>8. QED
    BY <2>2, <2>3, <2>6, <2>7, SameHold DEF Holds
<1>7. QED
  BY <1>1, <1>2, <1>3, <1>4, <1>5, <1>6 DEF ClientStep
(* Nor does a finisher's.                                                  *)
LEMMA FinisherHolds ==
  ASSUME TypeOK, NEW s \in Store, FinisherStep(s), gc' = gc
  PROVE  man' = man /\ Holds
<1>0. st[s] \in Session
  BY DEF TypeOK, StoreTypeOK
<1>1. PICK p \in PackId : Finish(s, p) \/ Upload(s, p)
  BY DEF FinisherStep
<1>2. UNCHANGED <<man, pub, cl>>
  BY <1>1 DEF Finish, Upload
<1>3. StoresHold
  <2>1. CASE Finish(s, p)
    BY Zenon, <1>0, <2>1, OneStoreHolds DEF Finish, Update, Session
  <2>2. CASE Upload(s, p)
    BY Zenon, <1>0, <2>2, OneStoreHolds DEF Upload, Update, Requeue, Session
  <2>3. QED
    BY <1>1, <2>1, <2>2
<1>4. QED
  BY <1>2, <1>3, SameHold DEF Holds

(* Nor does a publish before its swap loop.                                *)
LEMMA WaitingHolds ==
  ASSUME TypeOK, NEW s \in Store, gc' = gc,
         CarryForward(s) \/ CollectPacks(s) \/ UploadPacks(s) \/ WriteSessionIndex(s) \/ RecordIndex(s)
  PROVE  man' = man /\ Holds
<1>0. st[s] \in Session /\ pub[s] \in Publish
  BY DEF TypeOK, StoreTypeOK
<1>1. CASE CarryForward(s)
  <2>1. man' = man
    BY <1>1 DEF CarryForward
  <2>2. CASE pub' = [pub EXCEPT ![s].pc = "wait"] /\ UNCHANGED <<packs, st, cl>>
    <3>1. PublishesHold
      BY Zenon, <1>0, <2>2, OnePublishHolds DEF Publish
    <3>2. QED
      BY <2>1, <2>2, <3>1, SameHold DEF Holds
  <2>3. CASE \E x \in CarrySet(st[s]) :
               \/ /\ PutPrepared(s, [Got(s, x) EXCEPT !.deduped = @ \ {x}], x)
                  /\ UNCHANGED <<pub, cl>>
               \/ Update(s, Got(s, x)) /\ Refuse(s) /\ UNCHANGED packs
    <3>1. CarrySet(st[s]) \subseteq Chunk
      BY <1>0 DEF CarrySet, Session
    <3>2. PICK x \in Chunk :
               \/ /\ PutPrepared(s, [Got(s, x) EXCEPT !.deduped = @ \ {x}], x)
                  /\ UNCHANGED <<pub, cl>>
               \/ Update(s, Got(s, x)) /\ Refuse(s) /\ UNCHANGED packs
      BY Zenon, <2>3, <3>1
    <3>3. Got(s, x) \in Session /\ Got(s, x).man \in {st[s].man, man}
      BY GotType, GotMan
    <3> DEFINE r == [Got(s, x) EXCEPT !.deduped = @ \ {x}]
    <3>4. r \in Session /\ r.man = Got(s, x).man
      BY <3>3 DEF Session
    <3> HIDE DEF r
    <3>5. CASE PutPrepared(s, r, x) /\ UNCHANGED <<pub, cl>>
      BY <2>1, <3>3, <3>4, <3>5, PutMan, OneStoreHolds, SameHold DEF Holds
    <3>6. CASE Update(s, Got(s, x)) /\ Refuse(s)
      BY Zenon, <2>1, <3>3, <3>6, OneStoreHolds, RefuseHolds, SameHold DEF Update, Holds
    <3>7. QED
      BY <3>2, <3>5, <3>6 DEF r
  <2>4. QED
    BY <1>1, <2>2, <2>3 DEF CarryForward
<1>2. CASE CollectPacks(s)
  <2>1. man' = man
    BY <1>2, Zenon DEF CollectPacks
  <2>2. CASE Refuse(s) /\ UNCHANGED <<packs, st>>
    BY <2>1, <2>2, RefuseHolds, SameHold DEF Holds
  <2>3. CASE /\ UNCHANGED cl
             /\ \E new : /\ Update(s, [st[s] EXCEPT !.pending = {}, !.unuploaded = {},
                                         !.unpublished = @ \cup new,
                                         !.loc = AddBuilt(@, new, st[s].pending)])
                         /\ pub' = [pub EXCEPT ![s].pc = "write",
                                               ![s].toUpload = st[s].unuploaded \cup new]
    <3>1. StoresHold
      BY Zenon, <1>0, <2>3, OneStoreHolds DEF Update, Session
    <3>2. PublishesHold
      <4>1. PICK new : pub' = [pub EXCEPT ![s].pc = "write",
                                          ![s].toUpload = st[s].unuploaded \cup new]
        BY Zenon, <2>3
      <4> DEFINE n == [pub[s] EXCEPT !.pc = "write", !.toUpload = st[s].unuploaded \cup new]
      <4>2. pub' = [pub EXCEPT ![s] = n]
        BY Zenon, <4>1 DEF TypeOK, StoreTypeOK
      <4>3. n.pc = "write"
        BY <1>0 DEF Publish
      <4> HIDE DEF n
      <4>4. QED
        BY Zenon, <4>2, <4>3, OnePublishHolds
    <3>3. QED
      BY <2>1, <2>3, <3>1, <3>2, SameHold DEF Holds
  <2>4. CASE Update(s, [st[s] EXCEPT !.pending = {}]) /\ Refuse(s)
    <3>1. StoresHold
      BY Zenon, <1>0, <2>1, <2>4, OneStoreHolds DEF Update, Session
    <3>2. QED
      BY Zenon, <2>1, <2>4, <3>1, RefuseHolds, SameHold DEF Holds
  <2>5. QED
    BY <1>2, <2>2, <2>3, <2>4, Zenon DEF CollectPacks
<1>3. CASE UploadPacks(s)
  <2>1. /\ UNCHANGED <<man, cl>> /\ pub[s].pc = "write"
        /\ \E bad : Update(s, Requeue(st[s], bad))
        /\ \E d : pub' = [pub EXCEPT ![s].packsDone = d]
    BY <1>3, Zenon DEF UploadPacks
  <2>2. StoresHold
    BY Zenon, <1>0, <2>1, OneStoreHolds DEF Update, Requeue, Session
  <2>3. PublishesHold
    BY Zenon, <1>0, <2>1, OnePublishHolds DEF Publish
  <2>4. QED
    BY <2>1, <2>2, <2>3, SameHold DEF Holds
<1>4. CASE WriteSessionIndex(s)
  <2>1. UNCHANGED <<man, st, cl>> /\ pub[s].pc = "write"
    BY <1>4, Zenon DEF WriteSessionIndex
  <2>2. \/ \E d : pub' = [pub EXCEPT ![s].indexDone = d]
        \/ \E i : pub' = [pub EXCEPT ![s].indexDone = "yes", ![s].index = i]
    BY <1>4, Zenon DEF WriteSessionIndex
  <2>3. PublishesHold
    BY <1>0, <2>1, <2>2, OnePublishHolds DEF Publish
  <2>4. QED
    BY <2>1, <2>3, SameHold DEF Holds
<1>5. CASE RecordIndex(s)
  <2> DEFINE new == {pub[s].index} \ {None}
             idx == st[s].sessionIdx \cup new
             r == [st[s] EXCEPT !.session = @ \ ListedBy(new), !.sessionIdx = idx,
                                !.loaded = @ \cup new]
             e == [r EXCEPT !.lost = TRUE]
  <2>1. man' = man /\ (st' = st \/ Update(s, r) \/ Update(s, e))
    BY <1>5, Zenon DEF RecordIndex
  <2>2. Refuse(s) \/ (pub' = [pub EXCEPT ![s].pc = "attempt"] /\ UNCHANGED cl)
    BY <1>5, Zenon DEF RecordIndex
  <2>3. r.man = st[s].man /\ e.man = st[s].man
    BY <1>0 DEF Session
  <2> HIDE DEF r, e
  <2>4. StoresHold
    BY <2>1, <2>3, OneStoreHolds, SameHold DEF Update
  <2>5. PublishesHold /\ PlansHold
    BY Zenon, <1>0, <2>2, RefuseHolds, OnePublishHolds, SameHold DEF Publish
  <2>6. QED
    BY <2>1, <2>4, <2>5, SameHold DEF Holds
<1>6. QED
  BY <1>1, <1>2, <1>3, <1>4, <1>5
(* A turn of the swap loop makes its manifest from the store's, over the   *)
(* root it expects (publishOnce).                                          *)
LEMMA AttemptHolds ==
  ASSUME TypeOK, NEW s \in Store, Attempt(s), gc' = gc
  PROVE  man' = man /\ Holds
<1> DEFINE q == pub[s]
           stale == q.attempt > 0 \/ st[s].man.root # q.expected
           r == IF stale THEN refresh(st[s]) ELSE st[s]
           list == r.man.indexes \cup r.sessionIdx
           upd(indexes) == [r.man EXCEPT !.seq = @ + 1, !.root = q.next, !.indexes = indexes]
           swapping(written, replaced) ==
             pub' = [pub EXCEPT ![s].pc = "swap", ![s].upd = upd((list \ replaced) \cup written),
                                ![s].written = written, ![s].replaced = replaced]
           again == [NoPublish EXCEPT !.pc = "carry", !.client = q.client,
                       !.expected = q.expected, !.next = q.next, !.carries = q.carries + 1]
<1>1. st[s] \in Session /\ q \in Publish
  BY DEF TypeOK, StoreTypeOK
<1>2. r \in Session /\ r.man \in {st[s].man, man}
  BY <1>1, RefreshType, refreshMan DEF TypeOK
<1>3. /\ man' = man
      /\ Update(s, r) \/ Update(s, [r EXCEPT !.lost = TRUE])
      /\ \/ Refuse(s)
         \/ pub' = [pub EXCEPT ![s] = again] /\ cl' = cl
         \/ /\ ~RootMoved(r, q.expected) /\ cl' = cl
            /\ \E written, replaced : swapping(written, replaced)
  BY Zenon DEF Attempt
<1> HIDE DEF r
<1>4. StoresHold
  BY Zenon, <1>2, <1>3, OneStoreHolds DEF Update, Session
<1>5. CASE Refuse(s)
  BY <1>3, <1>4, <1>5, RefuseHolds, SameHold DEF Holds
<1>6. CASE pub' = [pub EXCEPT ![s] = again] /\ cl' = cl
  <2>1. again.pc = "carry"
    BY DEF NoPublish
  <2> HIDE DEF again
  <2>2. QED
    BY Zenon, <1>3, <1>4, <1>6, <2>1, OnePublishHolds, SameHold DEF Holds
<1>7. CASE /\ ~RootMoved(r, q.expected) /\ cl' = cl
           /\ \E written, replaced : swapping(written, replaced)
  <2>1. PICK written, replaced : swapping(written, replaced)
    BY Zenon, <1>7
  <2>2. r.man.root = q.expected
    BY <1>7 DEF RootMoved
  <2> DEFINE m == upd((list \ replaced) \cup written)
             n == [q EXCEPT !.pc = "swap", !.upd = m, !.written = written, !.replaced = replaced]
  <2>3. m.seq = r.man.seq + 1 /\ m.root = q.next
    BY <1>2 DEF Session, Manifest
  <2>4. pub' = [pub EXCEPT ![s] = n]
    BY Zenon, <2>1 DEF TypeOK, StoreTypeOK
  <2> HIDE DEF m
  <2>5. n.upd = m /\ n.expected = q.expected /\ n.next = q.next /\ n.pc = "swap"
    BY <1>1 DEF Publish
  <2> HIDE DEF n
  <2>6. PublishesHold
    <3>1. \A t \in Store \ {s} : pub'[t] = pub[t]
      BY <2>4 DEF TypeOK, StoreTypeOK
    <3>2. pub'[s] = n
      BY <2>4 DEF TypeOK, StoreTypeOK
    <3>3. QED
      BY Zenon, <1>2, <1>3, <2>2, <2>3, <2>5, <3>1, <3>2 DEF PublishesHold
  <2>7. QED
    BY Zenon, <1>3, <1>4, <1>7, <2>6, SameHold DEF Holds
<1>8. QED
  BY Zenon, <1>3, <1>5, <1>6, <1>7

(* A swap that lands moves the manifest one on (Blobs.SwapRoot).           *)
LEMMA SwapRootHolds ==
  ASSUME TypeOK, NEW s \in Store, SwapRoot(s), gc' = gc
  PROVE  Moves /\ Holds
<1>1. pub[s] \in Publish /\ pub[s].upd.seq \in Nat /\ man.seq \in Nat /\ pub[s].pc = "swap"
  BY Zenon DEF TypeOK, ObjectsTypeOK, StoreTypeOK, Publish, Manifest, SwapRoot
<1>2. Moves
  BY Zenon, <1>1 DEF SwapRoot, Moves
<1>3. \/ Refuse(s)
      \/ man' = pub[s].upd /\ pub' = [pub EXCEPT ![s].pc = "landed"] /\ cl' = cl
      \/ /\ pub' = [pub EXCEPT ![s].pc = "attempt", ![s].attempt = @ + 1,
                      ![s].upd = InitManifest, ![s].written = {}, ![s].replaced = {}]
         /\ cl' = cl
  BY Zenon DEF SwapRoot
<1>4. PublishesHold /\ PlansHold
  <2>1. CASE Refuse(s)
    BY <2>1, RefuseHolds
  <2>2. CASE man' = pub[s].upd /\ pub' = [pub EXCEPT ![s].pc = "landed"] /\ cl' = cl
    BY <1>1, <2>2, SameHold DEF PublishesHold, TypeOK, StoreTypeOK, Publish
  <2>3. CASE /\ pub' = [pub EXCEPT ![s].pc = "attempt", ![s].attempt = @ + 1,
                          ![s].upd = InitManifest, ![s].written = {}, ![s].replaced = {}]
             /\ cl' = cl
    <3> DEFINE n == [pub[s] EXCEPT !.pc = "attempt", !.attempt = @ + 1,
                       !.upd = InitManifest, !.written = {}, !.replaced = {}]
    <3>1. pub' = [pub EXCEPT ![s] = n]
      BY Zenon, <2>3 DEF TypeOK, StoreTypeOK
    <3>2. n.pc = "attempt"
      BY <1>1 DEF Publish
    <3> HIDE DEF n
    <3>3. QED
      BY Zenon, <2>3, <3>1, <3>2, OnePublishHolds, SameHold
  <2>4. QED
    BY Zenon, <1>3, <2>1, <2>2, <2>3
<1>5. st' = st
  BY Zenon DEF SwapRoot
<1>6. QED
  BY <1>2, <1>4, <1>5, SameHold DEF Holds

(* The store then holds what it swapped in.                                *)
LEMMA LandedHolds ==
  ASSUME TypeOK, NEW s \in Store, Landed(s), gc' = gc
  PROVE  man' = man /\ Holds
<1>1. st[s] \in Session /\ pub[s].pc = "landed" /\ man' = man /\ pub[s].client \in Client
  BY Zenon DEF TypeOK, StoreTypeOK, Publish, Landed
<1>2. st'[s].man = pub[s].upd /\ \A t \in Store \ {s} : st'[t] = st[t]
  BY Zenon, <1>1 DEF Landed, Update, Session, TypeOK, StoreTypeOK
<1>3. StoresHold
  BY Zenon, <1>1, <1>2 DEF StoresHold
<1>4. PublishesHold
  <2>1. NoPublish.pc = "idle"
    BY DEF NoPublish
  <2>2. QED
    BY Zenon, <2>1, OnePublishHolds DEF Landed
<1>5. PlansHold
  BY <1>1 DEF PlansHold, Landed, TypeOK, StoreTypeOK, Caller
<1>6. QED
  BY <1>1, <1>3, <1>4, <1>5, SameHold DEF Holds

(* A store opened again holds the manifest in force (Open).                *)
LEMMA ReopenHolds ==
  ASSUME TypeOK, NEW s \in Store, Reopen(s), gc' = gc
  PROVE  man' = man /\ Holds
<1>1. /\ st' = [st EXCEPT ![s] = Opened] /\ pub' = [pub EXCEPT ![s] = NoPublish] /\ man' = man
      /\ cl' = [c \in Client |-> IF Host[c] = s
            THEN [NoClient EXCEPT !.seen = man.root]
            ELSE cl[c]]
  BY Zenon DEF Reopen
<1>2. Opened.man = man /\ NoPublish.pc = "idle"
  BY Zenon DEF Opened, NoPublish
<1>3. [NoClient EXCEPT !.seen = man.root].plan.man = InitManifest
  BY DEF NoClient, NoPlan
<1>4. PlansHold
  BY <1>1, <1>3 DEF PlansHold
<1>5. QED
  BY Zenon, <1>1, <1>2, <1>4, OneStoreHolds, OnePublishHolds, SameHold DEF Holds
(* A round makes its manifest from the one it read, and keeps its root     *)
(* (Apply).                                                                *)
LEMMA CollectorHolds ==
  ASSUME TypeOK, NEW g \in Collectors, CollectorStep(g), UNCHANGED <<st, pub, cl>>
  PROVE  Moves /\ Holds
<1>0. /\ gc[g] \in Round /\ gc[g].man \in Manifest /\ man.seq \in Nat /\ gc \in [Collectors -> Round]
      /\ NoRound.man = InitManifest /\ NoRound.pc = "idle"
  BY Zenon DEF TypeOK, ObjectsTypeOK, CollectorTypeOK, Round, Manifest, NoRound
<1>1. CASE Begin(g)
  <2>1. man' = man /\ gc' = [gc EXCEPT ![g] = [NoRound EXCEPT !.pc = "begun", !.at = now, !.man = man]]
    BY <1>1 DEF Begin
  <2>2. /\ [NoRound EXCEPT !.pc = "begun", !.at = now, !.man = man].man = man
        /\ [NoRound EXCEPT !.pc = "begun", !.at = now, !.man = man].pc = "begun"
    BY DEF NoRound
  <2>3. RoundsHold
    BY <1>0, <2>1, <2>2 DEF RoundsHold
  <2>4. QED
    BY <2>1, <2>3, SameHold DEF Moves, Holds
<1>2. CASE Apply(g)
  <2>1. man' = man /\ \E repack, new, obj :
          gc' = [gc EXCEPT ![g] = Decided(gc[g].man, gc[g].at, repack, new, obj)]
    BY <1>2, Zenon DEF Apply
  <2>2. PICK repack, new, obj : gc' = [gc EXCEPT ![g] = Decided(gc[g].man, gc[g].at, repack, new, obj)]
    BY Zenon, <2>1
  <2> DEFINE m == gc[g].man
             upd == NewManifest(m, gc[g].at, repack, new, obj)
             n == Decided(m, gc[g].at, repack, new, obj)
  <2>3. upd.seq = m.seq + 1 /\ upd.root = m.root
    BY <1>0 DEF NewManifest, Manifest
  <2>4. n.man = InitManifest /\ (n.pc = "swap" => n.upd = upd)
    BY DEF Decided, NoRound
  <2> HIDE DEF n, upd
  <2>5. RoundsHold
    <3>1. gc'[g] = n /\ \A k \in Collectors \ {g} : gc'[k] = gc[k]
      BY <1>0, <2>2 DEF n
    <3>2. QED
      BY Zenon, <2>1, <2>3, <2>4, <3>1 DEF RoundsHold
  <2>6. QED
    BY <2>1, <2>5, SameHold DEF Moves, Holds
<1>3. CASE Swap(g)
  <2>1. Moves
    BY <1>0, <1>3 DEF Swap, Moves
  <2> DEFINE n == [NoRound EXCEPT !.pc = "delete", !.packs = gc[g].packs, !.objs = gc[g].objs]
  <2>2. gc' = [gc EXCEPT ![g] = n] \/ gc' = [gc EXCEPT ![g] = NoRound]
    BY <1>3 DEF Swap
  <2>3. n.man = InitManifest /\ n.pc = "delete"
    BY DEF NoRound
  <2> HIDE DEF n
  <2>4. RoundsHold
    BY Zenon, <1>0, <2>2, <2>3 DEF RoundsHold
  <2>5. QED
    BY <2>1, <2>4, SameHold DEF Holds
<1>4. CASE Delete(g)
  <2>1. man' = man /\ gc[g].pc = "delete"
    BY <1>4 DEF Delete
  <2>2. \/ \E P : gc' = [gc EXCEPT ![g].packs = P]
        \/ \E O : gc' = [gc EXCEPT ![g].objs = O]
        \/ gc' = [gc EXCEPT ![g] = NoRound]
    BY <1>4, Zenon DEF Delete
  <2>3. RoundsHold
    BY <1>0, <2>1, <2>2 DEF RoundsHold, Round
  <2>4. QED
    BY <2>1, <2>3, SameHold DEF Moves, Holds
<1>5. CASE Stop(g)
  <2>1. man' = man /\ gc' = [gc EXCEPT ![g] = NoRound]
    BY <1>5 DEF Stop
  <2>2. RoundsHold
    BY Zenon, <1>0, <2>1 DEF RoundsHold
  <2>3. QED
    BY <2>1, <2>2, SameHold DEF Moves, Holds
<1>6. QED
  BY <1>1, <1>2, <1>3, <1>4, <1>5 DEF CollectorStep

(* Every step moves the manifest by one or not at all, and holds only      *)
(* manifests that were in force.                                           *)
LEMMA StepHolds ==
  ASSUME TypeOK, [Next]_vars
  PROVE  Moves /\ Holds
<1>1. CASE \E c \in Client : ClientStep(c) /\ UNCHANGED gc
  BY <1>1, ClientHolds DEF Moves
<1>2. CASE \E s \in Store : (FinisherStep(s) \/ PublishStep(s) \/ Reopen(s)) /\ UNCHANGED gc
  BY Zenon, <1>2, FinisherHolds, WaitingHolds, AttemptHolds, SwapRootHolds, LandedHolds, ReopenHolds
     DEF PublishStep, Moves
<1>3. CASE \E g \in Collectors : CollectorStep(g) /\ UNCHANGED <<st, pub, cl>>
  BY <1>3, CollectorHolds
<1>4. CASE Tick \/ UNCHANGED vars
  <2>1. UNCHANGED <<man, st, pub, cl, gc>>
    BY Zenon, <1>4 DEF Tick, vars
  <2>2. QED
    BY <2>1, SameHold DEF Moves, Holds
<1>5. QED
  BY <1>1, <1>2, <1>3, <1>4 DEF Next

(* A manifest that was in force once stays one, whatever is swapped in.    *)
LEMMA PastKept ==
  ASSUME TypeOK, Moves, NEW m, m.seq \in Nat, m.seq <= man.seq, m.seq = man.seq => m = man
  PROVE  m.seq <= man'.seq /\ (m.seq = man'.seq => m = man')
<1>1. man.seq \in Nat
  BY DEF TypeOK, ObjectsTypeOK, Manifest
<1>2. QED
  BY <1>1 DEF Moves
------------------------------------------------------------------------------
(* What a step does to the calls in progress.                              *)

\* Nothing: each publish under way is the same call, landed or not.
SameCalls ==
  /\ \A c \in Client : cl'[c].pc = "publish" <=> cl[c].pc = "publish"
  /\ \A s \in Store : /\ pub'[s].pc = "idle" <=> pub[s].pc = "idle"
                      /\ pub'[s].pc = "landed" <=> pub[s].pc = "landed"
                      /\ pub'[s].client = pub[s].client
                      /\ pub'[s].expected = pub[s].expected /\ pub'[s].next = pub[s].next

\* The publish of store s ends, and its client's call with it.
EndsCall(s) ==
  /\ pub[s].pc # "idle" /\ pub'[s].pc = "idle"
  /\ \A t \in Store \ {s} : pub'[t] = pub[t]
  /\ cl'[pub[s].client].pc = "idle"
  /\ \A c \in Client \ {pub[s].client} : cl'[c].pc = cl[c].pc

\* Store s's swap takes effect; its publish has landed, or ends at once.
LandsCall(s) ==
  /\ pub[s].pc = "swap" /\ pub[s].upd.seq = man.seq + 1 /\ man' = pub[s].upd
  /\ \/ EndsCall(s)
     \/ /\ pub'[s].pc = "landed" /\ pub'[s].client = pub[s].client
        /\ cl' = cl
        /\ \A t \in Store \ {s} : pub'[t] = pub[t]

\* Client c's call begins.
BeginsCall(c) ==
  /\ cl[c].pc = "idle" /\ pub[Host[c]].pc = "idle"
  /\ cl'[c].pc = "publish" /\ \A d \in Client \ {c} : cl'[d] = cl[d]
  /\ pub'[Host[c]].pc = "carry" /\ pub'[Host[c]].client = c
  /\ \A t \in Store \ {Host[c]} : pub'[t] = pub[t]

\* Store s ends whatever it was doing, and its clients with it.
EndsStore(s) ==
  /\ pub'[s].pc = "idle" /\ \A t \in Store \ {s} : pub'[t] = pub[t]
  /\ \A c \in Client : cl'[c].pc = IF Host[c] = s THEN "idle" ELSE cl[c].pc

CallStep ==
  \/ SameCalls /\ man' = man
  \/ \E s \in Store : (EndsCall(s) \/ EndsStore(s)) /\ man' = man
  \/ \E s \in Store : LandsCall(s)
  \/ \E c \in Client : BeginsCall(c) /\ man' = man

(* A publish that goes on is the same call.                                *)
LEMMA SameCallsIf ==
  ASSUME TypeOK, NEW s \in Store, NEW q, pub' = [pub EXCEPT ![s] = q], cl' = cl,
         pub[s].pc \notin {"idle", "landed"}, q.pc \notin {"idle", "landed"},
         q.client = pub[s].client, q.expected = pub[s].expected, q.next = pub[s].next
  PROVE  SameCalls
BY Zenon DEF SameCalls, TypeOK, StoreTypeOK

(* A refused publish ends its call, and no other.                          *)
LEMMA RefuseEnds ==
  ASSUME TypeOK, NEW s \in Store, Refuse(s), pub[s].pc # "idle"
  PROVE  EndsCall(s)
<1>1. pub[s].client \in Client /\ NoPublish.pc = "idle"
  BY Zenon DEF TypeOK, StoreTypeOK, Publish, NoPublish
<1>2. QED
  BY <1>1 DEF Refuse, EndsCall, TypeOK, StoreTypeOK, Caller

(* A client's step begins its own call or none (commitMu admits one).      *)
LEMMA ClientCalls ==
  ASSUME TypeOK, NEW c \in Client, ClientStep(c)
  PROVE  CallStep
<1> DEFINE s == Host[c]
<1>0. s \in Store /\ cl[c] \in Caller
  BY HostAssumption DEF TypeOK, StoreTypeOK
<1>1. CASE RootRead(c) \/ RootTake(c) \/ Flush(c) \/ (\E x \in Chunk : Get(c, x) \/ Put(c, x))
  <2>1. pub' = pub /\ man' = man
    BY <1>1, Zenon DEF RootRead, RootTake, Flush, Get, Put
  <2>2. \A d \in Client : cl'[d].pc = "publish" <=> cl[d].pc = "publish"
    <3>1. CASE RootRead(c)
      BY <1>0, <3>1 DEF RootRead, TypeOK, StoreTypeOK, Caller
    <3>2. CASE RootTake(c)
      BY Zenon, <1>0, <3>2 DEF RootTake, TypeOK, StoreTypeOK, Caller
    <3>3. CASE Flush(c) \/ \E x \in Chunk : Get(c, x)
      <4>1. cl' = cl
        BY <3>3, Zenon DEF Flush, Get
      <4>2. QED
        BY Zenon, <4>1
    <3>4. CASE \E x \in Chunk : Put(c, x)
      <4>1. \E x \in Chunk : cl' = [cl EXCEPT ![c].told = @ \cup {x}]
        BY <3>4, Zenon DEF Put
      <4>2. QED
        BY <1>0, <4>1 DEF TypeOK, StoreTypeOK, Caller
    <3>5. QED
      BY Zenon, <1>1, <3>1, <3>2, <3>3, <3>4
  <2>3. QED
    BY Zenon, <2>1, <2>2 DEF SameCalls, CallStep
<1>2. CASE \E next \in Root : CompareAndSetRoot(c, next)
  <2>1. PICK next \in Root : CompareAndSetRoot(c, next)
    BY <1>2
  <2> DEFINE q == [NoPublish EXCEPT !.pc = "carry", !.client = c, !.expected = cl[c].seen, !.next = next]
  <2>2. /\ man' = man /\ cl[c].pc = "idle" /\ pub[s].pc = "idle"
        /\ \/ UNCHANGED <<pub, cl>>
           \/ cl' = [cl EXCEPT ![c].pc = "publish"] /\ pub' = [pub EXCEPT ![s] = q]
    BY <2>1, Zenon DEF CompareAndSetRoot
  <2>3. q.pc = "carry" /\ q.client = c
    BY DEF NoPublish
  <2> HIDE DEF q
  <2>4. CASE UNCHANGED <<pub, cl>>
    BY <2>2, <2>4 DEF SameCalls, CallStep
  <2>5. CASE cl' = [cl EXCEPT ![c].pc = "publish"] /\ pub' = [pub EXCEPT ![s] = q]
    BY <1>0, <2>2, <2>3, <2>5 DEF BeginsCall, CallStep, TypeOK, StoreTypeOK, Caller
  <2>6. QED
    BY <2>2, <2>4, <2>5
<1>3. QED
  BY <1>1, <1>2 DEF ClientStep
(* A publish's step goes on, lands, or ends its call (publishCounted,      *)
(* publishOnce).                                                           *)
LEMMA PublishCalls ==
  ASSUME TypeOK, NEW s \in Store, PublishStep(s)
  PROVE  CallStep
<1>0. st[s] \in Session /\ pub[s] \in Publish
  BY DEF TypeOK, StoreTypeOK
<1> DEFINE Ended == Refuse(s) /\ pub[s].pc # "idle" /\ man' = man
           Went(q) == /\ pub' = [pub EXCEPT ![s] = q] /\ cl' = cl /\ man' = man
                      /\ pub[s].pc \notin {"idle", "landed"} /\ q.pc \notin {"idle", "landed"}
                      /\ q.client = pub[s].client
                      /\ q.expected = pub[s].expected /\ q.next = pub[s].next
<1>1. ASSUME Ended PROVE CallStep
  BY <1>1, RefuseEnds DEF CallStep
<1>2. ASSUME NEW q, Went(q) PROVE CallStep
  BY Zenon, <1>2, SameCallsIf DEF CallStep
<1>3. CASE CarryForward(s)
  <2>1. pub[s].pc = "carry" /\ man' = man
    BY <1>3 DEF CarryForward
  <2>2. \/ pub' = [pub EXCEPT ![s].pc = "wait"] /\ cl' = cl
        \/ UNCHANGED <<pub, cl>>
        \/ Refuse(s)
    BY Zenon, <1>3 DEF CarryForward
  <2>3. CASE pub' = [pub EXCEPT ![s].pc = "wait"] /\ cl' = cl
    <3>1. Went([pub[s] EXCEPT !.pc = "wait"])
      BY <1>0, <2>1, <2>3 DEF Publish, TypeOK, StoreTypeOK
    <3>2. QED
      BY Zenon, <1>2, <3>1
  <2>4. CASE UNCHANGED <<pub, cl>>
    BY Zenon, <2>1, <2>4 DEF SameCalls, CallStep
  <2>5. QED
    BY <1>1, <2>1, <2>2, <2>3, <2>4
<1>4. CASE CollectPacks(s)
  <2>1. pub[s].pc = "wait" /\ man' = man
    BY <1>4, Zenon DEF CollectPacks
  <2>2. \/ Refuse(s)
        \/ cl' = cl /\ \E P : pub' = [pub EXCEPT ![s].pc = "write", ![s].toUpload = P]
    BY <1>4, Zenon DEF CollectPacks
  <2>3. ASSUME cl' = cl, NEW P, pub' = [pub EXCEPT ![s].pc = "write", ![s].toUpload = P]
        PROVE  Went([pub[s] EXCEPT !.pc = "write", !.toUpload = P])
    <3> DEFINE q == [pub[s] EXCEPT !.pc = "write", !.toUpload = P]
    <3>1. pub' = [pub EXCEPT ![s] = q]
      BY Zenon, <2>3 DEF TypeOK, StoreTypeOK
    <3>2. /\ q.pc = "write" /\ q.client = pub[s].client
          /\ q.expected = pub[s].expected /\ q.next = pub[s].next
      BY <1>0 DEF Publish
    <3> HIDE DEF q
    <3>3. Went(q)
      BY Zenon, <2>1, <2>3, <3>1, <3>2
    <3>4. QED
      BY <3>3 DEF q
  <2> HIDE DEF Went, Ended
  <2>4. QED
    BY Zenon, <1>1, <1>2, <2>1, <2>2, <2>3 DEF Ended
<1>5. CASE UploadPacks(s)
  <2>1. /\ pub[s].pc = "write" /\ UNCHANGED <<man, cl>>
        /\ \E d : pub' = [pub EXCEPT ![s].packsDone = d]
    BY <1>5, Zenon DEF UploadPacks
  <2>2. PICK d : pub' = [pub EXCEPT ![s].packsDone = d]
    BY Zenon, <2>1
  <2>3. Went([pub[s] EXCEPT !.packsDone = d])
    BY Zenon, <1>0, <2>1, <2>2 DEF Publish, TypeOK, StoreTypeOK
  <2>4. QED
    BY Zenon, <1>2, <2>3
<1>6. CASE WriteSessionIndex(s)
  <2>1. pub[s].pc = "write" /\ UNCHANGED <<man, cl>>
    BY <1>6, Zenon DEF WriteSessionIndex
  <2>2. \/ \E d : pub' = [pub EXCEPT ![s].indexDone = d]
        \/ \E i : pub' = [pub EXCEPT ![s].indexDone = "yes", ![s].index = i]
    BY <1>6, Zenon DEF WriteSessionIndex
  <2>3. ASSUME NEW d, pub' = [pub EXCEPT ![s].indexDone = d]
        PROVE  Went([pub[s] EXCEPT !.indexDone = d])
    BY <1>0, <2>1, <2>3 DEF Publish, TypeOK, StoreTypeOK
  <2>4. ASSUME NEW i, pub' = [pub EXCEPT ![s].indexDone = "yes", ![s].index = i]
        PROVE  Went([pub[s] EXCEPT !.indexDone = "yes", !.index = i])
    <3> DEFINE q == [pub[s] EXCEPT !.indexDone = "yes", !.index = i]
    <3>1. pub' = [pub EXCEPT ![s] = q]
      BY Zenon, <2>4 DEF TypeOK, StoreTypeOK
    <3>2. /\ q.pc = "write" /\ q.client = pub[s].client
          /\ q.expected = pub[s].expected /\ q.next = pub[s].next
      BY <1>0, <2>1 DEF Publish
    <3> HIDE DEF q
    <3>3. Went(q)
      BY <2>1, <3>1, <3>2
    <3>4. QED
      BY <3>3 DEF q
  <2> HIDE DEF Went
  <2>5. QED
    BY Zenon, <1>2, <2>2, <2>3, <2>4
<1>7. CASE RecordIndex(s)
  <2>1. pub[s].pc = "write" /\ man' = man
    BY <1>7, Zenon DEF RecordIndex
  <2>2. Refuse(s) \/ (pub' = [pub EXCEPT ![s].pc = "attempt"] /\ cl' = cl)
    BY <1>7, Zenon DEF RecordIndex
  <2>3. CASE pub' = [pub EXCEPT ![s].pc = "attempt"] /\ cl' = cl
    <3>1. Went([pub[s] EXCEPT !.pc = "attempt"])
      BY <1>0, <2>1, <2>3 DEF Publish, TypeOK, StoreTypeOK
    <3>2. QED
      BY Zenon, <1>2, <3>1
  <2>4. QED
    BY <1>1, <2>1, <2>2, <2>3
<1>8. CASE Attempt(s)
  <2> DEFINE again == [NoPublish EXCEPT !.pc = "carry", !.client = pub[s].client,
                         !.expected = pub[s].expected, !.next = pub[s].next,
                         !.carries = pub[s].carries + 1]
             swap(m, w, r) == [pub[s] EXCEPT !.pc = "swap", !.upd = m, !.written = w, !.replaced = r]
  <2>1. pub[s].pc = "attempt" /\ man' = man
    BY <1>8, Zenon DEF Attempt
  <2>2. \/ Refuse(s)
        \/ pub' = [pub EXCEPT ![s] = again] /\ cl' = cl
        \/ cl' = cl /\ \E m, w, r :
             pub' = [pub EXCEPT ![s].pc = "swap", ![s].upd = m, ![s].written = w, ![s].replaced = r]
    <3> DEFINE q == pub[s]
               stale == q.attempt > 0 \/ st[s].man.root # q.expected
               r == IF stale THEN refresh(st[s]) ELSE st[s]
               list == r.man.indexes \cup r.sessionIdx
               upd(indexes) == [r.man EXCEPT !.seq = @ + 1, !.root = q.next, !.indexes = indexes]
               swapping(written, replaced) ==
                 pub' = [pub EXCEPT ![s].pc = "swap", ![s].upd = upd((list \ replaced) \cup written),
                                    ![s].written = written, ![s].replaced = replaced]
    <3>1. \/ Refuse(s)
          \/ pub' = [pub EXCEPT ![s] = again] /\ cl' = cl
          \/ cl' = cl /\ \E written, replaced : swapping(written, replaced)
      BY <1>8, Zenon DEF Attempt
    <3>2. ASSUME NEW written, NEW replaced, swapping(written, replaced)
          PROVE  \E m, w, o :
                   pub' = [pub EXCEPT ![s].pc = "swap", ![s].upd = m, ![s].written = w, ![s].replaced = o]
      <4> DEFINE m == upd((list \ replaced) \cup written)
      <4>1. pub' = [pub EXCEPT ![s].pc = "swap", ![s].upd = m, ![s].written = written, ![s].replaced = replaced]
        BY Zenon, <3>2
      <4> HIDE DEF m
      <4>2. QED
        BY Zenon, <4>1
    <3> HIDE DEF swapping
    <3>3. QED
      BY Zenon, <3>1, <3>2
  <2>3. CASE pub' = [pub EXCEPT ![s] = again] /\ cl' = cl
    <3>1. /\ again.pc = "carry" /\ again.client = pub[s].client
          /\ again.expected = pub[s].expected /\ again.next = pub[s].next
      BY DEF NoPublish
    <3> HIDE DEF again
    <3>2. QED
      BY Zenon, <1>2, <2>1, <2>3, <3>1
  <2>4. ASSUME cl' = cl, NEW m, NEW w, NEW r,
               pub' = [pub EXCEPT ![s].pc = "swap", ![s].upd = m, ![s].written = w, ![s].replaced = r]
        PROVE  Went(swap(m, w, r))
    <3>1. pub' = [pub EXCEPT ![s] = swap(m, w, r)]
      BY Zenon, <2>4 DEF TypeOK, StoreTypeOK
    <3>2. /\ swap(m, w, r).pc = "swap" /\ swap(m, w, r).client = pub[s].client
          /\ swap(m, w, r).expected = pub[s].expected /\ swap(m, w, r).next = pub[s].next
      BY <1>0 DEF Publish
    <3> HIDE DEF swap
    <3>3. QED
      BY Zenon, <2>1, <2>4, <3>1, <3>2
  <2> HIDE DEF Went, swap, again, Ended
  <2>5. QED
    BY Zenon, <1>1, <1>2, <2>1, <2>2, <2>3, <2>4 DEF Ended
<1>9. CASE SwapRoot(s)
  <2>1. pub[s].pc = "swap"
    BY <1>9 DEF SwapRoot
  <2>2. \/ /\ pub[s].upd.seq = man.seq + 1 /\ man' = pub[s].upd
           /\ Refuse(s) \/ (pub' = [pub EXCEPT ![s].pc = "landed"] /\ cl' = cl)
        \/ /\ man' = man
           /\ \/ Refuse(s)
              \/ /\ cl' = cl
                 /\ pub' = [pub EXCEPT ![s].pc = "attempt", ![s].attempt = @ + 1,
                          ![s].upd = InitManifest, ![s].written = {}, ![s].replaced = {}]
    BY <1>9, Zenon DEF SwapRoot
  <2>3. CASE /\ pub[s].upd.seq = man.seq + 1 /\ man' = pub[s].upd
             /\ Refuse(s) \/ (pub' = [pub EXCEPT ![s].pc = "landed"] /\ cl' = cl)
    BY <1>0, <2>1, <2>3, RefuseEnds DEF LandsCall, CallStep, Publish, TypeOK, StoreTypeOK
  <2>4. CASE man' = man /\ Refuse(s)
    BY <1>1, <2>1, <2>4
  <2>5. CASE /\ man' = man /\ cl' = cl
             /\ pub' = [pub EXCEPT ![s].pc = "attempt", ![s].attempt = @ + 1,
                          ![s].upd = InitManifest, ![s].written = {}, ![s].replaced = {}]
    <3> DEFINE q == [pub[s] EXCEPT !.pc = "attempt", !.attempt = @ + 1,
                       !.upd = InitManifest, !.written = {}, !.replaced = {}]
    <3>1. pub' = [pub EXCEPT ![s] = q]
      BY Zenon, <2>5 DEF TypeOK, StoreTypeOK
    <3>2. /\ q.pc = "attempt" /\ q.client = pub[s].client
          /\ q.expected = pub[s].expected /\ q.next = pub[s].next
      BY <1>0 DEF Publish
    <3> HIDE DEF q
    <3>3. QED
      BY Zenon, <1>2, <2>1, <2>5, <3>1, <3>2
  <2>6. QED
    BY Zenon, <2>2, <2>3, <2>4, <2>5
<1>10. CASE Landed(s)
  <2>1. pub[s].pc = "landed" /\ man' = man /\ pub' = [pub EXCEPT ![s] = NoPublish]
    BY Zenon, <1>10 DEF Landed
  <2>2. NoPublish.pc = "idle" /\ pub[s].client \in Client
    BY Zenon, <1>0 DEF NoPublish, Publish
  <2>3. EndsCall(s)
    <3>1. cl' = [cl EXCEPT ![pub[s].client].pc = "idle", ![pub[s].client].seen = pub[s].next,
                           ![pub[s].client].told = IF HoldAcross THEN @ ELSE {}]
      BY Zenon, <1>10 DEF Landed
    <3>2. cl'[pub[s].client].pc = "idle" /\ \A c \in Client \ {pub[s].client} : cl'[c] = cl[c]
      BY <1>0, <2>2, <3>1 DEF TypeOK, StoreTypeOK, Caller
    <3>3. pub'[s] = NoPublish /\ \A t \in Store \ {s} : pub'[t] = pub[t]
      BY <1>0, <2>1 DEF TypeOK, StoreTypeOK
    <3> QED  BY <2>1, <2>2, <3>2, <3>3 DEF EndsCall
  <2>4. QED
    BY <2>1, <2>3 DEF CallStep
<1>11. QED
  BY <1>3, <1>4, <1>5, <1>6, <1>7, <1>8, <1>9, <1>10 DEF PublishStep

(* Finishers touch no call; a store that stops ends its own.               *)
LEMMA StoreCalls ==
  ASSUME TypeOK, NEW s \in Store, FinisherStep(s) \/ PublishStep(s) \/ Reopen(s)
  PROVE  CallStep
<1>1. CASE FinisherStep(s)
  <2>1. UNCHANGED <<man, pub, cl>>
    BY <1>1, Zenon DEF FinisherStep, Finish, Upload
  <2>2. QED
    BY <2>1 DEF SameCalls, CallStep
<1>2. CASE Reopen(s)
  <2>1. /\ pub' = [pub EXCEPT ![s] = NoPublish] /\ man' = man
        /\ cl' = [c \in Client |-> IF Host[c] = s
              THEN [NoClient EXCEPT !.seen = man.root]
              ELSE cl[c]]
    BY <1>2, Zenon DEF Reopen
  <2>2. NoPublish.pc = "idle" /\ [NoClient EXCEPT !.seen = man.root].pc = "idle"
    BY DEF NoPublish, NoClient
  <2>3. EndsStore(s)
    BY <2>1, <2>2 DEF EndsStore, TypeOK, StoreTypeOK
  <2>4. QED
    BY <2>1, <2>3 DEF CallStep
<1>3. QED
  BY <1>1, <1>2, PublishCalls
------------------------------------------------------------------------------
(* The inductive invariant, and the theorems.                              *)

Inv == TypeOK /\ SwapsSucceed /\ Past(InitManifest)

(* The invariant holds at the start.                                       *)
LEMMA InitInv == Init => Inv
<1> SUFFICES ASSUME Init PROVE Inv
  OBVIOUS
<1> USE DEF Init, StoreInit, ObjectsInit, CollectorInit
<1>1. TypeOK
  BY InitTypeOK
<1>2. man = InitManifest /\ Past(InitManifest)
  <2>1. InitManifest.seq \in Nat
    BY DEF InitManifest
  <2>2. QED
    BY <2>1 DEF Past
<1>3. /\ \A s \in Store : st[s].man = InitManifest /\ pub[s].pc = "idle"
      /\ \A c \in Client : cl[c].plan.man = InitManifest /\ cl[c].pc = "idle"
      /\ \A g \in Collectors : gc[g].man = InitManifest /\ gc[g].pc = "idle"
  BY Zenon, <1>2 DEF Opened, NoPublish, NoClient, NoPlan, NoRound
<1>4. \A c \in Client : Host[c] \in Store
  BY HostAssumption
<1>5. SwapsSucceed
  BY Zenon, <1>2, <1>3, <1>4 DEF SwapsSucceed, HoldsPast, OneCall
<1>6. QED
  BY <1>1, <1>2, <1>5 DEF Inv

(* What steps do to calls keeps one call to a store's publish (commitMu).  *)
LEMMA OneCallKept ==
  ASSUME TypeOK, OneCall, CallStep
  PROVE  OneCall'
<1>0. (\A c \in Client : Host[c] \in Store) /\ (\A s \in Store : pub[s].client \in Client)
  BY HostAssumption DEF TypeOK, StoreTypeOK, Publish
<1>1. CASE SameCalls
  BY <1>0, <1>1 DEF SameCalls, OneCall
<1>2. CASE \E s \in Store : EndsCall(s)
  BY <1>0, <1>2 DEF EndsCall, OneCall
<1>3. CASE \E s \in Store : EndsStore(s)
  BY <1>0, <1>3 DEF EndsStore, OneCall
<1>4. CASE \E s \in Store : LandsCall(s)
  <2>1. PICK s \in Store : LandsCall(s)
    BY <1>4
  <2>2. CASE EndsCall(s)
    BY <1>2, <2>2
  <2>3. CASE ~EndsCall(s)
    BY <1>0, <2>1, <2>3 DEF LandsCall, OneCall
  <2>4. QED
    BY <2>2, <2>3
<1>5. CASE \E c \in Client : BeginsCall(c)
  BY <1>0, <1>5 DEF BeginsCall, OneCall
<1>6. QED
  BY <1>1, <1>2, <1>3, <1>4, <1>5 DEF CallStep

(* Every step but a collector's does one of those things.                  *)
LEMMA StepCalls ==
  ASSUME TypeOK, [Next]_vars
  PROVE  CallStep \/ (UNCHANGED <<pub, cl>> /\ \E g \in Collectors : CollectorStep(g))
<1>1. CASE Tick \/ UNCHANGED vars
  BY Zenon, <1>1 DEF Tick, vars, CallStep, SameCalls
<1>2. QED
  BY <1>1, ClientCalls, StoreCalls DEF Next

(* The invariant is inductive.                                             *)
LEMMA NextInv == Inv /\ [Next]_vars => Inv'
<1> SUFFICES ASSUME Inv, [Next]_vars PROVE Inv'
  OBVIOUS
<1>1. TypeOK /\ TypeOK' /\ Moves /\ Holds
  BY NextTypeOK, StepHolds DEF Inv
<1>2. man.seq \in Nat /\ man'.seq \in Nat /\ InitManifest.seq \in Nat
  BY <1>1, InitTypes DEF TypeOK, ObjectsTypeOK, Manifest
<1>3. /\ \A s \in Store : st[s].man.seq \in Nat /\ pub[s].upd.seq \in Nat
      /\ \A c \in Client : cl[c].plan.man.seq \in Nat
      /\ \A g \in Collectors : gc[g].man.seq \in Nat /\ gc[g].upd.seq \in Nat
  <2>1. \A m \in Manifest : m.seq \in Nat  BY DEF Manifest
  <2>2. \A s \in Store : st[s].man \in Manifest /\ pub[s].upd \in Manifest
    BY ONLY <1>1 DEF TypeOK, StoreTypeOK, Session, Publish
  <2>3. \A c \in Client : cl[c].plan.man \in Manifest
    BY ONLY <1>1 DEF TypeOK, StoreTypeOK, Caller, Plan
  <2>4. \A g \in Collectors : gc[g].man \in Manifest /\ gc[g].upd \in Manifest
    BY ONLY <1>1 DEF TypeOK, CollectorTypeOK, Round
  <2> QED  BY ONLY Zenon, <2>1, <2>2, <2>3, <2>4
<1> DEFINE PastAt(m) == m.seq <= man'.seq /\ (m.seq = man'.seq => m = man')
<1>4. \A m : m.seq \in Nat /\ Past(m) => PastAt(m)
  BY <1>1, PastKept DEF Past
<1>5. PastAt(man) /\ PastAt(man') /\ PastAt(InitManifest)
  BY <1>1, <1>2, <1>4 DEF Inv, Past
<1>6. HoldsPast /\ OneCall
  BY Zenon DEF Inv, SwapsSucceed
<1>7. HoldsPast'
  <2>1. \A s \in Store : PastAt(st'[s].man)
    BY Zenon, <1>1, <1>3, <1>4, <1>5, <1>6 DEF HoldsPast, Holds, StoresHold
  <2>2. \A s \in Store : pub'[s].pc = "landed" => PastAt(pub'[s].upd)
    BY Zenon, <1>1, <1>3, <1>4, <1>5, <1>6 DEF HoldsPast, Holds, PublishesHold
  <2>3. \A c \in Client : PastAt(cl'[c].plan.man)
    BY Zenon, <1>1, <1>3, <1>4, <1>5, <1>6 DEF HoldsPast, Holds, PlansHold
  <2>4. \A g \in Collectors : PastAt(gc'[g].man)
    BY Zenon, <1>1, <1>3, <1>4, <1>5, <1>6 DEF HoldsPast, Holds, RoundsHold
  <2>5. QED
    BY Zenon, <2>1, <2>2, <2>3, <2>4 DEF HoldsPast, Past
<1>8. OneCall'
  <2>1. CASE CallStep
    BY <1>1, <1>6, <2>1, OneCallKept
  <2>2. CASE UNCHANGED <<pub, cl>>
    BY <1>6, <2>2 DEF OneCall
  <2>3. QED
    BY <1>1, <2>1, <2>2, StepCalls
<1>9. \A s \in Store : pub'[s].pc = "swap" =>
        \/ pub'[s].upd.seq <= man'.seq
        \/ /\ pub'[s].upd.seq = man'.seq + 1 /\ pub'[s].upd.root = pub'[s].next
           /\ man'.root = pub'[s].expected
  <2> SUFFICES ASSUME NEW s \in Store, pub'[s].pc = "swap"
               PROVE  \/ pub'[s].upd.seq <= man'.seq
                      \/ /\ pub'[s].upd.seq = man'.seq + 1 /\ pub'[s].upd.root = pub'[s].next
                         /\ man'.root = pub'[s].expected
    BY Zenon
  <2>1. CASE pub'[s] = pub[s]
    BY <1>1, <1>2, <1>3, <2>1 DEF Inv, SwapsSucceed, Moves
  <2>2. CASE /\ man' = man
             /\ \E m \in {st[s].man, man} :
                  /\ m.root = pub'[s].expected
                  /\ pub'[s].upd.seq = m.seq + 1 /\ pub'[s].upd.root = pub'[s].next
    BY <1>2, <1>3, <1>6, <2>2 DEF HoldsPast, Past
  <2>3. QED
    BY Zenon, <1>1, <2>1, <2>2 DEF Holds, PublishesHold
<1>10. \A g \in Collectors : gc'[g].pc = "swap" =>
        gc'[g].upd.seq <= man'.seq \/ (gc'[g].upd.seq = man'.seq + 1 /\ gc'[g].upd.root = man'.root)
  <2> SUFFICES ASSUME NEW g \in Collectors, gc'[g].pc = "swap"
               PROVE  \/ gc'[g].upd.seq <= man'.seq
                      \/ gc'[g].upd.seq = man'.seq + 1 /\ gc'[g].upd.root = man'.root
    OBVIOUS
  <2>1. CASE gc'[g] = gc[g]
    BY <1>1, <1>2, <1>3, <2>1 DEF Inv, SwapsSucceed, Moves
  <2>2. CASE /\ man' = man
             /\ gc'[g].upd.seq = gc[g].man.seq + 1 /\ gc'[g].upd.root = gc[g].man.root
    <3>1. gc[g].man.seq \in Nat /\ gc[g].man.seq <= man.seq /\ (gc[g].man.seq = man.seq => gc[g].man = man)
      BY <1>3, <1>6 DEF HoldsPast, Past
    <3> QED  BY ONLY <1>2, <2>2, <3>1
  <2>3. QED
    BY Zenon, <1>1, <2>1, <2>2 DEF Holds, RoundsHold
<1>11. QED
  BY Zenon, <1>1, <1>5, <1>7, <1>8, <1>9, <1>10 DEF Inv, SwapsSucceed, Past

(* Whatever the constants, no swap that can land lands on anything but the *)
(* manifest it was made from, over the root its caller expected            *)
(* (publishOnce, Collection.Apply).                                        *)
THEOREM SwapsSucceedAlways == Spec => []SwapsSucceed
<1>1. Inv => SwapsSucceed
  BY DEF Inv
<1>2. QED
  BY <1>1, InitInv, NextInv, PTL DEF Spec
------------------------------------------------------------------------------
(* Each step is a step of the register, or none.                           *)

(* Calls that are the same map to the same calls of the register.          *)
LEMMA SameRegister ==
  ASSUME Inv, SameCalls
  PROVE  Calls' = Calls
<1>1. \A c \in Client : Host[c] \in Store
  BY HostAssumption
<1>2. QED
  BY Zenon, <1>1 DEF SameCalls, Calls

(* A call that ends is withdrawn from the register, unless it had landed.  *)
LEMMA EndsRegister ==
  ASSUME Inv, NEW s \in Store, EndsCall(s)
  PROVE  \/ pub[s].pc = "landed" /\ Calls' = Calls
         \/ /\ pub[s].pc # "landed" /\ Calls[pub[s].client] = <<pub[s].expected, pub[s].next>>
            /\ Calls' = [Calls EXCEPT ![pub[s].client] = <<>>]
<1> DEFINE c == pub[s].client
<1>1. (\A d \in Client : Host[d] \in Store) /\ c \in Client /\ OneCall
  BY Zenon, HostAssumption DEF Inv, SwapsSucceed, TypeOK, StoreTypeOK, Publish
<1>2. Host[c] = s /\ cl[c].pc = "publish" /\ pub[s].pc # "idle"
  BY <1>1 DEF OneCall, EndsCall
<1>3. \A d \in Client \ {c} : cl[d].pc = "publish" => Host[d] # s
  BY <1>1 DEF OneCall
<1>4. Calls'[c] = <<>> /\ \A d \in Client \ {c} : Calls'[d] = Calls[d]
  BY Zenon, <1>1, <1>2, <1>3 DEF Calls, EndsCall
<1>5. Calls[c] = IF pub[s].pc = "landed" THEN <<>> ELSE <<pub[s].expected, pub[s].next>>
  BY Zenon, <1>1, <1>2 DEF Calls
<1>6. Calls = [d \in Client |-> Calls[d]] /\ Calls' = [d \in Client |-> Calls'[d]]
  BY DEF Calls
<1> HIDE DEF c
<1>7. QED
  BY <1>1, <1>4, <1>5, <1>6 DEF c

(* A call in progress is not no call.                                      *)
LEMMA NoPair == \A e, n : <<e, n>> # <<>>
OBVIOUS
(* Each step is a step of the register or none: a swap that lands is Land, *)
(* a publish refused or cut short is Fail.                                 *)
LEMMA StepRegister ==
  ASSUME Inv, [Next]_vars
  PROVE  [Register!Next]_(Register!vars)
<1>0. /\ \A c \in Client : Host[c] \in Store
      /\ \A s \in Store : pub[s].client \in Client
      /\ TypeOK /\ TypeOK' /\ OneCall
  BY Zenon, HostAssumption, NextTypeOK DEF Inv, SwapsSucceed, TypeOK, StoreTypeOK, Publish
<1> USE DEF Register!vars
<1>1. CASE SameCalls /\ man' = man
  BY <1>1, SameRegister
<1>2. CASE \E s \in Store : EndsCall(s) /\ man' = man
  <2>1. PICK s \in Store : EndsCall(s) /\ man' = man
    BY <1>2
  <2>2. CASE Calls' = Calls
    BY <2>1, <2>2
  <2>3. CASE /\ Calls[pub[s].client] = <<pub[s].expected, pub[s].next>>
             /\ Calls' = [Calls EXCEPT ![pub[s].client] = <<>>]
    <3> DEFINE C == {pub[s].client}
    <3>1. C \in SUBSET Client /\ C # {} /\ \A c \in C : Calls[c] # <<>>
      BY <1>0, <2>3, NoPair
    <3>2. Calls' = [c \in Client |-> IF c \in C THEN <<>> ELSE Calls[c]]
      BY Zenon, <1>0, <2>3 DEF Calls
    <3>3. Register!Fail(C)
      BY <2>1, <3>1, <3>2 DEF Register!Fail
    <3>4. QED
      BY <3>1, <3>3 DEF Register!Next
  <2>4. QED
    BY Zenon, <2>1, <2>2, <2>3, EndsRegister
<1>3. CASE \E s \in Store : EndsStore(s) /\ man' = man
  <2>1. PICK s \in Store : EndsStore(s) /\ man' = man
    BY <1>3
  <2> DEFINE C == {c \in Client : Host[c] = s /\ Calls[c] # <<>>}
  <2>2. Calls' = [c \in Client |-> IF c \in C THEN <<>> ELSE Calls[c]]
    BY Zenon, <1>0, <2>1 DEF EndsStore, Calls
  <2>3. CASE C = {}
    <3>1. Calls' = Calls
      BY Zenon, <2>2, <2>3 DEF Calls
    <3>2. QED
      BY <2>1, <3>1
  <2>4. CASE C # {}
    <3>1. Register!Fail(C)
      BY Zenon, <2>1, <2>2, <2>4 DEF Register!Fail
    <3>2. QED
      BY <3>1 DEF Register!Next
  <2>5. QED
    BY <2>3, <2>4
<1>4. CASE \E s \in Store : LandsCall(s)
  <2>1. PICK s \in Store : LandsCall(s)
    BY <1>4
  <2> DEFINE c == pub[s].client
  <2>2. /\ pub[s].upd.root = pub[s].next /\ man.root = pub[s].expected
        /\ pub[s].pc = "swap" /\ man' = pub[s].upd
    <3>1. man.seq \in Nat
      BY Zenon, <1>0 DEF TypeOK, ObjectsTypeOK, Manifest
    <3>2. QED
      BY <2>1, <3>1 DEF LandsCall, Inv, SwapsSucceed
  <2>3. /\ Calls[c] = <<pub[s].expected, pub[s].next>>
        /\ Calls' = [Calls EXCEPT ![c] = <<>>]
    <3>1. CASE EndsCall(s)
      BY Zenon, <2>2, <3>1, EndsRegister
    <3>2. CASE ~EndsCall(s)
      <4>1. Host[c] = s /\ cl[c].pc = "publish" /\ c \in Client
        BY Zenon, <1>0, <2>2 DEF OneCall
      <4>2. \A d \in Client \ {c} : cl[d].pc = "publish" => Host[d] # s
        BY <1>0 DEF OneCall
      <4>3. pub'[s].pc = "landed" /\ cl' = cl /\ \A t \in Store \ {s} : pub'[t] = pub[t]
        BY <2>1, <3>2 DEF LandsCall
      <4>4. Calls[c] = <<pub[s].expected, pub[s].next>>
        BY Zenon, <2>2, <4>1 DEF Calls
      <4>5. Calls'[c] = <<>> /\ \A d \in Client \ {c} : Calls'[d] = Calls[d]
        BY Zenon, <1>0, <4>1, <4>2, <4>3 DEF Calls
      <4>6. Calls = [d \in Client |-> Calls[d]] /\ Calls' = [d \in Client |-> Calls'[d]]
        BY Zenon DEF Calls
      <4> HIDE DEF c
      <4>7. QED
        BY Zenon, <4>1, <4>4, <4>5, <4>6 DEF c
    <3>3. QED
      BY Zenon, <3>1, <3>2
  <2>4. Calls[c] # <<>> /\ Calls[c][1] = man.root /\ Calls[c][2] = man'.root
    BY <2>2, <2>3, NoPair
  <2>5. Register!Land(c)
    BY <2>3, <2>4 DEF Register!Land
  <2>6. QED
    BY <1>0, <2>5 DEF Register!Next
<1>5. CASE \E c \in Client : BeginsCall(c) /\ man' = man
  <2>1. PICK c \in Client : BeginsCall(c) /\ man' = man
    BY <1>5
  <2> DEFINE e == pub'[Host[c]].expected
             n == pub'[Host[c]].next
  <2>2. e \in Root /\ n \in Root
    BY Zenon, <1>0 DEF TypeOK, StoreTypeOK, Publish
  <2>3. Calls[c] = <<>>
    BY Zenon, <2>1 DEF BeginsCall, Calls
  <2>4. Calls'[c] = <<e, n>>
    BY Zenon, <2>1 DEF BeginsCall, Calls
  <2>5. \A d \in Client \ {c} : Calls'[d] = Calls[d]
    <3> SUFFICES ASSUME NEW d \in Client \ {c} PROVE Calls'[d] = Calls[d]  OBVIOUS
    <3>1. cl'[d] = cl[d] /\ (Host[d] # Host[c] => pub'[Host[d]] = pub[Host[d]])
      BY HostAssumption, <2>1 DEF BeginsCall
    <3>2. Host[d] = Host[c] => cl[d].pc # "publish"
      <4>1. cl[d].pc = "publish" => pub[Host[d]].pc # "idle"  BY <1>0 DEF OneCall
      <4>2. pub[Host[c]].pc = "idle"  BY <2>1 DEF BeginsCall
      <4> QED  BY ONLY <4>1, <4>2
    <3> QED  BY Zenon, <3>1, <3>2 DEF Calls
  <2>6. Calls = [d \in Client |-> Calls[d]] /\ Calls' = [d \in Client |-> Calls'[d]]
    BY Zenon DEF Calls
  <2>7. Calls' = [Calls EXCEPT ![c] = <<e, n>>]
    BY <2>4, <2>5, <2>6
  <2>8. Register!Call(c)
    BY Zenon, <2>1, <2>2, <2>3, <2>7 DEF Register!Call
  <2>9. QED
    BY <2>8 DEF Register!Next
<1>6. CASE UNCHANGED <<pub, cl>> /\ \E g \in Collectors : CollectorStep(g)
  <2>1. Calls' = Calls
    BY <1>6 DEF Calls
  <2>2. man'.root = man.root
    <3>1. PICK g \in Collectors : CollectorStep(g)
      BY <1>6
    <3>2. man' = man \/ (gc[g].pc = "swap" /\ gc[g].upd.seq = man.seq + 1 /\ man' = gc[g].upd)
      BY <3>1, Zenon DEF CollectorStep, Begin, Apply, Swap, Delete, Stop
    <3>3. man.seq \in Nat
      BY <1>0 DEF TypeOK, ObjectsTypeOK, Manifest
    <3>4. QED
      BY <3>2, <3>3 DEF Inv, SwapsSucceed
  <2>3. QED
    BY <2>1, <2>2
<1>7. QED
  BY Zenon, <1>0, <1>1, <1>2, <1>3, <1>4, <1>5, <1>6, StepCalls DEF CallStep

(* The initial states map to the register's.                               *)
LEMMA InitRegister == Init => Register!Init
<1> SUFFICES ASSUME Init PROVE Register!Init
  OBVIOUS
<1>1. man.root = InitRoot
  BY DEF Init, ObjectsInit, InitManifest
<1>2. \A c \in Client : cl[c].pc = "idle"
  BY DEF Init, StoreInit, NoClient
<1>3. Calls = [c \in Client |-> <<>>]
  BY <1>2 DEF Calls
<1>4. QED
  BY <1>1, <1>3 DEF Register!Init

(* The root is a compare-and-set register (chunk.Store's contract on       *)
(* CompareAndSetRoot) for any chunks, roots, stores, clients, collectors,  *)
(* faults and bounds: each call moves it at most once, from the root it    *)
(* expects to the one it wrote, and nothing else moves it.                 *)
THEOREM Refinement == Spec => RefinesRegister
<1>1. Inv /\ [Next]_vars => [Register!Next]_(Register!vars)
  BY StepRegister
<1>2. QED
  BY <1>1, InitInv, NextInv, InitRegister, PTL DEF Spec, RefinesRegister, Register!Spec
=============================================================================
