--------------------------- MODULE PackSystemProofs ---------------------------
(***************************************************************************)
(* PackSystem keeps its types: what each operator returns, one lemma per   *)
(* action, and the theorem.                                                *)
(***************************************************************************)
EXTENDS PackSystem, WellFoundedInduction, TLAPS

\* The order of the naturals as a set of pairs.
Below == {ss \in Nat \X Nat : ss[1] < ss[2]}

(* A non-empty set of naturals holds its least (the first holder of a      *)
(* chunk).                                                                 *)
LEMMA MinIn ==
  ASSUME NEW S, S \subseteq Nat, S # {}
  PROVE  Min(S) \in S
<1>1. IsWellFoundedOn(Below, Nat)
  BY NatLessThanWellFounded DEF OpToRel, Below
<1>2. PICK x \in S : \A n \in S : ~(<<n, x>> \in Below)
  BY <1>1, WFMin, Zenon
<1>3. ASSUME NEW n \in S PROVE x <= n
  <2>1. <<n, x>> \in Nat \X Nat /\ ~(<<n, x>> \in Below)
    BY <1>2
  <2>2. ~(n < x)
    BY <2>1, Zenon DEF Below
  <2>3. QED
    BY <2>2
<1>4. QED
  BY Zenon, <1>3 DEF Min

(* The least of some packs is a pack.                                      *)
LEMMA MinPack ==
  \A S \in SUBSET PackId : S # {} => Min(S) \in PackId
<1>1. PackId \subseteq Nat
  BY BoundAssumption DEF PackId
<1>2. ASSUME NEW S \in SUBSET PackId, S # {} PROVE Min(S) \in PackId
  <2>1. S \subseteq Nat
    BY <1>1
  <2>2. Min(S) \in S
    BY <1>2, <2>1, MinIn, Zenon
  <2>3. QED
    BY <2>2
<1>3. QED
  BY <1>2

(* FirstHolder finds a pack or None (Index.Add, in order).                 *)
LEMMA HolderIn ==
  ASSUME ObjectsTypeOK, NEW x, NEW P \in SUBSET PackId, NEW cond
  PROVE  FirstHolder(x, P, cond) \in PackId \cup {None}
<1> DEFINE holders == {p \in P : x \in packs[p].chunks}
<1>1. holders \in SUBSET PackId /\ holders \ cond \in SUBSET PackId
  OBVIOUS
<1> HIDE DEF holders
<1>2. IF holders \ cond # {} THEN Min(holders \ cond) \in PackId
      ELSE holders # {} => Min(holders) \in PackId
  BY MinPack, <1>1
<1>3. FirstHolder(x, P, cond) = IF holders \ cond # {} THEN Min(holders \ cond)
                                ELSE IF holders # {} THEN Min(holders) ELSE None
  BY DEF FirstHolder, holders
<1>4. QED
  BY <1>2, <1>3

(* Fresh names are names.                                                  *)
LEMMA FreshIn ==
  ASSUME ObjectsTypeOK
  PROVE  FreshPacks \subseteq PackId /\ FreshObjs \subseteq IndexId
<1>1. ASSUME NEW S, S \subseteq Nat PROVE LeastIf(S) \subseteq S
  BY Zenon, <1>1, MinIn DEF LeastIf
<1>2. {p \in PackId : packs[p].chunks = {}} \subseteq Nat /\ {i \in IndexId : objs[i].packs = {}} \subseteq Nat
  BY DEF PackId, IndexId
<1>3. QED
  BY <1>1, <1>2 DEF FreshPacks, FreshObjs

(* Index objects list packs (loadIndex).                                   *)
LEMMA ListedIn ==
  ASSUME ObjectsTypeOK, NEW I \in SUBSET IndexId
  PROVE  ListedBy(I) \subseteq PackId
BY DEF ListedBy, ObjectsTypeOK, Object

(* Packs hold chunks.                                                      *)
LEMMA HeldIn ==
  ASSUME ObjectsTypeOK, NEW P \in SUBSET PackId
  PROVE  HeldBy(P) \subseteq Chunk
BY DEF HeldBy, ObjectsTypeOK, Pack

(* A manifest condemns packs (condemnedPacks).                             *)
LEMMA CondIn ==
  ASSUME NEW m \in Manifest
  PROVE  condemnedPacks(m) \subseteq PackId
BY DEF condemnedPacks, IdsOf, Ids, Manifest, Condemned, IndexKind

(* Adding packs to an index locates chunks in packs (addPacks).            *)
LEMMA AddPacksType ==
  ASSUME ObjectsTypeOK, NEW l \in [Chunk -> PackId \cup {None}], NEW P \in SUBSET PackId, NEW cond
  PROVE  AddPacks(l, P, cond) \in [Chunk -> PackId \cup {None}]
<1>1. \A x \in Chunk : FirstHolder(x, P, cond) \in PackId \cup {None}
  BY HolderIn
<1>2. QED
  BY <1>1 DEF AddPacks

(* So does adding a pack just built (finish, publishOnce).                 *)
LEMMA AddBuiltType ==
  ASSUME NEW l \in [Chunk -> PackId \cup {None}], NEW new \in SUBSET PackId, NEW C
  PROVE  AddBuilt(l, new, C) \in [Chunk -> PackId \cup {None}]
<1>1. new # {} => Min(new) \in PackId
  BY MinPack
<1>2. QED
  BY <1>1 DEF AddBuilt

(* The values state starts from, and falls back to, have their types.      *)
LEMMA InitTypes ==
  /\ InitManifest \in Manifest /\ NoRound \in Round
  /\ NoPublish \in Publish /\ NoPlan \in Plan /\ NoClient \in Caller
<1>1. InitManifest \in Manifest
  BY ChunkAssumption, BoundAssumption DEF InitManifest, Manifest, IndexId
<1>2. 0 \in Time
  BY BoundAssumption DEF Time
<1>3. NoRound \in Round
  BY <1>1, <1>2 DEF NoRound, Round
<1>4. (CHOOSE c \in Client : TRUE) \in Client
  BY HostAssumption
<1>5. NoPublish \in Publish
  BY <1>1, <1>4, ChunkAssumption DEF NoPublish, Publish, Done
<1>6. NoPlan \in Plan
  BY <1>1 DEF NoPlan, Plan
<1>7. NoClient \in Caller
  BY <1>2, <1>6, ChunkAssumption DEF NoClient, Caller
<1>8. QED
  BY <1>1, <1>3, <1>5, <1>6, <1>7
(* A refresh makes a plan of any manifest (refreshFrom).                   *)
LEMMA PlanType ==
  ASSUME NEW r \in Session, NEW m \in Manifest
  PROVE  RefreshPlan(r, m) \in Plan
BY DEF RefreshPlan, Plan, Manifest, Session

(* Applying a plan leaves a session, however stale the plan.               *)
LEMMA ApplyType ==
  ASSUME ObjectsTypeOK, NEW r \in Session, NEW plan \in Plan
  PROVE  RefreshApply(r, plan) \in Session
<1> DEFINE m == plan.man
           Loc == [Chunk -> PackId \cup {None}]
<1>1. m \in Manifest /\ m.indexes \in SUBSET IndexId /\ plan.toLoad \in SUBSET IndexId
  BY DEF Plan, Manifest
<1>2. condemnedPacks(m) \in SUBSET PackId
  BY <1>1, CondIn
<1>3. Unlocated \in Loc /\ r.loc \in Loc
  BY DEF Unlocated, Session
<1>4. AddPacks(AddPacks(Unlocated, ListedBy(m.indexes), condemnedPacks(m)), r.unpublished, {}) \in Loc
  <2>1. ListedBy(m.indexes) \in SUBSET PackId /\ r.unpublished \in SUBSET PackId
    BY <1>1, ListedIn DEF Session
  <2>2. AddPacks(Unlocated, ListedBy(m.indexes), condemnedPacks(m)) \in Loc
    BY <1>3, <2>1, AddPacksType
  <2>3. QED
    BY <2>1, <2>2, AddPacksType
<1>5. AddPacks(r.loc, ListedBy(plan.toLoad \ r.loaded), condemnedPacks(m)) \in Loc
  <2>1. ListedBy(plan.toLoad \ r.loaded) \in SUBSET PackId
    BY <1>1, ListedIn
  <2>2. QED
    BY Zenon, <1>3, <2>1, AddPacksType
<1> HIDE DEF m
<1>6. CASE plan.rebuild
  BY Zenon, <1>1, <1>2, <1>4, <1>6 DEF RefreshApply, Session, m
<1>7. CASE ~plan.rebuild
  BY ZenonT(60), <1>1, <1>2, <1>5, <1>7 DEF RefreshApply, Session, m
<1>8. QED
  BY <1>6, <1>7

(* So does refreshing.                                                     *)
LEMMA RefreshType ==
  ASSUME ObjectsTypeOK, NEW r \in Session
  PROVE  refresh(r) \in Session
<1>1. man \in Manifest
  BY DEF ObjectsTypeOK
<1>2. RefreshPlan(r, man) \in Plan
  BY <1>1, PlanType
<1>3. QED
  BY <1>2, ApplyType DEF refresh

(* So does Get, whether it finds the chunk or not.                         *)
LEMMA GotType ==
  ASSUME TypeOK, NEW s \in Store, NEW x \in Chunk
  PROVE  Got(s, x) \in Session
<1>1. st[s] \in Session
  BY DEF TypeOK, StoreTypeOK
<1>2. refresh(st[s]) \in Session
  BY <1>1, RefreshType DEF TypeOK
<1>3. QED
  BY Zenon, <1>1, <1>2 DEF Got, Session

(* Open makes a session.                                                   *)
LEMMA OpenedType ==
  ASSUME ObjectsTypeOK
  PROVE  Opened \in Session
<1>1. man \in Manifest /\ man.indexes \in SUBSET IndexId /\ man.gcGen \in Nat
  BY DEF ObjectsTypeOK, Manifest
<1>2. ListedBy(man.indexes) \in SUBSET PackId /\ condemnedPacks(man) \in SUBSET PackId
  BY <1>1, ListedIn, CondIn
<1>3. Unlocated \in [Chunk -> PackId \cup {None}]
  BY DEF Unlocated
<1>4. AddPacks(Unlocated, ListedBy(man.indexes), condemnedPacks(man)) \in [Chunk -> PackId \cup {None}]
  BY <1>2, <1>3, AddPacksType
<1>5. QED
  BY <1>1, <1>2, <1>4 DEF Opened, Session
(* The initial states have their type.                                     *)
LEMMA InitTypeOK == Init => TypeOK
<1> SUFFICES ASSUME Init PROVE TypeOK
  OBVIOUS
<1>1. ObjectsTypeOK
  <2>1. 0 \in Time /\ 0 \in 0..MaxCrashes
    BY BoundAssumption DEF Time
  <2>2. NoPack \in Pack /\ NoObject \in Object
    BY <2>1 DEF NoPack, NoObject, Pack, Object
  <2>3. DOMAIN InitPacks \in SUBSET PackId /\ \A p \in DOMAIN InitPacks : InitPacks[p] \in SUBSET Chunk
    BY InitAssumption DEF PackId
  <2>4. packs \in [PackId -> Pack]
    BY <2>1, <2>2, <2>3 DEF Init, ObjectsInit, Pack
  <2>5. objs \in [IndexId -> Object]
    BY <2>1, <2>2, <2>3 DEF Init, ObjectsInit, Object
  <2>6. QED
    BY Zenon, <2>1, <2>4, <2>5, InitTypes DEF Init, ObjectsInit, ObjectsTypeOK
<1>2. StoreTypeOK
  BY <1>1, OpenedType, InitTypes DEF Init, StoreInit, StoreTypeOK
<1>3. CollectorTypeOK
  BY InitTypes DEF Init, CollectorInit, CollectorTypeOK
<1>4. QED
  BY <1>1, <1>2, <1>3 DEF TypeOK

(* A put leaves sessions and packs (PutPrepared, each of its ends).        *)
LEMMA PutPreparedType ==
  ASSUME TypeOK, NEW s \in Store, NEW r \in Session, NEW x \in Chunk, PutPrepared(s, r, x)
  PROVE  st' \in [Store -> Session] /\ packs' \in [PackId -> Pack]
<1> USE DEF TypeOK, ObjectsTypeOK, StoreTypeOK
<1>1. CASE Update(s, r) /\ UNCHANGED packs
  BY <1>1 DEF Update
<1>2. CASE Update(s, [r EXCEPT !.deduped = @ \cup {x}]) /\ UNCHANGED packs
  BY ZenonT(60), <1>2 DEF Update, Session
<1>3. CASE Update(s, [r EXCEPT !.pending = @ \cup {x}]) /\ UNCHANGED packs
  BY ZenonT(60), <1>3 DEF Update, Session
<1>4. CASE \E p \in FreshPacks : /\ Update(s, [TakePending(r, p) EXCEPT !.pending = {x}])
                                /\ Build(p, r.pending)
  <2>1. PICK p \in PackId : /\ Update(s, [TakePending(r, p) EXCEPT !.pending = {x}])
                            /\ Build(p, r.pending)
    BY Zenon, <1>4, FreshIn
  <2>2. [TakePending(r, p) EXCEPT !.pending = {x}] \in Session
    BY Zenon DEF TakePending, Session
  <2>3. r.pending \in SUBSET Chunk
    BY DEF Session
  <2>4. QED
    BY <2>1, <2>2, <2>3 DEF Update, Build, Pack
<1>5. QED
  BY Zenon, <1>1, <1>2, <1>3, <1>4 DEF PutPrepared

(* A client's step keeps the types (Root, Get, Put, Flush,                 *)
(* CompareAndSetRoot).                                                     *)
LEMMA ClientTypeOK ==
  ASSUME TypeOK, NEW c \in Client, ClientStep(c)
  PROVE  ObjectsTypeOK' /\ StoreTypeOK'
<1> DEFINE s == Host[c]
<1>0. /\ s \in Store /\ st[s] \in Session /\ cl[c] \in Caller /\ man \in Manifest
      /\ now \in Time
  BY HostAssumption DEF TypeOK, ObjectsTypeOK, StoreTypeOK
<1> HIDE DEF s
<1> USE DEF TypeOK, ObjectsTypeOK, StoreTypeOK
<1>1. CASE RootRead(c)
  <2>1. RefreshPlan(st[s], man) \in Plan
    BY <1>0, PlanType
  <2>2. QED
    BY Zenon, <1>0, <1>1, <2>1 DEF RootRead, Caller, s
<1>2. CASE RootTake(c)
  <2>1. RefreshApply(st[s], cl[c].plan) \in Session
    BY <1>0, ApplyType DEF Caller
  <2>2. RefreshApply(st[s], cl[c].plan).man.root \in Root
    BY <2>1 DEF Session, Manifest
  <2>3. QED
    BY Zenon, <1>0, <1>2, <2>1, <2>2, InitTypes DEF RootTake, Update, Caller, s
<1>3. CASE \E x \in Chunk : Get(c, x)
  <2>1. PICK x \in Chunk : Get(c, x)
    BY <1>3
  <2>2. Got(s, x) \in Session
    BY <1>0, GotType
  <2>3. QED
    BY <1>0, <2>1, <2>2 DEF Get, Update, s
<1>4. CASE \E x \in Chunk : Put(c, x)
  <2>1. PICK x \in Chunk : Put(c, x)
    BY <1>4
  <2>2. st' \in [Store -> Session] /\ packs' \in [PackId -> Pack]
    BY <1>0, <2>1, PutPreparedType DEF Put, s
  <2>3. QED
    BY <1>0, <2>1, <2>2 DEF Put, Caller
<1>5. CASE Flush(c)
  <2>1. PICK p \in PackId : Update(s, TakePending(st[s], p)) /\ Build(p, st[s].pending)
    BY <1>5, FreshIn DEF Flush, s
  <2>2. TakePending(st[s], p) \in Session /\ st[s].pending \in SUBSET Chunk
    BY Zenon, <1>0 DEF TakePending, Session
  <2>3. QED
    BY ZenonT(60), <1>0, <1>5, <2>1, <2>2 DEF Flush, Update, Build, Pack
<1>6. CASE \E next \in Root : CompareAndSetRoot(c, next)
  <2>1. PICK next \in Root : CompareAndSetRoot(c, next)
    BY <1>6
  <2>2. refresh(st[s]) \in Session
    BY <1>0, RefreshType
  <2>3. pub' \in [Store -> Publish]
    <3> DEFINE q == [NoPublish EXCEPT !.pc = "carry", !.client = c, !.expected = cl[c].seen,
                                      !.next = next]
    <3>1. q \in Publish
      BY ZenonT(60), <1>0, InitTypes DEF Publish, Caller
    <3>2. pub' = pub \/ pub' = [pub EXCEPT ![s] = q]
      BY <2>1 DEF CompareAndSetRoot, s
    <3>3. QED
      BY <1>0, <3>1, <3>2
  <2>4. cl' \in [Client -> Caller]
    BY <1>0, <2>1 DEF CompareAndSetRoot, Caller, s
  <2>5. QED
    BY Zenon, <1>0, <2>1, <2>2, <2>3, <2>4 DEF CompareAndSetRoot, Update, s
<1>7. QED
  BY <1>1, <1>2, <1>3, <1>4, <1>5, <1>6 DEF ClientStep
(* Ending a publish leaves publishes and callers.                          *)
LEMMA RefuseType ==
  ASSUME TypeOK, NEW s \in Store, Refuse(s)
  PROVE  pub' \in [Store -> Publish] /\ cl' \in [Client -> Caller]
<1>1. pub[s].client \in Client /\ cl[pub[s].client] \in Caller
  BY DEF TypeOK, StoreTypeOK, Publish
<1>2. QED
  BY <1>1, InitTypes DEF Refuse, TypeOK, StoreTypeOK, Caller

(* A finisher's step keeps the types (finish, upload).                     *)
LEMMA FinisherTypeOK ==
  ASSUME TypeOK, NEW s \in Store, FinisherStep(s)
  PROVE  ObjectsTypeOK' /\ StoreTypeOK'
<1>0. st[s] \in Session /\ now \in Time
  BY DEF TypeOK, ObjectsTypeOK, StoreTypeOK
<1> USE DEF TypeOK, ObjectsTypeOK, StoreTypeOK
<1>1. PICK p \in PackId : Finish(s, p) \/ Upload(s, p)
  BY DEF FinisherStep
<1>2. CASE Finish(s, p)
  <2>1. AddBuilt(st[s].loc, {p}, packs[p].chunks) \in [Chunk -> PackId \cup {None}]
    BY Zenon, <1>0, AddBuiltType DEF Session
  <2>2. [st[s] EXCEPT !.finishing = @ \ {p}, !.uploading = @ \cup {p},
                      !.unpublished = @ \cup {p},
                      !.loc = AddBuilt(@, {p}, packs[p].chunks)] \in Session
    BY Zenon, <1>0, <2>1 DEF Session
  <2>3. [st[s] EXCEPT !.finishing = @ \ {p}, !.finishErr = TRUE] \in Session
    BY Zenon, <1>0 DEF Session
  <2>4. QED
    BY <1>2, <2>2, <2>3 DEF Finish, Update
<1>3. CASE Upload(s, p)
  <2>1. [st[s] EXCEPT !.uploading = @ \ {p}, !.session = @ \cup {p}] \in Session
    BY Zenon, <1>0 DEF Session
  <2>2. Requeue([st[s] EXCEPT !.uploading = @ \ {p}], {p}) \in Session
    BY Zenon, <1>0 DEF Requeue, Session
  <2>3. [packs EXCEPT ![p].has = TRUE, ![p].at = now] \in [PackId -> Pack]
    BY Zenon, <1>0 DEF Pack
  <2>4. QED
    BY Zenon, <1>3, <2>1, <2>2, <2>3 DEF Upload, Update
<1>4. QED
  BY <1>1, <1>2, <1>3

(* carryForward keeps the types.                                           *)
LEMMA CarryForwardTypeOK ==
  ASSUME TypeOK, NEW s \in Store, CarryForward(s)
  PROVE  ObjectsTypeOK' /\ StoreTypeOK'
<1>0. pub[s] \in Publish /\ st[s] \in Session
  BY DEF TypeOK, StoreTypeOK
<1> USE DEF TypeOK, ObjectsTypeOK, StoreTypeOK
<1>1. CASE /\ pub' = [pub EXCEPT ![s].pc = "wait"]
           /\ UNCHANGED <<packs, st, cl>>
  BY SMTT(60), <1>0, <1>1 DEF CarryForward, Publish
<1>2. CASE \E x \in CarrySet(st[s]) :
             \/ /\ PutPrepared(s, [Got(s, x) EXCEPT !.deduped = @ \ {x}], x)
                /\ UNCHANGED <<pub, cl>>
             \/ Update(s, Got(s, x)) /\ Refuse(s) /\ UNCHANGED packs
  <2>1. CarrySet(st[s]) \subseteq Chunk
    BY <1>0 DEF CarrySet, Session
  <2>2. PICK x \in Chunk :
             \/ /\ PutPrepared(s, [Got(s, x) EXCEPT !.deduped = @ \ {x}], x)
                /\ UNCHANGED <<pub, cl>>
             \/ Update(s, Got(s, x)) /\ Refuse(s) /\ UNCHANGED packs
    BY Zenon, <1>2, <2>1
  <2>3. Got(s, x) \in Session
    BY GotType
  <2>4. [Got(s, x) EXCEPT !.deduped = @ \ {x}] \in Session
    BY ZenonT(60), <2>3 DEF Session
  <2>5. st' \in [Store -> Session] /\ packs' \in [PackId -> Pack]
    BY <2>2, <2>3, <2>4, PutPreparedType DEF Update
  <2>6. pub' \in [Store -> Publish] /\ cl' \in [Client -> Caller]
    BY <2>2, RefuseType
  <2>7. QED
    BY <2>5, <2>6 DEF CarryForward
<1>3. QED
  BY <1>1, <1>2 DEF CarryForward

(* Building the last pack of a publish keeps the types (publishOnce).      *)
LEMMA CollectPacksTypeOK ==
  ASSUME TypeOK, NEW s \in Store, CollectPacks(s)
  PROVE  ObjectsTypeOK' /\ StoreTypeOK'
<1> DEFINE r == st[s]
<1>0. pub[s] \in Publish /\ r \in Session /\ r.pending \in SUBSET Chunk
  BY SMTT(60) DEF TypeOK, StoreTypeOK, Session
<1> USE DEF TypeOK, ObjectsTypeOK, StoreTypeOK
<1>1. CASE Refuse(s) /\ UNCHANGED <<packs, st>>
  BY Zenon, <1>1, RefuseType DEF CollectPacks
<1>2. CASE Update(s, [r EXCEPT !.pending = {}]) /\ Refuse(s) /\ UNCHANGED packs
  <2>1. [r EXCEPT !.pending = {}] \in Session
    BY Zenon, <1>0 DEF Session
  <2>2. st' \in [Store -> Session]
    BY <1>2, <2>1 DEF Update
  <2>3. UNCHANGED <<now, objs, man, crashes>>
    BY Zenon DEF CollectPacks
  <2>4. QED
    BY Zenon, <1>2, <2>2, <2>3, RefuseType
<1> DEFINE New == IF r.pending = {} THEN {{}} ELSE {{p} : p \in FreshPacks}
<1>3. CASE /\ UNCHANGED cl
           /\ \E new \in New :
                /\ packs' = [p \in PackId |-> IF p \in new
                                THEN [packs[p] EXCEPT !.chunks = r.pending] ELSE packs[p]]
                /\ Update(s, [r EXCEPT !.pending = {}, !.unuploaded = {},
                                !.unpublished = @ \cup new,
                                !.loc = AddBuilt(@, new, r.pending)])
                /\ pub' = [pub EXCEPT ![s].pc = "write", ![s].toUpload = r.unuploaded \cup new]
  <2>1. PICK new \in SUBSET PackId :
          /\ packs' = [p \in PackId |-> IF p \in new
                          THEN [packs[p] EXCEPT !.chunks = r.pending] ELSE packs[p]]
          /\ Update(s, [r EXCEPT !.pending = {}, !.unuploaded = {},
                          !.unpublished = @ \cup new,
                          !.loc = AddBuilt(@, new, r.pending)])
          /\ pub' = [pub EXCEPT ![s].pc = "write", ![s].toUpload = r.unuploaded \cup new]
    <3>1. New \subseteq SUBSET PackId
      BY FreshIn
    <3> HIDE DEF New
    <3>2. QED
      BY <1>3, <3>1, Zenon
  <2>2. AddBuilt(r.loc, new, r.pending) \in [Chunk -> PackId \cup {None}]
    BY <1>0, AddBuiltType DEF Session
  <2>3. [r EXCEPT !.pending = {}, !.unuploaded = {}, !.unpublished = @ \cup new,
                  !.loc = AddBuilt(@, new, r.pending)] \in Session
    BY Zenon, <1>0, <2>2 DEF Session
  <2>4. st' \in [Store -> Session]
    BY <2>1, <2>3 DEF Update
  <2>5. packs' \in [PackId -> Pack]
    <3>1. \A k \in Pack : [k EXCEPT !.chunks = r.pending] \in Pack
      BY <1>0 DEF Pack
    <3>2. QED
      BY <2>1, <3>1
  <2>6. pub' \in [Store -> Publish]
    BY ZenonT(60), <1>0, <2>1 DEF Publish, Session
  <2>7. UNCHANGED <<now, objs, man, crashes, cl>>
    BY <1>3, Zenon DEF CollectPacks
  <2>8. QED
    BY <2>4, <2>5, <2>6, <2>7
<1>4. QED
  BY Zenon, <1>1, <1>2, <1>3 DEF CollectPacks
(* uploadPacks keeps the types, whatever fails.                            *)
LEMMA UploadPacksTypeOK ==
  ASSUME TypeOK, NEW s \in Store, UploadPacks(s)
  PROVE  ObjectsTypeOK' /\ StoreTypeOK'
<1>0. pub[s] \in Publish /\ st[s] \in Session /\ now \in Time
  BY DEF TypeOK, ObjectsTypeOK, StoreTypeOK
<1> USE DEF TypeOK, ObjectsTypeOK, StoreTypeOK
<1>1. PICK bad \in SUBSET pub[s].toUpload :
        /\ packs' = [p \in PackId |-> IF p \in pub[s].toUpload \ bad
                        THEN [packs[p] EXCEPT !.has = TRUE, !.at = now] ELSE packs[p]]
        /\ Update(s, Requeue(st[s], bad))
        /\ pub' = [pub EXCEPT ![s].packsDone = IF bad = {} THEN "yes" ELSE "failed"]
  BY Zenon DEF UploadPacks
<1>2. packs' \in [PackId -> Pack]
  <2>1. \A k \in Pack : [k EXCEPT !.has = TRUE, !.at = now] \in Pack
    BY Zenon, <1>0 DEF Pack
  <2>2. QED
    BY Zenon, <1>1, <2>1
<1>3. Requeue(st[s], bad) \in Session
  BY ZenonT(60), <1>0, <1>1 DEF Requeue, Session, Publish
<1>4. pub' \in [Store -> Publish]
  BY Zenon, <1>0, <1>1 DEF Publish, Done
<1>5. UNCHANGED <<now, objs, man, cl, crashes>>
  BY Zenon DEF UploadPacks
<1>6. QED
  BY Zenon, <1>1, <1>2, <1>3, <1>4, <1>5 DEF Update

(* writeSessionIndex keeps the types, whether or not it fails.             *)
LEMMA WriteIndexTypeOK ==
  ASSUME TypeOK, NEW s \in Store, WriteSessionIndex(s)
  PROVE  ObjectsTypeOK' /\ StoreTypeOK'
<1> DEFINE listed == st[s].session \cup pub[s].toUpload
<1>0. pub[s] \in Publish /\ listed \in SUBSET PackId /\ now \in Time
  BY DEF TypeOK, ObjectsTypeOK, StoreTypeOK, Session, Publish
<1> USE DEF TypeOK, ObjectsTypeOK, StoreTypeOK
<1>1. CASE /\ pub' = [pub EXCEPT ![s].indexDone = "yes"] \/ pub' = [pub EXCEPT ![s].indexDone = "failed"]
           /\ UNCHANGED objs
  <2>1. PICK d \in Done : pub' = [pub EXCEPT ![s].indexDone = d]
    BY Zenon, <1>1 DEF Done
  <2>2. pub' \in [Store -> Publish]
    BY ZenonT(60), <1>0, <2>1 DEF Publish
  <2>3. QED
    BY <1>1, <2>2 DEF WriteSessionIndex
<1>2. CASE \E i \in FreshObjs :
             /\ objs' = [objs EXCEPT ![i] = [packs |-> listed, at |-> now, has |-> TRUE]]
             /\ pub' = [pub EXCEPT ![s].indexDone = "yes", ![s].index = i]
  <2>1. PICK i \in IndexId :
             /\ objs' = [objs EXCEPT ![i] = [packs |-> listed, at |-> now, has |-> TRUE]]
             /\ pub' = [pub EXCEPT ![s].indexDone = "yes", ![s].index = i]
    BY Zenon, <1>2, FreshIn
  <2>2. objs' \in [IndexId -> Object]
    BY <1>0, <2>1 DEF Object
  <2>3. pub' \in [Store -> Publish]
    BY ZenonT(60), <1>0, <2>1 DEF Publish, Done
  <2>4. QED
    BY <2>2, <2>3 DEF WriteSessionIndex
<1>3. QED
  BY <1>1, <1>2 DEF WriteSessionIndex

(* recordSessionIndex and stillStored keep the types.                      *)
LEMMA RecordIndexTypeOK ==
  ASSUME TypeOK, NEW s \in Store, RecordIndex(s)
  PROVE  ObjectsTypeOK' /\ StoreTypeOK'
<1> DEFINE new == {pub[s].index} \ {None}
           idx == st[s].sessionIdx \cup new
           r == [st[s] EXCEPT !.session = @ \ ListedBy(new), !.sessionIdx = idx,
                              !.loaded = @ \cup new]
<1>0. pub[s] \in Publish /\ st[s] \in Session /\ new \in SUBSET IndexId
  BY DEF TypeOK, StoreTypeOK, Publish
<1>1. r \in Session
  BY Zenon, <1>0 DEF Session
<1>2. [r EXCEPT !.lost = TRUE] \in Session
  BY Zenon, <1>1 DEF Session
<1>3. st' = st \/ Update(s, r) \/ Update(s, [r EXCEPT !.lost = TRUE])
  BY Zenon DEF RecordIndex
<1> HIDE DEF r
<1>4. st' \in [Store -> Session]
  BY Zenon, <1>1, <1>2, <1>3 DEF Update, TypeOK, StoreTypeOK
<1>5. \/ Refuse(s)
      \/ pub' = [pub EXCEPT ![s].pc = "attempt"] /\ UNCHANGED cl
  BY Zenon DEF RecordIndex
<1>6. pub' \in [Store -> Publish] /\ cl' \in [Client -> Caller]
  BY SMTT(60), <1>0, <1>5, RefuseType DEF Publish, TypeOK, StoreTypeOK
<1>7. QED
  BY <1>4, <1>6 DEF RecordIndex, TypeOK, ObjectsTypeOK, StoreTypeOK

(* The swap keeps the types: landed, lost, tried again or given up.        *)
LEMMA SwapRootTypeOK ==
  ASSUME TypeOK, NEW s \in Store, SwapRoot(s)
  PROVE  ObjectsTypeOK' /\ StoreTypeOK'
<1>0. pub[s] \in Publish
  BY DEF TypeOK, StoreTypeOK
<1>1. man' \in Manifest
  BY <1>0 DEF SwapRoot, TypeOK, ObjectsTypeOK, Publish
<1>2. \/ Refuse(s)
      \/ pub' = [pub EXCEPT ![s].pc = "landed"] /\ UNCHANGED cl
      \/ /\ pub' = [pub EXCEPT ![s].pc = "attempt", ![s].attempt = @ + 1,
                      ![s].upd = InitManifest, ![s].written = {}, ![s].replaced = {}]
         /\ UNCHANGED cl
  BY SMTT(60) DEF SwapRoot
<1>3. [pub[s] EXCEPT !.pc = "attempt", !.attempt = @ + 1,
             !.upd = InitManifest, !.written = {}, !.replaced = {}] \in Publish
  <2>1. InitManifest \in Manifest
    BY SMTT(60), InitTypes
  <2>2. pub[s].attempt + 1 \in Nat
    BY <1>0 DEF Publish
  <2>3. ASSUME NEW q \in Publish, NEW n \in Nat, NEW m \in Manifest
        PROVE  [q EXCEPT !.pc = "attempt", !.attempt = n,
                  !.upd = m, !.written = {}, !.replaced = {}] \in Publish
    BY Zenon DEF Publish
  <2>4. QED
    BY Zenon, <1>0, <2>1, <2>2, <2>3
<1>4. pub' \in [Store -> Publish] /\ cl' \in [Client -> Caller]
  BY <1>0, <1>2, <1>3, RefuseType DEF Publish, TypeOK, StoreTypeOK
<1>5. QED
  BY <1>1, <1>4 DEF SwapRoot, TypeOK, ObjectsTypeOK, StoreTypeOK

(* Taking the manifest swapped in keeps the types.                         *)
LEMMA LandedTypeOK ==
  ASSUME TypeOK, NEW s \in Store, Landed(s)
  PROVE  ObjectsTypeOK' /\ StoreTypeOK'
<1> DEFINE q == pub[s]
           r == [st[s] EXCEPT !.man = q.upd, !.sessionIdx = {},
                   !.loaded = (@ \cup q.written) \ q.replaced,
                   !.unpublished = @ \ ListedBy(st[s].sessionIdx),
                   !.deduped = {}, !.sessGen = q.upd.gcGen]
<1>0. q \in Publish /\ st[s] \in Session /\ q.client \in Client /\ cl[q.client] \in Caller
  BY DEF TypeOK, StoreTypeOK, Publish
<1>1. r \in Session
  <2>1. q.upd \in Manifest /\ q.upd.gcGen \in Nat
    BY <1>0 DEF Publish, Manifest
  <2>2. QED
    BY Zenon, <1>0, <2>1 DEF Session, Publish
<1>2. st' \in [Store -> Session]
  BY <1>1 DEF Landed, Update, TypeOK, StoreTypeOK
<1>3. pub' \in [Store -> Publish]
  BY InitTypes DEF Landed, TypeOK, StoreTypeOK
<1>4. cl' \in [Client -> Caller]
  BY ZenonT(60), <1>0 DEF Landed, TypeOK, StoreTypeOK, Caller, Publish
<1>5. QED
  BY <1>2, <1>3, <1>4 DEF Landed, TypeOK, ObjectsTypeOK, StoreTypeOK

(* A crash, or a close, and a reopen keep the types.                       *)
LEMMA ReopenTypeOK ==
  ASSUME TypeOK, NEW s \in Store, Reopen(s)
  PROVE  ObjectsTypeOK' /\ StoreTypeOK'
<1>1. /\ crashes' = crashes \/ (crashes < MaxCrashes /\ crashes' = crashes + 1)
      /\ packs' = [p \in PackId |-> IF ~packs[p].has /\ p \in InMemory(s) THEN NoPack ELSE packs[p]]
      /\ st' = [st EXCEPT ![s] = Opened]
      /\ pub' = [pub EXCEPT ![s] = NoPublish]
      /\ UNCHANGED <<now, objs, man>>
  BY Zenon DEF Reopen
<1>2. cl' = [c \in Client |-> IF Host[c] = s
              THEN [NoClient EXCEPT !.seen = man.root]
              ELSE cl[c]]
  BY Zenon DEF Reopen
<1>3. now \in Time /\ man.root \in Root /\ 0 \in Time
  BY BoundAssumption DEF TypeOK, ObjectsTypeOK, Manifest, Time
<1>4. crashes' \in 0..MaxCrashes
  BY <1>1, BoundAssumption DEF TypeOK, ObjectsTypeOK
<1>5. packs' \in [PackId -> Pack]
  <2>1. NoPack \in Pack
    BY SMTT(60), <1>3 DEF NoPack, Pack
  <2>2. QED
    BY <1>1, <2>1 DEF TypeOK, ObjectsTypeOK
<1>6. cl' \in [Client -> Caller]
  <2>1. [NoClient EXCEPT !.seen = man.root] \in Caller
    BY Zenon, <1>3, InitTypes DEF Caller
  <2>2. QED
    BY Zenon, <1>2, <1>3, <2>1 DEF TypeOK, StoreTypeOK
<1>7. st' \in [Store -> Session] /\ pub' \in [Store -> Publish]
  BY <1>1, InitTypes, OpenedType DEF TypeOK, StoreTypeOK
<1>8. QED
  BY <1>1, <1>4, <1>5, <1>6, <1>7 DEF TypeOK, ObjectsTypeOK, StoreTypeOK

(* A turn of the swap loop up to the swap keeps the types (publishOnce,    *)
(* compact).                                                               *)
LEMMA AttemptTypeOK ==
  ASSUME TypeOK, NEW s \in Store, Attempt(s)
  PROVE  ObjectsTypeOK' /\ StoreTypeOK'
<1> DEFINE q == pub[s]
           stale == q.attempt > 0 \/ st[s].man.root # q.expected
           r == IF stale THEN refresh(st[s]) ELSE st[s]
           list == r.man.indexes \cup r.sessionIdx
           upd(indexes) == [r.man EXCEPT !.seq = @ + 1, !.root = q.next, !.indexes = indexes]
           swapping(written, replaced) ==
             pub' = [pub EXCEPT ![s].pc = "swap", ![s].upd = upd((list \ replaced) \cup written),
                                ![s].written = written, ![s].replaced = replaced]
           again == [NoPublish EXCEPT !.pc = "carry", !.client = q.client,
                       !.expected = q.expected, !.next = q.next, !.carries = q.carries + 1]
<1>1. /\ q \in Publish /\ st[s] \in Session /\ now \in Time
      /\ q.client \in Client /\ q.expected \in Root /\ q.next \in Root /\ q.carries \in Nat
  BY DEF TypeOK, ObjectsTypeOK, StoreTypeOK, Publish
<1>2. r \in Session
  BY <1>1, RefreshType DEF TypeOK
<1>3. /\ \/ Update(s, r) \/ Update(s, [r EXCEPT !.lost = TRUE])
      /\ \/ Refuse(s) /\ UNCHANGED objs
         \/ pub' = [pub EXCEPT ![s] = again] /\ UNCHANGED <<cl, objs>>
         \/ swapping({}, {}) /\ UNCHANGED <<cl, objs>>
         \/ \E some \in SUBSET list, i \in FreshObjs :
               /\ objs' = [objs EXCEPT ![i] = [packs |-> ListedBy(some), at |-> now, has |-> TRUE]]
               /\ swapping({i}, some)
               /\ UNCHANGED cl
      /\ UNCHANGED <<now, packs, man, crashes>>
  BY ZenonT(60) DEF Attempt
<1> HIDE DEF r
<1>4. st' \in [Store -> Session]
  <2>1. [r EXCEPT !.lost = TRUE] \in Session
    BY Zenon, <1>2 DEF Session
  <2>2. st \in [Store -> Session]
    BY DEF TypeOK, StoreTypeOK
  <2>3. PICK e \in Session : st' = [st EXCEPT ![s] = e]
    BY Zenon, <1>2, <1>3, <2>1 DEF Update
  <2>4. QED
    BY <2>2, <2>3
<1>5. list \in SUBSET IndexId /\ r.man \in Manifest
  BY <1>2 DEF Session, Manifest
<1>6. ASSUME NEW written \in SUBSET IndexId, NEW replaced \in SUBSET IndexId, swapping(written, replaced)
      PROVE  pub' \in [Store -> Publish]
  <2> DEFINE m == upd((list \ replaced) \cup written)
  <2>1. m \in Manifest
    <3>1. r.man.seq + 1 \in Nat \ {0}
      BY <1>5 DEF Manifest
    <3>2. ASSUME NEW k \in Manifest, NEW n \in Nat \ {0}, NEW I \in SUBSET IndexId, NEW x \in Root
          PROVE  [k EXCEPT !.seq = n, !.root = x, !.indexes = I] \in Manifest
      BY Zenon DEF Manifest
    <3>3. QED
      BY Zenon, <1>1, <1>5, <3>1, <3>2
  <2>2. ASSUME NEW n \in Manifest
        PROVE  [q EXCEPT !.pc = "swap", !.upd = n, !.written = written, !.replaced = replaced] \in Publish
    BY Zenon, <1>1 DEF Publish
  <2> HIDE DEF m
  <2>3. pub' = [pub EXCEPT ![s] = [q EXCEPT !.pc = "swap", !.upd = m, !.written = written, !.replaced = replaced]]
    BY ZenonT(60), <1>6 DEF m, TypeOK, StoreTypeOK
  <2>4. QED
    BY ZenonT(60), <2>1, <2>2, <2>3 DEF TypeOK, StoreTypeOK
<1>7. CASE Refuse(s) /\ UNCHANGED objs
  BY <1>3, <1>4, <1>7, RefuseType DEF TypeOK, ObjectsTypeOK, StoreTypeOK
<1>8. CASE pub' = [pub EXCEPT ![s] = again] /\ UNCHANGED <<cl, objs>>
  <2>1. again \in Publish
    <3>1. NoPublish \in Publish /\ q.carries + 1 \in Nat
      BY <1>1, InitTypes
    <3>2. ASSUME NEW k \in Publish, NEW c \in Client, NEW e \in Root, NEW n \in Root, NEW j \in Nat
          PROVE  [k EXCEPT !.pc = "carry", !.client = c, !.expected = e, !.next = n, !.carries = j] \in Publish
      BY Zenon DEF Publish
    <3>3. QED
      BY Zenon, <1>1, <3>1, <3>2
  <2>2. QED
    BY <1>3, <1>4, <1>8, <2>1 DEF TypeOK, ObjectsTypeOK, StoreTypeOK
<1>9. CASE swapping({}, {}) /\ UNCHANGED <<cl, objs>>
  <2> HIDE DEF swapping
  <2>1. pub' \in [Store -> Publish]
    BY <1>6, <1>9
  <2>2. QED
    BY <1>3, <1>4, <1>9, <2>1 DEF TypeOK, ObjectsTypeOK, StoreTypeOK
<1>10. CASE \E some \in SUBSET list, i \in FreshObjs :
               /\ objs' = [objs EXCEPT ![i] = [packs |-> ListedBy(some), at |-> now, has |-> TRUE]]
               /\ swapping({i}, some)
               /\ UNCHANGED cl
  <2> HIDE DEF list, swapping
  <2>1. PICK some \in SUBSET list, i \in FreshObjs :
               /\ objs' = [objs EXCEPT ![i] = [packs |-> ListedBy(some), at |-> now, has |-> TRUE]]
               /\ swapping({i}, some)
               /\ UNCHANGED cl
    BY Zenon, <1>10
  <2>2. some \in SUBSET IndexId /\ i \in IndexId
    BY <1>5, FreshIn DEF TypeOK
  <2>3. pub' \in [Store -> Publish]
    BY SMTT(60), <1>6, <2>1, <2>2
  <2>4. objs' \in [IndexId -> Object]
    <3>1. ListedBy(some) \in SUBSET PackId
      BY <2>2, ListedIn DEF TypeOK
    <3>2. QED
      BY <1>1, <2>1, <2>2, <3>1 DEF Object, TypeOK, ObjectsTypeOK
  <2>5. QED
    BY SMTT(60), <1>3, <1>4, <2>1, <2>3, <2>4 DEF TypeOK, ObjectsTypeOK, StoreTypeOK
<1>11. QED
  BY Zenon, <1>3, <1>7, <1>8, <1>9, <1>10

(* So does every step of a publish.                                        *)
LEMMA PublishTypeOK ==
  ASSUME TypeOK, NEW s \in Store, PublishStep(s)
  PROVE  ObjectsTypeOK' /\ StoreTypeOK'
BY CarryForwardTypeOK, CollectPacksTypeOK, UploadPacksTypeOK, WriteIndexTypeOK,
   RecordIndexTypeOK, AttemptTypeOK, SwapRootTypeOK, LandedTypeOK DEF PublishStep
(* The records a round keeps, adds and acts on have their kinds' ids       *)
(* (Apply).                                                                *)
LEMMA RecordsType ==
  ASSUME NEW m \in Manifest, NEW at \in Time
  PROVE  /\ KeptRecords(m, at) \subseteq Condemned
         /\ ExpiredObjs(m, at) \subseteq IndexId
         /\ \A kind \in PackKind, ids \in SUBSET PackId : Records(kind, ids, at) \subseteq Condemned
         /\ \A kind \in IndexKind, ids \in SUBSET IndexId : Records(kind, ids, at) \subseteq Condemned
<1>1. m.condemned \subseteq Condemned
  BY DEF Manifest
<1>2. KeptRecords(m, at) \subseteq Condemned
  BY <1>1 DEF KeptRecords
<1>3. ExpiredObjs(m, at) \subseteq IndexId
  BY <1>1 DEF ExpiredObjs, Ids, Aged, Condemned, PackKind
<1>4. \A kind \in PackKind, ids \in SUBSET PackId : Records(kind, ids, at) \subseteq Condemned
  BY DEF Records, Condemned
<1>5. \A kind \in IndexKind, ids \in SUBSET IndexId : Records(kind, ids, at) \subseteq Condemned
  BY DEF Records, Condemned
<1>6. QED
  BY <1>2, <1>3, <1>4, <1>5

(* The manifest a round makes is one.                                      *)
LEMMA NewManifestType ==
  ASSUME ObjectsTypeOK, NEW m \in Manifest, NEW at \in Time, NEW repack \in SUBSET PackId,
         NEW new \in SUBSET PackId, NEW obj \in SUBSET IndexId
  PROVE  NewManifest(m, at, repack, new, obj) \in Manifest
<1> DEFINE gen  == IF obj = {} THEN m.gcGen ELSE m.gcGen + 1
           next == NewRecords(m, at, repack, obj)
           records ==
             next \cup Records("deletedPack", OrphanPacks(m, new) \ IdsOf(next, "deletedPack"), at)
                  \cup Records("deletedIndex",
                         OrphanObjs(m, at, repack, obj) \ IdsOf(next, "deletedIndex"), at)
<1>1. m.indexes \in SUBSET IndexId /\ m.seq \in Nat \ {0} /\ m.gcGen \in Nat
  BY DEF Manifest
<1>2. NewIndexes(m, obj) \in SUBSET IndexId
  BY <1>1 DEF NewIndexes
<1>3. NewGarbage(m) \in SUBSET PackId
  BY <1>1, ListedIn DEF NewGarbage
<1>4. next \in SUBSET Condemned
  BY <1>1, <1>3, RecordsType DEF NewRecords, PackKind, IndexKind
<1> HIDE DEF next
<1>5. OrphanPacks(m, new) \in SUBSET PackId /\ OrphanObjs(m, at, repack, obj) \in SUBSET IndexId
  BY DEF OrphanPacks, OrphanObjs
<1>6. records \in SUBSET Condemned
  BY <1>4, <1>5, RecordsType DEF PackKind, IndexKind
<1>7. NewManifest(m, at, repack, new, obj)
        = [m EXCEPT !.seq = m.seq + 1, !.indexes = NewIndexes(m, obj),
                    !.gcGen = gen, !.condemned = records]
  BY DEF NewManifest, Manifest, next
<1>8. m.seq + 1 \in Nat \ {0} /\ gen \in Nat
  BY <1>1
<1> HIDE DEF records, gen
<1>9. [m EXCEPT !.seq = m.seq + 1, !.indexes = NewIndexes(m, obj),
                !.gcGen = gen, !.condemned = records] \in Manifest
  BY Zenon, <1>2, <1>6, <1>8 DEF Manifest
<1>10. QED
  BY <1>7, <1>9

(* What a round decides is a round.                                        *)
LEMMA DecidedType ==
  ASSUME ObjectsTypeOK, NEW m \in Manifest, NEW at \in Time, NEW repack \in SUBSET PackId,
         NEW new \in SUBSET PackId, NEW obj \in SUBSET IndexId
  PROVE  Decided(m, at, repack, new, obj) \in Round
<1> DEFINE upd == NewManifest(m, at, repack, new, obj)
           changed == upd.condemned # m.condemned \/ obj # {}
           pc == IF changed THEN "swap" ELSE "delete"
           mm == IF changed THEN upd ELSE NoRound.upd
           P == ExpiredPacks(m, at) \cup OrphanPacks(m, new)
           O == ExpiredObjs(m, at) \cup OrphanObjs(m, at, repack, obj)
<1>1. upd \in Manifest
  BY NewManifestType
<1>2. P \in SUBSET PackId
  BY ListedIn DEF ExpiredPacks, OrphanPacks, Manifest
<1>3. O \in SUBSET IndexId
  BY RecordsType DEF OrphanObjs
<1>4. NoRound \in Round /\ NoRound.upd \in Manifest
  BY InitTypes DEF Round
<1>5. Decided(m, at, repack, new, obj)
        = [NoRound EXCEPT !.pc = pc, !.upd = mm, !.packs = P, !.objs = O]
  BY DEF Decided, NoRound
<1> HIDE DEF upd, changed, P, O
<1>6. pc \in {"swap", "delete"} /\ mm \in Manifest
  BY <1>1, <1>4
<1> HIDE DEF pc, mm
<1>7. [NoRound EXCEPT !.pc = pc, !.upd = mm, !.packs = P, !.objs = O] \in Round
  BY Zenon, <1>2, <1>3, <1>4, <1>6 DEF Round
<1>8. QED
  BY <1>5, <1>7

(* Apply keeps the types, whatever the policy repacks.                     *)
LEMMA ApplyTypeOK ==
  ASSUME TypeOK, NEW g \in Collectors, Apply(g)
  PROVE  ObjectsTypeOK' /\ CollectorTypeOK'
<1> DEFINE m    == gc[g].man
           at   == gc[g].at
           gone == ExpiredPacks(m, at)
           News(repack) == IF repack = {} THEN {{}} ELSE {{p} : p \in FreshPacks}
           Objs(repack) == IF repack = {} /\ gone = {} THEN {{}} ELSE {{i} : i \in FreshObjs}
           Does(repack, new, obj) ==
             /\ packs' = [p \in PackId |-> IF p \in new
                            THEN [chunks |-> UNION {LiveIn(q, m) : q \in repack}, at |-> now, has |-> TRUE]
                            ELSE packs[p]]
             /\ objs' = [i \in IndexId |-> IF i \in obj
                            THEN [packs |-> (ListedBy(m.indexes) \ gone) \cup new, at |-> now, has |-> TRUE]
                            ELSE objs[i]]
             /\ gc' = [gc EXCEPT ![g] = Decided(m, at, repack, new, obj)]
<1>1. m \in Manifest /\ at \in Time /\ now \in Time /\ m.indexes \in SUBSET IndexId /\ m.root \in Root
  BY DEF TypeOK, ObjectsTypeOK, CollectorTypeOK, Round, Manifest
<1>2. ListedBy(m.indexes) \in SUBSET PackId
  BY <1>1, ListedIn DEF TypeOK
<1>3. \E repack \in SUBSET Candidates(m) : \E new \in News(repack) : \E obj \in Objs(repack) :
        (\A p \in repack : packs[p].has) /\ Does(repack, new, obj)
  BY Zenon DEF Apply
<1>4. UNCHANGED <<now, man, crashes>>
  BY Zenon DEF Apply
<1>5. \A repack \in SUBSET Candidates(m) :
        /\ repack \in SUBSET PackId
        /\ News(repack) \subseteq SUBSET PackId
        /\ Objs(repack) \subseteq SUBSET IndexId
  BY <1>2, FreshIn DEF Candidates, LivePacks, TypeOK
<1> HIDE DEF News, Objs, Does
<1>6. PICK repack \in SUBSET PackId, new \in SUBSET PackId, obj \in SUBSET IndexId : Does(repack, new, obj)
  BY SMTT(60), <1>3, <1>5
<1>7. packs' \in [PackId -> Pack]
  <2>1. UNION {LiveIn(q, m) : q \in repack} \in SUBSET Chunk
    BY SMTT(60), <1>1, ChunkAssumption DEF LiveIn
  <2>2. QED
    BY <1>1, <1>6, <2>1 DEF Does, Pack, TypeOK, ObjectsTypeOK
<1>8. objs' \in [IndexId -> Object]
  <2>1. (ListedBy(m.indexes) \ gone) \cup new \in SUBSET PackId
    BY SMTT(60), <1>2, <1>6
  <2>2. QED
    BY <1>1, <1>6, <2>1 DEF Does, Object, TypeOK, ObjectsTypeOK
<1>9. Decided(m, at, repack, new, obj) \in Round
  BY SMTT(60), <1>1, DecidedType DEF TypeOK
<1>10. CollectorTypeOK'
  BY <1>6, <1>9 DEF Does, TypeOK, CollectorTypeOK
<1>11. QED
  BY <1>4, <1>7, <1>8, <1>10 DEF TypeOK, ObjectsTypeOK

(* Every step of a round keeps the types.                                  *)
LEMMA CollectorStepTypeOK ==
  ASSUME TypeOK, NEW g \in Collectors, CollectorStep(g)
  PROVE  ObjectsTypeOK' /\ CollectorTypeOK'
<1>0. gc[g] \in Round /\ NoRound \in Round /\ now \in Time /\ man \in Manifest
  BY InitTypes DEF TypeOK, ObjectsTypeOK, CollectorTypeOK
<1> USE DEF TypeOK, ObjectsTypeOK, CollectorTypeOK
<1>1. CASE Begin(g)
  <2>1. [NoRound EXCEPT !.pc = "begun", !.at = now, !.man = man] \in Round
    BY Zenon, <1>0 DEF Round
  <2>2. QED
    BY <1>1, <2>1 DEF Begin
<1>2. CASE Apply(g)
  BY <1>2, ApplyTypeOK
<1>3. CASE Swap(g)
  <2>1. [NoRound EXCEPT !.pc = "delete", !.packs = gc[g].packs, !.objs = gc[g].objs] \in Round
    BY Zenon, <1>0 DEF Round
  <2>2. gc[g].upd \in Manifest
    BY <1>0 DEF Round
  <2>3. QED
    BY <1>0, <1>3, <2>1, <2>2 DEF Swap
<1>4. CASE Delete(g)
  <2>1. packs' \in [PackId -> Pack]
    <3>1. packs' = packs \/ \E p \in gc[g].packs : packs' = [packs EXCEPT ![p].has = FALSE]
      BY <1>4 DEF Delete
    <3>2. QED
      BY ZenonT(60), <3>1 DEF Pack
  <2>2. objs' \in [IndexId -> Object]
    <3>1. objs' = objs \/ \E i \in gc[g].objs : objs' = [objs EXCEPT ![i].has = FALSE]
      BY <1>4 DEF Delete
    <3>2. QED
      BY ZenonT(60), <3>1 DEF Object
  <2>3. gc' \in [Collectors -> Round]
    BY SMTT(60), <1>0, <1>4 DEF Delete, Round
  <2>4. QED
    BY <1>4, <2>1, <2>2, <2>3 DEF Delete
<1>5. CASE Stop(g)
  <2>1. crashes' \in 0..MaxCrashes
    BY <1>5, BoundAssumption DEF Stop
  <2>2. QED
    BY <1>0, <1>5, <2>1 DEF Stop
<1>6. QED
  BY <1>1, <1>2, <1>3, <1>4, <1>5 DEF CollectorStep

(* Every step of the system keeps the types.                               *)
LEMMA NextTypeOK == TypeOK /\ [Next]_vars => TypeOK'
<1> SUFFICES ASSUME TypeOK, [Next]_vars PROVE TypeOK'
  OBVIOUS
<1>1. CASE \E c \in Client : ClientStep(c) /\ UNCHANGED gc
  BY <1>1, ClientTypeOK DEF TypeOK, CollectorTypeOK
<1>2. CASE \E s \in Store : (FinisherStep(s) \/ PublishStep(s) \/ Reopen(s)) /\ UNCHANGED gc
  BY <1>2, FinisherTypeOK, PublishTypeOK, ReopenTypeOK DEF TypeOK, CollectorTypeOK
<1>3. CASE \E g \in Collectors : CollectorStep(g) /\ UNCHANGED <<st, pub, cl>>
  BY <1>3, CollectorStepTypeOK DEF TypeOK, StoreTypeOK
<1>4. CASE Tick
  <2>1. now' \in Time
    BY <1>4, BoundAssumption DEF Tick, Time, TypeOK, ObjectsTypeOK
  <2>2. QED
    BY <1>4, <2>1 DEF Tick, TypeOK, ObjectsTypeOK, StoreTypeOK, CollectorTypeOK
<1>5. CASE UNCHANGED vars
  BY <1>5 DEF vars, TypeOK, ObjectsTypeOK, StoreTypeOK, CollectorTypeOK
<1>6. QED
  BY <1>1, <1>2, <1>3, <1>4, <1>5 DEF Next

(* State keeps its type for any constants: in particular a manifest's      *)
(* records name packs by pack kinds and index objects by index kinds       *)
(* (manifest.go), and a store locates chunks in packs or nowhere.          *)
THEOREM TypeCorrect == Spec => []TypeOK
BY InitTypeOK, NextTypeOK, PTL DEF Spec
=============================================================================
