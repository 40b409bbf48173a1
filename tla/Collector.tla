------------------------------ MODULE Collector ------------------------------
(***************************************************************************)
(* The garbage collector (src/core/gc/gc.go and packstore/gc.go): a round  *)
(* marks from the manifest's root, condemns, reprieves, repacks and        *)
(* expires packs, swaps its manifest in, and then deletes.                 *)
(***************************************************************************)
EXTENDS Objects

CONSTANTS
  Collectors,       \* garbage collectors that may run at once
  RepackOff         \* the policy Repack.Off

ASSUME RepackAssumption == RepackOff \in BOOLEAN

VARIABLE gc         \* each collector's round

NoRound == [pc |-> "idle", at |-> 0, man |-> InitManifest, upd |-> InitManifest,
            packs |-> {}, objs |-> {}]

Round == [pc : {"idle", "begun", "swap", "delete"}, at : Time, man : Manifest,
          upd : Manifest, packs : SUBSET PackId, objs : SUBSET IndexId]

\* What a collector may hold.
CollectorTypeOK == gc \in [Collectors -> Round]

\* The round's time is taken, and the manifest and its index objects read.
Begin(g) ==
  /\ gc[g].pc = "idle"
  /\ man.seq < MaxSeq
  /\ \A i \in man.indexes : objs[i].has
  /\ gc' = [gc EXCEPT ![g] = [NoRound EXCEPT !.pc = "begun", !.at = now, !.man = man]]
  /\ UNCHANGED <<now, packs, objs, man, crashes>>

(* What a round at time at decides about manifest m.                       *)

\* The live chunks pack p is credited with: those found in it first.
LiveIn(p, m) ==
  {h \in Reach[m.root] : FirstHolder(h, ListedBy(m.indexes), condemnedPacks(m)) = p}

\* Packs with a live chunk, which stay and are reprieved; a repacked pack
\* never is.
LivePacks(m) ==
  {p \in ListedBy(m.indexes) \ IdsOf(m.condemned, "repackedPack") : LiveIn(p, m) # {}}

\* Records of m of some kinds that are at least d old.
Aged(m, kinds, at, d) ==
  {c \in m.condemned : c.kind \in kinds /\ at - c.at >= d}

\* Mutated: a condemned pack found live again expires all the same.
ExpiredPacksUnmarked(m, at) ==
  Ids(Aged(m, {"condemnedPack", "repackedPack"}, at, Grace)) \cap ListedBy(m.indexes)

\* Packs condemned or repacked a window ago and not live: they leave the
\* manifest, and so do the index objects condemned a window ago.
ExpiredPacks(m, at) ==
  Ids(Aged(m, {"condemnedPack", "repackedPack"}, at, Grace))
    \cap (ListedBy(m.indexes) \ LivePacks(m))
ExpiredObjs(m, at) == Ids(Aged(m, {"condemnedIndex"}, at, Grace))

\* Packs found dead for the first time.
NewGarbage(m) == (ListedBy(m.indexes) \ LivePacks(m)) \ condemnedPacks(m)

\* Live packs some of whose chunks are dead, which the policy may repack.
Candidates(m) == {p \in LivePacks(m) : ~RepackOff /\ LiveIn(p, m) # packs[p].chunks}

\* The records of m that stay: a reprieved pack loses its own, and the
\* record of a deleted orphan lapses a window and a recheck age later.
KeptRecords(m, at) ==
  {c \in m.condemned :
     CASE c.kind \in {"condemnedPack", "repackedPack"} ->
            c.id \in (ListedBy(m.indexes) \ LivePacks(m)) \ ExpiredPacks(m, at)
       [] c.kind = "condemnedIndex" -> at - c.at < Grace
       [] OTHER -> at - c.at < Grace + RecheckAfter}

\* Mutated: a record is dated by when its object may go.
RecordsDue(kind, ids, at) == {[kind |-> kind, id |-> i, at |-> at + Grace] : i \in ids}

Records(kind, ids, at) == {[kind |-> kind, id |-> i, at |-> at] : i \in ids}

\* Every live chunk of m can be read, as the mark does; a mark that cannot
\* ends the run (Stop).
Markable(m) ==
  \A h \in Reach[m.root] : \E p \in ListedBy(m.indexes) : h \in packs[p].chunks /\ packs[p].has

\* The index objects of the manifest that replaces m, obj being the one
\* they are rewritten into, if they are.
NewIndexes(m, obj) == IF obj = {} THEN m.indexes ELSE obj

\* Its records but for those of orphans, when the packs in repack are repacked.
NewRecords(m, at, repack, obj) ==
  KeptRecords(m, at)
    \cup Records("condemnedPack", NewGarbage(m), at)
    \cup Records("repackedPack", repack, at)
    \cup Records("condemnedIndex", m.indexes \ NewIndexes(m, obj), at)

\* Objects the backend has had for a window and that manifest does not name.
OrphanPacks(m, new) ==
  {p \in PackId : packs[p].has /\ now - packs[p].at >= Grace} \ (ListedBy(m.indexes) \cup new)
OrphanObjs(m, at, repack, obj) ==
  {i \in IndexId : objs[i].has /\ now - objs[i].at >= Grace}
    \ (NewIndexes(m, obj) \cup ExpiredObjs(m, at)
         \cup IdsOf(NewRecords(m, at, repack, obj), "condemnedIndex"))

NewManifest(m, at, repack, new, obj) ==
  LET next == NewRecords(m, at, repack, obj)
  IN  [m EXCEPT !.seq = @ + 1, !.indexes = NewIndexes(m, obj),
                !.gcGen = IF obj = {} THEN @ ELSE @ + 1,
                !.condemned = next
                  \cup Records("deletedPack", OrphanPacks(m, new) \ IdsOf(next, "deletedPack"), at)
                  \cup Records("deletedIndex",
                       OrphanObjs(m, at, repack, obj) \ IdsOf(next, "deletedIndex"), at)]

\* The round once it has decided: what it swaps in, unless nothing changes,
\* and what it then deletes.
Decided(m, at, repack, new, obj) ==
  LET upd == NewManifest(m, at, repack, new, obj)
      changed == upd.condemned # m.condemned \/ obj # {}
  IN  [NoRound EXCEPT !.pc = IF changed THEN "swap" ELSE "delete",
                      !.upd = IF changed THEN upd ELSE @,
                      !.packs = ExpiredPacks(m, at) \cup OrphanPacks(m, new),
                      !.objs = ExpiredObjs(m, at) \cup OrphanObjs(m, at, repack, obj)]

\* The round decides.  The live chunks of the packs it repacks are copied
\* into a new pack, and the index objects are rewritten into one when a
\* pack goes or is repacked.
Apply(g) ==
  LET m    == gc[g].man
      at   == gc[g].at
      gone == ExpiredPacks(m, at)
  IN
  /\ gc[g].pc = "begun"
  /\ Markable(m)
  /\ \E repack \in SUBSET Candidates(m) :
     \E new \in IF repack = {} THEN {{}} ELSE {{p} : p \in FreshPacks} :
     \E obj \in IF repack = {} /\ gone = {} THEN {{}} ELSE {{i} : i \in FreshObjs} :
       /\ \A p \in repack : packs[p].has
       /\ packs' = [p \in PackId |-> IF p \in new
                      THEN [chunks |-> UNION {LiveIn(q, m) : q \in repack}, at |-> now, has |-> TRUE]
                      ELSE packs[p]]
       /\ objs' = [i \in IndexId |-> IF i \in obj
                      THEN [packs |-> (ListedBy(m.indexes) \ gone) \cup new, at |-> now, has |-> TRUE]
                      ELSE objs[i]]
       /\ gc' = [gc EXCEPT ![g] = Decided(m, at, repack, new, obj)]
  /\ UNCHANGED <<now, man, crashes>>

\* The round's manifest is swapped in; a writer that published since Begin
\* makes it start over.
Swap(g) ==
  /\ gc[g].pc = "swap"
  /\ \/ /\ gc[g].upd.seq = man.seq + 1
        /\ man' = gc[g].upd
        /\ gc' = [gc EXCEPT ![g] = [NoRound EXCEPT !.pc = "delete",
                    !.packs = gc[g].packs, !.objs = gc[g].objs]]
     \/ /\ gc[g].upd.seq # man.seq + 1
        /\ gc' = [gc EXCEPT ![g] = NoRound]
        /\ UNCHANGED man
  /\ UNCHANGED <<now, packs, objs, crashes>>

\* What expired and the orphans are deleted, one object at a time.
Delete(g) ==
  /\ gc[g].pc = "delete"
  /\ \/ \E p \in gc[g].packs :
          /\ packs' = [packs EXCEPT ![p].has = FALSE]
          /\ gc' = [gc EXCEPT ![g].packs = @ \ {p}]
          /\ UNCHANGED objs
     \/ \E i \in gc[g].objs :
          /\ objs' = [objs EXCEPT ![i].has = FALSE]
          /\ gc' = [gc EXCEPT ![g].objs = @ \ {i}]
          /\ UNCHANGED packs
     \/ /\ gc[g].packs \cup gc[g].objs = {}
        /\ gc' = [gc EXCEPT ![g] = NoRound]
        /\ UNCHANGED <<packs, objs>>
  /\ UNCHANGED <<now, man, crashes>>

\* A round stops where it is: the process ends, or a call fails.
Stop(g) ==
  /\ gc[g].pc # "idle"
  /\ crashes < MaxCrashes
  /\ crashes' = crashes + 1
  /\ gc' = [gc EXCEPT ![g] = NoRound]
  /\ UNCHANGED <<now, packs, objs, man>>

CollectorInit == gc = [g \in Collectors |-> NoRound]

CollectorStep(g) == Begin(g) \/ Apply(g) \/ Swap(g) \/ Delete(g) \/ Stop(g)
==============================================================================
