------------------------------- MODULE Objects -------------------------------
(***************************************************************************)
(* The object backend the repository lives on, as packs, index objects and *)
(* the manifest in the compare-and-swapped root object (packstore's        *)
(* manifest.go), with the chunks they hold.                                *)
(*                                                                         *)
(* A chunk is its hash; a root is a chunk together with all it reaches.    *)
(* Pack and index object names are numbers drawn from a finite supply, in  *)
(* creation order or (AnyName) in any order, as hashes are.  The version   *)
(* of the root object is the manifest's seq: each swap names the version   *)
(* it replaces and adds one to seq.  One clock dates everything.           *)
(***************************************************************************)
EXTENDS Naturals, FiniteSets, FiniteSetsExt

CONSTANTS
  Chunk,            \* chunk hashes
  Root,             \* chunks a manifest's root may be
  Reach,            \* Reach[r]: every chunk the root r reaches, r included
  Grace,            \* the grace window (gc.Options.Grace)
  RecheckAfter,     \* age past which an unpublished upload is looked up again
  AnyName,          \* names sort in any order rather than by creation
  InitPacks,        \* the published packs at the start, a tuple of chunk sets
  InitRoot,         \* and the published root
  MaxPack, MaxIndex, MaxSeq, MaxTime, MaxCrashes  \* bounds of an instance

ASSUME ChunkAssumption ==
  /\ Root \subseteq Chunk
  /\ Reach \in [Root -> SUBSET Chunk]
  /\ \A r \in Root : r \in Reach[r]
  /\ InitRoot \in Root

ASSUME BoundAssumption ==
  /\ {MaxPack, MaxTime, MaxCrashes} \subseteq Nat
  /\ {MaxSeq, MaxIndex} \subseteq Nat \ {0}
  /\ AnyName \in BOOLEAN

\* The default window is seven days and the recheck age an hour.
ASSUME GraceAssumption ==
  {Grace, RecheckAfter} \subseteq Nat /\ Grace > RecheckAfter

ASSUME InitAssumption ==
  /\ DOMAIN InitPacks \subseteq 1..MaxPack
  /\ \A p \in DOMAIN InitPacks : InitPacks[p] \in SUBSET Chunk \ {{}}
  /\ Reach[InitRoot] \subseteq UNION {InitPacks[p] : p \in DOMAIN InitPacks}

VARIABLES
  now,    \* the clock
  packs,  \* pack objects by name
  objs,   \* index objects by name
  man,    \* the manifest the backend's root object holds
  crashes \* stores and collectors that have stopped midway

None    == 0
PackId  == 1..MaxPack
IndexId == 1..MaxIndex
Time    == 0..MaxTime

\* A name is in use once its object has content, whether or not the
\* backend has it (a pack in memory, an object deleted).
NoPack   == [chunks |-> {}, at |-> 0, has |-> FALSE]
NoObject == [packs |-> {}, at |-> 0, has |-> FALSE]

Pack   == [chunks : SUBSET Chunk, at : Time, has : BOOLEAN]
Object == [packs : SUBSET PackId, at : Time, has : BOOLEAN]

LeastIf(S)  == IF AnyName \/ S = {} THEN S ELSE {Min(S)}
FreshPacks  == LeastIf({p \in PackId : packs[p].chunks = {}})
FreshObjs   == LeastIf({i \in IndexId : objs[i].packs = {}})

PackKind  == {"condemnedPack", "deletedPack", "repackedPack"}
IndexKind == {"condemnedIndex", "deletedIndex"}
Condemned == [kind : PackKind, id : PackId, at : Time]
               \cup [kind : IndexKind, id : IndexId, at : Time]
Manifest  == [seq : Nat \ {0}, gcGen : Nat, root : Root,
              indexes : SUBSET IndexId, condemned : SUBSET Condemned]

InitManifest == [seq |-> 1, gcGen |-> 0, root |-> InitRoot,
                 indexes |-> {1}, condemned |-> {}]

Ids(records) == {c.id : c \in records}
IdsOf(records, kind) == Ids({c \in records : c.kind = kind})

\* Packs a manifest has condemned or repacked, on their way out either way.
condemnedPacks(m) == IdsOf(m.condemned, "condemnedPack") \cup IdsOf(m.condemned, "repackedPack")

HeldBy(P)   == UNION {packs[p].chunks : p \in P}
ListedBy(I) == UNION {objs[i].packs : i \in I}

\* The pack of P chunk h is found in: the first that holds it, those in
\* service (outside cond) before the condemned and the repacked.
FirstHolder(h, P, cond) ==
  LET holders == {p \in P : h \in packs[p].chunks}
      serving == holders \ cond
  IN  IF serving # {} THEN Min(serving) ELSE IF holders # {} THEN Min(holders) ELSE None

\* What the backend may hold.
ObjectsTypeOK ==
  /\ now \in Time
  /\ packs \in [PackId -> Pack]
  /\ objs \in [IndexId -> Object]
  /\ man \in Manifest
  /\ crashes \in 0..MaxCrashes

ObjectsInit ==
  /\ now = 0
  /\ packs = [p \in PackId |-> IF p \in DOMAIN InitPacks
                THEN [chunks |-> InitPacks[p], at |-> 0, has |-> TRUE] ELSE NoPack]
  /\ objs = [i \in IndexId |-> IF i = 1
               THEN [packs |-> DOMAIN InitPacks, at |-> 0, has |-> TRUE] ELSE NoObject]
  /\ man = InitManifest
  /\ crashes = 0
==============================================================================
