# A TLA+ model of snapshot-core

snapshot-core keeps versioned data as encrypted, content-addressed chunks on an
object backend: a directory, several volumes, or an S3 bucket. Writers commit by
compare-and-swap of one root, a collector deletes garbage beside them without
locks, and a journal makes small commits cheap. This directory models the system
from the backends' system calls up to the version graph and the trees its
objects are. TLC checks the models on small instances; TLAPS proves part of what
they show for every instance.

Paths are relative to `src/`. `packstore.go`, `journal.go` and `packstore/gc.go`
are in `core/chunk/packstore/`, `core/gc/gc.go` is the collector's driver.

What must be right, in order of weight: a published root is whole and stays
whole; an acknowledged commit survives a crash; a commit takes effect at most
once and only from the root it read; refs only move forward; a tree, a stream or
a merge is the same whatever led to it; a call that started ends.

## The system and its modules

| Part | Code | Modules | Instances |
| --- | --- | --- | --- |
| Pack store: chunks gathered into packs, index objects that list packs, a manifest that names root, index objects and what the collector condemned | `packstore.go`, `compact.go`, `manifest.go` | `Objects`, `PackStore` | `MCPackSystem` |
| Garbage collector: rounds of mark, condemn, repack, expire, delete | `core/gc/gc.go`, `packstore/gc.go` | `Collector` | |
| Both composed, and the register `chunk.Store` promises | `core/chunk/port.go` | `PackSystem`, `RootRegister` | |
| Commit journal | `journal.go`, `core/blob/journal.go`, `core/blob/local` | `JournalFile`, `Journal` | `MCJournal` |
| Version graph: refs, commits, branches, tags, working sets, merges | `core/vcs`, `core/merge`, `core/object`, `model/*` | `History`, `Merging`, `Refs` | `MCRefs` |
| Local and multi-volume backends | `core/blob/local`, `core/blob/multivol` | `Disk`, `Volumes` | `MCVolumes` |
| S3, split root, read cache | `core/blob/s3`, `core/blob/split`, `core/blob/cache` | `Bucket`, `Mirror`, `ReadCache`, `Remote` | `MCRemote` |
| Prolly trees | `core/prolly`, `core/boundary`, `model/tree`, `model/mapobject` | `Boundary`, `Prolly`, `ProllyReads`, `Trees` | `MCRepo` |
| Streams and content-defined chunking | `core/stream`, `core/cdc` | `Boundary`, `Cdc`, `Streams` | `MCRepo` |
| Making and opening a repository | `core/repo` | `Opening`, `Repo` | `MCRepo` |

The layers meet at narrow ports. The version graph uses the chunk store only
through `Root` and `CompareAndSetRoot`, so `Refs` swaps a root in one step;
`RootRegister` is that step's contract and `PackSystem` is shown to implement it.
The pack store uses a backend through immutable objects and a swapped root, which
`Objects` has as variables; `Volumes` and `Remote` are the backends behind it.
`Journal` has publishing as what it amounts to (chunks become listed, the root
moves), since `PackStore` has its detail. `Repo` puts trees, streams and opening
beside each other, a behaviour exercising one of them.

### Pack store and collector

`packs`, `objs` and `man` are the backend. A pack or index object carries its
content, its date and whether the backend has it (`has`). A name is used once:
hashes do not collide, and a pack is sealed under a fresh salt. `man.seq` stands
for the root object's version, since every swap names the version it replaces
and adds one. `st[s]` is a store's session with the fields of `Store` that
matter, `pub[s]` the locals of the publish under `commitMu`, `cl[c]` a goroutine
of the host (the root it read, the chunks it was told are stored, a refresh under
way), `gc[g]` a round.

| Action | Code |
| --- | --- |
| `Put`, `PutPrepared` | `PutPrepared`: deduplicate, count on, or add to the pending pack |
| `Flush`; `Finish`, `Upload` | `Flush`; `finish` up to its unlock, then `upload` |
| `RootRead`, `RootTake` | `Root`: the backend read and the loads of `refreshFrom`, then what it does under the lock |
| `Get` | `Get` where it changes the store: a refresh, a session found lost |
| `CompareAndSetRoot`, `CarryForward` | the call up to `publish`; `carryForward`, a chunk a step |
| `CollectPacks`, `UploadPacks`, `WriteSessionIndex`, `RecordIndex` | `publishOnce` up to its unlock, the two writes side by side, `recordSessionIndex` and `stillStored` |
| `Attempt`, `SwapRoot`, `Landed` | a turn of the swap loop: checks and `compact`, the swap, what follows under the lock |
| `Reopen` | a crash, or `Close` of a lost store, and `Open` |
| `Begin`, `Apply`, `Swap`, `Delete`, `Stop` | a round: `Begin` and `load`; mark, orphans, `Apply` up to its swap; the swap; one deletion; a stop anywhere |
| `Tick` | the clock |

What a step hides. A refresh inside `Get`, `CompareAndSetRoot` and a swap retry
is one step; only `Root`'s is split. A round's mark, orphan list and decision are
one step after `Begin`. Record limits (100,000), byte shares (any pack with a
dead chunk may be repacked, any subset of them) and a round's retry count are
left out. A mark that cannot read a chunk ends the run (`Stop`). One clock stands
for the hosts' and the backend's. `Flush` sends any pending pack. Compaction may
merge any `FanIn` or more index objects, in place of the size tiers. A client
keeps the host's contract (`docs/DESIGN.md`, section 9): it commits a root all of
whose chunks it put since its last commit or read with the root it replaces.

### Journal

`JournalFile` is the directory of segments with its lock files, over a disk whose
crash keeps what was synced and any prefix of the rest, the first record lost
perhaps torn. `Journal` adds the store's memory (`mem`: the journaled root,
`jbase`, the pending pack and what of it is journaled, the chunks counted on, the
sync counts, the sticky error), the publish under `pubMu` (`pub`, by the
background publisher, a commit, a close or a replay), clients (`cl`) and a
process that writes without the journal (`other`). `Commit` is `journalCommit`,
`SyncBegin`, `SyncEnd` and `Return` are `waitSynced`, `Arm` and `PublishNow` the
background publisher, `Take` to `Done` a publish, `Open` the replay,
`DiscardJournal` itself; `Crash` may happen anywhere. `made` and `acked` are
history: what each root reaches and replaces, and the commits acknowledged.

### Version graph

`refs` is the map at the root: heads, working sets with the merge in progress,
tags. Every call is a `Begin…`, then `Attempt` (read the refs, check, write the
new map) and `Swap` or `LostSwap` of the retry loop (`update`), so two calls
interleave at every read and swap. `Refuses` and `Writes` give each call's checks
and effect. `History` has `mergeBase`, `Log` and `DecodeCommit` as operators,
`Merging` the three-way merge of namespaces and of the blob, tree and counter
models, and `Walk` in `Refs` is the collector's walk. `merging`, `owed` and
`dropped` are history variables.

### Backends

`Volumes` runs threads of open handles a system call at a time: `Put` (stat
everywhere, place on the first volume with room, mkdir and sync on the way, link,
sync), `find`, `List`, `Delete`, `SwapRoot` under `root.lock`, `AddVolume` under
`multivol.lock`, `Open`; volumes fill, go missing or are replaced (`Remount`),
system calls fail (`Errs`) and the machine crashes. `Disk` says which directory
entries a crash may take. `Bucket` has S3's conditional puts, retries, paged
listings and the root's swap with its nonce and read-back, where an answer may be
lost after the request took effect; `Mirror` the split store's copy of its root
in each mode, its writer goroutine, `Close` and `Recover`; `ReadCache` the files
and the index of the cache, damage and reloads included.

### Trees, streams, opening

`Prolly` and `ProllyReads` are the tree algorithms as operators (flush with its
stretches and resynchronisation, growth, collapse, get, ranges, diff, walk, a
reader's checks); `Trees` edits two sides of a map and merges them, next to the
plain maps in `content`, which nothing reads. A hash stands for what it hashes,
a digest's window (what decides a boundary) is a variable. `Streams` has both
paths of `stream.Write`, every goroutine and bounded channel of the parallel one,
the index builder and a `Reader`. `Opening` has racing `Init`s and `Open`s, each
under a config of its own.

## Runs

Deadlock is not checked: every run stops when its bounds are used up.

| Run | Checks | Instance | States |
| --- | --- | --- | --- |
| `collect` | `TypeOK`, `Durable`, `NotLeftBehind`, `LocatesListed` | a writer and a collector, two ticks, six manifests | 631,330 |
| `crash` | `Durable`, `NamesStored` | a crash of either, failing uploads, finishers, builds and swap answers | 752,468 |
| `writers` | `HeadReadable`, `SwapsSucceed`, `RefinesRegister` | two stores, three roots, packs of one chunk, compaction | 347,860 |
| `ends` | `PublishEnds` | fair finishers and publishes beside a collector | 62,720 |
| `journal` | `AckedSurvives`, `RecoversWhole`, `NeverCorrupt` | two clients, four roots without failures or three with, a rotation, a crash | 855,965 |
| `refs` | `MergeKept`, `HistoryExact`, `RefsAdvance`, `MergeLands`, `WalkReaches` | two callers, two branches, a tag, seven mixes of calls | 225,325 |
| `volumes` | `PutDurable`, `FindsHonest`, `DeletedGone`, `NeverPanics`, `RootChains` | two threads, two volumes and a third, five mixes of calls and faults | 228,457 |
| `remote` | `SwapsLand`, `ListWhole`, `ObjectsImmutable`, `CopyNewest`, `CopyCatchesUp`, `CacheAccounts` | a bucket with and without conditional writes, a split store in each mode, a cache of three bytes | 133,038 |
| `repo` | `Canonical`, `ChangesAreDiff`, `ReadsExact`, `StoredWhole`, `MergeExact`; `PutsInOrder`, `WriteExact`, `StreamReads`, `WriteEnds`; `OpensAsMade`, `RefusesRightly` | five keys, streams of up to seven bytes, three callers of two keys | 184,608 |

What they say:

- `Durable`: every chunk of the root in force is in a stored pack that a stored
  index object of the manifest lists. `NotLeftBehind`: every live chunk has a
  copy outside repacked packs, which are never reprieved; it fails a window
  before `Durable` would. `NamesStored`: the manifest names no missing object.
  `LocatesListed`: a store that took the manifest in force locates nothing
  elsewhere. `HeadReadable`: every store reads the root in force after one
  refresh. `SwapsSucceed`: a manifest about to be swapped in either is overtaken
  or succeeds the one in force, over the root the caller read.
  `RefinesRegister`: commits implement `RootRegister`. `PublishEnds`: a
  `CompareAndSetRoot` returns.
- `AckedSurvives`: whatever a crash now would leave of the journal, its replay
  ends at a root that holds every acknowledged commit, unless a collection
  deleted a chunk one counted on. `RecoversWhole`: that root's chunks are all
  stored or in the journal. `NeverCorrupt`: no crash leaves a journal whose
  records do not chain.
- `MergeKept`: a working set's merge is the last that landed there, with the
  conflicts nobody resolved and the namespaces it began from. `RefsAdvance`: a
  head only moves to a descendant, a tag stays. `MergeLands`: a commit that
  concludes a merge holds the merged commit. `HistoryExact`: merge bases are best
  common ancestors, `Log` is complete and in order. `WalkReaches`: what a call
  brings into reach, the collector's walk already reached or the call wrote.
- `PutDurable`: an object whose `Put` returned survives a crash. `FindsHonest`:
  not found is said only of what is not there. `DeletedGone`: a deleted object is
  on no volume. `NeverPanics`: no nil volume is used. `RootChains`: the root file
  moves by compare-and-swap and no swap that returned is undone.
- `SwapsLand`: a swap on S3 lands at most once, on the root its caller read,
  though requests repeat. `ListWhole`: a listing leaves out no name stored all
  along. `ObjectsImmutable`: no put replaces another's bytes. `CopyNewest`: the
  copy called mirrored is the newest root's. `CopyCatchesUp`: it becomes so
  without another swap. `CacheAccounts`: the cache counts its bytes, fits, and
  loses track of no file.
- `Canonical`: an edited tree is the tree a bulk build draws. `ChangesAreDiff`,
  `ReadsExact`, `MergeExact`: `Changes`, `Diff`, `Get`, ranges and merges agree
  with the plain maps. `StoredWhole`: every tree handed out is stored whole.
  `WriteExact`: a stream's chunks and index depend on its bytes alone and are
  what `Walk` names. `PutsInOrder`: only whole chunks, in order, also when a read
  fails. `StreamReads`: reads return the stream's bytes, after failed reads too.
  `WriteEnds`: a write returns and its goroutines end. `OpensAsMade`: the config
  a call returns is the one the root was sealed under. `RefusesRightly`: a
  finished repository opens for its key and a stopped `Init` blocks nobody.

Every property is broken by a small change of the code in the run that checks it
(`mutants` in `PROJECT.json`), which shows that the bounds reach the case.

### Bounds

Pack store: two ticks of a one-tick window let an object be condemned, expire and
be missed. Six manifests are what it takes to leave a root, condemn its pack,
return to it and have a round decide again; with five a collector that forgets to
reprieve goes unnoticed. Three roots are needed for the refinement: with two, the
root a commit writes is always the other one, and a double commit is invisible.
Journal: a rotation with commits before, beside and after it takes three roots
over the first. Refs: two diverged branches, a merge and two commits are what a
criss-cross of `MaxCommits` 5 needs. Volumes: an object whose directory is there
and one two directories down; the third volume ranks first for one of them.
Trees: five keys with sizes of which three fill a node give trees of three
levels, with nodes that split, merge and resynchronise. Streams: blocks of two
bytes are shorter than the window of three, so a block's hash needs the one
before; two workers and four buffers fill every channel.

### Constants that restrict the environment

Some interleavings are left out of the passing runs because the code does not
survive them (below); each is a constant, so that the case can be put back.

| Constant | Restriction |
| --- | --- |
| `Prompt` | no tick passes inside a swap loop or a round: the code compares an hour and a week with the time of a few backend calls |
| `Faults` | no failing index object and no partly failed upload in `collect`, `crash` |
| `HoldAcross` | a host does not use what it put before its own last commit |
| `AnyName` | packs are credited in the order of their names |
| `CountOld`, `CountBeside`, `FillsLive` | a commit that counts on a stored chunk runs alone; packs do not fill while commits wait in the journal |
| `Recreates` | a deleted branch's name is not used again under a merge |
| `UnmountsIdle` | volumes come and go between operations |
| `Names`, `Fragile` | one thread puts into a directory that is not there yet, and its directory syncs do not fail |
| `TrustExists` | a caller does not take `ErrExists` for a durable object |
| `Swapper`, `Restarts` | one swap of a split store at a time; no restart over a root that was never copied |

`MCVolumes` (`Unplugged`, `Racing`, `AllNames`), `MCRefs` (`Remerging`,
`Recreating`), `MCRemote` (`Swaps`, `Kills`) and `MCJournal` (`NoFaults`) keep the
instances that reproduce them.

### Fairness

`FairSpec` gives weak fairness to each store's finishers and to its publish: each
is a goroutine that runs when it can, and the backend answers. Clients,
collectors and the clock get none. With a second client putting all the while,
finishers may keep a publish waiting for ever (`packstore.go:1180`); `ends` has
one client. `MirrorFairness`: the split store's writer goroutine takes its steps,
its timers fire, and a call that began goes on. `StreamFairness`: some goroutine
of a write runs while one can, and the caller's reader ends or fails; none of a
write's steps repeats, so that is enough.

## Where the code and its words differ

Three are runs that TLC finds violated, with a finding in `PROJECT.json`.

| Run | What happens |
| --- | --- |
| `unlisted` | an index object fails after its packs landed; the retry publishes a root whose pack nothing lists |
| `vanished` | a `Put` trusts a directory another has made and not synced; a crash takes both |
| `leaks` | a store fails while the parallel chunker's reader is between its two sends; goroutines wait for good |

The others were met while modelling. Pack store and collector:

- A landed publish ends the count on the chunks put before it
  (`packstore.go:1290`), so a chunk used in the next commit may be left to a pack
  that was repacked in between; `docs/DESIGN.md:967` asks a host only to publish
  within the grace window.
- `load` credits a live chunk to a repacked pack when that one is listed before
  a condemned one that also holds it, and the condemned one expires
  (`packstore/gc.go:164`; `:108` says the chunk counts for the one staying).
- A pack left, reached again and left between two rounds keeps its first date,
  and expires inside a reader's window (`packstore/gc.go:288`).
- A slow refresh adds packs a newer manifest dropped to an index a faster one
  rebuilt (`packstore.go:388`; `:256` says it names nothing in a deleted pack).
- `publishOnce` (`packstore.go:1277`) stores the manifest it swapped in without
  comparing sequence numbers, though `:352` says manifests only move forward;
  `SwapsSucceed` shows that no wrong swap follows. `Has` (`:1045`) does not look
  in the packs being finished, which `core/chunk/contract/contract.go:177` does
  not expect.

Journal:

- A commit beside a background publish may leave out a frame when packs fill
  while commits wait (`journal.go:432`), against `docs/DESIGN.md:333`.
- A publish by a commit that lands and cannot empty the journal before the host
  stops leaves a journal that chains to no root (`journal.go:528`): the next open
  says `ErrJournalConflict`, which `packstore.go:94` puts down to a writer that
  does not honor the journal. No commit is lost.
- A sync beside a rotation finds its file closed and the error is sticky, though
  the rotation synced the records; `core/blob/journal.go:38` allows a `Sync`
  beside a `Write` only. `jcounted` is cleared for every client by one's commit
  (`packstore.go:1291`), and a background publish that lands beside new commits
  does not kick itself, so they may wait longer than `packstore.go:90` says.

Version graph:

- Two callers that merge one commit may both record it, the second after the
  first was committed: "merging a commit the branch already holds" is checked on
  the refs read before (`core/vcs/vcs.go`, `Merge`).
- A branch deleted and created again under a merge takes the merge over. A
  `Checkout` may count itself on a branch deleted since it read the refs.
  `CreateBranch` and `CreateTag` may name a commit a collection has taken.

Backends:

- A volume unmounted inside an operation is a nil store to another
  (`core/blob/multivol/multivol.go:358`), and a `List` whose volume goes away
  after its check reads an empty one (`:466`).
- Two handles that add volumes lose one of them from the map; a put-if-absent is
  not atomic across volumes; `createVolume` does not sync its parent's entry;
  `ErrExists` may come from a link nobody synced, which `packstore/gc.go:521` and
  `:741` take for stored; a `Delete` that finds nothing syncs nothing; `SwapRoot`
  may return an error after its rename.
- After too many 409s, a `SwapRoot` on S3 that landed and was then overtaken
  answers `ErrRootConflict`; `core/blob/port.go` says that changes nothing.
- Two swaps of a split store at once may leave the older copy and call it
  mirrored (`core/blob/split/split.go:150`), and so does a restart over a root
  whose copy never landed; a copy that timed out may still land late.
- A `Get` in flight may cache a range of an object deleted meanwhile, and storing
  a range again may remove the file just renamed into place; both cost a miss.

Opening: an `Init` overtaken between `packstore.Open` and `vcs.Init` gets
`ErrManifest` in place of `ErrExists`, and an `Open` racing two `Init`s of its
key may report `ErrWrongKey`.

## Proofs

The theorems hold for every number of stores, clients, collectors, threads,
volumes, branches, objects and values, and for every bound; each names its
hypotheses, which are constants of the table above. Assumptions are the named
`ASSUME`s of the modules (constants are numbers, sets and functions of the right
kind); TLC evaluates them in every run.

| Theorem | Module | Says | Argument |
| --- | --- | --- | --- |
| `TypeCorrect` | `PackSystemProofs` | `Spec => []TypeOK` | one lemma per action, resting on what the operators return |
| `SwapsSucceedAlways` | `RegisterProofs` | `Spec => []SwapsSucceed` | below |
| `Refinement` | `RegisterProofs` | `Spec => RefinesRegister` | below |
| `MergeStays`, `RefsMoveForward`, `MergesLand` | `RefsProofs` | `MergeKept`, `RefsAdvance`, `MergeLands` | `RefsInv` |
| `NoNilVolume`, `RootsChain` | `VolumesProofs` | `NeverPanics`, `RootChains`, if `UnmountsIdle` | `HandlesInv`, `RootInv` |
| `DeletesAll` | `DeletesProofs` | `DeletedGone`, if `UnmountsIdle` and one handle | `DeleteInv` |
| `SwapsLandAlways`, `ListsWhole`, `ObjectsStay` | `RemoteProofs` | `SwapsLand`, `ListWhole`, `ObjectsImmutable` | `BucketInv` |
| `CopiesNewest` | `RemoteProofs` | `CopyNewest`, if one swapper and not `Restarts` | `MirrorInv` |
| `OpenedAsMade`, `RefusedRightly` | `OpeningProofs` | `OpensAsMade`, `RefusesRightly` | `OpenInv` |

Inductive invariants and why they are needed:

- `SwapsSucceed` carries its own strengthening: every manifest that a store, a
  refresh, a landed publish or a round holds was in force once (`HoldsPast`), and
  a store's publish belongs to one client (`OneCall`). Without the first a
  publish could make its manifest from one that never was, with the sequence
  number of another. In `Refinement` the register's root is the manifest's, and a
  call is in progress from the moment its publish begins until it lands, is
  refused or dies with its process. The landing swap is `Land`; a collector's
  swap leaves the root alone and stutters; a crash ends every call of its store.
- `RefsInv`: a commit's parents come before it (so ancestors are well defined);
  a call waiting to swap carries the refs it read, and writes what `Writes` makes
  of them; a branch's merge is the one the history variables name. The central
  step is that a swap lands only on refs equal to those read, so what was checked
  at the read still holds.
- `HandlesInv`: an operation that a missing volume would refuse runs only while
  its handle has none missing and every volume it holds is mounted. `RootInv`:
  versions grow, the thread that holds `root.lock` is the only one between its
  comparison and its sync, and a version returned is durable. `DeleteInv` adds
  that objects are only on volumes every open handle holds and the durable map
  lists, that a `Delete` in progress has removed the object from the volumes
  behind it unless a `Put` raced it, and that a volume being added is empty.
  With two handles it fails: one may add a volume the other never looks at.
- `BucketInv`: a swap's nonce is its own, and among the moves of the root it can
  only be right after the one its caller read; a listing under way has, of the
  names it owes, all up to its last. `MirrorInv`: a root not yet copied is
  pending or in the hands of the swap or the writer that copies it, and a copy
  under way is of the pending root or of one before it.
- `OpenInv`: repo ids are one config's alone; a caller past its choice holds a
  stored config of its key; an `Open` begun after the root was made still has the
  root's config among those it will try.

Only model-checked. `Durable`, `NotLeftBehind`, `NamesStored`, `LocatesListed`
and `HeadReadable` need an invariant over every way a chunk moves between packs,
sessions and rounds, not attempted here. The journal's three properties read the
journal through a flattened sequence and a least index. `PutDurable` and
`FindsHonest` hold under restrictions on who makes directories and need induction
along paths. `HistoryExact`, `Canonical` and the other properties of trees,
merges and streams are about recursive definitions, and `CacheAccounts` about a
sum: induction over data is out of the prover's reach. `WalkReaches` compares two
walks of a whole repository. `PublishEnds`, `CopyCatchesUp` and `WriteEnds` are
liveness.

## Not modelled

Encryption, hashing and byte formats (`core/seal`, `core/hash`, `core/wire`,
`core/pack`, `core/dedup`): pure functions whose correctness is not a matter of
states; a hash or a sealed object stands for its content. Authorization
(`core/auth`): a call without state. The in-memory stores: maps under a lock,
which implement `RootRegister` directly. Inside modelled parts: the finishers'
slots, the spilled index and the chunk cache of the pack store, multipart uploads
(their parts are not visible before they complete), name syntax and geometry
checks. The tools do not run in the system.
