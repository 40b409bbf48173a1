----------------------------- MODULE ReadCache -----------------------------
(***************************************************************************)
(* A disk cache of object ranges in front of a bucket                      *)
(* (src/core/blob/cache/cache.go): files named by object and range, and an *)
(* index of them in order of use.  Files are read and written outside the  *)
(* lock; a file may be damaged.                                            *)
(***************************************************************************)
EXTENDS Mirror, SequencesExt, FiniteSetsExt

CONSTANTS
  Reader,     \* goroutines that call Get and Delete through the cache
  Span,       \* the ranges asked for
  SizeOf,     \* SizeOf[k]: the bytes of the entry for k, a name and a range
  EntryLimit, \* larger reads pass through
  MaxBytes

VARIABLES
  files,   \* files[k]: what the file of k holds: nothing, the entry, or damage
  items,   \* the index, most recently used first
  used,
  get      \* get[r]: reader r's call in progress

cacheVars == <<files, items, used, get>>

Key == Object \X Span

NoGet == [pc |-> "idle", key |-> <<0, 0>>]

\* The index and the directory, which change together under the lock.
Index == [items : Seq(Key), used : Nat, files : [Key -> STRING]]

\* removeLocked: a key leaves the index and its file goes.
Removed(s, k) ==
  [items |-> SelectSeq(s.items, LAMBDA x : x # k), used |-> s.used - SizeOf[k],
   files |-> [s.files EXCEPT ![k] = "none"]]

\* insertLocked: at the front, once the entry it replaces is removed.
InsertedTwice(s, k) == [s EXCEPT !.items = <<k>> \o @, !.used = @ + SizeOf[k]]
Inserted(s, k) ==
  LET old == IF k \in ToSet(s.items) THEN Removed(s, k) ELSE s
  IN  [old EXCEPT !.items = <<k>> \o @, !.used = @ + SizeOf[k]]

\* evictLocked: from the back while the entries are too large.
Evicted[s \in Index] ==
  IF s.used > MaxBytes /\ s.items # <<>> THEN Evicted[Removed(s, Last(s.items))] ELSE s

Dropped(s, K) == FoldSet(LAMBDA k, rest : Removed(rest, k), s, K \cap ToSet(s.items))

Cache == [items |-> items, used |-> used, files |-> files]

Becomes(s) == items' = s.items /\ used' = s.used /\ files' = s.files

Gets(r, g) == get' = [get EXCEPT ![r] = g]

-----------------------------------------------------------------------------
(* Get                                                                      *)

Get(r, k) ==
  /\ get[r].pc = "idle" /\ net.gets > 0
  /\ net' = [net EXCEPT !.gets = @ - 1]
  /\ Gets(r, [NoGet EXCEPT !.key = k, !.pc = IF k \in ToSet(items) THEN "read" ELSE "fetch"])
  /\ items' = IF k \in ToSet(items) THEN <<k>> \o SelectSeq(items, LAMBDA x : x # k) ELSE items
  /\ UNCHANGED <<files, used>>

\* A hit's file, read outside the lock: served if it is whole.
ReadFile(r) ==
  /\ get[r].pc = "read"
  /\ Gets(r, IF files[get[r].key] = "entry" THEN NoGet ELSE [get[r] EXCEPT !.pc = "drop"])
  /\ UNCHANGED <<files, items, used, net>>

\* Damaged or gone: dropped if it is still indexed, and fetched again.
DropDamaged(r) ==
  /\ get[r].pc = "drop"
  /\ Becomes(Dropped(Cache, {get[r].key}))
  /\ Gets(r, [get[r] EXCEPT !.pc = "fetch"])
  /\ UNCHANGED net

\* The bucket's answer is served; what is neither missing nor too large is
\* also kept.
Fetch(r) ==
  LET k == get[r].key
      kept == objects[k[1]] # NoBytes /\ SizeOf[k] <= EntryLimit /\ SizeOf[k] <= MaxBytes
  IN  /\ get[r].pc = "fetch"
      /\ Gets(r, IF kept THEN [get[r] EXCEPT !.pc = "store"] ELSE NoGet)
      /\ UNCHANGED <<files, items, used, net>>

\* store: the file is renamed into place, or not, then indexed.
StoreFile(r) ==
  /\ get[r].pc = "store"
  /\ \/ files' = [files EXCEPT ![get[r].key] = "entry"] /\ Gets(r, [get[r] EXCEPT !.pc = "insert"]) /\ UNCHANGED net
     \/ Lost /\ Gets(r, NoGet) /\ UNCHANGED files
  /\ UNCHANGED <<items, used>>

InsertEntry(r) ==
  /\ get[r].pc = "insert"
  /\ Becomes(Evicted[Inserted(Cache, get[r].key)])
  /\ Gets(r, NoGet)
  /\ UNCHANGED net

-----------------------------------------------------------------------------
(* Delete, damage and restarts                                              *)

DeleteThrough(r, n) ==
  /\ get[r].pc = "idle" /\ net.gets > 0
  /\ net' = [net EXCEPT !.gets = @ - 1]
  /\ Erase(n)
  /\ Gets(r, [NoGet EXCEPT !.pc = "evict", !.key = <<n, 0>>])
  /\ UNCHANGED <<files, items, used>>

\* Every cached range of the object, whatever it is, is evicted.
EvictName(r) ==
  /\ get[r].pc = "evict"
  /\ Becomes(Dropped(Cache, {k \in Key : k[1] = get[r].key[1]}))
  /\ Gets(r, NoGet)
  /\ UNCHANGED net

Damage(k) ==
  /\ files[k] = "entry" /\ Lost
  /\ files' = [files EXCEPT ![k] = "damaged"]
  /\ UNCHANGED <<items, used, get>>

\* A new process indexes the files it finds, in the order they were written;
\* one whose header is damaged is removed.
Reload ==
  LET whole == {k \in Key : files[k] = "entry"}
      empty == [items |-> <<>>, used |-> 0, files |-> [k \in Key |-> IF k \in whole THEN "entry" ELSE "none"]]
  IN  /\ net.crashes > 0 /\ net' = [net EXCEPT !.crashes = @ - 1]
      /\ \E order \in SetToSeqs(whole) :
           Becomes(Evicted[FoldLeft(LAMBDA s, k : [s EXCEPT !.items = <<k>> \o @, !.used = @ + SizeOf[k]],
                                    empty, order)])
      /\ get' = [r \in Reader |-> NoGet]

CacheInit ==
  /\ files = [k \in Key |-> "none"] /\ items = <<>> /\ used = 0
  /\ get = [r \in Reader |-> NoGet]

CacheNext ==
  \/ /\ UNCHANGED <<objects, req>>
     /\ \/ \E r \in Reader :
             \/ \E k \in Key : Get(r, k)
             \/ ReadFile(r) \/ DropDamaged(r) \/ Fetch(r) \/ StoreFile(r) \/ InsertEntry(r) \/ EvictName(r)
        \/ \E k \in Key : Damage(k)
        \/ Reload
  \/ \E r \in Reader, n \in Object : DeleteThrough(r, n)

-----------------------------------------------------------------------------
(* Properties                                                               *)

\* The index counts the bytes of its entries, each once, and they fit, and
\* every file in the directory is indexed or being stored: no order of
\* misses, replacements, evictions and Deletes leaves the count off, or a
\* file that no eviction will remove.
CacheAccounts ==
  /\ IsInjective(items)
  /\ used = MapThenSumSet(LAMBDA k : SizeOf[k], ToSet(items))
  /\ used <= MaxBytes
  /\ \A k \in Key : files[k] # "none" =>
       k \in ToSet(items) \/ \E r \in Reader : get[r].pc = "insert" /\ get[r].key = k
=============================================================================
