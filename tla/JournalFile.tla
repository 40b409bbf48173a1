----------------------------- MODULE JournalFile -----------------------------
(***************************************************************************)
(* The journal a local store keeps beside its objects                      *)
(* (src/core/blob/local/local.go, contract in src/core/blob/journal.go):   *)
(* records in numbered segment files and a lock file, over a disk whose    *)
(* crash keeps what was synced and any prefix of what was written since.   *)
(***************************************************************************)
EXTENDS Integers, Sequences, FiniteSetsExt

VARIABLES
  recs,    \* the records of every segment, oldest first: what Read returns
  ends,    \* how many of them each segment before the current one ends at
  durable, \* how many of them a sync covers, all but the current segment's last
  jlock,   \* who has the journal open: nobody, a store, or a replay alone
  held     \* a writer without the journal keeps it from being opened

segs == <<recs, ends, durable>>

Opener == {"nobody", "store", "replay"}

Write(rs) == recs' = recs \o rs /\ UNCHANGED <<ends, durable>>
Sync(n)   == durable' = Max({durable, n}) /\ UNCHANGED <<recs, ends>>
Rotate    == ends' = Append(ends, Len(recs)) /\ durable' = Len(recs) /\ UNCHANGED recs

DropOldest ==
  /\ ends # <<>>
  /\ recs' = SubSeq(recs, ends[1] + 1, Len(recs))
  /\ ends' = [k \in 1 .. Len(ends) - 1 |-> ends[k + 1] - ends[1]]
  /\ durable' = durable - ends[1]

Emptying == recs' = <<>> /\ ends' = <<>> /\ durable' = 0
Truncate == ends = <<>> /\ Emptying

\* OpenJournal and HoldJournal: an exclusive and a shared lock, neither
\* waited for.
CanOpen == jlock = "nobody" /\ ~held
CanHold == jlock = "nobody"

\* What a crash may leave of the records: only the current segment has any
\* that no sync covers, and the first one lost may be there in part, torn.
Crashed(torn) ==
  {SubSeq(recs, 1, k) : k \in durable .. Len(recs)}
    \cup {Append(SubSeq(recs, 1, k), torn) : k \in durable .. Len(recs) - 1}

JournalFileInit == recs = <<>> /\ ends = <<>> /\ durable = 0 /\ jlock = "nobody" /\ held = FALSE
==============================================================================
