------------------------------- MODULE Journal -------------------------------
(***************************************************************************)
(* The commit journal (src/core/chunk/packstore/journal.go): a store that  *)
(* commits by appending records, waits for grouped syncs, publishes in the *)
(* background, and replays after a crash; and a writer without the journal *)
(* beside it.                                                              *)
(*                                                                         *)
(* Publishing is here what it amounts to (PackStore has its detail): the   *)
(* chunks of a store become durable and listed, and the root is swapped.   *)
(* A commit makes a new root, reaching a root chunk, one data chunk and    *)
(* what the root it replaces reaches; the data chunk is its own, or Old, a *)
(* stored chunk that no root reaches and a collection may delete.  Or it   *)
(* goes back to an earlier root, whose chunks are all there already.       *)
(***************************************************************************)
EXTENDS JournalFile

CONSTANTS
  Client,       \* goroutines that commit to the journaling store
  Setups,       \* the failures that may be injected; whether commits go back to
                \* earlier roots ("back") or count on Old ("old"); how many are
                \* made, how many background publishes are begun after an open,
                \* and how many crashes there are
  CountBeside,  \* a commit may count on Old beside another client's
  TakesNew,     \* while commits wait in the journal, a pack of which they
                \* know nothing may be taken, or taken over by a retry
  MaxRecords    \* records a journal holds (maxJournal)

Fault == {"finisher", "upload", "swap", "write", "sync", "rotate", "drop", "reset"}

ASSUME JournalAssumption ==
  /\ \A s \in Setups : /\ s.faults \subseteq Fault /\ s.does \subseteq {"back", "old"}
                       /\ {s.roots, s.rotations, s.crashes} \subseteq Nat
  /\ {CountBeside, TakesNew} \subseteq BOOLEAN /\ MaxRecords \in Nat
  /\ Client \cap {"publisher", "close", "replay"} = {}

VARIABLES
  root,     \* the backend's root
  stored,   \* chunks in packs its manifest lists
  made,     \* the commits made so far: the hash of the root each sets, the
            \* chunks it reaches, and the commits before it
  mem,      \* the journaling store's memory
  pub,      \* the publish under way, under pubMu
  cl,       \* its clients
  other,    \* the writer without the journal
  acked,    \* commits acknowledged
  env       \* the setup of this behaviour, and the crashes still to come

NoRoot  == 0
Commits == 1 .. env.roots
Old     == <<"old", 0>>
Fresh   == Len(made) + 1

\* Roots are named by the commit that set them; the code compares hashes.
SameRoot(m, n) == made[m].hash = made[n].hash
RootChunk(n)   == <<"root", made[n].hash>>
\* Commit n takes effect over m, of the same hash as the one it was made from.
Over(n, m)     == [made EXCEPT ![n].hist = made[m].hist \cup {n}]

------------------------------------------------------------------------------
(* Records, and what a journal amounts to over the backend's root.         *)

Rec(expected, next, frames, counted) ==
  [expected |-> expected, next |-> next, frames |-> frames, counted |-> counted]
TornRec == Rec(NoRoot, NoRoot, {}, {})

\* decodeJournal: the records up to one cut short; they must chain.
Decode(rs) ==
  LET bad == {k \in DOMAIN rs : rs[k] = TornRec}
  IN  IF bad = {} THEN rs
      ELSE SubSeq(rs, 1, (CHOOSE k \in bad : \A j \in bad : k <= j) - 1)
Chained(rs) == \A k \in 1 .. Len(rs) - 1 : SameRoot(rs[k + 1].expected, rs[k].next)

\* The records a replay starts at: the first built on the backend's root.
BuiltOn(rs, r) == {k \in DOMAIN rs : SameRoot(rs[k].expected, r)}

From(rs, r) ==
  LET on == BuiltOn(rs, r) IN SubSeq(rs, CHOOSE k \in on : \A j \in on : k <= j, Len(rs))

LastRoot(rs) == rs[Len(rs)].next
Frames(rs)  == UNION {rs[k].frames : k \in DOMAIN rs}

\* Mutated: the chunks the records counted on are not looked for.
CountedNone(rs) == {}

Counted(rs) == UNION {rs[k].counted : k \in DOMAIN rs}

\* What replay makes of a journal that reads as this over root r with the
\* chunks S stored.  Counted chunks are looked for when a collection came
\* between (survived), which only Old falls to.
Outcome(read, r, S) ==
  LET rs == Decode(read)
  IN  IF rs = <<>> THEN "nothing"
      ELSE IF ~Chained(rs) THEN "corrupt"
      ELSE IF BuiltOn(rs, r) = {} THEN IF SameRoot(LastRoot(rs), r) THEN "published" ELSE "conflict"
      ELSE IF RootChunk(LastRoot(rs)) \notin S \cup Frames(From(rs, r)) THEN "corrupt"
      ELSE IF Old \in Counted(From(rs, r)) \ S THEN "lost"
      ELSE "replay"

------------------------------------------------------------------------------
(* The store's memory.                                                     *)

Down ==
  [up |-> FALSE,
   mroot |-> NoRoot,      \* the root of the manifest it holds
   jroot |-> NoRoot, jbase |-> NoRoot, jrecords |-> 0,
   pend |-> {},           \* frames of the pending pack
   same |-> FALSE,        \* jpending is the pending pack ...
   mark |-> {},           \* ... of which these are journaled
   old |-> {},            \* else the frames of jpending past its mark
   jcounted |-> {},
   session |-> {}, unuploaded |-> {}, sessionIdx |-> {}, \* chunks, by where their packs are
   jerr |-> FALSE, kick |-> FALSE, armed |-> FALSE, commitMu |-> FALSE,
   written |-> 0, synced |-> 0, syncing |-> FALSE, target |-> 0,
   closedUnder |-> FALSE, \* the file being synced was closed by a rotation
   syncErr |-> FALSE,
   publishing |-> FALSE, pubRoot |-> NoRoot, rotations |-> 0]

NoPublish == [pc |-> "idle", by |-> "publisher", expected |-> NoRoot, next |-> NoRoot,
              taken |-> {}, records |-> 0]
NoClient  == [pc |-> "idle", n |-> NoRoot, seen |-> NoRoot, ticket |-> 0]

live(m) == m.jroot # NoRoot

\* The pending pack is taken, by a finisher or a publish.
TakePending(m) ==
  [m EXCEPT !.pend = {}, !.same = FALSE, !.mark = {},
            !.old = IF m.same THEN m.pend \ m.mark ELSE @]

\* The pending pack, if there is one, is jpending.
Known(m) == m.same \/ m.pend = {}

\* journalFailed: every write refuses from now on.
JournalFailed(m) == [m EXCEPT !.jerr = TRUE]

\* The publisher is woken, once however often.
Kicked(m) == [m EXCEPT !.kick = TRUE]

backend == <<root, stored>>
files   == <<segs, jlock, held>>
vars    == <<recs, ends, durable, jlock, held, root, stored, made, mem, pub, cl, other, acked, env>>

------------------------------------------------------------------------------
(* Clients of the journaling store.                                        *)

\* Client d's commit counts on Old.
Counting(d) == cl[d].pc # "idle" /\ Old \in made[cl[d].n].reach

\* The root a client reads: the newest journaled one.
Current == IF live(mem) THEN mem.jroot ELSE root

\* Client c sets out to replace seen by a root of this hash and reach.
Starts(c, seen, hash, reach) ==
  /\ mem.up /\ ~mem.jerr /\ cl[c].pc = "idle" /\ Fresh \in Commits
  /\ made' = Append(made, [hash |-> hash, reach |-> reach, hist |-> made[seen].hist \cup {Fresh}])
  /\ cl' = [cl EXCEPT ![c] = [NoClient EXCEPT !.pc = "put", !.n = Fresh, !.seen = seen]]

\* A client reads the root and puts its data chunk: into the pending pack,
\* or counted on where it is stored.
Begin(c, counts) ==
  LET data == IF counts THEN Old ELSE <<"data", Fresh>>
  IN  /\ Starts(c, Current, Fresh, made[Current].reach \cup {<<"root", Fresh>>, data})
      /\ counts => "old" \in env.does /\ Old \in stored
      /\ CountBeside \/ \A d \in Client \ {c} :
           IF counts THEN cl[d].pc = "idle" ELSE ~Counting(d)
      /\ mem' = [mem EXCEPT !.mroot = root,
                   !.jcounted = IF counts THEN @ \cup {Old} ELSE @,
                   !.pend = IF counts THEN @ ELSE @ \cup {data}]
      /\ UNCHANGED <<files, backend, pub, other, acked, env>>

\* Or it goes back to an earlier root, n's, which reaches nothing but its
\* root chunk that the one it replaces does not.
GoBack(c, n) ==
  /\ "back" \in env.does /\ n \in made[Current].hist /\ ~SameRoot(n, Current)
  /\ made[n].reach \subseteq made[Current].reach \cup {RootChunk(n)}
  /\ Starts(c, Current, made[n].hash, made[n].reach)
  /\ mem' = [mem EXCEPT !.mroot = root]
  /\ UNCHANGED <<files, backend, pub, other, acked, env>>

\* The chunks the store locates outside its pending pack.
Located == stored \cup pub.taken \cup mem.session \cup mem.unuploaded \cup mem.sessionIdx

\* It puts its root chunk (PutPrepared).
PutRoot(c) ==
  LET h == RootChunk(cl[c].n)
  IN  /\ cl[c].pc = "put"
      /\ mem' = IF h \in mem.pend THEN mem
                ELSE IF h \in Located THEN [mem EXCEPT !.jcounted = @ \cup {h}]
                ELSE [mem EXCEPT !.pend = @ \cup {h}]
      /\ cl' = [cl EXCEPT ![c].pc = "call"]
      /\ UNCHANGED <<files, backend, made, pub, other, acked, env>>

\* The pending pack fills: a finisher uploads it, or fails to.
Fill ==
  /\ mem.up /\ mem.pend # {}
  /\ TakesNew \/ ~live(mem) \/ Known(mem)
  /\ \E where \in {"session"} \cup ({"finisher"} \cap env.faults) :
       LET m == TakePending(mem)
       IN  mem' = IF where = "session" THEN [m EXCEPT !.session = @ \cup mem.pend]
                  ELSE [m EXCEPT !.unuploaded = @ \cup mem.pend]
  /\ UNCHANGED <<files, backend, made, pub, cl, other, acked, env>>

\* A pack went to the backend since the last publish, other than a
\* background publish's own: only an index object can name it.
MustPublish(m) ==
  m.session # {} \/ m.unuploaded # {} \/ (m.sessionIdx # {} /\ ~m.publishing)

\* The records of a commit from expected to next: one for the frames of a
\* pack taken since they were put, and the commit's own.
Records(m, expected, next) ==
  LET own == Rec(expected, next, m.pend \ m.mark, m.jcounted)
  IN  IF m.old = {} THEN <<own>> ELSE <<Rec(expected, expected, m.old, {}), own>>

\* The backend's root is neither the one the journal builds on nor the one
\* a background publish is putting in its place.
MovedUnder(m) ==
  live(m) /\ ~SameRoot(m.mroot, m.jbase) /\ ~(m.publishing /\ SameRoot(m.mroot, m.pubRoot))

\* journalCommit up to its write, or to its publish.
Commit(c) ==
  LET m    == [mem EXCEPT !.mroot = root]
      cur  == IF live(m) THEN m.jroot ELSE m.mroot
      new  == Records(m, cur, cl[c].n)
      end  == cl' = [cl EXCEPT ![c] = NoClient]
  IN  /\ cl[c].pc = "call" /\ ~mem.commitMu
      /\ \/ mem.jerr /\ end /\ UNCHANGED <<segs, made, mem>>
         \/ /\ ~mem.jerr /\ MovedUnder(m)
            /\ mem' = JournalFailed(m) /\ end /\ UNCHANGED <<segs, made>>
         \/ /\ ~mem.jerr /\ ~MovedUnder(m) /\ ~SameRoot(cur, cl[c].seen)
            /\ mem' = m /\ end /\ UNCHANGED <<segs, made>>
         \/ /\ ~mem.jerr /\ ~MovedUnder(m) /\ SameRoot(cur, cl[c].seen)
            /\ MustPublish(m) \/ m.jrecords + Len(new) > MaxRecords
            /\ mem' = [m EXCEPT !.commitMu = TRUE]
            /\ cl' = [cl EXCEPT ![c].pc = "publish"]
            /\ made' = Over(cl[c].n, cur)
            /\ UNCHANGED segs
         \/ /\ ~mem.jerr /\ ~MovedUnder(m) /\ SameRoot(cur, cl[c].seen)
            /\ ~MustPublish(m) /\ m.jrecords + Len(new) <= MaxRecords
            /\ made' = Over(cl[c].n, cur)
            /\ \/ /\ Write(new)
                  /\ mem' = [(IF live(m) THEN m ELSE Kicked(m)) EXCEPT
                               !.jbase = IF live(m) THEN @ ELSE cur,
                               !.jroot = cl[c].n, !.jrecords = @ + Len(new),
                               !.written = @ + Len(new), !.jcounted = {},
                               !.same = m.pend # {}, !.mark = m.pend, !.old = {}]
                  /\ cl' = [cl EXCEPT ![c].pc = "sync", ![c].ticket = m.written + Len(new)]
               \/ /\ "write" \in env.faults
                  /\ Write(<<TornRec>>)
                  /\ mem' = JournalFailed(m) /\ end
      /\ UNCHANGED <<jlock, held, backend, pub, other, acked, env>>

\* waitSynced: one waiter syncs what is written by now ...
SyncBegin(c) ==
  /\ cl[c].pc = "sync" /\ mem.synced < cl[c].ticket
  /\ ~mem.syncErr /\ ~mem.syncing
  /\ mem' = [mem EXCEPT !.syncing = TRUE, !.target = mem.written, !.closedUnder = FALSE]
  /\ UNCHANGED <<files, backend, made, pub, cl, other, acked, env>>

\* Mutated: a sync vouches for what was written by its end.
VouchedLate(m) == m.written

\* What a sync vouches for: what was written before it began.
Vouched(m) == m.target

\* ... the segment it found current, which a rotation may have closed.
SyncEnd ==
  /\ mem.syncing
  /\ \/ /\ ~mem.closedUnder
        /\ Sync(Len(Decode(recs)) - (mem.written - mem.target))
        /\ mem' = [mem EXCEPT !.syncing = FALSE, !.synced = Max({@, Vouched(mem)})]
     \/ /\ mem.closedUnder \/ "sync" \in env.faults
        /\ mem' = [mem EXCEPT !.syncing = FALSE, !.syncErr = TRUE]
        /\ UNCHANGED segs
  /\ UNCHANGED <<jlock, held, backend, made, pub, cl, other, acked, env>>

Synced(c) == mem.synced >= cl[c].ticket

\* The commit returns, synced or failed.
Return(c) ==
  /\ cl[c].pc = "sync"
  /\ \/ Synced(c) /\ acked' = acked \cup {cl[c].n} /\ UNCHANGED mem
     \/ /\ ~Synced(c) /\ mem.syncErr /\ ~mem.commitMu
        /\ mem' = JournalFailed(mem) /\ UNCHANGED acked
  /\ cl' = [cl EXCEPT ![c] = NoClient]
  /\ UNCHANGED <<files, backend, made, pub, other, env>>

------------------------------------------------------------------------------
(* Publishing: in the background, by a commit or a close that must, and by *)
(* a replay.                                                               *)

\* The publisher takes a kick and waits out its interval.
Arm ==
  /\ mem.up /\ mem.kick /\ ~mem.armed
  /\ mem' = [mem EXCEPT !.kick = FALSE, !.armed = TRUE]
  /\ UNCHANGED <<files, backend, made, pub, cl, other, acked, env>>

\* publishNow under the commit lock: the journal is rotated, and what its
\* older segments hold is to be published.
PublishNow ==
  /\ mem.armed /\ ~mem.commitMu /\ pub.pc = "idle"
  /\ \/ /\ mem.jerr \/ ~live(mem)
        /\ mem' = [mem EXCEPT !.armed = FALSE]
        /\ UNCHANGED <<segs, pub>>
     \/ /\ ~mem.jerr /\ live(mem) /\ mem.rotations < env.rotations
        /\ TakesNew \/ mem.session \cup mem.unuploaded \cup mem.sessionIdx \subseteq Frames(recs) \cup mem.old
        /\ Rotate
        /\ mem' = [mem EXCEPT !.rotations = @ + 1, !.synced = mem.written,
                              !.closedUnder = mem.syncing,
                              !.publishing = TRUE, !.pubRoot = mem.jroot]
        /\ pub' = [NoPublish EXCEPT !.pc = "take", !.expected = mem.jbase,
                                    !.next = mem.jroot, !.records = mem.jrecords]
     \/ /\ ~mem.jerr /\ live(mem) /\ "rotate" \in env.faults
        /\ mem' = [JournalFailed(mem) EXCEPT !.armed = FALSE]
        /\ UNCHANGED <<segs, pub>>
  /\ UNCHANGED <<jlock, held, backend, made, cl, other, acked, env>>

\* publishJournal, once no background publish is in flight.
PublishJournal(by, next) ==
  pub' = [NoPublish EXCEPT !.pc = "take", !.by = by, !.next = next,
                           !.expected = IF live(mem) THEN mem.jbase ELSE mem.mroot]

PublishCommit(c) ==
  /\ cl[c].pc = "publish" /\ pub.pc = "idle"
  /\ PublishJournal(c, cl[c].n)
  /\ UNCHANGED <<files, backend, made, mem, cl, other, acked, env>>

\* The store stops; its clients' calls end with it.
Stopped(newPub) ==
  /\ mem' = Down /\ pub' = newPub /\ jlock' = "nobody"
  /\ cl' = [c \in Client |-> NoClient]

\* Close: the publisher has ended; what is journaled is published first.
Close ==
  /\ mem.up /\ ~mem.commitMu /\ pub.pc = "idle"
  /\ \/ /\ live(mem) /\ ~mem.jerr
        /\ PublishJournal("close", mem.jroot)
        /\ mem' = [mem EXCEPT !.commitMu = TRUE, !.kick = FALSE, !.armed = FALSE]
        /\ UNCHANGED <<jlock, cl>>
     \/ /\ ~live(mem) \/ mem.jerr
        /\ Stopped(NoPublish)
  /\ UNCHANGED <<segs, held, backend, made, other, acked, env>>

\* publishOnce takes the pending pack and the packs not uploaded yet.
Take ==
  /\ pub.pc = "take"
  /\ TakesNew \/ pub.by # "publisher" \/ Known(mem)
  /\ pub' = [pub EXCEPT !.pc = "upload", !.taken = mem.pend \cup mem.unuploaded]
  /\ mem' = [TakePending(mem) EXCEPT !.unuploaded = {}]
  /\ UNCHANGED <<files, backend, made, cl, other, acked, env>>

\* The publish ends without having landed, for a conflict or for something
\* the background publisher tries again.
PublishFails(m, conflict) ==
  CASE pub.by = "publisher" ->
         /\ mem' = [(IF conflict THEN JournalFailed(m) ELSE IF m.jerr THEN m ELSE Kicked(m))
                      EXCEPT !.publishing = FALSE, !.armed = FALSE]
         /\ pub' = NoPublish /\ UNCHANGED <<jlock, cl>>
    [] pub.by \in Client ->
         /\ mem' = [(IF conflict /\ live(m) THEN JournalFailed(m) ELSE m)
                      EXCEPT !.commitMu = FALSE]
         /\ cl' = [cl EXCEPT ![pub.by] = NoClient]
         /\ pub' = NoPublish /\ UNCHANGED jlock
    [] OTHER -> Stopped(NoPublish)

\* They are uploaded, and an index object lists them and the session's.
Upload ==
  /\ pub.pc = "upload"
  /\ \/ /\ mem' = [mem EXCEPT !.sessionIdx = @ \cup pub.taken \cup mem.session, !.session = {}]
        /\ pub' = [pub EXCEPT !.pc = "swap", !.taken = {}]
        /\ UNCHANGED <<jlock, cl>>
     \/ /\ "upload" \in env.faults
        /\ PublishFails([mem EXCEPT !.unuploaded = @ \cup pub.taken], FALSE)
  /\ UNCHANGED <<segs, held, backend, made, other, acked, env>>

\* The manifest is swapped if its root is the expected one; or the swap
\* fails, having landed or not.
SwapRoot ==
  /\ pub.pc = "swap"
  /\ \/ /\ SameRoot(root, pub.expected)
        /\ root' = pub.next /\ stored' = stored \cup mem.sessionIdx
        /\ \/ pub' = [pub EXCEPT !.pc = "landed"] /\ UNCHANGED <<jlock, mem, cl>>
           \/ "swap" \in env.faults /\ PublishFails(mem, FALSE)
     \/ /\ ~SameRoot(root, pub.expected)
        /\ PublishFails([mem EXCEPT !.mroot = root], TRUE) /\ UNCHANGED backend
     \/ /\ "swap" \in env.faults
        /\ PublishFails(mem, FALSE) /\ UNCHANGED backend
  /\ UNCHANGED <<segs, held, made, other, acked, env>>

\* Mutated: the journal is taken to be empty once a publish has landed.
LandedAll(m) == [m EXCEPT !.jrecords = 0, !.jroot = NoRoot, !.jbase = NoRoot]

\* What a background publish leaves of the journal: the commits beside it.
LandedBeside(m) ==
  LET all == m.jrecords = pub.records /\ SameRoot(m.jroot, pub.next)
  IN  [m EXCEPT !.jrecords = @ - pub.records,
                !.jroot = IF all THEN NoRoot ELSE @,
                !.jbase = IF all THEN NoRoot ELSE pub.next]

\* The store takes the manifest it swapped in; a background publish goes on
\* to drop the older segments, the others to empty the journal.
Landed ==
  LET m == [mem EXCEPT !.mroot = pub.next, !.sessionIdx = {}]
  IN  /\ pub.pc = "landed"
      /\ \/ /\ pub.by = "publisher"
            /\ mem' = [LandedBeside(m) EXCEPT !.publishing = FALSE]
            /\ pub' = [pub EXCEPT !.pc = "drop"]
         \/ /\ pub.by # "publisher"
            /\ mem' = [m EXCEPT !.jcounted = {}]
            /\ pub' = [pub EXCEPT !.pc = IF m.jrecords > 0 \/ pub.by = "replay" THEN "reset" ELSE "done"]
      /\ UNCHANGED <<files, backend, made, cl, other, acked, env>>

\* Drop: the segments before the current one go, oldest first.
Drop ==
  /\ pub.pc = "drop"
  /\ \/ DropOldest /\ UNCHANGED <<mem, pub>>
     \/ /\ ends = <<>> \/ "drop" \in env.faults
        /\ mem' = [(IF ends = <<>> THEN mem ELSE JournalFailed(mem)) EXCEPT !.armed = FALSE]
        /\ pub' = NoPublish /\ UNCHANGED segs
  /\ UNCHANGED <<jlock, held, backend, made, cl, other, acked, env>>

\* Reset: so do they here, and then the current one is cut to nothing.
Reset ==
  /\ pub.pc = "reset"
  /\ \/ DropOldest /\ UNCHANGED <<jlock, mem, pub, cl>>
     \/ Truncate /\ pub' = [pub EXCEPT !.pc = "done"] /\ UNCHANGED <<jlock, mem, cl>>
     \/ /\ "reset" \in env.faults
        /\ PublishFails(JournalFailed(mem), FALSE) /\ UNCHANGED segs
  /\ UNCHANGED <<held, backend, made, other, acked, env>>

\* The journal is published and empty: the commit or the close returns, or
\* the store is open (a replay by a store without the journal lets go).
Emptied(m) ==
  [m EXCEPT !.jrecords = 0, !.jroot = NoRoot, !.jbase = NoRoot,
            !.same = FALSE, !.mark = {}, !.old = {}, !.synced = m.written]

Done ==
  /\ pub.pc = "done"
  /\ \/ /\ pub.by \in Client
        /\ mem' = [Emptied(mem) EXCEPT !.commitMu = FALSE]
        /\ cl' = [cl EXCEPT ![pub.by] = NoClient]
        /\ acked' = acked \cup {pub.next}
        /\ pub' = NoPublish /\ UNCHANGED jlock
     \/ /\ pub.by = "close" \/ (pub.by = "replay" /\ jlock = "replay")
        /\ Stopped(NoPublish)
        /\ acked' = acked \cup {cl[c].n : c \in {d \in Client : cl[d].pc = "sync"}}
     \/ /\ pub.by = "replay" /\ jlock = "store"
        /\ mem' = [Down EXCEPT !.up = TRUE, !.mroot = root]
        /\ pub' = NoPublish /\ UNCHANGED <<jlock, cl, acked>>
  /\ UNCHANGED <<segs, held, backend, made, other, env>>

------------------------------------------------------------------------------
(* Opening, replaying, discarding; crashes; the writer without the journal.*)

\* openJournal by a store that keeps the journal ("store") or one that only
\* replays what another left ("replay"): the frames are put again, as the
\* pending pack, and published over the root the first record built on.
Open(how) ==
  LET rs  == Decode(recs)
      out == Outcome(recs, root, stored)
      rec == From(rs, root)
  IN  /\ ~mem.up /\ pub.pc = "idle" /\ CanOpen
      /\ out \in {"nothing", "published", "replay"}
      /\ how = "replay" => recs # <<>>
      /\ jlock' = how
      /\ IF recs = <<>>
         THEN mem' = [Down EXCEPT !.up = TRUE, !.mroot = root] /\ UNCHANGED pub
         ELSE IF out = "replay"
         THEN /\ mem' = [Down EXCEPT !.mroot = root, !.pend = Frames(rec)]
              /\ pub' = [NoPublish EXCEPT !.pc = "take", !.by = "replay",
                           !.expected = Head(rec).expected, !.next = LastRoot(rs)]
         ELSE /\ mem' = [Down EXCEPT !.mroot = root]
              /\ pub' = [NoPublish EXCEPT !.pc = "reset", !.by = "replay"]
      /\ UNCHANGED <<segs, held, backend, made, cl, other, acked, env>>

\* DiscardJournal: a journal no open can replay is emptied.  The commits of
\* one whose chunks were collected are given up.
DiscardJournal ==
  LET out == Outcome(recs, root, stored)
  IN  /\ ~mem.up /\ pub.pc = "idle" /\ CanOpen
      /\ out \in {"conflict", "corrupt", "lost"}
      /\ Emptying
      /\ acked' = IF out = "lost" THEN acked \cap made[root].hist ELSE acked
      /\ UNCHANGED <<jlock, held, backend, made, mem, pub, cl, other, env>>

\* The host stops: every lock is let go.
Crash ==
  /\ env.crashes > 0
  /\ env' = [env EXCEPT !.crashes = @ - 1]
  /\ recs' \in Crashed(TornRec) /\ durable' = Len(recs') /\ UNCHANGED ends
  /\ Stopped(NoPublish)
  /\ held' = FALSE /\ other' = NoClient
  /\ UNCHANGED <<backend, made, acked>>

\* A collection, a grace window after the host stopped, deletes the chunk
\* no root reaches.
Collect ==
  /\ ~mem.up /\ pub.pc = "idle" /\ other.pc = "idle"
  /\ Old \in stored /\ Old \notin made[root].reach
  /\ stored' = stored \ {Old}
  /\ UNCHANGED <<files, root, made, mem, pub, cl, other, acked, env>>

OtherBegin ==
  /\ other.pc = "idle" /\ Fresh \in Commits
  /\ made' = Append(made, [hash |-> Fresh, hist |-> made[root].hist \cup {Fresh},
                   reach |-> made[root].reach \cup {<<"root", Fresh>>, <<"data", Fresh>>}])
  /\ other' = [NoClient EXCEPT !.pc = "call", !.n = Fresh, !.seen = root]
  /\ UNCHANGED <<files, backend, mem, pub, cl, acked, env>>

\* holdJournal: not while a store has the journal open, nor over one that
\* waits to be replayed.
MayHold == CanHold /\ recs = <<>>

OtherHold ==
  /\ other.pc = "call"
  /\ \/ /\ MayHold /\ SameRoot(root, other.seen)
        /\ held' = TRUE /\ other' = [other EXCEPT !.pc = "swap"]
     \/ /\ ~MayHold \/ ~SameRoot(root, other.seen)
        /\ other' = NoClient /\ UNCHANGED held
  /\ UNCHANGED <<segs, jlock, backend, made, mem, pub, cl, acked, env>>

OtherSwap ==
  /\ other.pc = "swap"
  /\ SameRoot(root, other.seen)
  /\ root' = other.n /\ stored' = stored \cup {<<"root", other.n>>, <<"data", other.n>>}
  /\ made' = Over(other.n, root)
  /\ acked' = acked \cup {other.n}
  /\ held' = FALSE /\ other' = NoClient
  /\ UNCHANGED <<segs, jlock, mem, pub, cl, env>>

------------------------------------------------------------------------------
Init ==
  /\ JournalFileInit
  /\ root = 1 /\ stored = {<<"root", 1>>, Old}
  /\ made = <<[hash |-> 1, reach |-> {<<"root", 1>>}, hist |-> {1}]>>
  /\ mem = Down /\ pub = NoPublish
  /\ cl = [c \in Client |-> NoClient] /\ other = NoClient
  /\ acked = {}
  /\ env \in Setups

ClientStep(c) == \/ Begin(c, TRUE) \/ Begin(c, FALSE) \/ PutRoot(c) \/ Commit(c)
                 \/ \E n \in DOMAIN made : GoBack(c, n)
WaitStep(c)   == SyncBegin(c) \/ Return(c)
PublishStep   == Take \/ Upload \/ SwapRoot \/ Landed \/ Drop \/ Reset \/ Done
Publisher     == Arm \/ PublishNow

Next ==
  \/ \E c \in Client : ClientStep(c) \/ WaitStep(c) \/ PublishCommit(c)
  \/ Fill \/ SyncEnd \/ Publisher \/ PublishStep \/ Close
  \/ Open("store") \/ Open("replay") \/ DiscardJournal \/ Crash \/ Collect
  \/ OtherBegin \/ OtherHold \/ OtherSwap

Spec == Init /\ [][Next]_vars

------------------------------------------------------------------------------
\* What replaying the journal rs over the backend's root would end at, and
\* the chunks it would have then.
Recovered(rs) ==
  IF Outcome(rs, root, stored) = "replay"
  THEN [root |-> LastRoot(Decode(rs)), chunks |-> stored \cup Frames(From(Decode(rs), root))]
  ELSE [root |-> root, chunks |-> stored]

(* An acknowledged commit survives: whatever a crash now would leave of    *)
(* the journal, replaying it ends at a root that holds every acknowledged  *)
(* commit, unless a collection deleted a chunk one of them counted on.     *)
(* (waitSynced, Rotate, publishNow's drop, publishJournal's reset.)        *)
AckedSurvives ==
  \A s \in Crashed(TornRec) :
     LET r == Recovered(s).root
     IN  \/ acked \subseteq made[r].hist
         \/ Outcome(s, root, stored) = "lost"

(* And that root is whole: each chunk it reaches is stored or in a frame   *)
(* the replay puts again (DESIGN section 6, "Every chunk the new root      *)
(* reaches is then durable, in the journal until its pack is").            *)
RecoversWhole ==
  \A s \in Crashed(TornRec) :
     LET r == Recovered(s) IN made[r.root].reach \subseteq r.chunks

(* A journal never fails to chain, whatever a crash leaves of it: commits  *)
(* beside a publish, rotations, drops and resets keep the records in order *)
(* (decodeJournal).                                                        *)
NeverCorrupt == \A s \in Crashed(TornRec) : Outcome(s, root, stored) # "corrupt"

==============================================================================
