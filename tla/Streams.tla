------------------------------ MODULE Streams ------------------------------
(***************************************************************************)
(* A stream written and read back (core/stream): data cut by core/cdc, an  *)
(* index tree split by core/boundary over it.  A short stream is cut and   *)
(* stored on the caller's goroutine; a long one goes through two pipelines *)
(* of goroutines, one that cuts and one that hashes and compresses.  A     *)
(* chunk's hash stands for its bytes, so an entry holds its child itself.  *)
(***************************************************************************)
EXTENDS Cdc, Boundary

CONSTANTS
    Workers,           \* Config.Workers, above 1
    BlockSize,         \* readSize
    ShortStream,       \* shortStream
    MaxEmpty,          \* maxConsecutiveEmptyReads
    NodeSize,          \* entrySize of an index entry
    NodeWindow(_, _),  \* boundary.Window of an entry's child at a level
    StreamSetups       \* what is written, with which hint and which faults

VARIABLES
    src,       \* the setup, and the caller's reader: the bytes it has left
    call,      \* the call of Write
    ser,       \* the serial path's Chunker
    cut,       \* the Parallel chunker
    pipe,      \* parallel's jobs and the goroutines they pass through
    build,     \* the builder, and what it put in the store
    rdr        \* a Reader of what was written

streamVars == <<src, call, ser, cut, pipe, build, rdr>>

NoHint == -1

Faulty(f) == f \in src.setup.faults

----------------------------------------------------------------------------
(* The builder of the index.                                               *)

Data(bytes) == [level |-> 0, data |-> bytes]

SizeSum(es) == FoldLeft(LAMBDA t, e : t + e.size, 0, es)

NewLevel == [entries |-> <<>>, total |-> 0, first |-> <<>>]

\* builder.add, and builder.emit when the entry ends the level's node.
RECURSIVE AddEntry(_, _, _)
AddEntry(b, lv, e) ==
    LET levels == IF Len(b.levels) < lv THEN Append(b.levels, NewLevel) ELSE b.levels
        l      == levels[lv]
        filled == [entries |-> Append(l.entries, e), total |-> l.total + 1,
                   first |-> IF l.total = 0 THEN <<e>> ELSE l.first]
        b1     == [b EXCEPT !.levels = [levels EXCEPT ![lv] = filled]]
        node   == [level |-> lv, entries |-> filled.entries]
        before == NodeSize * Len(l.entries)
    IN  IF ~Splits(lv, NodeWindow(e.child, lv), Len(filled.entries), before, before + NodeSize)
        THEN b1
        ELSE AddEntry([b1 EXCEPT !.levels[lv].entries = <<>>, !.nodes = @ \cup {node}],
                      lv + 1, [child |-> node, size |-> SizeSum(node.entries)])

\* finish's end: the level that got one entry in all, which is the stream.
TopLevel(l) == l.total = 1

\* builder.finish, from level lv up: the builder, and the Ref.
RECURSIVE FinishFrom(_, _)
FinishFrom(b, lv) ==
    LET l    == b.levels[lv]
        node == [level |-> lv, entries |-> l.entries]
    IN  IF TopLevel(l)
        THEN [build |-> b, ref |-> [root |-> l.first[1].child, size |-> l.first[1].size, depth |-> lv - 1]]
        ELSE IF l.entries = <<>> THEN FinishFrom(b, lv + 1)
        ELSE FinishFrom(AddEntry([b EXCEPT !.levels[lv].entries = <<>>, !.nodes = @ \cup {node}],
                                 lv + 1, [child |-> node, size |-> SizeSum(node.entries)]), lv + 1)

NewBuilder == [levels |-> <<>>, nodes |-> {}, data |-> <<>>]

Finished(b) ==
    IF b.levels = <<>>
    THEN [build |-> [b EXCEPT !.data = <<<<>>>>], ref |-> [root |-> Data(<<>>), size |-> 0, depth |-> 0]]
    ELSE FinishFrom(b, 1)

\* A data chunk put in the store and named at level 1.
Stored(b, bytes) ==
    AddEntry([b EXCEPT !.data = Append(@, bytes)], 1, [child |-> Data(bytes), size |-> Len(bytes)])

Return(err) == call' = [call EXCEPT !.pc = "over", !.err = err]

\* Write puts the next chunk and grows the index; either Put may fail.
PutChunk(bytes) ==
    \/ build' = Stored(build, bytes) /\ UNCHANGED call
    \/ Faulty("put") /\ Return("put") /\ UNCHANGED build

\* Write has every chunk: finish, whose Puts may fail too.
PutRest ==
    \/ /\ build' = Finished(build).build
       /\ call' = [call EXCEPT !.pc = "over", !.ref = <<Finished(build).ref>>]
    \/ Faulty("put") /\ Return("put") /\ UNCHANGED build

----------------------------------------------------------------------------
(* Write, and its serial path.                                             *)

\* short: the reader says it holds less than ShortStream bytes.
Short(hint) == hint # NoHint /\ hint < ShortStream

\* cdc.New's first buffer: no larger than the reader says it has left.
FirstBuffer(hint) == IF hint = NoHint THEN BlockSize ELSE Min({BlockSize, Max({hint, 1})})

BeginWrite ==
    /\ call.pc = "new"
    /\ IF Workers > 1 /\ ~Short(src.setup.hint)
       THEN /\ call' = [call EXCEPT !.pc = "parallel"]
            /\ cut' = [cut EXCEPT !.reader = "read", !.markers = Workers]
            /\ pipe' = [pipe EXCEPT !.cutter = "next", !.preparers = Workers]
            /\ UNCHANGED ser
       ELSE /\ call' = [call EXCEPT !.pc = "serial"]
            /\ ser' = [ser EXCEPT !.size = FirstBuffer(src.setup.hint)]
            /\ UNCHANGED <<cut, pipe>>
    /\ UNCHANGED <<src, build, rdr>>

\* What the caller's Read may return into size bytes: n of the bytes left,
\* with or before the end, an error, or nothing yet.
Results(size) ==
    {r \in [n : 0..Min({size, Len(src.left)}), err : {"", "eof", "read"}] :
       /\ r.err = "eof" => r.n = Len(src.left)
       /\ r.err = "read" => Faulty("read")
       /\ r.err = "" /\ r.n = 0 => Faulty("empty")}

Taken(r) == SubSeq(src.left, 1, r.n)

Consume(r) == src' = [src EXCEPT !.left = SubSeq(@, r.n + 1, Len(@))]

\* Chunker.fill, one Read of it.  Two reads in a row that filled a smaller
\* buffer make the next one full size.
SerialFill ==
    LET size == IF ser.full >= 2 THEN BlockSize ELSE ser.size
    IN  /\ call.pc = "serial" /\ ser.rd = <<>> /\ ser.err = ""
        /\ \E r \in Results(size) :
             LET none == r.n = 0 /\ r.err = ""
             IN  /\ Consume(r)
                 /\ ser' = [ser EXCEPT !.rd = Taken(r), !.size = size, !.err = r.err,
                              !.full = IF r.n = size /\ r.n < BlockSize THEN ser.full + 1 ELSE 0,
                              !.empty = IF none THEN @ + 1 ELSE 0]
                 /\ IF none /\ ser.empty + 1 >= MaxEmpty THEN Return("progress") ELSE UNCHANGED call
        /\ UNCHANGED <<cut, pipe, build, rdr>>

\* Chunker.Next over the bytes read: the chunk ends, and is stored, or takes
\* them all.
SerialCut ==
    LET s    == Scan(ser.win, ser.rd, Len(ser.buf))
        head == SubSeq(ser.rd, 1, s.end)
        next == [ser EXCEPT !.win = Rolled(@, head), !.rd = SubSeq(@, s.end + 1, Len(@)),
                            !.buf = IF s.cut THEN <<>> ELSE @ \o head]
    IN  /\ call.pc = "serial" /\ ser.rd # <<>>
        /\ ser' = next
        /\ IF s.cut THEN PutChunk(ser.buf \o head) ELSE UNCHANGED <<call, build>>
        /\ UNCHANGED <<src, cut, pipe, rdr>>

\* The bytes after the last cut forgotten.
LastNever(bytes, err) == FALSE

\* The bytes after the last cut are a chunk at the end of the stream alone.
LastChunk(bytes, err) == err = "eof" /\ bytes # <<>>

\* Chunker.Next with everything read consumed: the last chunk, then the end;
\* a read error drops the chunk under way.
SerialEnd ==
    /\ call.pc = "serial" /\ ser.rd = <<>> /\ ser.err # ""
    /\ ser' = [ser EXCEPT !.buf = <<>>]
    /\ IF LastChunk(ser.buf, ser.err) THEN PutChunk(ser.buf)
       ELSE IF ser.err = "read" THEN Return("read") /\ UNCHANGED build
       ELSE PutRest
    /\ UNCHANGED <<src, cut, pipe, rdr>>

----------------------------------------------------------------------------
(* The parallel chunker.  cut.blocks are the blocks under way, in stream   *)
(* order: the one the placer holds, those in the channel order, and the    *)
(* one the reader is handing over.  A block's stage says where it is:      *)
(* "order" and "work" are the sends the reader is at, "queued" the channel *)
(* work, "marking" a worker, "done" the channel closed.                    *)

InStage(q, stages) == {i \in DOMAIN q : q[i].stage \in stages}

\* The blocks in a channel order, and those in a channel work.
Ordered(q, held) == Cardinality(DOMAIN q \ InStage(q, {"order"})) - (IF held THEN 1 ELSE 0)

Queued(q) == Cardinality(InStage(q, {"queued"}))

\* Write is over: stop and Parallel.stop are closed.
Stopped == call.pc = "over"

Buffers == 1..2 * Workers + 4

InUse == {cut.blocks[i].buf : i \in DOMAIN cut.blocks} \cup ToSet(cut.free)

\* Parallel.read's Read, into a buffer the placer is done with or a new one.
ReadBlock ==
    LET buf == IF cut.free # <<>> THEN Head(cut.free) ELSE Min(Buffers \ InUse)
        free == IF cut.free # <<>> THEN Tail(cut.free) ELSE <<>>
    IN  /\ cut.reader = "read"
        /\ \E r \in Results(BlockSize) :
             LET none == r.n = 0 /\ r.err = ""
                 err  == IF none /\ cut.empty + 1 >= MaxEmpty THEN "progress" ELSE r.err
                 b    == [prev |-> cut.prev, buf |-> buf, n |-> r.n, err |-> err, stage |-> "order",
                          marks |-> Mark(<<>>, <<>>)]
             IN  /\ Consume(r)
                 /\ IF none /\ err = "" THEN cut' = [cut EXCEPT !.empty = @ + 1, !.free = free]
                    ELSE cut' = [cut EXCEPT !.empty = 0, !.free = free, !.reader = "order",
                                   !.prev = Carried(@, Taken(r)), !.mem[buf] = Taken(r),
                                   !.blocks = Append(@, b)]
        /\ UNCHANGED <<call, ser, pipe, build, rdr>>

\* The reader hands its block to the placer and then, unless it is empty, to
\* the workers; after an error it closes both channels.
AfterSend(c, b) == [c EXCEPT !.reader = IF b.err = "" THEN "read" ELSE "exit"]

\* An empty block that no worker is to close is left open.
HandedOpen(b) == IF b.n > 0 THEN "work" ELSE "open"

\* A block with no bytes is done at once.
Handed(b) == IF b.n > 0 THEN "work" ELSE "done"

SendOrder ==
    LET i == Len(cut.blocks)  b == cut.blocks[i]
        sent == [cut EXCEPT !.blocks[i].stage = Handed(b)]
    IN  /\ cut.reader = "order" /\ Ordered(cut.blocks, cut.held) < 2 * Workers
        /\ cut' = IF b.n > 0 THEN [sent EXCEPT !.reader = "work"] ELSE AfterSend(sent, b)

SendWork ==
    LET i == Len(cut.blocks)
    IN  /\ cut.reader = "work" /\ Queued(cut.blocks) < Workers
        /\ cut' = AfterSend([cut EXCEPT !.blocks[i].stage = "queued"], cut.blocks[i])

\* The stop arm of either select.  A block already in order is then in it
\* for good, unmarked.
ReaderStops ==
    /\ Stopped /\ cut.reader \in {"order", "work"}
    /\ cut' = [cut EXCEPT !.reader = "exit",
                 !.blocks = IF cut.reader = "order" THEN Front(@) ELSE @]

ReaderStep == ReadBlock \/ ((SendOrder \/ SendWork \/ ReaderStops) /\ UNCHANGED <<src, call, ser, pipe, build, rdr>>)

\* read's deferred close of the channel work.
WorkClosed == cut.reader = "exit"

\* A worker of NewParallel: it takes a block, marks it and closes done; it
\* ends with the channel.
MarkerStep ==
    LET queued == InStage(cut.blocks, {"queued"})  marking == InStage(cut.blocks, {"marking"})
    IN  /\ \/ /\ queued # {} /\ Cardinality(marking) < cut.markers
              /\ cut' = [cut EXCEPT !.blocks[Min(queued)].stage = "marking"]
           \/ \E i \in marking :
                cut' = [cut EXCEPT !.blocks[i].stage = "done",
                          !.blocks[i].marks = Mark(cut.blocks[i].prev, cut.mem[cut.blocks[i].buf])]
           \/ /\ queued = {} /\ WorkClosed /\ Cardinality(marking) < cut.markers
              /\ cut' = [cut EXCEPT !.markers = @ - 1]
        /\ UNCHANGED <<src, call, ser, pipe, build, rdr>>

\* Parallel.release: the buffer goes back to the reader, if there is room.
Released(c) ==
    [c EXCEPT !.blocks = Tail(@), !.held = FALSE, !.pos = 0,
              !.free = IF Len(@) < 2 * Workers + 2 THEN Append(@, c.blocks[1].buf) ELSE @]

----------------------------------------------------------------------------
(* parallel: the cutter's goroutine, the workers that prepare, the storer. *)
(* pipe.jobs are the chunks under way, as cut.blocks are the blocks.       *)

\* Parallel.Next returned a chunk, or an error.
Job(bytes, err) == [pipe EXCEPT !.cutter = "order",
                      !.jobs = Append(@, [data |-> bytes, err |-> err, stage |-> "order"])]

\* Parallel.Next receives a block, or finds the reader gone.
NextBlock ==
    /\ pipe.cutter = "next" /\ ~cut.held
    /\ \/ /\ cut.done # "" /\ pipe' = Job(<<>>, cut.done) /\ UNCHANGED cut
       \/ /\ cut.done = "" /\ Ordered(cut.blocks, FALSE) > 0
          /\ cut' = [cut EXCEPT !.held = TRUE] /\ UNCHANGED pipe
       \/ /\ cut.done = "" /\ Ordered(cut.blocks, FALSE) = 0 /\ cut.reader = "exit"
          /\ pipe' = Job(<<>>, "stopped") /\ UNCHANGED cut

\* Parallel.Next over a marked block: emit at the next cut, or the rest of
\* the block kept and the block released.
Place ==
    LET b    == cut.blocks[1]
        data == cut.mem[b.buf]
        i    == CutIn(b.marks, b.n, cut.pos, Len(cut.buf))
        rest == cut.buf \o SubSeq(data, cut.pos + 1, b.n)
        last == LastChunk(rest, b.err)
    IN  /\ pipe.cutter = "next" /\ cut.held /\ b.stage = "done"
        /\ IF i > 0
           THEN /\ cut' = [cut EXCEPT !.pos = i, !.buf = <<>>]
                /\ pipe' = Job(cut.buf \o SubSeq(data, cut.pos + 1, i), "")
           ELSE /\ cut' = [Released(cut) EXCEPT !.done = b.err, !.buf = IF last THEN <<>> ELSE rest]
                /\ IF last THEN pipe' = Job(rest, "")
                   ELSE IF b.err # "" THEN pipe' = Job(<<>>, b.err)
                   ELSE UNCHANGED pipe

\* The cutter hands a job to the storer and then to the workers; an error,
\* the end among them, is its last.
SendJob ==
    LET i == Len(pipe.jobs)
    IN  /\ pipe.cutter = "order" /\ Ordered(pipe.jobs, pipe.held) < Workers
        /\ pipe' = IF pipe.jobs[i].err # ""
                   THEN [pipe EXCEPT !.jobs[i].stage = "done", !.cutter = "exit"]
                   ELSE [pipe EXCEPT !.jobs[i].stage = "work", !.cutter = "work"]

SendPrepare ==
    /\ pipe.cutter = "work" /\ Queued(pipe.jobs) < Workers
    /\ pipe' = [pipe EXCEPT !.jobs[Len(pipe.jobs)].stage = "queued", !.cutter = "next"]

CutterStops ==
    /\ Stopped /\ pipe.cutter \in {"order", "work"}
    /\ pipe' = [pipe EXCEPT !.cutter = "exit", !.jobs = IF pipe.cutter = "order" THEN Front(@) ELSE @]

CutterStep ==
    /\ NextBlock \/ Place \/ ((SendJob \/ SendPrepare \/ CutterStops) /\ UNCHANGED cut)
    /\ UNCHANGED <<src, call, ser, build, rdr>>

\* A worker of parallel: Prepare may fail.
PreparerStep ==
    LET queued == InStage(pipe.jobs, {"queued"})  preparing == InStage(pipe.jobs, {"preparing"})
    IN  /\ \/ /\ queued # {} /\ Cardinality(preparing) < pipe.preparers
              /\ pipe' = [pipe EXCEPT !.jobs[Min(queued)].stage = "preparing"]
           \/ \E i \in preparing, err \in {"", "prepare"} :
                /\ err # "" => Faulty("prepare")
                /\ pipe' = [pipe EXCEPT !.jobs[i].stage = "done", !.jobs[i].err = err]
           \/ /\ queued = {} /\ pipe.cutter = "exit" /\ Cardinality(preparing) < pipe.preparers
              /\ pipe' = [pipe EXCEPT !.preparers = @ - 1]
        /\ UNCHANGED <<src, call, ser, cut, build, rdr>>

\* The storer: it takes the jobs in stream order, waits for each, and stores
\* it; a job's error ends Write, and io.EOF finishes the stream.
TakeJob ==
    /\ call.pc = "parallel" /\ ~pipe.held
    /\ \/ /\ Ordered(pipe.jobs, FALSE) > 0 /\ pipe' = [pipe EXCEPT !.held = TRUE] /\ UNCHANGED call
       \/ /\ Ordered(pipe.jobs, FALSE) = 0 /\ pipe.cutter = "exit" /\ Return("stopped") /\ UNCHANGED pipe
    /\ UNCHANGED build

StoreJob ==
    LET j == pipe.jobs[1]
    IN  /\ call.pc = "parallel" /\ pipe.held /\ j.stage = "done"
        /\ pipe' = [pipe EXCEPT !.jobs = Tail(@), !.held = FALSE]
        /\ IF j.err = "eof" THEN PutRest
           ELSE IF j.err # "" THEN Return(j.err) /\ UNCHANGED build
           ELSE PutChunk(j.data)

StorerStep == (TakeJob \/ StoreJob) /\ UNCHANGED <<src, ser, cut, rdr>>

----------------------------------------------------------------------------
(* Reading back.  A Reader keeps the data chunk it read last and the index *)
(* nodes above it, and starts from the deepest that holds the byte it      *)
(* wants.  rdr.gets counts down to the Get that fails.                     *)

\* Reader.node's checks: the level, the top node's children, the sum.
NodeOK(n, depth, want) ==
    /\ n.level = depth
    /\ depth = call.ref[1].depth => Len(n.entries) >= 2
    /\ SizeSum(n.entries) = want

Held(n, start) ==
    [es |-> n.entries, start |-> start,
     ends |-> [i \in DOMAIN n.entries |-> start + SizeSum(SubSeq(n.entries, 1, i))]]

\* held.holds
Holds(h, pos) == h.start <= pos /\ pos < Last(h.ends)

\* The entry holding pos, every entry said to start where the node does.
ChildAtStart(h, pos) ==
    LET i == Min({k \in DOMAIN h.ends : h.ends[k] > pos})
    IN  [child |-> h.es[i].child, size |-> h.es[i].size, start |-> h.start]

\* held.child: the entry holding pos, and where it starts.
Child(h, pos) ==
    LET i == Min({k \in DOMAIN h.ends : h.ends[k] > pos})
    IN  [child |-> h.es[i].child, size |-> h.es[i].size,
         start |-> IF i > 1 THEN h.ends[i - 1] ELSE h.start]

\* The nodes of the path that hold pos.
PathTo(path, pos) ==
    LET keep == {i \in 1..Len(path) : Holds(path[i], pos)}
    IN  IF keep = {} THEN <<>> ELSE SubSeq(path, 1, Max(keep))

\* chunkAt's way down from an entry at depth: the Reader, and its error.
RECURSIVE Descend(_, _, _, _)
Descend(r, at, depth, pos) ==
    LET got == [r EXCEPT !.gets = @ - 1]
    IN  IF r.gets = 1 THEN [r |-> got, err |-> "get"]
        ELSE IF depth = 0
        THEN IF Len(at.child.data) # at.size THEN [r |-> got, err |-> "corrupt"]
             ELSE [r |-> [got EXCEPT !.cur = at.child.data, !.start = at.start], err |-> ""]
        ELSE IF ~NodeOK(at.child, depth, at.size) THEN [r |-> got, err |-> "corrupt"]
        ELSE LET h == Held(at.child, at.start)
             IN  Descend([got EXCEPT !.path = Append(@, h)], Child(h, pos), depth - 1, pos)

\* Reader.chunkAt
ChunkAt(r, pos) ==
    LET ref  == call.ref[1]
        path == PathTo(r.path, pos)
        top  == [child |-> ref.root, size |-> ref.size, start |-> 0]
    IN  IF r.cur # <<>> /\ r.start <= pos /\ pos < r.start + Len(r.cur) THEN [r |-> r, err |-> ""]
        ELSE Descend([r EXCEPT !.path = path], IF path = <<>> THEN top ELSE Child(Last(path), pos),
                     ref.depth - Len(path), pos)

\* Reader.ReadAt, for n bytes from off.  A chunk with nothing at pos to copy
\* would leave its loop where it is.
RECURSIVE ReadFrom(_, _, _, _)
ReadFrom(r, off, n, out) ==
    LET pos == off + Len(out)  c == ChunkAt(r, pos)
        share == SubSeq(c.r.cur, pos - c.r.start + 1, Min({Len(c.r.cur), pos - c.r.start + n - Len(out)}))
    IN  IF Len(out) = n THEN [r |-> r, out |-> out, err |-> ""]
        ELSE IF pos >= call.ref[1].size THEN [r |-> r, out |-> out, err |-> "eof"]
        ELSE IF c.err # "" THEN [r |-> c.r, out |-> out, err |-> c.err]
        ELSE IF share = <<>> THEN [r |-> c.r, out |-> out, err |-> "stuck"]
        ELSE ReadFrom(c.r, off, n, out \o share)

\* Open, of the Ref Write returned: an empty stream must be the empty chunk.
OpenReader ==
    LET c == ChunkAt(rdr, 0)  empty == call.ref[1].size = 0
    IN  /\ call.ref # <<>> /\ ~rdr.open
        /\ rdr' = IF empty THEN [rdr EXCEPT !.open = TRUE] ELSE [c.r EXCEPT !.open = TRUE, !.gets = 0, !.err = c.err]
        /\ UNCHANGED <<src, call, ser, cut, pipe, build>>

ReadAt(off, n, gets) ==
    LET c == ReadFrom([rdr EXCEPT !.gets = gets], off, n, <<>>)
    IN  /\ rdr.open /\ rdr.left > 0
        /\ rdr' = [c.r EXCEPT !.left = @ - 1, !.gets = 0, !.err = c.err,
                     !.read = [off |-> off, n |-> n, out |-> c.out]]
        /\ UNCHANGED <<src, call, ser, cut, pipe, build>>

\* Walk: every chunk of a stream, the root first.
RECURSIVE WalkFrom(_)
WalkFrom(h) ==
    IF h.level = 0 THEN <<h>>
    ELSE <<h>> \o FoldLeft(LAMBDA out, e : out \o WalkFrom(e.child), <<>>, h.entries)

----------------------------------------------------------------------------
StreamInit(setups) ==
    /\ \E s \in setups : src = [setup |-> s, left |-> s.data]
    /\ call = [pc |-> "new", err |-> "", ref |-> <<>>]
    /\ ser = [win |-> ZeroWindow, buf |-> <<>>, rd |-> <<>>, size |-> BlockSize, full |-> 0,
              empty |-> 0, err |-> ""]
    /\ cut = [reader |-> "exit", markers |-> 0, prev |-> <<>>, empty |-> 0, blocks |-> <<>>,
              mem |-> [b \in Buffers |-> <<>>], free |-> <<>>, held |-> FALSE, pos |-> 0,
              buf |-> <<>>, done |-> ""]
    /\ pipe = [cutter |-> "exit", preparers |-> 0, jobs |-> <<>>, held |-> FALSE]
    /\ build = NewBuilder
    /\ rdr = [open |-> FALSE, cur |-> <<>>, start |-> 0, path |-> <<>>, gets |-> 0, err |-> "",
              left |-> src.setup.reads, read |-> [off |-> 0, n |-> 0, out |-> <<>>]]

StreamNext ==
    \/ BeginWrite
    \/ SerialFill
    \/ SerialCut
    \/ SerialEnd
    \/ ReaderStep
    \/ MarkerStep
    \/ CutterStep
    \/ PreparerStep
    \/ StorerStep
    \/ OpenReader
    \/ \E off \in 0..Len(src.setup.data), n \in 1..Len(src.setup.data), gets \in 0..3 : ReadAt(off, n, gets)

\* Some goroutine runs while one can, and the caller's reader ends or fails:
\* all the liveness of a write needs, since none of its steps repeats.
Goroutines ==
    \/ ReaderStep \/ MarkerStep \/ CutterStep \/ PreparerStep \/ StorerStep
    \/ SerialFill \/ SerialCut \/ SerialEnd

StreamFairness == WF_streamVars(Goroutines)

----------------------------------------------------------------------------
(* Properties.                                                             *)

\* The chunks of the whole stream by the cut rule, the last one included.
WholeChunks ==
    LET c == ChunksOf(src.setup.data) IN IF c.chunk = <<>> THEN c.out ELSE Append(c.out, c.chunk)

\* Equal bytes are an equal stream: whatever the caller's reads returned,
\* whichever path cut them and however its goroutines interleaved, the Ref
\* is the one of the chunks the rule cuts from the whole stream, and its
\* bytes, in order, are the stream's (stream.Write, "Chunks and hashes are
\* the same at any count").  What was stored is what Walk names from the
\* Ref, no more and no less, so a stream is kept and collected whole.
WriteExact ==
    call.ref # <<>> =>
      LET all  == FoldLeft(Stored, NewBuilder, WholeChunks)
          walk == WalkFrom(call.ref[1].root)
          data == SelectSeq(walk, LAMBDA h : h.level = 0)
      IN  /\ call.ref[1] = Finished(all).ref
          /\ FlattenSeq([i \in DOMAIN data |-> data[i].data]) = src.setup.data
          /\ ToSet(walk) = build.nodes \cup {Data(d) : d \in ToSet(build.data)}

\* Chunks are stored in stream order and only whole ones: a read that fails,
\* with bytes or after them, never stores the chunk under way as if the
\* stream ended there (Next, "the chunk under way when it struck not
\* returned").
PutsInOrder ==
    /\ call.ref = <<>> => IsPrefix(build.data, WholeChunks)
    /\ src.left # <<>> => IsPrefix(build.data, ChunksOf(src.setup.data).out)
    /\ call.err = "read" => IsPrefix(build.data, ChunksOf(src.setup.data).out)

\* A read returns the bytes of the stream at its offset, as many as it asked
\* for up to the end, whatever was read before it, reads that failed
\* halfway down included (Reader.ReadAt over the path it holds).
StreamReads ==
    LET r == rdr.read
    IN  rdr.open =>
          /\ rdr.err \in {"", "eof", "get"}
          /\ r.out = SubSeq(src.setup.data, r.off + 1, r.off + Len(r.out))
          /\ rdr.err = "" => Len(r.out) = r.n
          /\ rdr.err = "eof" => r.off + Len(r.out) >= Len(src.setup.data)

Wound ==
    cut.reader = "exit" /\ cut.markers = 0 /\ pipe.cutter = "exit" /\ pipe.preparers = 0

\* Write returns, the pipelines never waiting on each other for good however
\* full their channels are; and when the stream was read to its end or the
\* read failed, every goroutine of the write ends.
WriteEnds ==
    /\ (call.pc # "new") ~> (call.pc = "over")
    /\ (call.pc = "over" /\ call.err \notin {"put", "prepare"}) ~> Wound

\* "stop, closed by the caller when the write is over, winds every goroutine
\* down" (parallel), after a store that failed too.
StopWindsDown == (call.pc = "over") ~> Wound
=============================================================================
