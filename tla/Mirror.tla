------------------------------- MODULE Mirror -------------------------------
(***************************************************************************)
(* A store whose objects live in a bucket and whose root lives on a disk,  *)
(* with a copy of the root kept in the bucket                              *)
(* (src/core/blob/split/split.go): the swap waits for the copy, or one     *)
(* writer makes it in the background or from time to time.                 *)
(***************************************************************************)
EXTENDS Bucket

CONSTANTS
  Swapper,       \* clients that swap the root through the split store
  Mode,          \* "wait", "background", "periodic"
  WaitAttempts,  \* how often a copy is tried within a swap and by Close
  Restarts       \* the process may be killed and opened again over its root

VARIABLES
  mode,
  roots,     \* the root store: a version and a value, moved by compare-and-swap
  split,     \* the Store: pending, mirrored, wake, and what Close has done
  swap,      \* swap[c]: client c's SwapRoot in progress
  writer     \* the writer goroutine

mirrorVars == <<mode, roots, split, swap, writer>>

NoSwap == [pc |-> "idle", expected |-> 0, value |-> NoValue, tries |-> 0]

\* New: nothing is pending, and the copy is taken to be there.
NewSplit == [pending |-> NoValue, mirrored |-> TRUE, wake |-> FALSE, close |-> "open", tries |-> 0]
NewWriter == [pc |-> IF mode = "wait" THEN "stopped" ELSE "take", value |-> NoValue, ok |-> FALSE]

Bucketed == <<objectsOnly, objects, root, moves, req>>

-----------------------------------------------------------------------------
(* SwapRoot                                                                 *)

SplitGoes(c, r) == swap' = [swap EXCEPT ![c] = r]

BeginSplit(c, v) ==
  /\ c \in Swapper /\ swap[c].pc = "idle" /\ split.close = "open"
  /\ net.calls > 0 /\ net' = [net EXCEPT !.calls = @ - 1]
  /\ SplitGoes(c, [pc |-> "swap", expected |-> roots.version, value |-> v, tries |-> 0])
  /\ UNCHANGED <<Bucketed, mirror, mode, roots, split, writer>>

\* The root store's own swap.
SplitSwap(c) ==
  /\ swap[c].pc = "swap"
  /\ IF roots.version = swap[c].expected
     THEN roots' = [version |-> roots.version + 1, value |-> swap[c].value] /\ SplitGoes(c, [swap[c] EXCEPT !.pc = "pend"])
     ELSE UNCHANGED roots /\ SplitGoes(c, NoSwap)
  /\ UNCHANGED <<Bucketed, net, mirror, mode, split, writer>>

\* The new root is pending; the writer is woken, or the copy made here.
Pend(c) ==
  /\ swap[c].pc = "pend"
  /\ split' = [split EXCEPT !.pending = swap[c].value, !.mirrored = FALSE,
                            !.wake = @ \/ mode = "background"]
  /\ SplitGoes(c, IF mode = "wait" THEN [swap[c] EXCEPT !.pc = "copy"] ELSE NoSwap)
  /\ UNCHANGED <<Bucketed, net, mirror, mode, roots, writer>>

\* WriteMirror: the copy lands, or the call fails whether it landed or not.
Write(value, ok) ==
  \/ ok /\ mirror' = value /\ UNCHANGED net
  \/ ~ok /\ Lost /\ mirror' \in {mirror, value}

\* copy's end, under the lock: the copy is the newest root's only if nothing
\* has become pending since.
RecordedAny(value) == [split EXCEPT !.pending = NoValue, !.mirrored = TRUE]
Recorded(value) ==
  IF split.pending = value THEN [split EXCEPT !.pending = NoValue, !.mirrored = TRUE] ELSE split

SplitCopy(c) ==
  /\ swap[c].pc = "copy"
  /\ \E ok \in BOOLEAN :
       /\ Write(swap[c].value, ok)
       /\ SplitGoes(c, IF ok THEN [swap[c] EXCEPT !.pc = "record"]
                       ELSE [swap[c] EXCEPT !.tries = @ + 1,
                               !.pc = IF swap[c].tries + 1 = WaitAttempts THEN "end" ELSE "copy"])
  /\ UNCHANGED <<Bucketed, mode, roots, split, writer>>

SplitRecord(c) ==
  /\ swap[c].pc \in {"record", "end"}
  /\ split' = IF swap[c].pc = "record" THEN Recorded(swap[c].value) ELSE split
  /\ SplitGoes(c, NoSwap)
  /\ UNCHANGED <<Bucketed, net, mirror, mode, roots, writer>>

-----------------------------------------------------------------------------
(* The writer                                                               *)

\* The newest root whose copy has not landed; with none the writer sleeps.
Take ==
  /\ writer.pc = "take"
  /\ writer' = IF split.pending = NoValue THEN [writer EXCEPT !.pc = "asleep"]
               ELSE [writer EXCEPT !.pc = "write", !.value = split.pending]
  /\ UNCHANGED <<Bucketed, net, mirror, mode, roots, split, swap>>

\* A swap's wake-up, or the period's end.
Wake ==
  /\ writer.pc = "asleep"
  /\ mode = "background" => split.wake
  /\ split' = [split EXCEPT !.wake = FALSE]
  /\ writer' = [writer EXCEPT !.pc = "take"]
  /\ UNCHANGED <<Bucketed, net, mirror, mode, roots, swap>>

WriterCopy ==
  /\ writer.pc = "write"
  /\ \E ok \in BOOLEAN : Write(writer.value, ok) /\ writer' = [writer EXCEPT !.pc = "record", !.ok = ok]
  /\ UNCHANGED <<Bucketed, mode, roots, split, swap>>

AfterCopySleeps(ok) == IF ok THEN "take" ELSE "asleep"
AfterCopy(ok)       == IF ok THEN "take" ELSE "backoff"

WriterRecord ==
  /\ writer.pc = "record"
  /\ split' = IF writer.ok THEN Recorded(writer.value) ELSE split
  /\ writer' = [writer EXCEPT !.pc = AfterCopy(writer.ok)]
  /\ UNCHANGED <<Bucketed, net, mirror, mode, roots, swap>>

\* The backoff ends.
Retry ==
  /\ writer.pc = "backoff"
  /\ writer' = [writer EXCEPT !.pc = "take"]
  /\ UNCHANGED <<Bucketed, net, mirror, mode, roots, split, swap>>

\* Asleep or backing off, it sees that the store is closed.
Stop ==
  /\ writer.pc \in {"asleep", "backoff"} /\ split.close = "stopping"
  /\ writer' = [writer EXCEPT !.pc = "stopped"]
  /\ UNCHANGED <<Bucketed, net, mirror, mode, roots, split, swap>>

-----------------------------------------------------------------------------
(* Close, the loss of the root's disk, and Recover                          *)

Close ==
  /\ split.close = "open" 
  /\ \A c \in Client : swap[c].pc = "idle"
  /\ split' = [split EXCEPT !.close = "stopping"]
  /\ UNCHANGED <<Bucketed, net, mirror, mode, roots, swap, writer>>

\* Once the writer has stopped, Close copies the newest root if it is still
\* pending, trying a few times.
Flush ==
  /\ split.close = "stopping" /\ writer.pc = "stopped"
  /\ IF split.pending = NoValue THEN split' = [split EXCEPT !.close = "closed"] /\ UNCHANGED <<mirror, net>>
     ELSE \E ok \in BOOLEAN :
            /\ Write(split.pending, ok)
            /\ split' = IF ok THEN [Recorded(split.pending) EXCEPT !.close = "closed"]
                        ELSE [split EXCEPT !.tries = @ + 1,
                                           !.close = IF split.tries + 1 = WaitAttempts THEN "closed" ELSE @]
  /\ UNCHANGED <<Bucketed, mode, roots, swap, writer>>

\* The process dies; with the disk its root goes too, and Recover seeds a
\* fresh root store from the copy, if there is one, before New.
Reopen(lost) ==
  /\ net.crashes > 0 /\ net' = [net EXCEPT !.crashes = @ - 1]
  /\ lost \/ Restarts
  /\ roots' = IF lost THEN [version |-> roots.version + 1, value |-> mirror] ELSE roots
  /\ split' = NewSplit /\ writer' = NewWriter
  /\ swap' = [c \in Client |-> NoSwap]
  /\ UNCHANGED <<Bucketed, mirror, mode>>

MirrorInit ==
  /\ roots = [version |-> 0, value |-> NoValue]
  /\ split = NewSplit /\ writer = NewWriter
  /\ swap = [c \in Client |-> NoSwap]

MirrorNext ==
  \/ \E c \in Client :
       \/ \E v \in Value : BeginSplit(c, v)
       \/ SplitSwap(c) \/ Pend(c) \/ SplitCopy(c) \/ SplitRecord(c)
  \/ Take \/ Wake \/ WriterCopy \/ WriterRecord \/ Retry \/ Stop
  \/ Close \/ Flush
  \/ \E lost \in BOOLEAN : Reopen(lost)

\* The writer's goroutine and the calls in progress go on.
MirrorFairness ==
  /\ WF_mirrorVars(Take) /\ WF_mirrorVars(Wake) /\ WF_mirrorVars(WriterCopy)
  /\ WF_mirrorVars(WriterRecord) /\ WF_mirrorVars(Retry) /\ WF_mirrorVars(Flush)
  /\ WF_mirrorVars(Stop)
  /\ \A c \in Client : WF_mirrorVars(SplitSwap(c)) /\ WF_mirrorVars(Pend(c))

-----------------------------------------------------------------------------
(* Properties                                                               *)

Swapping == \E c \in Client : swap[c].pc # "idle"

\* MirrorStatus's Mirrored: the copy in the bucket is the newest root.
CopyNewest == split.mirrored /\ ~Swapping => mirror = roots.value

\* A swap's copy reaches the bucket without another swap: no wake-up is
\* lost, and a failed copy is tried again.
CopyCatchesUp ==
  mode # "wait" => []<>(Swapping \/ mirror = roots.value \/ split.close = "closed")
=============================================================================
