----------------------------- MODULE PackSystem -----------------------------
(***************************************************************************)
(* Stores and collectors over one backend, and what must hold of them      *)
(* together.                                                               *)
(***************************************************************************)
EXTENDS PackStore, Collector

CONSTANT Prompt     \* no tick passes inside a publish's swap loop or a round

ASSUME PromptAssumption == Prompt \in BOOLEAN

vars == <<now, packs, objs, man, crashes, st, pub, cl, gc>>

\* Time passes, one tick at a time.  With Prompt, a tick is long beside the
\* time a publish takes from looking up its uploads to its end, and a
\* collector from dating its round to its last deletion.
Tick ==
  /\ now < MaxTime
  /\ Prompt => /\ \A s \in Store : pub[s].pc \notin {"attempt", "swap", "landed"}
               /\ \A g \in Collectors : gc[g].pc = "idle"
  /\ now' = now + 1
  /\ UNCHANGED <<packs, objs, man, crashes, st, pub, cl, gc>>

Init == ObjectsInit /\ StoreInit /\ CollectorInit

Next ==
  \/ \E c \in Client : ClientStep(c) /\ UNCHANGED gc
  \/ \E s \in Store : (FinisherStep(s) \/ PublishStep(s) \/ Reopen(s)) /\ UNCHANGED gc
  \/ \E g \in Collectors : CollectorStep(g) /\ UNCHANGED <<st, pub, cl>>
  \/ Tick

Spec == Init /\ [][Next]_vars

\* Goroutines that can run do, and the backend answers every call.
FairSpec ==
  Spec /\ \A s \in Store : /\ WF_vars(FinisherStep(s) /\ UNCHANGED gc)
                           /\ WF_vars(PublishStep(s) /\ UNCHANGED gc)

TypeOK == ObjectsTypeOK /\ StoreTypeOK /\ CollectorTypeOK

------------------------------------------------------------------------------
(* The published root is durable: every chunk it reaches is in a pack the  *)
(* backend has, listed by an index object the manifest names and the       *)
(* backend has (publishOnce: "Every chunk the new root can reach is        *)
(* durable before the manifest names it"; gc Run deletes nothing of it).   *)
Durable ==
  \A h \in Reach[man.root] : \E i \in man.indexes : \E p \in objs[i].packs :
     objs[i].has /\ packs[p].has /\ h \in packs[p].chunks

(* Every live chunk has a copy in a pack that is not repacked: a repacked  *)
(* pack is never reprieved (Apply), so a chunk left to it alone is lost a  *)
(* window later however live it is.                                        *)
NotLeftBehind ==
  \A h \in Reach[man.root] :
     \E p \in ListedBy(man.indexes) \ IdsOf(man.condemned, "repackedPack") : h \in packs[p].chunks

(* The manifest in force names no missing object: a store that takes it    *)
(* can load every index object and read every pack it lists.               *)
NamesStored ==
  \A i \in man.indexes : objs[i].has /\ \A p \in objs[i].packs : packs[p].has

\* Store s finds chunk h where it locates it, or after refreshing.
CanGet(s, h) ==
  \/ h \in Unfinished(st[s])
  \/ st[s].loc[h] \in Readable(s)
  \/ Loadable(RefreshPlan(st[s], man)) /\ refresh(st[s]).loc[h] \in Readable(s)

(* The published root can be read by every store, however stale its index: *)
(* a chunk is found where the store locates it or, its pack deleted or     *)
(* repacked since, after one refresh (Get).                                *)
HeadReadable == \A s \in Store, h \in Reach[man.root] : CanGet(s, h)

(* A publish ends, landed or refused, however it waits on finishers, loses *)
(* swaps and carries chunks forward.                                       *)
PublishEnds == \A c \in Client : cl[c].pc = "publish" ~> cl[c].pc # "publish"

\* Manifest m was in force once: m is older than the one in force, or is it.
Past(m) == m.seq <= man.seq /\ (m.seq = man.seq => m = man)

\* So was each manifest a store, a refresh, a landed publish or a round holds.
HoldsPast ==
  /\ \A s \in Store : Past(st[s].man) /\ (pub[s].pc = "landed" => Past(pub[s].upd))
  /\ \A c \in Client : Past(cl[c].plan.man)
  /\ \A g \in Collectors : Past(gc[g].man)

\* One call at a time holds a store's publish.
OneCall ==
  /\ \A s \in Store : pub[s].pc # "idle" => Host[pub[s].client] = s
  /\ \A c \in Client :
       cl[c].pc = "publish" <=> pub[Host[c]].pc # "idle" /\ pub[Host[c]].client = c

(* A swap that can still land replaces the manifest it was made from: the  *)
(* one a publish (or a round) is about to swap in either has been          *)
(* overtaken or succeeds the manifest in force, whose root is the one the  *)
(* caller read (or leaves its root alone), however stores, refreshes and   *)
(* collectors interleave (publishOnce and Round.Apply swap against the     *)
(* version they read).                                                     *)
SwapsSucceed ==
  /\ HoldsPast /\ OneCall
  /\ \A s \in Store : pub[s].pc = "swap" =>
       \/ pub[s].upd.seq <= man.seq
       \/ /\ pub[s].upd.seq = man.seq + 1 /\ pub[s].upd.root = pub[s].next
          /\ man.root = pub[s].expected
  /\ \A g \in Collectors : gc[g].pc = "swap" =>
       gc[g].upd.seq <= man.seq \/ (gc[g].upd.seq = man.seq + 1 /\ gc[g].upd.root = man.root)

\* The calls in progress that have neither landed nor ended.
Calls == [c \in Client |-> IF cl[c].pc = "publish" /\ pub[Host[c]].pc # "landed"
            THEN <<pub[Host[c]].expected, pub[Host[c]].next>> ELSE <<>>]
Register == INSTANCE RootRegister WITH root <- man.root, call <- Calls, NoCall <- <<>>

(* Commits are atomic moves of the root from the one the client read to    *)
(* the one it wrote, each landing at most once, whatever conflicts, swap   *)
(* retries on a newer manifest, collections and crashes come between.      *)
RefinesRegister == Register!Spec
==============================================================================
