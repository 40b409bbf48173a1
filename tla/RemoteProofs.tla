---------------------------- MODULE RemoteProofs ----------------------------
(***************************************************************************)
(* What a bucket keeps for any clients, names, values, faults and          *)
(* deployments beside a split store and a cache: swaps land once, and      *)
(* listings are whole.                                                     *)
(***************************************************************************)
EXTENDS Remote, MirrorProofs

\* The bucket's invariant holds at the start.
LEMMA InitOK == RemoteInit => BucketInv
<1> SUFFICES ASSUME RemoteInit PROVE BucketInv OBVIOUS
<1>1. \A c \in Client : ReqOK(req[c]) /\ ~Swaps(req[c])
  BY DEF RemoteInit, BucketInit, ReqOK, SwapOK, ListOK, PutOK, Swaps, NoReq, ReqFields
<1>2. MovesOK BY DEF RemoteInit, BucketInit, MovesOK, NonceAt, NoRoot
<1>3. ObjectsOK BY DEF RemoteInit, BucketInit, ObjectsOK
<1> QED BY <1>1, <1>2, <1>3 DEF RemoteInit, BucketInit, BucketInv, Apart, NetFields

\* The cache only reads the bucket, except to erase a name through it.
LEMMA CacheLeaves ==
  ASSUME BucketInv, CacheNext
  PROVE  /\ DOMAIN net' = NetFields /\ net'.nonce = net.nonce
         /\ UNCHANGED <<objects, req>> \/ \E n \in Object : Erase(n)
<1> USE DEF BucketInv, NetFields
<1>1. ASSUME NEW r \in Reader, NEW n \in Object, DeleteThrough(r, n)
      PROVE DOMAIN net' = NetFields /\ net'.nonce = net.nonce /\ Erase(n) BY <1>1 DEF DeleteThrough
<1>2. ASSUME NEW r \in Reader, NEW k, Get(r, k) PROVE DOMAIN net' = NetFields /\ net'.nonce = net.nonce
  BY <1>2 DEF Get
<1>3. ASSUME NEW r \in Reader,
             ReadFile(r) \/ DropDamaged(r) \/ Fetch(r) \/ StoreFile(r) \/ InsertEntry(r) \/ EvictName(r)
      PROVE DOMAIN net' = NetFields /\ net'.nonce = net.nonce
  BY <1>3 DEF ReadFile, DropDamaged, Fetch, StoreFile, InsertEntry, EvictName, Lost
<1>4. ASSUME NEW k, Damage(k) PROVE DOMAIN net' = NetFields /\ net'.nonce = net.nonce BY <1>4 DEF Damage, Lost
<1>5. ASSUME Reload PROVE DOMAIN net' = NetFields /\ net'.nonce = net.nonce
  <2>1. net' = [net EXCEPT !.crashes = @ - 1] BY Zenon, <1>5 DEF Reload
  <2> QED BY <2>1
<1> QED BY <1>1, <1>2, <1>3, <1>4, <1>5 DEF CacheNext

\* Every step keeps the bucket's invariant.
LEMMA BucketKept == BucketInv /\ [RemoteNext]_remoteVars => BucketInv'
<1> SUFFICES ASSUME BucketInv, [RemoteNext]_remoteVars PROVE BucketInv' OBVIOUS
<1>1. CASE Bucketing BY <1>1, BucketStep DEF Bucketing
<1>2. CASE Splitting BY <1>2, SplitLeaves, NetMoves DEF Splitting
<1>3. CASE Caching
  <2>1. DOMAIN net' = NetFields /\ net'.nonce = net.nonce /\ net'.nonce \in Nat /\ net'.nonce >= net.nonce
          /\ UNCHANGED <<objectsOnly, root, moves>> /\ (UNCHANGED <<objects, req>> \/ \E n \in Object : Erase(n))
    BY <1>3, CacheLeaves DEF Caching, BucketInv
  <2> QED BY <2>1, NetMoves, EraseStep
<1>4. CASE UNCHANGED remoteVars BY <1>4, NetMoves DEF remoteVars, bucketVars, BucketInv
<1> QED BY <1>1, <1>2, <1>3, <1>4 DEF RemoteNext

\* So it always holds.
LEMMA BucketAlways == RemoteSpec => []BucketInv
BY InitOK, BucketKept, PTL DEF RemoteSpec

\* A compare-and-swap of the root on a bucket lands at most once and on the
\* root its caller read, though the client library sends requests again.
THEOREM SwapsLandAlways == RemoteSpec => []SwapsLand
<1>1. BucketInv => SwapsLand BY DEF BucketInv, MovesOK, ReqOK, SwapOK, Swaps, SwapsLand
<1> QED BY <1>1, BucketAlways, PTL

\* However a service pages a listing, List loses no name stored all along.
THEOREM ListsWhole == RemoteSpec => []ListWhole
<1>1. BucketInv => ListWhole BY DEF BucketInv, ReqOK, ListOK, ListWhole
<1> QED BY <1>1, BucketAlways, PTL
============================================================================
