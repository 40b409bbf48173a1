------------------------------- MODULE Remote -------------------------------
(***************************************************************************)
(* The stores that keep objects on a provider: a bucket with its own root  *)
(* (blob/s3), a bucket of objects with the root on a disk (blob/split over *)
(* blob/s3 opened objects only), and a cache of what is read (blob/cache). *)
(***************************************************************************)
EXTENDS ReadCache

CONSTANT Setups   \* what is deployed, and the bounds on its calls and faults

VARIABLE setup

remoteVars == <<bucketVars, mirrorVars, cacheVars, setup>>

RemoteInit ==
  /\ setup \in Setups
  /\ objectsOnly = setup.objectsOnly
  /\ mode = setup.mode
  /\ net = [calls |-> setup.calls, gets |-> setup.gets, faults |-> setup.faults,
            crashes |-> setup.crashes, nonce |-> 0]
  /\ BucketInit(setup.stored) /\ MirrorInit /\ CacheInit

Bucketing  == "bucket" \in setup.parts /\ BucketNext /\ UNCHANGED <<mirrorVars, cacheVars, setup>>
Splitting  == "split" \in setup.parts /\ MirrorNext /\ UNCHANGED <<cacheVars, setup>>
Caching    == "cache" \in setup.parts /\ CacheNext
                /\ UNCHANGED <<objectsOnly, root, mirror, moves, mirrorVars, setup>>

RemoteNext == Bucketing \/ Splitting \/ Caching

RemoteSpec == RemoteInit /\ [][RemoteNext]_remoteVars /\ MirrorFairness
=============================================================================
