------------------------------- MODULE Stores -------------------------------
(***************************************************************************)
(* The backends a repository can stand on: a store over several disks      *)
(* (core/blob/multivol, core/blob/local) and the stores that keep objects  *)
(* on a provider (core/blob/s3, split, cache).  A repository has one of    *)
(* them, so a behaviour exercises one.                                     *)
(***************************************************************************)
EXTENDS Volumes, Remote

CONSTANT Backends     \* the backends a behaviour may exercise

VARIABLE backend

vars == <<backend, volumeVars, remoteVars>>

\* A backend the behaviour leaves alone has one start.
Untouched(b, chosen, starts) == backend # b => chosen = CHOOSE s \in starts : TRUE

Init ==
  /\ backend \in Backends
  /\ VolumesInit /\ Untouched("volumes", mix, Mixes)
  /\ RemoteInit  /\ Untouched("remote", setup, Setups)

Spreading == backend = "volumes" /\ VolumesNext /\ UNCHANGED <<backend, remoteVars>>
Remoting  == backend = "remote" /\ RemoteNext /\ UNCHANGED <<backend, volumeVars>>

Next == Spreading \/ Remoting

Spec == Init /\ [][Next]_vars /\ MirrorFairness
=============================================================================
