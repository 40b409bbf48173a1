-------------------------------- MODULE Disk --------------------------------
(***************************************************************************)
(* A local store's directory as its system calls see it                    *)
(* (src/core/blob/local/local.go, src/core/blob/internal/fsutil): object   *)
(* directories and files, the root file, and what of each a crash keeps.   *)
(* File bodies are synced before they are linked or renamed, so only       *)
(* directory entries can be lost.                                          *)
(***************************************************************************)
EXTENDS Integers, Sequences, FiniteSets, Functions

CONSTANTS
  Name,     \* object names, numbered in the order List gives them
  Dir,      \* object directories
  DirOf,    \* DirOf[n]: the directory of object n
  Parent,   \* Parent[d]: the directory above d, or Objects
  Objects,  \* the directory objects/, made by Create
  Made      \* directories that exist from the start

NoDisk == [dirs |-> {}, keptDirs |-> {}, files |-> {}, keptFiles |-> {},
           root |-> [version |-> 0, from |-> 0, names |-> {}],
           keptRoot |-> [version |-> 0, from |-> 0, names |-> {}]]

\* Create, and a store that has been used: some directories are there.
NewDisk == [NoDisk EXCEPT !.dirs = Made, !.keptDirs = Made]

\* The directories of d's path, from the one below objects/ down to d.
Path[d \in Dir] == (IF Parent[d] = Objects THEN <<>> ELSE Path[Parent[d]]) \o <<d>>

\* ensureDir's Stats, from the object's directory up to the first that is
\* there; the missing ones are then made from the top.
Missing(disk, d) == SelectSeq(Path[d], LAMBDA x : x \notin disk.dirs)

Mkdir(disk, d) == [disk EXCEPT !.dirs = @ \cup {d}]

\* SyncDir: the entries of directory d are durable, removals included.
SyncDir(disk, d) ==
  LET inside == {n \in Name : DirOf[n] = d}
  IN  [disk EXCEPT !.keptDirs = @ \cup {x \in disk.dirs : Parent[x] = d},
                   !.keptFiles = (@ \ inside) \cup (disk.files \cap inside)]

Link(disk, n)   == [disk EXCEPT !.files = @ \cup {n}]
Unlink(disk, n) == [disk EXCEPT !.files = @ \ {n}]

\* The root file, replaced by a rename and made durable by a sync of the
\* store's own directory.
Rename(disk, root) == [disk EXCEPT !.root = root]
SyncRoot(disk)     == [disk EXCEPT !.keptRoot = disk.root]

\* List: the names after `after`, in order, at most limit of them.
FirstNames(names, after, limit) ==
  {n \in names : n > after /\ Cardinality({m \in names : m > after /\ m < n}) < limit}

\* What a crash may leave: of the entries nobody synced, any; an entry is
\* lost with its directory.
Crashed(disk) ==
  LET there(d, D) == d \in D \cup {Objects}
      dirs == {D \in SUBSET disk.dirs : \A d \in disk.dirs : /\ d \in D => there(Parent[d], D)
                                                          /\ d \in disk.keptDirs /\ there(Parent[d], D) => d \in D}
      files(D) == {F \cap {n \in Name : DirOf[n] \in D} :
                     F \in {G \in SUBSET (disk.files \cup disk.keptFiles) :
                              (disk.files \cap disk.keptFiles) \subseteq G}}
  IN  UNION {{[dirs |-> D, keptDirs |-> D, files |-> F, keptFiles |-> F, root |-> r, keptRoot |-> r] :
                F \in files(D), r \in {disk.root, disk.keptRoot}} : D \in dirs}
==============================================================================
