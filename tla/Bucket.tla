------------------------------- MODULE Bucket -------------------------------
(***************************************************************************)
(* A store on an S3 bucket (src/core/blob/s3/s3.go): objects, the root with *)
(* its nonce, and the copy of a root another store keeps.  A request may be *)
(* refused, told to try again, or take effect while its answer is lost, in  *)
(* which case the client library sends it again.                            *)
(***************************************************************************)
EXTENDS Integers, Sequences, FiniteSets

CONSTANTS
  Client, Object, Value,
  ListLimit,             \* the limit List is called with
  ConflictRetries    \* how often a 409 is retried

ASSUME ObjectAssumption == Object \subseteq Nat   \* in the order List gives them

VARIABLES
  objectsOnly,  \* the endpoint ignores conditional writes
  objects,      \* objects[n]: the bytes under n, or NoBytes
  root,         \* the root's body: a nonce and a value
  mirror,       \* the copy of a split store's root, or NoValue
  moves,        \* moves[k]: the nonce of the k-th write that moved the root
  req,          \* req[c]: client c's call in progress
  net           \* what is left of the calls and of the network's faults

bucketVars == <<objectsOnly, objects, root, mirror, moves, req, net>>

NoBytes == "nothing"
NoValue == 0
NoRoot  == [nonce |-> 0, value |-> NoValue]

NoReq == [pc |-> "idle", name |-> 0, body |-> NoRoot, expected |-> NoRoot, at |-> 0,
          retries |-> 0, answer |-> "none", out |-> {}, was |-> {}]

Ask(c, r) == req' = [req EXCEPT ![c] = r]

Request(c) ==
  /\ req[c].pc = "idle" /\ net.calls > 0
  /\ net' = [net EXCEPT !.calls = @ - 1, !.nonce = @ + 1]

\* The ETag stands for the whole body.
Version(body) == body

-----------------------------------------------------------------------------
(* Put, Stat, Delete                                                        *)

BeginPut(c, n) ==
  /\ Request(c)
  /\ Ask(c, [NoReq EXCEPT !.pc = IF objectsOnly THEN "stat" ELSE "put", !.name = n])
  /\ UNCHANGED <<objectsOnly, objects, root, mirror, moves>>

\* Without conditional writes Put asks first.
Stat(c) ==
  /\ req[c].pc = "stat"
  /\ Ask(c, IF objects[req[c].name] # NoBytes THEN [NoReq EXCEPT !.pc = "done", !.answer = "exists"]
            ELSE [req[c] EXCEPT !.pc = "put"])
  /\ UNCHANGED <<objectsOnly, objects, root, mirror, moves, net>>

\* The answer is lost, and the request sent again.
Lost == net.faults > 0 /\ net' = [net EXCEPT !.faults = @ - 1]

Taken(n) == ~objectsOnly /\ objects[n] # NoBytes

PutObject(c) ==
  LET n == req[c].name
  IN  /\ req[c].pc = "put"
      /\ objects' = IF Taken(n) THEN objects ELSE [objects EXCEPT ![n] = "bytes"]
      /\ \/ /\ Ask(c, [NoReq EXCEPT !.pc = "done", !.name = n,
                                    !.answer = IF Taken(n) THEN "exists" ELSE "ok"])
            /\ UNCHANGED net
         \/ Lost /\ UNCHANGED req
      /\ UNCHANGED <<objectsOnly, root, mirror, moves>>

Erase(n) ==
  /\ objects[n] # NoBytes
  /\ objects' = [objects EXCEPT ![n] = NoBytes]
  /\ req' = [d \in Client |-> [req[d] EXCEPT !.was = @ \ {n}]]

DeleteObject(c, n) ==
  /\ Request(c)
  /\ Erase(n)
  /\ UNCHANGED <<objectsOnly, root, mirror, moves>>

-----------------------------------------------------------------------------
(* List                                                                     *)

Kept == {n \in Object : objects[n] # NoBytes}

BeginList(c, after) ==
  /\ Request(c)
  /\ Ask(c, [NoReq EXCEPT !.pc = "list", !.name = after, !.was = {n \in Kept : n > after}])
  /\ UNCHANGED <<objectsOnly, objects, root, mirror, moves>>

\* A page holds what the service likes of what comes next; List goes on
\* until it has limit names or the service says there are no more.
MoreNever(full, rest) == FALSE
More(full, rest) == ~full /\ rest # {}

ListPage(c) ==
  LET next == {n \in Kept : n > req[c].name /\ \A m \in req[c].out : n > m}
  IN  /\ req[c].pc = "list"
      /\ \E page \in SUBSET next :
           LET out == req[c].out \cup page
               goesOn == More(Cardinality(out) = ListLimit, next \ page)
           IN  /\ \A n \in page, m \in next \ page : n < m
               /\ Cardinality(out) <= ListLimit
               /\ page # {} \/ net.faults > 0 \/ next = {}
               /\ net' = IF page = {} /\ next # {} THEN [net EXCEPT !.faults = @ - 1] ELSE net
               /\ Ask(c, [req[c] EXCEPT !.out = out, !.pc = IF goesOn THEN "list" ELSE "done",
                                        !.answer = IF goesOn THEN "none" ELSE "listed"])
      /\ UNCHANGED <<objectsOnly, objects, root, mirror, moves>>

-----------------------------------------------------------------------------
(* The root                                                                 *)

\* A caller reads the root and swaps it, with a nonce of its own.
BeginSwap(c, v) ==
  /\ Request(c) /\ ~objectsOnly
  /\ Ask(c, [NoReq EXCEPT !.pc = "swap", !.expected = root, !.at = Len(moves),
                          !.body = [nonce |-> net.nonce + 1, value |-> v]])
  /\ UNCHANGED <<objectsOnly, objects, root, mirror, moves>>

MayRetry(c) == req[c].retries < ConflictRetries

SwapAnswer(c, answer) == Ask(c, [req[c] EXCEPT !.pc = "done", !.answer = answer])

\* The conditional PUT: it takes effect, is refused, or is told that another
\* conditional write is in flight; after too many of those it counts as
\* refused.
PutRoot(c) ==
  LET holds == Version(root) = Version(req[c].expected)
      lands == root' = req[c].body /\ moves' = Append(moves, req[c].body.nonce)
  IN  /\ req[c].pc = "swap"
      /\ \/ holds /\ lands /\ SwapAnswer(c, "ok") /\ UNCHANGED net
         \/ holds /\ lands /\ Lost /\ UNCHANGED req
         \/ ~holds /\ Ask(c, [req[c] EXCEPT !.pc = "check"]) /\ UNCHANGED <<root, moves, net>>
         \/ /\ Lost /\ UNCHANGED <<root, moves>>
            /\ Ask(c, IF MayRetry(c) THEN [req[c] EXCEPT !.retries = @ + 1]
                      ELSE [req[c] EXCEPT !.pc = "check"])
      /\ UNCHANGED <<objectsOnly, objects, mirror>>

SameValue(cur, body) == cur.value = body.value
Same(cur, body) == cur = body

\* Refused: the root is read, and is this call's own if its nonce is there.
\* A read that fails counts as a conflict.
CheckRoot(c) ==
  /\ req[c].pc = "check"
  /\ \/ SwapAnswer(c, IF Same(root, req[c].body) THEN "ok" ELSE "conflict") /\ UNCHANGED net
     \/ Lost /\ SwapAnswer(c, "conflict")
  /\ UNCHANGED <<objectsOnly, objects, root, mirror, moves>>

\* A call gives up on a request whose answer does not come.
GiveUp(c) ==
  /\ req[c].pc \in {"put", "swap", "list", "stat"} /\ Lost
  /\ Ask(c, [req[c] EXCEPT !.pc = "done", !.answer = "error"])
  /\ UNCHANGED <<objectsOnly, objects, root, mirror, moves>>

Answered(c) ==
  /\ req[c].pc = "done"
  /\ req' = [req EXCEPT ![c] = NoReq]
  /\ UNCHANGED <<objectsOnly, objects, root, mirror, moves, net>>

BucketInit(stored) ==
  /\ objects = [n \in Object |-> IF n \in stored THEN "bytes" ELSE NoBytes]
  /\ root = NoRoot /\ mirror = NoValue /\ moves = <<>>
  /\ req = [c \in Client |-> NoReq]

BucketNext ==
  \E c \in Client :
    \/ \E n \in Object : BeginPut(c, n) \/ DeleteObject(c, n)
    \/ \E after \in Object \cup {0} : BeginList(c, after)
    \/ \E v \in Value : BeginSwap(c, v)
    \/ Stat(c) \/ PutObject(c) \/ ListPage(c) \/ PutRoot(c) \/ CheckRoot(c)
    \/ GiveUp(c) \/ Answered(c)

-----------------------------------------------------------------------------
(* Properties                                                               *)

\* A swap takes effect at most once and only on the root its caller read,
\* though its request may be sent again after it landed; and the call that
\* answers success is the one that landed.
SwapsLand ==
  /\ \A j, k \in DOMAIN moves : j # k => moves[j] # moves[k]
  /\ \A c \in Client : req[c].answer = "ok" /\ req[c].body # NoRoot =>
       \E k \in DOMAIN moves : k = req[c].at + 1 /\ moves[k] = req[c].body.nonce

\* A List answers every name that was stored all along and sorts into its
\* page: a page shorter than the limit is the end.
ListWhole ==
  \A c \in Client : req[c].answer = "listed" =>
    \A n \in req[c].was :
      n \in req[c].out \/ (Cardinality(req[c].out) = ListLimit /\ \A m \in req[c].out : n > m)
=============================================================================
