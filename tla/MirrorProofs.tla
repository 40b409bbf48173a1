---------------------------- MODULE MirrorProofs ----------------------------
(***************************************************************************)
(* The inductive invariant of a bucket, for any clients, names, values and *)
(* faults, and that its actions and those of a split store keep it.        *)
(* RemoteProofs draws the conclusions for what is deployed.                *)
(***************************************************************************)
EXTENDS Mirror, TLAPS

ReqFields == {"pc", "name", "body", "expected", "at", "retries", "answer", "out", "was"}

NetFields == {"calls", "gets", "faults", "crashes", "nonce"}

\* The nonce of the root after k moves.
NonceAt(k) == IF k = 0 THEN 0 ELSE moves[k]

\* The root moved once per nonce, and holds the last one's.
MovesOK ==
    /\ moves \in Seq(Nat)
    /\ \A k \in DOMAIN moves : moves[k] \in 1 .. net.nonce
    /\ \A j, k \in DOMAIN moves : j # k => moves[j] # moves[k]
    /\ root.nonce = NonceAt(Len(moves))

\* A swap's nonce was drawn for it; it can only have landed right after the
\* root its caller read, and did if its answer says so.
Swaps(r) == r.body # NoRoot

SwapOK(r) ==
    /\ r.pc \in {"swap", "check"} => Swaps(r)
    /\ Swaps(r) =>
         /\ r.body.nonce \in 1 .. net.nonce
         /\ r.at \in 0 .. Len(moves)
         /\ r.expected.nonce = NonceAt(r.at)
         /\ \A k \in DOMAIN moves : moves[k] = r.body.nonce => k = r.at + 1
         /\ r.answer = "ok" => r.at + 1 \in DOMAIN moves /\ moves[r.at + 1] = r.body.nonce

\* What a List owes its caller is in it, or comes after all of it.
ListOK(r) ==
    /\ r.was \subseteq Kept /\ \A n \in r.was : n > r.name
    /\ r.pc = "list" => \A n \in r.was : n \in r.out \/ \A m \in r.out : n > m
    /\ r.pc # "done" => r.answer = "none"
    /\ r.answer = "listed" =>
         \A n \in r.was : n \in r.out \/ (Cardinality(r.out) = ListLimit /\ \A m \in r.out : n > m)

\* A put's name is an object's.
PutOK(r) == r.pc \in {"put", "stat"} => r.name \in Object

ReqOK(r) == DOMAIN r = ReqFields /\ SwapOK(r) /\ ListOK(r) /\ PutOK(r)

Apart == \A c, d \in Client : c # d /\ Swaps(req[c]) /\ Swaps(req[d]) => req[c].body.nonce # req[d].body.nonce

ObjectsOK ==
    /\ DOMAIN objects = Object
    /\ \A n \in Object : objects[n] \in {"bytes", NoBytes}

BucketInv ==
    /\ DOMAIN net = NetFields /\ net.nonce \in Nat
    /\ ObjectsOK
    /\ MovesOK
    /\ req = [c \in Client |-> req[c]] /\ \A c \in Client : ReqOK(req[c])
    /\ Apart

----------------------------------------------------------------------------
(* The bucket.                                                             *)

\* A request stays in order while the root does not move and names are
\* only added.
LEMMA ReqKept ==
  ASSUME NEW x, ReqOK(x), moves' = moves, Kept \subseteq Kept',
         net.nonce \in Nat, net'.nonce \in Nat, net'.nonce >= net.nonce
  PROVE  ReqOK(x)'
<1>1. SwapOK(x)' BY DEF ReqOK, SwapOK, Swaps, NonceAt
<1>2. ListOK(x)' BY DEF ReqOK, ListOK
<1>3. PutOK(x)' BY DEF ReqOK, PutOK
<1> QED BY <1>1, <1>2, <1>3 DEF ReqOK

\* The bucket's invariant says nothing of the calls and faults that are left.
LEMMA NetMoves ==
  ASSUME BucketInv, UNCHANGED <<objectsOnly, objects, root, moves, req>>,
         DOMAIN net' = NetFields, net'.nonce = net.nonce
  PROVE  BucketInv'
<1>1. Kept' = Kept BY DEF Kept
<1>2. \A c \in Client : ReqOK(req[c])'
  <2>1. SUFFICES ASSUME NEW c \in Client PROVE ReqOK(req[c])' OBVIOUS
  <2>2. PICK x : x = req[c] OBVIOUS
  <2>3. ReqOK(x)' BY <1>1, <2>2, ReqKept DEF BucketInv
  <2> QED BY <2>2, <2>3
<1>3. ObjectsOK' BY DEF BucketInv, ObjectsOK
<1>4. MovesOK' BY DEF BucketInv, MovesOK, NonceAt
<1>5. Apart' BY DEF BucketInv, Apart, Swaps
<1> QED BY <1>2, <1>3, <1>4, <1>5 DEF BucketInv

\* A client's request becomes another while the root stays where it is.
LEMMA Asks ==
  ASSUME BucketInv, NEW c \in Client, NEW r, Ask(c, r), DOMAIN r = ReqFields,
         SwapOK(r)', ListOK(r)', PutOK(r), moves' = moves, root' = root, Kept \subseteq Kept',
         DOMAIN net' = NetFields, net'.nonce \in Nat, net'.nonce >= net.nonce, ObjectsOK',
         Swaps(r) => (Swaps(req[c]) /\ r.body = req[c].body) \/ r.body.nonce > net.nonce
  PROVE  BucketInv'
<1> USE DEF BucketInv
<1>1. req' = [d \in Client |-> req'[d]] /\ req'[c] = r /\ \A d \in Client \ {c} : req'[d] = req[d] BY DEF Ask
<1>2. \A d \in Client : ReqOK(req[d])'
  <2>1. SUFFICES ASSUME NEW d \in Client PROVE ReqOK(req[d])' OBVIOUS
  <2>2. CASE d = c
    <3>1. ReqOK(r)' BY DEF ReqOK, PutOK
    <3> QED BY <1>1, <2>2, <3>1
  <2>3. CASE d # c
    <3>1. PICK x : x = req[d] OBVIOUS
    <3>2. ReqOK(x)' BY <3>1, ReqKept
    <3> QED BY <1>1, <2>3, <3>1, <3>2
  <2> QED BY <2>2, <2>3
<1>3. MovesOK' BY DEF MovesOK, NonceAt
<1>4. \A d \in Client : Swaps(req[d]) => req[d].body.nonce \in 1 .. net.nonce BY DEF ReqOK, SwapOK
<1>5. Apart'
  <2>1. SUFFICES ASSUME NEW d \in Client, NEW e \in Client, d # e, Swaps(req'[d]), Swaps(req'[e])
                 PROVE  req'[d].body.nonce # req'[e].body.nonce BY DEF Apart
  <2>2. CASE d # c /\ e # c BY <1>1, <2>1, <2>2 DEF Apart
  <2>3. CASE d = c BY <1>1, <1>4, <2>1, <2>3 DEF Apart
  <2>4. CASE e = c BY <1>1, <1>4, <2>1, <2>4 DEF Apart
  <2> QED BY <2>2, <2>3, <2>4
<1> QED BY <1>1, <1>2, <1>3, <1>5

\* A Put is called.
LEMMA BeginPutStep == ASSUME BucketInv, NEW c \in Client, NEW n \in Object, BeginPut(c, n) PROVE BucketInv'
<1>1. PICK r : r = [NoReq EXCEPT !.pc = IF objectsOnly THEN "stat" ELSE "put", !.name = n] OBVIOUS
<1>2. Ask(c, r) BY <1>1 DEF BeginPut
<1>3. DOMAIN r = ReqFields /\ r.body = NoRoot /\ r.pc \in {"stat", "put"} /\ r.was = {} /\ r.answer = "none"
        /\ r.name = n BY <1>1 DEF NoReq, ReqFields
<1>4. SwapOK(r)' /\ ListOK(r)' BY <1>3 DEF SwapOK, ListOK, Swaps
<1>5. PutOK(r) /\ ~Swaps(r) BY <1>3 DEF PutOK, Swaps
<1>6. DOMAIN net' = NetFields /\ net'.nonce \in Nat /\ net'.nonce >= net.nonce
  BY DEF BucketInv, BeginPut, Request, NetFields
<1>7. moves' = moves /\ root' = root /\ Kept \subseteq Kept' /\ ObjectsOK'
  BY DEF BucketInv, BeginPut, Kept, ObjectsOK
<1> QED BY ONLY BucketInv, c \in Client, <1>2, <1>3, <1>4, <1>5, <1>6, <1>7, Asks

\* Put asks first where writes are not conditional.
LEMMA StatStep == ASSUME BucketInv, NEW c \in Client, Stat(c) PROVE BucketInv'
<1>0. ReqOK(req[c]) BY DEF BucketInv
<1>1. PICK r : r = IF objects[req[c].name] # NoBytes THEN [NoReq EXCEPT !.pc = "done", !.answer = "exists"]
                   ELSE [req[c] EXCEPT !.pc = "put"] BY Zenon
<1>2. Ask(c, r) BY <1>1 DEF Stat
<1>6. DOMAIN net' = NetFields /\ net'.nonce \in Nat /\ net'.nonce >= net.nonce BY DEF BucketInv, Stat
<1>7. moves' = moves /\ root' = root /\ Kept \subseteq Kept' /\ ObjectsOK' /\ net' = net /\ Kept' = Kept
  BY DEF BucketInv, Stat, Kept, ObjectsOK
<1>3. CASE objects[req[c].name] # NoBytes
  <2>3. DOMAIN r = ReqFields /\ r.body = NoRoot /\ r.pc = "done" /\ r.was = {} /\ r.answer = "exists"
    BY <1>1, <1>3 DEF NoReq, ReqFields
  <2>4. SwapOK(r)' /\ ListOK(r)' BY <2>3 DEF SwapOK, ListOK, Swaps
  <2>5. PutOK(r) /\ ~Swaps(r) BY <2>3 DEF PutOK, Swaps
  <2> QED BY ONLY BucketInv, c \in Client, <1>2, <2>3, <2>4, <2>5, <1>6, <1>7, Asks
<1>4. CASE ~(objects[req[c].name] # NoBytes)
  <2>1. PICK x : x = req[c] OBVIOUS
  <2>2. DOMAIN x = ReqFields /\ ReqOK(x) /\ x.pc = "stat" BY <1>0, <2>1 DEF ReqOK, Stat
  <2>3. r = [x EXCEPT !.pc = "put"] BY <1>1, <1>4, <2>1
  <2>4. DOMAIN r = ReqFields /\ r.pc = "put" /\ r.name = x.name /\ r.body = x.body /\ r.expected = x.expected
          /\ r.at = x.at /\ r.answer = x.answer /\ r.out = x.out /\ r.was = x.was BY <2>2, <2>3 DEF ReqFields
  <2>5. SwapOK(r)' BY <2>2, <2>4, <1>7 DEF ReqOK, SwapOK, Swaps, NonceAt
  <2>6. ListOK(r)' BY <2>2, <2>4, <1>7 DEF ReqOK, ListOK
  <2>7. PutOK(r) BY <2>2, <2>4 DEF ReqOK, PutOK
  <2>8. Swaps(r) => (Swaps(req[c]) /\ r.body = req[c].body) \/ r.body.nonce > net.nonce
    BY <2>1, <2>4 DEF Swaps
  <2> QED BY ONLY BucketInv, c \in Client, <1>2, <2>4, <2>5, <2>6, <2>7, <2>8, <1>6, <1>7, Asks
<1> QED BY <1>3, <1>4

\* The object is written, refused, or written with the answer lost.
LEMMA PutObjectStep == ASSUME BucketInv, NEW c \in Client, PutObject(c) PROVE BucketInv'
<1>0. ReqOK(req[c]) /\ req[c].pc = "put" BY DEF BucketInv, PutObject
<1>1. PICK n : n = req[c].name OBVIOUS
<1>2. n \in Object BY <1>0, <1>1 DEF ReqOK, PutOK
<1>3. moves' = moves /\ root' = root /\ objectsOnly' = objectsOnly BY DEF PutObject
<1>4. objects' = IF Taken(n) THEN objects ELSE [objects EXCEPT ![n] = "bytes"] BY <1>1 DEF PutObject
<1>5. ObjectsOK' BY <1>2, <1>3, <1>4 DEF BucketInv, ObjectsOK, Taken
<1>6. Kept \subseteq Kept'
  <2>1. SUFFICES ASSUME NEW m \in Object, objects[m] # NoBytes PROVE objects'[m] # NoBytes BY DEF Kept
  <2> QED BY <1>2, <1>4, <2>1 DEF BucketInv, ObjectsOK, NoBytes
<1>7. DOMAIN net' = NetFields /\ net'.nonce \in Nat /\ net'.nonce >= net.nonce
  BY DEF BucketInv, PutObject, Lost, NetFields
<1>8. CASE Ask(c, [NoReq EXCEPT !.pc = "done", !.name = n, !.answer = IF Taken(n) THEN "exists" ELSE "ok"])
  <2>1. PICK r : r = [NoReq EXCEPT !.pc = "done", !.name = n, !.answer = IF Taken(n) THEN "exists" ELSE "ok"]
    OBVIOUS
  <2>2. Ask(c, r) BY <1>8, <2>1
  <2>3. DOMAIN r = ReqFields /\ r.body = NoRoot /\ r.pc = "done" /\ r.was = {} /\ r.answer # "listed"
    BY <2>1 DEF NoReq, ReqFields
  <2>4. SwapOK(r)' /\ ListOK(r)' BY <2>3 DEF SwapOK, ListOK, Swaps
  <2>5. PutOK(r) /\ ~Swaps(r) BY <2>3 DEF PutOK, Swaps
  <2> QED BY ONLY BucketInv, c \in Client, <1>3, <1>5, <1>6, <1>7, <2>2, <2>3, <2>4, <2>5, Asks
<1>9. CASE UNCHANGED req
  <2>1. PICK r : r = req[c] OBVIOUS
  <2>2. Ask(c, r)
    <3>1. req = [req EXCEPT ![c] = req[c]] BY DEF BucketInv
    <3> QED BY <1>9, <2>1, <3>1 DEF Ask
  <2>3. ReqOK(r) BY <1>0, <2>1
  <2>4. ReqOK(r)' BY <1>3, <1>6, <1>7, <2>3, ReqKept DEF BucketInv
  <2>5. DOMAIN r = ReqFields /\ SwapOK(r)' /\ ListOK(r)' /\ PutOK(r) BY <2>3, <2>4 DEF ReqOK
  <2>6. Swaps(r) => (Swaps(req[c]) /\ r.body = req[c].body) \/ r.body.nonce > net.nonce BY <2>1
  <2> QED BY ONLY BucketInv, c \in Client, <1>3, <1>5, <1>6, <1>7, <2>2, <2>5, <2>6, Asks
<1> QED BY <1>1, <1>8, <1>9 DEF PutObject

\* A name is erased, and no List in progress owes it any more.
LEMMA EraseStep ==
  ASSUME BucketInv, NEW n \in Object, Erase(n), UNCHANGED <<objectsOnly, root, moves>>,
         DOMAIN net' = NetFields, net'.nonce \in Nat, net'.nonce >= net.nonce
  PROVE  BucketInv'
<1> USE DEF BucketInv
<1>1. ObjectsOK' BY DEF ObjectsOK, Erase
<1>2. Kept' = Kept \ {n} BY DEF ObjectsOK, Erase, Kept
<1>3. req' = [d \in Client |-> req'[d]] /\ \A d \in Client : req'[d] = [req[d] EXCEPT !.was = @ \ {n}] BY DEF Erase
<1>4. \A d \in Client : ReqOK(req[d])' /\ req'[d].body = req[d].body
  <2>1. SUFFICES ASSUME NEW d \in Client PROVE ReqOK(req[d])' /\ req'[d].body = req[d].body OBVIOUS
  <2>2. PICK x : x = req[d] OBVIOUS
  <2>3. PICK r : r = req'[d] OBVIOUS
  <2>4. DOMAIN x = ReqFields /\ ReqOK(x) BY <2>2 DEF ReqOK
  <2>5. r = [x EXCEPT !.was = @ \ {n}] BY <1>3, <2>2, <2>3
  <2>6. DOMAIN r = ReqFields /\ r.pc = x.pc /\ r.name = x.name /\ r.body = x.body /\ r.expected = x.expected
          /\ r.at = x.at /\ r.answer = x.answer /\ r.out = x.out /\ r.was = x.was \ {n}
    BY <2>4, <2>5 DEF ReqFields
  <2>7. SwapOK(r)' BY <2>4, <2>6 DEF ReqOK, SwapOK, Swaps, NonceAt
  <2>8. ListOK(r)' BY <1>2, <2>4, <2>6 DEF ReqOK, ListOK
  <2>9. PutOK(r)' BY <2>4, <2>6 DEF ReqOK, PutOK
  <2>10. ReqOK(r)' BY <2>6, <2>7, <2>8, <2>9 DEF ReqOK
  <2> QED BY <2>2, <2>3, <2>6, <2>10
<1>5. MovesOK' BY DEF MovesOK, NonceAt
<1>6. Apart' BY <1>4 DEF Apart, Swaps
<1> QED BY <1>1, <1>3, <1>4, <1>5, <1>6

\* A List is called: it owes what is stored after the name it was given.
LEMMA BeginListStep ==
  ASSUME BucketInv, NEW c \in Client, NEW after, BeginList(c, after) PROVE BucketInv'
<1>1. PICK r : r = [NoReq EXCEPT !.pc = "list", !.name = after, !.was = {n \in Kept : n > after}] BY Zenon
<1>2. Ask(c, r) BY <1>1 DEF BeginList
<1>3. DOMAIN r = ReqFields /\ r.body = NoRoot /\ r.pc = "list" /\ r.was = {n \in Kept : n > after}
        /\ r.answer = "none" /\ r.name = after /\ r.out = {} BY <1>1 DEF NoReq, ReqFields
<1>6. DOMAIN net' = NetFields /\ net'.nonce \in Nat /\ net'.nonce >= net.nonce
  BY DEF BucketInv, BeginList, Request, NetFields
<1>7. moves' = moves /\ root' = root /\ Kept \subseteq Kept' /\ ObjectsOK'
  BY DEF BucketInv, BeginList, Kept, ObjectsOK
<1>4. SwapOK(r)' /\ ListOK(r)' BY <1>3, <1>7 DEF SwapOK, ListOK, Swaps
<1>5. PutOK(r) /\ ~Swaps(r) BY <1>3 DEF PutOK, Swaps
<1> QED BY ONLY BucketInv, c \in Client, <1>2, <1>3, <1>4, <1>5, <1>6, <1>7, Asks

\* A page: what is owed is on it or after all of it, and the last page leaves nothing.
LEMMA ListPageStep == ASSUME BucketInv, NEW c \in Client, ListPage(c) PROVE BucketInv'
<1>0. ReqOK(req[c]) /\ req[c].pc = "list" BY DEF BucketInv, ListPage
<1>1. PICK x : x = req[c] OBVIOUS
<1>2. PICK next : next = {n \in Kept : n > x.name /\ \A m \in x.out : n > m} BY Zenon
<1>3. PICK page \in SUBSET next :
        /\ \A n \in page, m \in next \ page : n < m
        /\ net' = IF page = {} /\ next # {} THEN [net EXCEPT !.faults = @ - 1] ELSE net
        /\ Ask(c, [req[c] EXCEPT !.out = x.out \cup page,
                                 !.pc = IF More(Cardinality(x.out \cup page) = ListLimit, next \ page)
                                        THEN "list" ELSE "done",
                                 !.answer = IF More(Cardinality(x.out \cup page) = ListLimit, next \ page)
                                            THEN "none" ELSE "listed"])
  <2>1. \E page \in SUBSET {n \in Kept : n > req[c].name /\ \A m \in req[c].out : n > m} :
          LET rest == {n \in Kept : n > req[c].name /\ \A m \in req[c].out : n > m}
              goesOn == More(Cardinality(req[c].out \cup page) = ListLimit, rest \ page)
          IN  /\ \A n \in page, m \in rest \ page : n < m
              /\ net' = IF page = {} /\ rest # {} THEN [net EXCEPT !.faults = @ - 1] ELSE net
              /\ Ask(c, [req[c] EXCEPT !.out = req[c].out \cup page, !.pc = IF goesOn THEN "list" ELSE "done",
                                       !.answer = IF goesOn THEN "none" ELSE "listed"])
    BY Zenon DEF ListPage
  <2>2. next = {n \in Kept : n > req[c].name /\ \A m \in req[c].out : n > m}  BY <1>1, <1>2, Zenon
  <2> QED  BY ONLY <2>1, <2>2, <1>1, Zenon
<1>4. PICK goesOn : goesOn = More(Cardinality(x.out \cup page) = ListLimit, next \ page) OBVIOUS
<1>5. PICK r : r = [x EXCEPT !.out = x.out \cup page, !.pc = IF goesOn THEN "list" ELSE "done",
                             !.answer = IF goesOn THEN "none" ELSE "listed"] OBVIOUS
<1>6. Ask(c, r) BY <1>1, <1>3, <1>4, <1>5
<1>7. DOMAIN x = ReqFields /\ ReqOK(x) /\ x.pc = "list" BY <1>0, <1>1 DEF ReqOK
<1>8. DOMAIN r = ReqFields /\ r.name = x.name /\ r.body = x.body /\ r.expected = x.expected
        /\ r.at = x.at /\ r.was = x.was /\ r.out = x.out \cup page BY <1>5, <1>7 DEF ReqFields
<1>9. r.pc = (IF goesOn THEN "list" ELSE "done") /\ r.answer = (IF goesOn THEN "none" ELSE "listed")
  BY <1>5, <1>7 DEF ReqFields
<1>10. DOMAIN net' = NetFields /\ net'.nonce \in Nat /\ net'.nonce >= net.nonce /\ net'.nonce = net.nonce
  BY <1>3 DEF BucketInv, NetFields
<1>11. moves' = moves /\ root' = root /\ Kept' = Kept /\ Kept \subseteq Kept' /\ ObjectsOK'
  BY DEF BucketInv, ListPage, Kept, ObjectsOK
<1>12. SwapOK(r)' BY <1>7, <1>8, <1>9, <1>10, <1>11 DEF ReqOK, SwapOK, Swaps, NonceAt
<1>13. \A n \in x.was : n \in r.out \/ (n \in next \ page /\ \A m \in r.out : n > m)
  <2>1. SUFFICES ASSUME NEW n \in x.was, n \notin r.out PROVE n \in next \ page /\ \A m \in r.out : n > m OBVIOUS
  <2>2. n \in next /\ n \notin page /\ \A m \in x.out : n > m
    BY <1>2, <1>7, <1>8, <2>1 DEF ReqOK, ListOK
  <2>3. \A m \in page : m < n BY <1>3, <2>2
  <2>4. \A m \in page : n > m BY <1>2, <2>2, <2>3, ObjectAssumption DEF Kept
  <2> QED BY <1>8, <2>2, <2>4
<1>14. ~goesOn => \A n \in x.was : n \in r.out \/ (Cardinality(r.out) = ListLimit /\ \A m \in r.out : n > m)
  BY Zenon, <1>4, <1>8, <1>13 DEF More
<1>15. ListOK(r)'
  <2>1. r.was \subseteq Kept' /\ \A n \in r.was : n > r.name BY <1>7, <1>8, <1>11 DEF ReqOK, ListOK
  <2>2. r.pc = "list" => \A n \in r.was : n \in r.out \/ \A m \in r.out : n > m BY <1>8, <1>13
  <2>3. r.pc # "done" => r.answer = "none" BY <1>9
  <2>4. r.answer = "listed" => ~goesOn BY <1>9
  <2> QED BY <1>8, <1>14, <2>1, <2>2, <2>3, <2>4 DEF ListOK
<1>16. PutOK(r) BY <1>9 DEF PutOK
<1>17. Swaps(r) => (Swaps(req[c]) /\ r.body = req[c].body) \/ r.body.nonce > net.nonce BY <1>1, <1>8 DEF Swaps
<1> QED BY ONLY BucketInv, c \in Client, <1>6, <1>8, <1>10, <1>11, <1>12, <1>15, <1>16, <1>17, Asks

\* A swap is called, with a nonce nobody had.
LEMMA BeginSwapStep ==
  ASSUME BucketInv, NEW c \in Client, NEW v, BeginSwap(c, v) PROVE BucketInv'
<1>1. PICK r : r = [NoReq EXCEPT !.pc = "swap", !.expected = root, !.at = Len(moves),
                                 !.body = [nonce |-> net.nonce + 1, value |-> v]] OBVIOUS
<1>2. Ask(c, r) BY <1>1 DEF BeginSwap
<1>3. DOMAIN r = ReqFields /\ r.pc = "swap" /\ r.was = {} /\ r.answer = "none" /\ r.expected = root
        /\ r.at = Len(moves) /\ r.body = [nonce |-> net.nonce + 1, value |-> v]
  BY <1>1 DEF NoReq, ReqFields
<1>4. net.nonce \in Nat /\ DOMAIN net' = NetFields /\ net'.nonce = net.nonce + 1
  BY DEF BucketInv, BeginSwap, Request, NetFields
<1>5. net'.nonce \in Nat /\ net'.nonce >= net.nonce BY <1>4
<1>6. moves' = moves /\ root' = root /\ Kept \subseteq Kept' /\ ObjectsOK'
  BY DEF BucketInv, BeginSwap, Kept, ObjectsOK
<1>7. r.body.nonce = net.nonce + 1 /\ Swaps(r) BY <1>3, <1>4 DEF Swaps, NoRoot
<1>8. SwapOK(r)'
  <2>1. Len(moves) \in Nat /\ DOMAIN moves = 1 .. Len(moves) BY DEF BucketInv, MovesOK
  <2>2. \A k \in DOMAIN moves : moves[k] # r.body.nonce BY <1>4, <1>7 DEF BucketInv, MovesOK
  <2>3. r.expected.nonce = NonceAt(r.at) BY <1>3 DEF BucketInv, MovesOK
  <2> QED BY <1>3, <1>4, <1>6, <1>7, <2>1, <2>2, <2>3 DEF SwapOK, Swaps, NonceAt
<1>9. ListOK(r)' BY <1>3 DEF ListOK
<1>10. PutOK(r) /\ r.body.nonce > net.nonce BY <1>3, <1>4, <1>7 DEF PutOK
<1> QED BY ONLY BucketInv, c \in Client, <1>2, <1>3, <1>4, <1>5, <1>6, <1>7, <1>8, <1>9, <1>10, Asks

\* A request goes on to another step, or is answered, with what it asked
\* for unchanged.
LEMMA Turns ==
  ASSUME BucketInv, NEW c \in Client, NEW x, NEW r, x = req[c], Ask(c, r), DOMAIN r = ReqFields,
         r.name = x.name, r.body = x.body, r.expected = x.expected, r.at = x.at, r.out = x.out, r.was = x.was,
         r.pc \in {"swap", "check"} => Swaps(x),
         r.pc \notin {"list", "put", "stat"}, r.pc # "done" => r.answer = "none", r.answer # "listed",
         Swaps(x) /\ r.answer = "ok" => x.at + 1 \in DOMAIN moves /\ moves[x.at + 1] = x.body.nonce,
         UNCHANGED <<objectsOnly, objects, root, moves>>,
         DOMAIN net' = NetFields, net'.nonce = net.nonce
  PROVE  BucketInv'
<1>1. ReqOK(x) /\ net'.nonce \in Nat /\ net'.nonce >= net.nonce BY DEF BucketInv
<1>2. Kept' = Kept /\ Kept \subseteq Kept' /\ ObjectsOK' BY DEF BucketInv, Kept, ObjectsOK
<1>3. SwapOK(r)' BY <1>1 DEF ReqOK, SwapOK, Swaps, NonceAt
<1>4. ListOK(r)' BY <1>1, <1>2 DEF ReqOK, ListOK
<1>5. PutOK(r) BY DEF PutOK
<1>6. Swaps(r) => (Swaps(req[c]) /\ r.body = req[c].body) \/ r.body.nonce > net.nonce BY DEF Swaps
<1>7. moves' = moves /\ root' = root /\ DOMAIN net' = NetFields /\ Ask(c, r) /\ DOMAIN r = ReqFields OBVIOUS
<1> QED BY ONLY BucketInv, c \in Client, <1>1, <1>2, <1>3, <1>4, <1>5, <1>6, <1>7, Asks

\* The root moves: the caller's nonce is new to it, and its caller read the
\* root that is there.
LEMMA RootMoves ==
  ASSUME BucketInv, NEW c \in Client, NEW r, Ask(c, r), DOMAIN r = ReqFields,
         req[c].pc = "swap", root = req[c].expected,
         root' = req[c].body, moves' = Append(moves, req[c].body.nonce),
         r.name = req[c].name, r.body = req[c].body, r.expected = req[c].expected, r.at = req[c].at,
         r.out = req[c].out, r.was = req[c].was, r.pc \in {"swap", "done"},
         r.pc # "done" => r.answer = "none", r.answer # "listed",
         UNCHANGED <<objectsOnly, objects>>, DOMAIN net' = NetFields, net'.nonce = net.nonce
  PROVE  BucketInv'
<1> USE DEF BucketInv
<1>1. PICK x : x = req[c] OBVIOUS
<1>2. ReqOK(x) /\ Swaps(x) /\ x.pc = "swap" BY <1>1 DEF ReqOK, SwapOK
<1>3. PICK L : L = Len(moves) OBVIOUS
<1>4. L \in Nat /\ DOMAIN moves = 1 .. L /\ moves \in Seq(Nat) BY <1>3 DEF MovesOK
<1>5. x.at \in 0 .. L /\ x.body.nonce \in 1 .. net.nonce /\ net.nonce \in Nat
  BY <1>2, <1>3 DEF ReqOK, SwapOK
<1>6. NonceAt(x.at) = NonceAt(L) BY <1>1, <1>2, <1>3 DEF ReqOK, SwapOK, MovesOK
<1>7. x.at = L
  <2>1. CASE x.at = 0
    <3>1. L # 0 => moves[L] \in 1 .. net.nonce BY <1>4 DEF MovesOK
    <3> QED BY <1>4, <1>6, <2>1, <3>1 DEF NonceAt
  <2>2. CASE x.at # 0 BY <1>4, <1>5, <1>6, <2>2 DEF NonceAt, MovesOK
  <2> QED BY <2>1, <2>2
<1>8. moves' \in Seq(Nat) /\ Len(moves') = L + 1 /\ DOMAIN moves' = 1 .. L + 1
        /\ moves'[L + 1] = x.body.nonce /\ \A k \in 1 .. L : moves'[k] = moves[k]
  <2>1. PICK k : k = x.body.nonce OBVIOUS
  <2>2. k \in Nat /\ moves' = Append(moves, k) BY <1>1, <1>5, <2>1
  <2>3. moves' \in Seq(Nat) /\ Len(moves') = Len(moves) + 1 /\ DOMAIN moves' = 1 .. Len(moves) + 1
          /\ moves'[Len(moves) + 1] = k /\ \A i \in 1 .. Len(moves) : moves'[i] = moves[i]
    BY ONLY <1>4, <2>2
  <2> QED BY ONLY <1>3, <2>1, <2>3
<1>9. \A k \in 1 .. L : moves[k] # x.body.nonce BY <1>2, <1>4, <1>7 DEF ReqOK, SwapOK
<1>10. MovesOK'
  <2>1. \A k \in DOMAIN moves' : moves'[k] \in 1 .. net'.nonce BY <1>4, <1>5, <1>8 DEF MovesOK
  <2>2. \A j, k \in DOMAIN moves' : j # k => moves'[j] # moves'[k] BY <1>4, <1>8, <1>9 DEF MovesOK
  <2>3. root'.nonce = NonceAt(Len(moves))' BY <1>1, <1>4, <1>8 DEF NonceAt
  <2> QED BY <1>8, <2>1, <2>2, <2>3 DEF MovesOK
<1>11. \A k \in 0 .. L : NonceAt(k)' = NonceAt(k) BY <1>4, <1>8 DEF NonceAt
<1>12. ObjectsOK' /\ Kept' = Kept BY DEF ObjectsOK, Kept
<1>13. req' = [d \in Client |-> req'[d]] /\ req'[c] = r /\ \A d \in Client \ {c} : req'[d] = req[d] BY DEF Ask
<1>14. ReqOK(r)'
  <2>1. SwapOK(r)' BY <1>1, <1>2, <1>4, <1>5, <1>7, <1>8, <1>9, <1>11 DEF ReqOK, SwapOK, Swaps
  <2>2. ListOK(r)' BY <1>1, <1>2, <1>12 DEF ReqOK, ListOK
  <2>3. PutOK(r)' BY DEF PutOK
  <2> QED BY <2>1, <2>2, <2>3 DEF ReqOK
<1>15. ASSUME NEW d \in Client, d # c PROVE ReqOK(req[d])'
  <2>1. PICK y : y = req[d] OBVIOUS
  <2>2. ReqOK(y) BY <2>1
  <2>3. Swaps(y) => y.body.nonce # x.body.nonce BY <1>1, <1>2, <1>15, <2>1 DEF Apart
  <2>4. SwapOK(y)'
    <3>1. SwapOK(y) BY <2>2 DEF ReqOK
    <3>2. y.pc \in {"swap", "check"} => Swaps(y) BY <3>1 DEF SwapOK
    <3> SUFFICES ASSUME Swaps(y)
                 PROVE  /\ y.body.nonce \in 1 .. net'.nonce /\ y.at \in 0 .. Len(moves')
                        /\ y.expected.nonce = NonceAt(y.at)'
                        /\ \A k \in DOMAIN moves' : moves'[k] = y.body.nonce => k = y.at + 1
                        /\ y.answer = "ok" => y.at + 1 \in DOMAIN moves' /\ moves'[y.at + 1] = y.body.nonce
      BY <3>2 DEF SwapOK, Swaps
    <3>3. y.body.nonce \in 1 .. net'.nonce /\ y.at \in 0 .. L /\ y.expected.nonce = NonceAt(y.at)
      BY <1>3, <3>1 DEF SwapOK
    <3>4. \A k \in DOMAIN moves' : moves'[k] = y.body.nonce => k = y.at + 1
      BY <1>4, <1>8, <2>3, <3>1 DEF SwapOK
    <3>5. y.answer = "ok" => y.at + 1 \in DOMAIN moves' /\ moves'[y.at + 1] = y.body.nonce
      BY <1>4, <1>8, <3>1 DEF SwapOK
    <3> QED BY <1>4, <1>8, <1>11, <3>3, <3>4, <3>5
  <2>5. ListOK(y)' BY <1>12, <2>2 DEF ReqOK, ListOK
  <2>6. ReqOK(y)' BY <2>2, <2>4, <2>5 DEF ReqOK, PutOK
  <2> QED BY <1>13, <1>15, <2>1, <2>6
<1>16. \A d \in Client : ReqOK(req[d])' BY <1>13, <1>14, <1>15
<1>17. Apart'
  <2>1. \A d \in Client : req'[d].body = req[d].body BY <1>13
  <2> QED BY <2>1 DEF Apart, Swaps
<1> QED BY <1>10, <1>12, <1>13, <1>16, <1>17

\* The conditional write of the root lands, is refused, or is to be tried again.
LEMMA PutRootStep == ASSUME BucketInv, NEW c \in Client, PutRoot(c) PROVE BucketInv'
<1>0. DOMAIN net' = NetFields /\ net'.nonce = net.nonce /\ UNCHANGED <<objectsOnly, objects>>
  BY DEF BucketInv, PutRoot, Lost, NetFields
<1>1. PICK x : x = req[c] OBVIOUS
<1>2. ReqOK(x) /\ x.pc = "swap" /\ DOMAIN x = ReqFields /\ Swaps(x) /\ x.answer = "none"
  BY <1>1 DEF BucketInv, PutRoot, ReqOK, SwapOK, ListOK
<1>3. CASE /\ root = x.expected /\ root' = x.body /\ moves' = Append(moves, x.body.nonce)
           /\ Ask(c, [x EXCEPT !.pc = "done", !.answer = "ok"]) \/ UNCHANGED req
  <2>1. PICK r : Ask(c, r) /\ (r = [x EXCEPT !.pc = "done", !.answer = "ok"] \/ r = x)
    <3>1. req = [req EXCEPT ![c] = x] BY <1>1 DEF BucketInv
    <3>2. UNCHANGED req => Ask(c, x) BY <3>1 DEF Ask
    <3> QED BY <1>3, <3>2
  <2>2. DOMAIN r = ReqFields /\ r.name = x.name /\ r.body = x.body /\ r.expected = x.expected /\ r.at = x.at
          /\ r.out = x.out /\ r.was = x.was /\ r.pc \in {"swap", "done"} /\ r.answer # "listed"
          /\ (r.pc # "done" => r.answer = "none") BY Zenon, <1>2, <2>1 DEF ReqFields
  <2> QED BY <1>0, <1>1, <1>2, <1>3, <2>1, <2>2, RootMoves
<1>4. CASE /\ UNCHANGED <<root, moves>>
           /\ \/ Ask(c, [x EXCEPT !.pc = "check"])
              \/ Ask(c, [x EXCEPT !.retries = @ + 1])
  <2>1. PICK r : Ask(c, r) /\ (r = [x EXCEPT !.pc = "check"] \/ r = [x EXCEPT !.retries = @ + 1])
    BY <1>4
  <2>2. DOMAIN r = ReqFields /\ r.name = x.name /\ r.body = x.body /\ r.expected = x.expected /\ r.at = x.at
          /\ r.out = x.out /\ r.was = x.was /\ r.pc \in {"swap", "check"} /\ r.answer = "none"
    BY <1>2, <2>1 DEF ReqFields
  <2> QED BY <1>0, <1>1, <1>2, <1>4, <2>1, <2>2, Turns
<1> QED BY <1>1, <1>3, <1>4 DEF PutRoot, SwapAnswer, Version

\* A refused swap looks whether the root is its own.
LEMMA CheckRootStep == ASSUME BucketInv, NEW c \in Client, CheckRoot(c) PROVE BucketInv'
<1>0. DOMAIN net' = NetFields /\ net'.nonce = net.nonce /\ UNCHANGED <<objectsOnly, objects, root, moves>>
  BY DEF BucketInv, CheckRoot, Lost, NetFields
<1>1. PICK x : x = req[c] OBVIOUS
<1>2. ReqOK(x) /\ x.pc = "check" /\ DOMAIN x = ReqFields /\ Swaps(x)
  BY <1>1 DEF BucketInv, CheckRoot, ReqOK, SwapOK
<1>3. PICK answer : answer \in {"ok", "conflict"} /\ Ask(c, [x EXCEPT !.pc = "done", !.answer = answer])
                      /\ (answer = "ok" => root = x.body)
  <2>1. \/ Ask(c, [x EXCEPT !.pc = "done", !.answer = IF Same(root, x.body) THEN "ok" ELSE "conflict"])
        \/ Ask(c, [x EXCEPT !.pc = "done", !.answer = "conflict"])
    BY <1>1 DEF CheckRoot, SwapAnswer
  <2>2. CASE root = x.body /\ Ask(c, [x EXCEPT !.pc = "done", !.answer = "ok"]) BY Zenon, <2>2
  <2>3. CASE Ask(c, [x EXCEPT !.pc = "done", !.answer = "conflict"])
    <3>1. "conflict" \in {"ok", "conflict"} /\ ("conflict" = "ok" => root = x.body) OBVIOUS
    <3> QED BY Zenon, <2>3, <3>1
  <2> QED BY Zenon, <2>1, <2>2, <2>3 DEF Same
<1>4. PICK r : r = [x EXCEPT !.pc = "done", !.answer = answer] OBVIOUS
<1>5. DOMAIN r = ReqFields /\ r.name = x.name /\ r.body = x.body /\ r.expected = x.expected /\ r.at = x.at
        /\ r.out = x.out /\ r.was = x.was /\ r.pc = "done" /\ r.answer = answer
  BY <1>2, <1>4 DEF ReqFields
<1>6. answer = "ok" => x.at + 1 \in DOMAIN moves /\ moves[x.at + 1] = x.body.nonce
  <2>1. SUFFICES ASSUME root = x.body PROVE x.at + 1 \in DOMAIN moves /\ moves[x.at + 1] = x.body.nonce BY <1>3
  <2>2. Len(moves) \in Nat /\ DOMAIN moves = 1 .. Len(moves) BY DEF BucketInv, MovesOK
  <2>3. NonceAt(Len(moves)) = x.body.nonce /\ x.body.nonce >= 1
    BY <1>2, <2>1 DEF BucketInv, MovesOK, ReqOK, SwapOK
  <2>4. Len(moves) \in DOMAIN moves /\ moves[Len(moves)] = x.body.nonce BY <2>2, <2>3 DEF NonceAt
  <2>5. Len(moves) = x.at + 1 BY <1>2, <2>4 DEF ReqOK, SwapOK
  <2> QED BY <2>4, <2>5
<1>7. Ask(c, r) BY <1>3, <1>4
<1> QED BY <1>0, <1>1, <1>2, <1>3, <1>5, <1>6, <1>7, Turns

\* A call gives up.
LEMMA GiveUpStep == ASSUME BucketInv, NEW c \in Client, GiveUp(c) PROVE BucketInv'
<1>0. DOMAIN net' = NetFields /\ net'.nonce = net.nonce /\ UNCHANGED <<objectsOnly, objects, root, moves>>
  BY DEF BucketInv, GiveUp, Lost, NetFields
<1>1. PICK x : x = req[c] OBVIOUS
<1>2. DOMAIN x = ReqFields BY <1>1 DEF BucketInv, ReqOK
<1>3. PICK r : r = [x EXCEPT !.pc = "done", !.answer = "error"] OBVIOUS
<1>4. DOMAIN r = ReqFields /\ r.name = x.name /\ r.body = x.body /\ r.expected = x.expected /\ r.at = x.at
        /\ r.out = x.out /\ r.was = x.was /\ r.pc = "done" /\ r.answer = "error"
  BY <1>2, <1>3 DEF ReqFields
<1>5. Ask(c, r) BY <1>1, <1>3 DEF GiveUp
<1> QED BY <1>0, <1>1, <1>4, <1>5, Turns

\* A call returns.
LEMMA ReturnStep == ASSUME BucketInv, NEW c \in Client, Answered(c) PROVE BucketInv'
<1>1. PICK r : r = NoReq OBVIOUS
<1>2. Ask(c, r) BY <1>1 DEF Answered, Ask
<1>3. DOMAIN r = ReqFields /\ r.body = NoRoot /\ r.pc = "idle" /\ r.was = {} /\ r.answer = "none"
  BY <1>1 DEF NoReq, ReqFields
<1>4. SwapOK(r)' /\ ListOK(r)' BY <1>3 DEF SwapOK, ListOK, Swaps
<1>5. PutOK(r) /\ ~Swaps(r) BY <1>3 DEF PutOK, Swaps
<1>6. DOMAIN net' = NetFields /\ net'.nonce \in Nat /\ net'.nonce >= net.nonce BY DEF BucketInv, Answered
<1>7. moves' = moves /\ root' = root /\ Kept \subseteq Kept' /\ ObjectsOK'
  BY DEF BucketInv, Answered, Kept, ObjectsOK
<1> QED BY ONLY BucketInv, c \in Client, <1>2, <1>3, <1>4, <1>5, <1>6, <1>7, Asks

\* A Delete.
LEMMA DeleteStep == ASSUME BucketInv, NEW c \in Client, NEW n \in Object, DeleteObject(c, n) PROVE BucketInv'
<1>1. DOMAIN net' = NetFields /\ net'.nonce \in Nat /\ net'.nonce >= net.nonce
  BY DEF BucketInv, DeleteObject, Request, NetFields
<1> QED BY <1>1, EraseStep DEF DeleteObject

\* The bucket's actions keep the invariant.
LEMMA BucketStep == ASSUME BucketInv, BucketNext PROVE BucketInv'
<1>1. PICK c \in Client :
        \/ \E n \in Object : BeginPut(c, n) \/ DeleteObject(c, n)
        \/ \E after \in Object \cup {0} : BeginList(c, after)
        \/ \E v \in Value : BeginSwap(c, v)
        \/ Stat(c) \/ PutObject(c) \/ ListPage(c) \/ PutRoot(c) \/ CheckRoot(c)
        \/ GiveUp(c) \/ Answered(c)
  BY DEF BucketNext
<1>2. ASSUME NEW n \in Object, BeginPut(c, n) \/ DeleteObject(c, n) PROVE BucketInv' BY <1>2, BeginPutStep, DeleteStep
<1>3. ASSUME NEW after \in Object \cup {0}, BeginList(c, after) PROVE BucketInv' BY <1>3, BeginListStep
<1>4. ASSUME NEW v \in Value, BeginSwap(c, v) PROVE BucketInv' BY <1>4, BeginSwapStep
<1>5. CASE Stat(c) \/ PutObject(c) \/ ListPage(c) BY <1>5, StatStep, PutObjectStep, ListPageStep
<1>6. CASE PutRoot(c) \/ CheckRoot(c) BY <1>6, PutRootStep, CheckRootStep
<1>7. CASE GiveUp(c) \/ Answered(c) BY <1>7, GiveUpStep, ReturnStep
<1> QED BY <1>1, <1>2, <1>3, <1>4, <1>5, <1>6, <1>7

\* What the split store does to the network leaves the bucket's calls alone.
LEMMA SplitLeaves ==
  ASSUME BucketInv, MirrorNext
  PROVE  UNCHANGED <<objectsOnly, objects, root, moves, req>> /\ DOMAIN net' = NetFields /\ net'.nonce = net.nonce
<1> USE DEF BucketInv, Bucketed, NetFields
<1>1. \A value, ok : Write(value, ok) => DOMAIN net' = NetFields /\ net'.nonce = net.nonce BY DEF Write, Lost
<1>2. ASSUME NEW c \in Client, NEW v, BeginSplit(c, v)
      PROVE UNCHANGED <<objectsOnly, objects, root, moves, req>> /\ DOMAIN net' = NetFields /\ net'.nonce = net.nonce
  BY <1>2 DEF BeginSplit
<1>3. ASSUME NEW c \in Client, SplitSwap(c) \/ Pend(c) \/ SplitRecord(c)
      PROVE UNCHANGED <<objectsOnly, objects, root, moves, req>> /\ DOMAIN net' = NetFields /\ net'.nonce = net.nonce
  BY <1>3 DEF SplitSwap, Pend, SplitRecord
<1>4. ASSUME NEW c \in Client, SplitCopy(c)
      PROVE UNCHANGED <<objectsOnly, objects, root, moves, req>> /\ DOMAIN net' = NetFields /\ net'.nonce = net.nonce
  BY <1>1, <1>4 DEF SplitCopy
<1>5. CASE Take \/ Wake \/ WriterRecord \/ Retry \/ Stop \/ Close
  BY <1>5 DEF Take, Wake, WriterRecord, Retry, Stop, Close
<1>6. CASE WriterCopy \/ Flush BY Zenon, <1>1, <1>6 DEF WriterCopy, Flush
<1>7. ASSUME NEW lost, Reopen(lost)
      PROVE UNCHANGED <<objectsOnly, objects, root, moves, req>> /\ DOMAIN net' = NetFields /\ net'.nonce = net.nonce
  BY <1>7 DEF Reopen
<1> QED BY <1>2, <1>3, <1>4, <1>5, <1>6, <1>7 DEF MirrorNext
============================================================================
