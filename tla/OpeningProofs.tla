---------------------------- MODULE OpeningProofs ----------------------------
(***************************************************************************)
(* A store is opened as it was made, for any callers, keys and ids: the    *)
(* inductive invariant, one lemma per step of Init and Open, and the       *)
(* theorems.                                                               *)
(***************************************************************************)
EXTENDS Opening, WellFoundedInduction, TLAPS

\* What a config may be: an Init's, or none.
Configs == [id : RepoId \cup {0}, key : {KeyOf[p] : p \in Caller} \cup {""},
            geometry : {GeometryOf[p] : p \in Caller} \cup {0}]

Results == {"", "made", "opened", "exists", "manifest", "no repo", "wrong key", "stopped"}

Calls == [pc : {"idle", "put", "store", "claim", "swap", "probe"}, call : {"init", "open"},
          result : Results,
          config : Configs, begun : Configs, seen : SUBSET Configs, left : Nat]

OpenTypeOK ==
    /\ configs \subseteq Configs /\ \A c \in configs : c.id \in RepoId
    /\ first \in Configs
    /\ caller \in [Caller -> Calls]

\* A repo id is one config's alone, and the root is a config's in the store.
IdsApart == \A c, d \in configs : c.id = d.id => c = d

RootConfig == first = Unset \/ first \in configs

\* A caller past its choice holds a config of its key that is in the store.
Holds(p) ==
    caller[p].pc \in {"store", "claim", "swap"} =>
      caller[p].config \in configs /\ caller[p].config.key = KeyOf[p]

\* An Open still probing has configs of its key to try, the root's among them
\* when the root was there before it began.
Probing(p) ==
    caller[p].pc = "probe" =>
      /\ caller[p].seen # {}
      /\ \A c \in caller[p].seen : c \in configs /\ c.key = KeyOf[p]

MadeBefore(p) ==
    caller[p].call = "open" /\ caller[p].begun # Unset /\ caller[p].begun.key = KeyOf[p]

FindsRoot(p) ==
    MadeBefore(p) => /\ caller[p].pc = "probe" => first \in caller[p].seen
                     /\ caller[p].pc = "store" => caller[p].config = first
                     /\ caller[p].pc \in {"idle", "probe", "store"}

\* A call under way has no result, and one begun with a root had this one.
InCall(p) ==
    /\ caller[p].pc # "idle" => caller[p].result = ""
    /\ caller[p].begun # Unset => caller[p].begun = first
    /\ caller[p].pc = "probe" => caller[p].call = "open"

\* What the properties say of one caller.
ResultSound(p) ==
    /\ caller[p].result \in {"made", "opened"} =>
         caller[p].config = first /\ first \in configs /\ first.key = KeyOf[p]
    /\ MadeBefore(p) => caller[p].result \in {"", "opened", "stopped"}
    /\ caller[p].call = "init" /\ caller[p].result = "exists" => first # Unset \/ Others(p)

Sound(p) == Holds(p) /\ Probing(p) /\ FindsRoot(p) /\ InCall(p) /\ ResultSound(p)

OpenInv == OpenTypeOK /\ IdsApart /\ RootConfig /\ \A p \in Caller : Sound(p)

----------------------------------------------------------------------------
\* The order of the naturals as a set of pairs.
Below == {ss \in Nat \X Nat : ss[1] < ss[2]}

(* Of some configs in the store one comes first by name (configs sorts).   *)
LEMMA FirstByName ==
  ASSUME OpenTypeOK, NEW cs, cs \subseteq configs, cs # {}
  PROVE  ByName(cs) \in cs
<1> DEFINE ids == {c.id : c \in cs}
<1>1. ids \subseteq Nat /\ ids # {}
  BY Zenon, RepoIdAssumption DEF OpenTypeOK
<1>2. IsWellFoundedOn(Below, Nat)
  BY NatLessThanWellFounded DEF OpToRel, Below
<1>3. PICK x \in ids : \A n \in ids : ~(<<n, x>> \in Below)
  BY <1>1, <1>2, WFMin, Zenon
<1>4. ASSUME NEW n \in ids PROVE x <= n
  <2>1. <<n, x>> \in Nat \X Nat /\ ~(<<n, x>> \in Below)
    BY <1>1, <1>3
  <2>2. ~(n < x)
    BY <2>1, Zenon DEF Below
  <2>3. QED
    BY <1>1, <2>2
<1>5. PICK c \in cs : c.id = x
  BY DEF ids
<1>6. \A d \in cs : c.id <= d.id
  BY <1>4, <1>5
<1>7. QED
  BY <1>6, Zenon DEF ByName

(* No config is the absence of one.                                        *)
LEMMA NoneUnset ==
  ASSUME OpenTypeOK
  PROVE  Unset \notin configs
BY Zenon, RepoIdAssumption DEF OpenTypeOK, Unset

(* A call that leaves the root, or is the first to swap it, and adds       *)
(* configs at most, disturbs no other caller.                              *)
LEMMA OthersSound ==
  ASSUME OpenInv, NEW q \in Caller, Sound(q),
         caller'[q] = caller[q], configs \subseteq configs', first' = first \/ first = Unset
  PROVE  Sound(q)'
<1>1. Unset \notin configs
  BY NoneUnset DEF OpenInv
<1>2. Holds(q)' /\ Probing(q)'
  BY DEF Sound, Holds, Probing
<1>3. InCall(q)' /\ (MadeBefore(q)' => MadeBefore(q) /\ first' = first)
  BY Zenon DEF Sound, InCall, MadeBefore
<1>4. FindsRoot(q)'
  BY <1>3 DEF Sound, FindsRoot
<1>5. caller[q].result \in {"made", "opened"} => first' = first
  BY Zenon, <1>1 DEF Sound, ResultSound
<1>6. first' # Unset \/ first' = first
  OBVIOUS
<1>7. ResultSound(q)'
  BY Zenon, <1>1, <1>3, <1>5 DEF Sound, ResultSound, Others, Ours
<1>8. QED
  BY <1>2, <1>3, <1>4, <1>7 DEF Sound

(* A step of p keeps the invariant when it keeps what is shared and leaves *)
(* p itself sound.                                                         *)
LEMMA StepSound ==
  ASSUME OpenInv, NEW p \in Caller, Sound(p)',
         OpenTypeOK', IdsApart', RootConfig',
         \A q \in Caller \ {p} : caller'[q] = caller[q],
         configs \subseteq configs', first' = first \/ first = Unset
  PROVE  OpenInv'
<1>1. ASSUME NEW q \in Caller PROVE Sound(q)'
  <2>1. CASE q = p
    BY <2>1
  <2>2. CASE q # p
    BY <2>2, OthersSound DEF OpenInv
  <2>3. QED
    BY <2>1, <2>2
<1>2. QED
  BY <1>1 DEF OpenInv

(* Init reads the configs and takes one, draws its own, or is refused.     *)
LEMMA InitReadsInv ==
  ASSUME OpenInv, NEW p \in Caller, InitReads(p)
  PROVE  OpenInv'
<1> DEFINE pc     == IF Refused(p) THEN "idle" ELSE IF Ours(p) # {} THEN "store" ELSE "put"
           result == IF Refused(p) THEN "exists" ELSE ""
           config == IF Ours(p) # {} THEN ByName(Ours(p)) ELSE Unset
           left   == caller[p].left - 1
           r      == [caller[p] EXCEPT !.left = left, !.call = "init", !.begun = first, !.seen = {},
                                       !.result = result, !.pc = pc, !.config = config]
<1>1. OpenTypeOK /\ caller[p] \in Calls
  BY DEF OpenInv, OpenTypeOK
<1>2. Ours(p) # {} => config \in Ours(p)
  BY <1>1, FirstByName DEF Ours
<1>3. Unset \in Configs /\ first \in Configs /\ configs \subseteq Configs /\ Ours(p) \subseteq configs
  BY Zenon, <1>1 DEF Unset, Configs, OpenTypeOK, Ours
<1>4. caller' = [caller EXCEPT ![p] = r] /\ UNCHANGED <<configs, first>>
  BY Zenon DEF InitReads
<1>14. left \in Nat
  <2>1. caller[p].left > 0
    BY Zenon DEF InitReads
  <2>2. caller[p].left \in Nat
    BY <1>1 DEF Calls
  <2>3. QED
    BY <2>1, <2>2
<1>5. /\ pc \in {"idle", "store", "put"} /\ result \in {"exists", ""} /\ config \in Configs
      /\ pc # "idle" => result = "" /\ (pc = "store" => config \in Ours(p))
      /\ result = "exists" => Others(p)
  BY <1>2, <1>3, Zenon DEF Refused
<1> HIDE DEF pc, result, config, left
<1>6. r \in Calls
  BY Zenon, <1>1, <1>3, <1>5, <1>14 DEF Calls, Results
<1>7. /\ r.pc = pc /\ r.result = result /\ r.config = config /\ r.call = "init" /\ r.begun = first
  BY <1>1 DEF Calls
<1>8. caller'[p] = r /\ caller' \in [Caller -> Calls] /\ \A q \in Caller \ {p} : caller'[q] = caller[q]
  BY <1>1, <1>4, <1>6 DEF OpenTypeOK
<1> HIDE DEF r
<1>9. OpenTypeOK' /\ IdsApart' /\ RootConfig'
  BY <1>1, <1>4, <1>8 DEF OpenTypeOK, OpenInv, IdsApart, RootConfig
<1>10. Sound(p)'
  BY Zenon, <1>3, <1>4, <1>5, <1>7, <1>8
     DEF Sound, Holds, Probing, FindsRoot, MadeBefore, InCall, ResultSound, Others, Ours
<1>11. QED
  BY <1>4, <1>8, <1>9, <1>10, StepSound

(* A config of its own, under an id no other has.                          *)
LEMMA PutConfigInv ==
  ASSUME OpenInv, NEW p \in Caller, NEW id \in RepoId, PutConfig(p, id)
  PROVE  OpenInv'
<1> DEFINE c == [id |-> id, key |-> KeyOf[p], geometry |-> GeometryOf[p]]
           r == [caller[p] EXCEPT !.pc = "store", !.config = c]
<1>1. OpenTypeOK /\ caller[p] \in Calls /\ Sound(p) /\ caller[p].pc = "put"
  BY DEF OpenInv, OpenTypeOK, PutConfig
<1>2. c \in Configs /\ c.id = id /\ c.key = KeyOf[p]
  BY Zenon DEF Configs
<1>3. caller' = [caller EXCEPT ![p].pc = "store", ![p].config = c]
  BY DEF PutConfig, Becomes
<1>4. configs' = configs \cup {c} /\ first' = first /\ \A d \in configs : d.id # id
  BY DEF PutConfig
<1> HIDE DEF c
<1>5. r \in Calls /\ r.pc = "store" /\ r.config = c /\ r.result = caller[p].result
      /\ r.call = caller[p].call /\ r.begun = caller[p].begun
  BY Zenon, <1>1, <1>2 DEF Calls
<1>6. caller'[p] = r /\ caller' \in [Caller -> Calls] /\ \A q \in Caller \ {p} : caller'[q] = caller[q]
  BY <1>1, <1>3, <1>5 DEF OpenTypeOK
<1> HIDE DEF r
<1>7. OpenTypeOK'
  BY <1>1, <1>2, <1>4, <1>6 DEF OpenTypeOK
<1>8. IdsApart' /\ RootConfig'
  BY <1>1, <1>2, <1>4 DEF OpenInv, IdsApart, RootConfig
<1>9. ~MadeBefore(p)
  BY <1>1 DEF Sound, FindsRoot
<1>10. Sound(p)'
  BY Zenon, <1>1, <1>2, <1>4, <1>5, <1>6, <1>9
     DEF Sound, Holds, Probing, FindsRoot, MadeBefore, InCall, ResultSound
<1>11. QED
  BY <1>4, <1>6, <1>7, <1>8, <1>10, StepSound

(* A step that changes p's call alone keeps the invariant when it leaves p *)
(* sound.                                                                  *)
LEMMA CallSound ==
  ASSUME OpenInv, NEW p \in Caller, NEW r \in Calls, caller' = [caller EXCEPT ![p] = r],
         UNCHANGED <<configs, first>>, Sound(p)'
  PROVE  OpenInv'
<1>1. caller' \in [Caller -> Calls] /\ \A q \in Caller \ {p} : caller'[q] = caller[q]
  BY DEF OpenInv, OpenTypeOK
<1>2. OpenTypeOK' /\ IdsApart' /\ RootConfig'
  BY <1>1 DEF OpenTypeOK, OpenInv, IdsApart, RootConfig
<1>3. QED
  BY <1>1, <1>2, StepSound

(* What Returns leaves of a call.                                          *)
LEMMA ReturnsRec ==
  ASSUME OpenInv, NEW p \in Caller, NEW c \in Configs,
         NEW res \in Results, Returns(p, res, c)
  PROVE  \E r \in Calls : /\ caller' = [caller EXCEPT ![p] = r] /\ caller'[p] = r
                          /\ r.pc = "idle" /\ r.result = res /\ r.config = c
                          /\ r.call = caller[p].call /\ r.begun = caller[p].begun
<1> DEFINE r == [caller[p] EXCEPT !.pc = "idle", !.result = res, !.config = c]
<1>1. caller \in [Caller -> Calls] /\ caller[p] \in Calls
  BY DEF OpenInv, OpenTypeOK
<1>2. r \in Calls /\ r.pc = "idle" /\ r.result = res /\ r.config = c
      /\ r.call = caller[p].call /\ r.begun = caller[p].begun
  BY Zenon, <1>1 DEF Calls
<1>3. caller' = [caller EXCEPT ![p] = r] /\ caller'[p] = r
  BY Zenon, <1>1 DEF Returns
<1>4. QED
  BY Zenon, <1>2, <1>3

(* And Becomes, of one that goes on.                                       *)
LEMMA BecomesRec ==
  ASSUME OpenInv, NEW p \in Caller, NEW c \in Configs, NEW pc \in {"store", "claim", "swap"},
         Becomes(p, pc, c)
  PROVE  \E r \in Calls : /\ caller' = [caller EXCEPT ![p] = r] /\ caller'[p] = r
                          /\ r.pc = pc /\ r.config = c /\ r.result = caller[p].result
                          /\ r.call = caller[p].call /\ r.begun = caller[p].begun
<1> DEFINE r == [caller[p] EXCEPT !.pc = pc, !.config = c]
<1>1. caller \in [Caller -> Calls] /\ caller[p] \in Calls
  BY DEF OpenInv, OpenTypeOK
<1>2. r \in Calls /\ r.pc = pc /\ r.config = c /\ r.result = caller[p].result
      /\ r.call = caller[p].call /\ r.begun = caller[p].begun
  BY Zenon, <1>1 DEF Calls
<1>3. caller' = [caller EXCEPT ![p] = r] /\ caller'[p] = r
  BY Zenon, <1>1 DEF Becomes
<1>4. QED
  BY Zenon, <1>2, <1>3

(* What is used of a caller in every step below.                           *)
LEMMA CallerFacts ==
  ASSUME OpenInv, NEW p \in Caller
  PROVE  /\ OpenTypeOK /\ IdsApart /\ RootConfig /\ Sound(p)
         /\ caller[p] \in Calls /\ caller[p].config \in Configs /\ Unset \in Configs
         /\ Unset \notin configs
BY Zenon, NoneUnset DEF OpenInv, OpenTypeOK, Calls, Unset, Configs

(* And Fails.                                                              *)
LEMMA FailsRec ==
  ASSUME OpenInv, NEW p \in Caller, NEW res \in Results, Fails(p, res)
  PROVE  \E r \in Calls : /\ caller' = [caller EXCEPT ![p] = r] /\ caller'[p] = r
                          /\ r.pc = "idle" /\ r.result = res /\ r.config = Unset
                          /\ r.call = caller[p].call /\ r.begun = caller[p].begun
<1>1. Unset \in Configs /\ Returns(p, res, Unset)
  BY CallerFacts DEF Fails
<1>2. QED
  BY <1>1, ReturnsRec

(* A call that fails before it finished.                                   *)
LEMMA FailsInv ==
  ASSUME OpenInv, NEW p \in Caller,
         NEW res \in {"exists", "manifest", "no repo", "wrong key", "stopped"},
         Fails(p, res), UNCHANGED <<configs, first>>,
         MadeBefore(p) => res = "stopped",
         caller[p].call = "init" /\ res = "exists" => first # Unset
  PROVE  OpenInv'
<1>1. PICK r \in Calls : /\ caller' = [caller EXCEPT ![p] = r] /\ caller'[p] = r
                         /\ r.pc = "idle" /\ r.result = res /\ r.config = Unset
                         /\ r.call = caller[p].call /\ r.begun = caller[p].begun
  <2>1. res \in Results
    BY Zenon DEF Results
  <2>2. QED
    BY Zenon, <2>1, FailsRec
<1>2. InCall(p)
  BY Zenon, CallerFacts DEF Sound
<1>3. Holds(p)' /\ Probing(p)' /\ FindsRoot(p)' /\ InCall(p)'
  BY Zenon, <1>1, <1>2 DEF Holds, Probing, FindsRoot, InCall
<1>4. ResultSound(p)'
  BY Zenon, <1>1 DEF MadeBefore, ResultSound
<1>5. QED
  BY Zenon, <1>1, <1>3, <1>4, CallSound DEF Sound

(* packstore.Open in Init.                                                 *)
LEMMA InitOpensInv ==
  ASSUME OpenInv, NEW p \in Caller, InitOpens(p)
  PROVE  OpenInv'
<1>1. CASE Authenticates(caller[p].config)
  <2>1. Becomes(p, "claim", caller[p].config) /\ UNCHANGED <<configs, first>>
        /\ caller[p].pc = "store" /\ caller[p].call = "init"
    BY <1>1 DEF InitOpens
  <2>2. PICK r \in Calls : /\ caller' = [caller EXCEPT ![p] = r] /\ caller'[p] = r
                         /\ r.pc = "claim" /\ r.config = caller[p].config
                         /\ r.result = caller[p].result
                         /\ r.call = caller[p].call /\ r.begun = caller[p].begun
    BY <2>1, CallerFacts, BecomesRec
  <2>3. Holds(p) /\ InCall(p) /\ caller'[p].call = "init" /\ configs' = configs /\ first' = first
    BY <2>1, <2>2, CallerFacts DEF Sound
  <2>4. Sound(p)'
    BY Zenon, <2>1, <2>2, <2>3
       DEF Sound, Holds, Probing, FindsRoot, MadeBefore, InCall, ResultSound
  <2>5. QED
    BY Zenon, <2>1, <2>2, <2>4, CallSound
<1>2. CASE ~Authenticates(caller[p].config)
  <2>1. Fails(p, "exists") /\ UNCHANGED <<configs, first>> /\ first # Unset /\ caller[p].call = "init"
    BY <1>2 DEF InitOpens, Authenticates
  <2>2. QED
    BY Zenon, <2>1, FailsInv DEF MadeBefore
<1>3. QED
  BY <1>1, <1>2

(* The root read again by vcs.Init.                                        *)
LEMMA InitChecksInv ==
  ASSUME OpenInv, NEW p \in Caller, InitChecks(p)
  PROVE  OpenInv'
<1>1. caller[p].pc = "claim" /\ UNCHANGED <<configs, first>> /\ ~MadeBefore(p)
  BY CallerFacts DEF InitChecks, Sound, FindsRoot
<1>2. CASE first = Unset
  <2>1. Becomes(p, "swap", caller[p].config)
    BY <1>2 DEF InitChecks
  <2>2. PICK r \in Calls : /\ caller' = [caller EXCEPT ![p] = r] /\ caller'[p] = r
                         /\ r.pc = "swap" /\ r.config = caller[p].config
                         /\ r.result = caller[p].result
                         /\ r.call = caller[p].call /\ r.begun = caller[p].begun
    BY <2>1, CallerFacts, BecomesRec
  <2>3. Holds(p) /\ InCall(p) /\ ~MadeBefore(p)' /\ configs' = configs /\ first' = first
    BY <1>1, <2>2, CallerFacts DEF Sound, MadeBefore
  <2>4. Sound(p)'
    BY Zenon, <1>1, <2>2, <2>3
       DEF Sound, Holds, Probing, FindsRoot, InCall, ResultSound
  <2>5. QED
    BY Zenon, <1>1, <2>2, <2>4, CallSound
<1>3. CASE first # Unset
  <2>1. PICK res \in {"exists", "manifest"} : Fails(p, res)
    BY <1>3 DEF InitChecks
  <2>2. QED
    BY Zenon, <1>1, <1>3, <2>1, FailsInv
<1>4. QED
  BY <1>2, <1>3

(* The first swap of the root, or one that comes late.                     *)
LEMMA InitSwapsInv ==
  ASSUME OpenInv, NEW p \in Caller, InitSwaps(p)
  PROVE  OpenInv'
<1>1. caller[p].pc = "swap" /\ configs' = configs /\ ~MadeBefore(p)
  BY CallerFacts DEF InitSwaps, Sound, FindsRoot
<1>2. CASE first = Unset
  <2>1. first' = caller[p].config /\ Returns(p, "made", caller[p].config)
    BY <1>2 DEF InitSwaps
  <2>2. PICK r \in Calls : /\ caller' = [caller EXCEPT ![p] = r] /\ caller'[p] = r
                         /\ r.pc = "idle" /\ r.result = "made" /\ r.config = caller[p].config
                         /\ r.call = caller[p].call /\ r.begun = caller[p].begun
    <3>1. caller[p].config \in Configs
      BY CallerFacts
    <3>2. "made" \in Results
      BY DEF Results
    <3>3. QED
      BY <2>1, <3>1, <3>2, ReturnsRec
  <2>3. first' \in configs /\ first' \in Configs /\ first'.key = KeyOf[p]
    BY <1>1, <2>1, CallerFacts DEF Sound, Holds
  <2>4. caller' \in [Caller -> Calls] /\ \A q \in Caller \ {p} : caller'[q] = caller[q]
    BY <2>2 DEF OpenInv, OpenTypeOK
  <2>5. OpenTypeOK' /\ IdsApart' /\ RootConfig'
    BY <1>1, <2>3, <2>4, CallerFacts DEF OpenTypeOK, IdsApart, RootConfig
  <2>6. caller[p].begun = Unset
    BY Zenon, <1>2, CallerFacts DEF Sound, InCall
  <2>7. Sound(p)'
    BY Zenon, <1>1, <2>1, <2>2, <2>3, <2>6
       DEF Sound, Holds, Probing, FindsRoot, MadeBefore, InCall, ResultSound
  <2>8. QED
    BY <1>1, <1>2, <2>4, <2>5, <2>7, StepSound
<1>3. CASE first # Unset
  <2>1. UNCHANGED <<configs, first>> /\ \E res \in {"exists", "manifest"} : Fails(p, res)
    BY <1>1, <1>3 DEF InitSwaps
  <2>2. PICK res \in {"exists", "manifest"} : Fails(p, res)
    BY <2>1
  <2>3. QED
    BY Zenon, <1>1, <1>3, <2>1, <2>2, FailsInv
<1>4. QED
  BY <1>2, <1>3

(* Open reads the configs of its key.                                      *)
LEMMA OpenReadsInv ==
  ASSUME OpenInv, NEW p \in Caller, OpenReads(p)
  PROVE  OpenInv'
<1> DEFINE pc     == IF Ours(p) = {} THEN "idle" ELSE "probe"
           result == IF Ours(p) # {} THEN "" ELSE IF Others(p) THEN "wrong key" ELSE "no repo"
           left   == caller[p].left - 1
           seen   == Ours(p)
           r      == [caller[p] EXCEPT !.left = left, !.call = "open", !.begun = first, !.seen = seen,
                                       !.config = Unset, !.pc = pc, !.result = result]
<1>1. OpenTypeOK /\ RootConfig /\ caller[p] \in Calls /\ Unset \in Configs
  BY CallerFacts
<1>2. first \in Configs /\ seen \subseteq configs /\ seen \subseteq Configs
      /\ \A c \in seen : c.key = KeyOf[p]
  BY <1>1 DEF OpenTypeOK, Ours
<1>3. caller' = [caller EXCEPT ![p] = r] /\ UNCHANGED <<configs, first>>
  BY Zenon DEF OpenReads
<1>4. left \in Nat
  <2>1. caller[p].left > 0
    BY Zenon DEF OpenReads
  <2>2. caller[p].left \in Nat
    BY <1>1 DEF Calls
  <2>3. QED
    BY <2>1, <2>2
<1>5. /\ pc \in {"idle", "probe"} /\ result \in Results
      /\ result \in {"", "wrong key", "no repo"}
      /\ seen # {} => pc = "probe" /\ result = ""
      /\ seen = {} => pc = "idle"
  BY Zenon DEF Results
<1>6. first # Unset /\ first.key = KeyOf[p] => first \in seen
  BY <1>1 DEF RootConfig, Ours
<1> HIDE DEF pc, result, left, seen
<1>7. r \in Calls
  BY Zenon, <1>1, <1>2, <1>4, <1>5 DEF Calls
<1>8. /\ r.pc = pc /\ r.result = result /\ r.call = "open" /\ r.begun = first
      /\ r.seen = seen
  BY <1>1 DEF Calls
<1>9. caller'[p] = r
  BY <1>1, <1>3 DEF OpenTypeOK
<1> HIDE DEF r
<1>10. Sound(p)'
  BY Zenon, <1>2, <1>3, <1>5, <1>6, <1>8, <1>9
     DEF Sound, Holds, Probing, FindsRoot, MadeBefore, InCall, ResultSound
<1>11. QED
  BY Zenon, <1>3, <1>7, <1>10, CallSound

(* One config of the key tried against the root (current).                 *)
LEMMA ProbeInv ==
  ASSUME OpenInv, NEW p \in Caller, Probe(p)
  PROVE  OpenInv'
<1> DEFINE seen == caller[p].seen
           c    == ByName(seen)
<1>1. /\ OpenTypeOK /\ IdsApart /\ caller[p] \in Calls
      /\ Holds(p) /\ Probing(p) /\ FindsRoot(p) /\ InCall(p) /\ Unset \notin configs
  BY CallerFacts DEF Sound
<1>2. caller[p].pc = "probe" /\ UNCHANGED <<configs, first>> /\ caller[p].call = "open"
      /\ caller[p].result = ""
  BY Zenon, <1>1 DEF Probe, InCall
<1>3. seen # {} /\ seen \subseteq configs /\ \A d \in seen : d.key = KeyOf[p]
  BY Zenon, <1>1, <1>2 DEF Probing
<1>4. c \in seen
  BY <1>1, <1>3, FirstByName
<1>5. MadeBefore(p) => first \in seen
  BY Zenon, <1>1, <1>2 DEF FindsRoot
<1>6. MadeBefore(p) => (Probed(c) <=> c = first)
  <2>1. MadeBefore(p) => first # Unset
    BY <1>1, <1>3, <1>5
  <2>2. \A d \in seen : d.id = first.id /\ first \in seen => d = first
    BY <1>1, <1>3 DEF IdsApart
  <2>3. QED
    BY <1>4, <1>5, <2>1, <2>2 DEF Probed, Authenticates
<1>7. CASE Probed(c)
  <2>1. Becomes(p, "store", c) /\ c \in Configs
    BY Zenon, <1>1, <1>2, <1>3, <1>4, <1>7 DEF Probe, OpenTypeOK
  <2>2. PICK r \in Calls : /\ caller' = [caller EXCEPT ![p] = r] /\ caller'[p] = r
                         /\ r.pc = "store" /\ r.config = c
                         /\ r.result = caller[p].result
                         /\ r.call = caller[p].call /\ r.begun = caller[p].begun
    BY <2>1, BecomesRec
  <2>3. c \in configs /\ c.key = KeyOf[p] /\ (MadeBefore(p)' => c = first)
        /\ (MadeBefore(p)' <=> MadeBefore(p))
    BY <1>3, <1>4, <1>6, <1>7, <2>2 DEF MadeBefore
  <2> HIDE DEF c
  <2>4. Holds(p)' /\ Probing(p)' /\ FindsRoot(p)' /\ InCall(p)'
    <3>1. caller'[p].pc = "store" /\ caller'[p].config = c /\ caller'[p].call = "open"
          /\ caller'[p].result = "" /\ caller'[p].begun = caller[p].begun
      BY Zenon, <1>2, <2>2
    <3>2. Holds(p)' /\ Probing(p)'
      BY Zenon, <1>2, <2>3, <3>1 DEF Holds, Probing
    <3>3. FindsRoot(p)'
      BY Zenon, <1>2, <2>3, <3>1 DEF FindsRoot, MadeBefore
    <3>4. InCall(p)'
      BY Zenon, <1>1, <1>2, <3>1 DEF InCall
    <3>5. QED
      BY <3>2, <3>3, <3>4
  <2>5. ResultSound(p)'
    BY Zenon, <1>2, <2>2 DEF ResultSound
  <2>6. QED
    BY Zenon, <1>2, <2>2, <2>4, <2>5, CallSound DEF Sound
<1>8. CASE ~Probed(c) /\ seen = {c}
  <2>1. Fails(p, "wrong key")
    BY Zenon, <1>8 DEF Probe
  <2>2. ~MadeBefore(p)
    BY <1>5, <1>6, <1>8
  <2>3. QED
    BY Zenon, <1>2, <2>1, <2>2, FailsInv
<1>9. CASE ~Probed(c) /\ seen # {c}
  <2> DEFINE r == [caller[p] EXCEPT !.seen = seen \ {c}]
  <2>1. caller' = [caller EXCEPT ![p].seen = @ \ {c}]
    BY <1>9 DEF Probe
  <2>2. r \in Calls /\ r.pc = caller[p].pc /\ r.call = caller[p].call /\ r.result = caller[p].result
        /\ r.begun = caller[p].begun /\ r.config = caller[p].config /\ r.seen = seen \ {c}
    BY <1>1 DEF Calls
  <2>3. caller' = [caller EXCEPT ![p] = r] /\ caller'[p] = r
    BY <1>1, <2>1 DEF OpenTypeOK
  <2>4. seen \ {c} # {} /\ (MadeBefore(p) => first \in seen \ {c})
        /\ (MadeBefore(p)' <=> MadeBefore(p))
    BY <1>4, <1>5, <1>6, <1>9, <2>2, <2>3 DEF MadeBefore
  <2> HIDE DEF r
  <2>5. Sound(p)'
    BY Zenon, <1>1, <1>2, <1>3, <2>2, <2>3, <2>4
       DEF Sound, Holds, Probing, FindsRoot, InCall, ResultSound
  <2>6. QED
    BY Zenon, <1>2, <2>2, <2>3, <2>5, CallSound
<1>10. QED
  BY <1>7, <1>8, <1>9

(* The store opened under the config chosen, and the repository with it.   *)
LEMMA OpenOpensInv ==
  ASSUME OpenInv, NEW p \in Caller, OpenOpens(p)
  PROVE  OpenInv'
<1> DEFINE c == caller[p].config
<1>1. /\ OpenTypeOK /\ IdsApart /\ RootConfig /\ caller[p] \in Calls /\ c \in Configs
      /\ Holds(p) /\ FindsRoot(p) /\ InCall(p) /\ Unset \notin configs
  BY CallerFacts DEF Sound
<1>2. caller[p].pc = "store" /\ caller[p].call = "open" /\ UNCHANGED <<configs, first>>
  BY Zenon DEF OpenOpens
<1>3. c \in configs /\ c.key = KeyOf[p] /\ (MadeBefore(p) => c = first)
  BY <1>1, <1>2 DEF Holds, FindsRoot
<1>4. CASE ~Authenticates(c)
  <2>1. Fails(p, "manifest") /\ ~MadeBefore(p)
    BY <1>3, <1>4 DEF OpenOpens, Authenticates
  <2>2. QED
    BY Zenon, <1>2, <2>1, FailsInv
<1>5. CASE Authenticates(c) /\ first = Unset
  <2>1. Fails(p, "no repo") /\ ~MadeBefore(p)
    BY Zenon, <1>1, <1>3, <1>5 DEF OpenOpens
  <2>2. QED
    BY Zenon, <1>2, <2>1, FailsInv
<1>6. CASE Authenticates(c) /\ first # Unset
  <2>1. Returns(p, "opened", c) /\ "opened" \in Results
    BY <1>6 DEF OpenOpens, Results
  <2>2. c = first
    BY <1>1, <1>3, <1>6 DEF Authenticates, RootConfig, IdsApart
  <2>3. PICK r \in Calls : /\ caller' = [caller EXCEPT ![p] = r] /\ caller'[p] = r
                         /\ r.pc = "idle" /\ r.result = "opened" /\ r.config = c
                         /\ r.call = caller[p].call /\ r.begun = caller[p].begun
    BY <1>1, <2>1, ReturnsRec
  <2>4. Sound(p)'
    BY Zenon, <1>1, <1>2, <1>3, <2>2, <2>3
       DEF Sound, Holds, Probing, FindsRoot, MadeBefore, InCall, ResultSound
  <2>5. QED
    BY Zenon, <1>2, <2>3, <2>4, CallSound
<1>7. QED
  BY <1>4, <1>5, <1>6

(* Every step keeps the invariant.                                         *)
LEMMA OpenStep ==
  ASSUME OpenInv, [OpenNext]_openVars
  PROVE  OpenInv'
<1>1. CASE UNCHANGED openVars
  <2>1. UNCHANGED <<configs, first, caller>>
    BY <1>1 DEF openVars
  <2>2. OpenTypeOK' /\ IdsApart' /\ RootConfig'
    BY <2>1 DEF OpenInv, OpenTypeOK, IdsApart, RootConfig
  <2>3. ASSUME NEW p \in Caller PROVE Sound(p)'
    <3>1. Sound(p)
      BY DEF OpenInv
    <3>2. Holds(p)' /\ Probing(p)' /\ FindsRoot(p)'
      BY <2>1, <3>1 DEF Sound, Holds, Probing, FindsRoot, MadeBefore
    <3>3. InCall(p)'
      BY Zenon, <2>1, <3>1 DEF Sound, InCall
    <3>4. ResultSound(p)'
      BY Zenon, <2>1, <3>1 DEF Sound, ResultSound, MadeBefore, Others, Ours
    <3>5. QED
      BY <3>2, <3>3, <3>4 DEF Sound
  <2>4. QED
    BY <2>2, <2>3 DEF OpenInv
<1>2. ASSUME NEW p \in Caller, Stops(p) PROVE OpenInv'
  BY Zenon, <1>2, FailsInv DEF Stops
<1>3. QED
  BY <1>1, <1>2, InitReadsInv, PutConfigInv, InitOpensInv, InitChecksInv, InitSwapsInv,
     OpenReadsInv, ProbeInv, OpenOpensInv DEF OpenNext

(* And a store nothing was made in has it.                                 *)
LEMMA OpenStart ==
  ASSUME OpenInit
  PROVE  OpenInv
<1>1. Unset \in Configs
  BY DEF Unset, Configs
<1>2. OpenTypeOK
  BY Zenon, <1>1, CallsAssumption DEF OpenInit, OpenTypeOK, Calls, Results
<1>3. IdsApart /\ RootConfig
  BY Zenon DEF OpenInit, IdsApart, RootConfig
<1>4. ASSUME NEW p \in Caller PROVE Sound(p)
  BY Zenon, <1>4 DEF OpenInit, Sound, Holds, Probing, FindsRoot, MadeBefore, InCall, ResultSound
<1>5. QED
  BY <1>2, <1>3, <1>4 DEF OpenInv

----------------------------------------------------------------------------
(* A repository is opened as it was made, for any callers, keys and ids:   *)
(* the config an Init or an Open returns is the one the root was sealed    *)
(* under, in the store, and of the caller's key (repo.current).            *)
THEOREM OpenedAsMade == OpenSpec => []OpensAsMade
<1>1. OpenInv => OpensAsMade
  BY Zenon DEF OpenInv, Sound, ResultSound, OpensAsMade
<1>2. QED
  BY <1>1, OpenStart, OpenStep, PTL DEF OpenSpec

(* Calls are refused rightly: an Open begun after the root was swapped in  *)
(* is never told there is none or the key is another's, and an Init is     *)
(* refused only by a repository or by another key's claim, so one that     *)
(* stopped never leaves a store stuck for its own key.                     *)
THEOREM RefusedRightly == OpenSpec => []RefusesRightly
<1>1. OpenInv => RefusesRightly
  BY Zenon DEF OpenInv, Sound, ResultSound, MadeBefore, RefusesRightly
<1>2. QED
  BY <1>1, OpenStart, OpenStep, PTL DEF OpenSpec
=============================================================================
