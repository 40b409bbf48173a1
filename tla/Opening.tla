------------------------------ MODULE Opening ------------------------------
(***************************************************************************)
(* How a repository begins and is found again (core/repo): Inits of        *)
(* several keys race for a store, each under a config of its own, and the  *)
(* first swap of the root decides.  A manifest opens only under the key    *)
(* and the repo id it was sealed with, so the root is the config that won. *)
(***************************************************************************)
EXTENDS Integers, FiniteSets, FiniteSetsExt

CONSTANTS
    Caller,        \* the processes that call Init, Open and GC
    KeyOf,         \* the master key each holds
    GeometryOf,    \* Options.Geometry of each
    RepoId,        \* the ids an Init may draw, in name order
    CallsOf        \* a bound: the calls each makes

\* An id is drawn at random, and is never the zero one.
ASSUME RepoIdAssumption == RepoId \subseteq Nat \ {0}

ASSUME CallsAssumption == CallsOf \in [Caller -> Nat]

VARIABLES
    configs,       \* the config objects in the store
    first,         \* the root: the config whose Init swapped it in, or none
    caller         \* each caller's call under way

openVars == <<configs, first, caller>>

\* No root yet, no config chosen.
Unset == [id |-> 0, key |-> "", geometry |-> 0]

\* A manifest that opens under any config.
AuthenticatesAll(c) == TRUE

\* packstore.Open and refresh under config c: ErrManifest when the root does
\* not open.
Authenticates(c) == first = Unset \/ first.id = c.id

\* configs: those that open under the caller's key, and whether others do not.
Ours(p) == {c \in configs : c.key = KeyOf[p]}

Others(p) == configs \ Ours(p) # {}

\* The first of a set of configs in name order.
ByName(cs) == CHOOSE c \in cs : \A d \in cs : c.id <= d.id

Becomes(p, pc, c) == caller' = [caller EXCEPT ![p].pc = pc, ![p].config = c]

\* A call returns: its result, and the config its Repo has when it has one.
Returns(p, result, c) ==
    caller' = [caller EXCEPT ![p].pc = "idle", ![p].result = result, ![p].config = c]

Fails(p, result) == Returns(p, result, Unset)

----------------------------------------------------------------------------
(* Init.                                                                   *)

\* A store that holds others' configs alone is claimed by another key.
Refused(p) == Ours(p) = {} /\ Others(p)

\* Init reads the configs, and takes up the first an Init of its key left.
InitReads(p) ==
    /\ caller[p].pc = "idle" /\ caller[p].left > 0
    /\ caller' = [caller EXCEPT ![p] =
         [caller[p] EXCEPT !.left = @ - 1, !.call = "init", !.begun = first, !.seen = {},
                   !.result = IF Refused(p) THEN "exists" ELSE "",
                   !.pc = IF Refused(p) THEN "idle" ELSE IF Ours(p) # {} THEN "store" ELSE "put",
                   !.config = IF Ours(p) # {} THEN ByName(Ours(p)) ELSE Unset]]
    /\ UNCHANGED <<configs, first>>

\* A new config, under an id no other Init has drawn.
PutConfig(p, id) ==
    LET c == [id |-> id, key |-> KeyOf[p], geometry |-> GeometryOf[p]]
    IN  /\ caller[p].pc = "put" /\ \A d \in configs : d.id # id
        /\ configs' = configs \cup {c}
        /\ Becomes(p, "store", c)
        /\ UNCHANGED first

\* packstore.Open: a root that is not this config's is another Init's.
InitOpens(p) ==
    /\ caller[p].pc = "store" /\ caller[p].call = "init"
    /\ IF Authenticates(caller[p].config) THEN Becomes(p, "claim", caller[p].config) ELSE Fails(p, "exists")
    /\ UNCHANGED <<configs, first>>

\* vcs.Init reads the root again before it writes the first commit: a root
\* of this config is ErrExists, another's does not open.
InitChecks(p) ==
    /\ caller[p].pc = "claim"
    /\ IF first = Unset THEN Becomes(p, "swap", caller[p].config)
       ELSE Fails(p, IF first.id = caller[p].config.id THEN "exists" ELSE "manifest")
    /\ UNCHANGED <<configs, first>>

\* CompareAndSetRoot from no root, whose refresh finds a root swapped since.
InitSwaps(p) ==
    /\ caller[p].pc = "swap"
    /\ IF first = Unset THEN first' = caller[p].config /\ Returns(p, "made", caller[p].config)
       ELSE /\ Fails(p, IF first.id = caller[p].config.id THEN "exists" ELSE "manifest")
            /\ UNCHANGED first
    /\ UNCHANGED configs

----------------------------------------------------------------------------
(* Open, and GC and DiscardJournal, which find the config the same way.    *)

\* current reads the configs; ErrWrongKey or ErrNoRepo without one of ours.
OpenReads(p) ==
    /\ caller[p].pc = "idle" /\ caller[p].left > 0
    /\ caller' = [caller EXCEPT ![p] =
         [caller[p] EXCEPT !.left = @ - 1, !.call = "open", !.begun = first, !.seen = Ours(p), !.config = Unset,
                   !.pc = IF Ours(p) = {} THEN "idle" ELSE "probe",
                   !.result = IF Ours(p) # {} THEN "" ELSE IF Others(p) THEN "wrong key" ELSE "no repo"]]
    /\ UNCHANGED <<configs, first>>

\* The config taken without asking whether the root is its.
ProbedFirst(c) == TRUE

\* current's probe: a packstore opened and closed.
Probed(c) == Authenticates(c)

Probe(p) ==
    LET c == ByName(caller[p].seen)
    IN  /\ caller[p].pc = "probe"
        /\ IF Probed(c) THEN Becomes(p, "store", c)
           ELSE IF caller[p].seen = {c} THEN Fails(p, "wrong key")
           ELSE caller' = [caller EXCEPT ![p].seen = @ \ {c}]
        /\ UNCHANGED <<configs, first>>

\* packstore.Open and vcs.Open: with no root the Init stopped (ErrNoRepo).
OpenOpens(p) ==
    LET c == caller[p].config
    IN  /\ caller[p].pc = "store" /\ caller[p].call = "open"
        /\ IF ~Authenticates(c) THEN Fails(p, "manifest")
           ELSE IF first = Unset THEN Fails(p, "no repo")
           ELSE Returns(p, "opened", c)
        /\ UNCHANGED <<configs, first>>

\* A crash, or a backend that went away: the call is over.
Stops(p) ==
    /\ caller[p].pc # "idle"
    /\ Fails(p, "stopped")
    /\ UNCHANGED <<configs, first>>

----------------------------------------------------------------------------
OpenInit ==
    /\ configs = {}
    /\ first = Unset
    /\ caller = [p \in Caller |-> [pc |-> "idle", call |-> "open", result |-> "", config |-> Unset,
                                   begun |-> Unset, seen |-> {}, left |-> CallsOf[p]]]

OpenNext ==
    \E p \in Caller :
      \/ InitReads(p)
      \/ \E id \in RepoId : PutConfig(p, id)
      \/ InitOpens(p)
      \/ InitChecks(p)
      \/ InitSwaps(p)
      \/ OpenReads(p)
      \/ Probe(p)
      \/ OpenOpens(p)
      \/ Stops(p)

OpenSpec == OpenInit /\ [][OpenNext]_openVars

----------------------------------------------------------------------------
(* Properties.                                                             *)

\* A repository is opened as it was made: the config an Init or an Open
\* returns is the one the root was sealed under, in the store, geometry and
\* all, however many Inits of the same key left configs of their own
\* (repo.current, "the one of this key whose repo id authenticates the
\* root's manifest").
OpensAsMade ==
    \A p \in Caller : caller[p].result \in {"made", "opened"} =>
      caller[p].config = first /\ first \in configs /\ first.key = KeyOf[p]

\* A finished repository opens for its key: an Open begun after the root was
\* swapped in is never told that the store holds none or that its key is
\* another, whatever other Inits wrote before or since (repo.Open).  And an
\* Init is refused only by a repository or another key's claim: one that
\* stopped leaves nothing that its own key's next Init stops at, so the
\* store is never stuck (repo.Init, "finished by the next Init with the same
\* key").
RefusesRightly ==
    \A p \in Caller :
      /\ caller[p].call = "open" /\ caller[p].begun # Unset /\ caller[p].begun.key = KeyOf[p] =>
           caller[p].result \in {"", "opened", "stopped"}
      /\ caller[p].call = "init" /\ caller[p].result = "exists" => first # Unset \/ Others(p)
=============================================================================
