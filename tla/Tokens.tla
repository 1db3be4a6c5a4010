------------------------------- MODULE Tokens -------------------------------
(***************************************************************************)
(* The tokens of a scenario: what the token manager                        *)
(* (server/mp/ge_tokenmanager.cpp) and the spawners it takes over          *)
(* (server/mp/ge_spawner.cpp) do to the token entities in the world.       *)
(*                                                                         *)
(* The manager counts tokens in a list of its own, which the entities      *)
(* enter and leave as they spawn and are removed, and keeps a list of the  *)
(* spawners it has overridden.  Both go stale: an entity that is removed   *)
(* stays in the world to the end of the frame, a spawner is disabled by    *)
(* the map, and the world is reloaded with every round.                    *)
(*                                                                         *)
(* Places on the map, looks, ammunition, and what spawners hold that were  *)
(* not taken over are left out: any spawner suits any type.  The order of   *)
(* the spawners in a list is left open.                                    *)
(***************************************************************************)
EXTENDS Integers, FiniteSets

CONSTANTS
  Types,
  Temporary,      \* the types of which the scenario removes the definition again
  Limits,         \* of each type: the limits it sets; -1 stands for "unlimited"
  Spawners,
  StartDisabled,  \* the spawners the map starts disabled
  Tokens,         \* entities: the most there are at a time
  None            \* no type or entity

Kept == Types \ Temporary

ASSUME TokensAssumption ==
  /\ IsFiniteSet(Tokens) /\ IsFiniteSet(Spawners) /\ IsFiniteSet(Types)
  /\ Limits \in [Types -> SUBSET Int] /\ Temporary \subseteq Types /\ StartDisabled \subseteq Spawners
  /\ None \notin Types \cup Tokens

VARIABLES
  inRound,   \* GEGameplay()->IsInRound()
  defined,   \* the types in m_vTokenTypes
  limit,     \* iLimit of each
  known,     \* vTokens of each: the token entities, freed ones included
  spawners,  \* vSpawners of each: the spawners in it, and
  lost,      \*   how many handles, all at its head, whose spawner was freed
  override,  \* of each spawner: m_szOverrideEntity
  item,      \* of each spawner: m_hCurrentEntity, unless marked for deletion
  disabled,  \* the spawners with m_bDisabled
  type,      \* of each token entity: its class
  place      \* of each token entity: where it is; see Places

defs   == <<defined, limit>>
lists  == <<known, spawners, lost>>
points == <<override, item, disabled>>
ents   == <<type, place>>
vars   == <<inRound, defs, lists, points, ents>>

\* "dying" is marked for deletion: still in the world, freed with the frame.
Places == {"free", "spawner", "held", "dropped", "dying"}

InWorld == {"spawner", "held", "dropped"}

Live(t)    == {k \in Tokens : type[k] = t /\ place[k] \in InWorld}
Present(t) == {k \in Tokens : type[k] = t /\ place[k] # "free"}   \* FindTokens()

\* Entities not in use, which no handle of the manager refers to.
Unused == {k \in Tokens : place[k] = "free" /\ \A t \in Types : k \notin known[t]}

-----------------------------------------------------------------------------
(* Removal.  K: tokens in the world.                                       *)

\* UTIL_Remove, and OnTokenRemoved in it.
Removed(K) ==
  /\ place' = [k \in Tokens |-> IF k \in K THEN "dying" ELSE place[k]]
  /\ UNCHANGED type

\* K is removed, and all that is marked for deletion is freed.
Freed(K) ==
  LET gone == K \cup {k \in Tokens : place[k] = "dying"} IN
  /\ place' = [k \in Tokens |-> IF k \in gone THEN "free" ELSE place[k]]
  /\ type' = [k \in Tokens |-> IF k \in gone THEN None ELSE type[k]]

Unknown(K) == [t \in Types |-> known[t] \ K]

\* S: the spawners whose override is taken back, which removes what they hold.
Held(S) == {item[s] : s \in S} \ {None}

Reset(S, K) ==
  /\ override' = [s \in Spawners |-> IF s \in S THEN None ELSE override[s]]
  /\ item' = [s \in Spawners |-> IF item[s] \in K \cup Held(S) THEN None ELSE item[s]]

Length(t) == lost[t] + Cardinality(spawners[t])

\* IsEmpty(), when the tokens of K have been removed.
Empty(S, K) == {s \in S : item[s] \in K \cup {None}}

\* RemoveTokens(): the spawners of the list S that may be given back because it is
\* longer than the limit n.  They go from its head, until one comes that is not empty.
Surplus(S, n, K) ==
  LET m == Cardinality(S) - n IN
  {G \in SUBSET Empty(S, K) : /\ G = {} \/ Cardinality(G) <= m
                              /\ Cardinality(G) < m => G = S \/ Empty(S, K) # S}

-----------------------------------------------------------------------------
(* The scenario.                                                           *)

Init ==
  /\ inRound = FALSE /\ defined = {} /\ limit = [t \in Types |-> 0]
  /\ known = [t \in Types |-> {}] /\ spawners = known /\ lost = limit
  /\ override = [s \in Spawners |-> None] /\ item = [s \in Spawners |-> None]
  /\ disabled = StartDisabled
  /\ type = [k \in Tokens |-> None] /\ place = [k \in Tokens |-> "free"]

\* SetupToken of the Python bindings: the type is defined if it was not.
SetupToken(t, n) ==
  /\ defined' = defined \cup {t} /\ limit' = [limit EXCEPT ![t] = n]
  /\ UNCHANGED <<inRound, lists, points, ents>>

\* RemoveTokenDef(): the tokens are removed and, as always then, the spawners
\* above the limit given back.  The others stay as they are.
RemoveTokenDef(t) ==
  LET K == known[t] \cap Live(t) IN
  /\ t \in defined \cap Temporary
  /\ defined' = defined \ {t} /\ limit' = [limit EXCEPT ![t] = 0]
  /\ Removed(K)
  /\ \E back \in IF lost[t] > 0 THEN {{}} ELSE Surplus(spawners[t], limit[t], K) : Reset(back, K)
  /\ known' = [Unknown(K) EXCEPT ![t] = {}]
  /\ spawners' = [spawners EXCEPT ![t] = {}] /\ lost' = [lost EXCEPT ![t] = 0]
  /\ UNCHANGED <<inRound, disabled>>

\* RemoveTokenEnt() and, as RemoveTokenEnt( k, false ), CaptureToken().
RemoveTokenEnt(k, adjustLimit) ==
  LET t     == type[k]
      empty == Empty(spawners[t], {k})
  IN
  /\ place[k] \in InWorld /\ t \in defined
  /\ Removed({k}) /\ known' = Unknown({k})
  /\ IF adjustLimit
       THEN /\ limit[t] >= 0  \* bound
            /\ limit' = [limit EXCEPT ![t] = limit[t] - 1]
            /\ IF empty = {}
                 THEN Reset({}, {k}) /\ UNCHANGED spawners
                 ELSE \E s \in empty : /\ Reset({s}, {k})
                                       /\ spawners' = [spawners EXCEPT ![t] = @ \ {s}]
       ELSE Reset({}, {k}) /\ UNCHANGED <<limit, spawners>>
  /\ UNCHANGED <<inRound, defined, lost, disabled>>

\* Reset(), with every scenario that is loaded.
ResetManager ==
  LET K == UNION {known[t] \cap Live(t) : t \in defined}
      S == UNION {spawners[t] : t \in defined}
  IN
  /\ inRound' = FALSE /\ defined' = {} /\ limit' = [t \in Types |-> 0]
  /\ Removed(K \cup Held(S)) /\ Reset(S, K)
  /\ known' = [t \in Types |-> {}] /\ spawners' = known' /\ lost' = limit'
  /\ UNCHANGED disabled

-----------------------------------------------------------------------------
(* Players and the map.                                                    *)

\* A player picks a token up, or drops it; the spawner does not learn of it.
Pickup(k) ==
  /\ place[k] \in {"spawner", "dropped"} /\ place' = [place EXCEPT ![k] = "held"]
  /\ UNCHANGED <<inRound, defs, lists, points, type>>

Drop(k) ==
  /\ place[k] = "held" /\ place' = [place EXCEPT ![k] = "dropped"]
  /\ UNCHANGED <<inRound, defs, lists, points, type>>

\* A token that lay there for its respawn delay.
Expire(k) ==
  /\ place[k] = "dropped"
  /\ Removed({k}) /\ known' = Unknown({k}) /\ Reset({}, {k})
  /\ UNCHANGED <<inRound, defs, spawners, lost, disabled>>

\* InputDisable: the spawner thinks no more and removes what it holds.
Disable(s) ==
  /\ s \notin disabled /\ disabled' = disabled \cup {s}
  /\ Removed(Held({s})) /\ known' = Unknown(Held({s})) /\ item' = [item EXCEPT ![s] = None]
  /\ UNCHANGED <<inRound, defs, spawners, lost, override>>

Enable(s) ==
  /\ s \in disabled /\ disabled' = disabled \ {s}
  /\ UNCHANGED <<inRound, defs, lists, override, item, ents>>

-----------------------------------------------------------------------------
(* The spawners.                                                           *)

\* Broken limit: one token more than the limit.
ShouldSpawnUpToLimit(t) ==
  t \notin defined \/ limit[t] = -1 \/ Cardinality(known[t]) <= limit[t]

ShouldSpawnToken(t) ==
  t \notin defined \/ limit[t] = -1 \/ Cardinality(known[t]) < limit[t]

\* Broken notice: a spawner forgets what it holds.
Forgotten(s) == None

\* What a spawner knows it holds: nothing, if that was picked up.
Noticed(s) == IF item[s] # None /\ place[item[s]] = "spawner" THEN item[s] ELSE None

\* SpawnEnt() with an override: a new token in place of any it holds.  OnTokenSpawned
\* removes it if the type is defined and the spawner is not on the type's list.
SpawnEnt(s, k) ==
  LET t    == override[s]
      old  == {Noticed(s)} \ {None}
      stay == t \notin defined \/ s \in spawners[t]
  IN
  /\ type' = [type EXCEPT ![k] = t]
  /\ place' = [j \in Tokens |-> IF j = k THEN (IF stay THEN "spawner" ELSE "dying")
                                ELSE IF j \in old THEN "dying" ELSE place[j]]
  /\ item' = [item EXCEPT ![s] = IF stay THEN k ELSE None]
  /\ known' = IF stay /\ t \in defined THEN [Unknown(old) EXCEPT ![t] = @ \cup {k}]
                                       ELSE Unknown(old)
  /\ UNCHANGED <<inRound, defs, spawners, lost, override, disabled>>

\* CGESpawner::Think of a spawner that was taken over.
SpawnerThink(s) ==
  /\ s \notin disabled /\ override[s] # None
  /\ IF ShouldSpawnToken(override[s])
       THEN \E k \in Unused : SpawnEnt(s, k)
       ELSE /\ item' = [item EXCEPT ![s] = Noticed(s)]
            /\ UNCHANGED <<inRound, defs, lists, override, disabled, ents>>

-----------------------------------------------------------------------------
(* The manager: SpawnTokens() and EnforceTokens().                         *)

\* The spawners FindSpawnersForToken may choose.
Free(off) == {s \in Spawners : override[s] = None /\ s \notin off}

AllOf(sets) == UNION {sets[t] : t \in Types}

\* new[t]: the spawners that are taken over for t, where want[t] are wanted.  They are
\* chosen at random from those free, or freed at the same time, and the types come
\* one after the other: no type goes without while a free one is left.
Picks(want, free, freed) ==
  {new \in [Types -> SUBSET (free \cup freed)] :
     \A t \in Types :
       /\ Cardinality(new[t]) <= want[t]
       /\ \A u \in Types \ {t} : new[t] \cap new[u] = {}
       /\ Cardinality(new[t]) < want[t] => free \subseteq AllOf(new)}

\* SetOverride() for the chosen spawners; gone are those given back.
Overridden(new, gone) ==
  [s \in Spawners |->
     IF s \in AllOf(new) THEN CHOOSE t \in Types : s \in new[t]
     ELSE IF s \in gone THEN None ELSE override[s]]

\* How many spawners SpawnTokens takes over for a type whose list has n entries and
\* that has count tokens: none if the list is as long as the limit.
Wanted(t, n, count) ==
  IF t \in defined /\ n < limit[t] /\ count < limit[t] THEN limit[t] - count ELSE 0

\* Broken validation: spawners that are disabled stay on the list.
DisabledKept(t) == spawners[t]

\* The list without handles that are gone and disabled spawners, whose override is
\* taken back.  (They hold nothing: see Disable.)
Valid(t) == spawners[t] \ disabled

\* Broken validation: the override is left to a spawner that leaves the list.
NoneInvalid == {}

Invalid == disabled \cap AllOf(spawners)

\* The tokens are counted anew in the world, those marked for deletion included.
Above(t) == t \in defined /\ Cardinality(Present(t)) > limit[t]

\* One of the ways to remove as many as there are above the limit.
Excess == {K \in SUBSET UNION {Present(t) : t \in Types} :
             \A t \in Types : Cardinality(K \cap Present(t)) =
               IF ~ Above(t) THEN 0
               ELSE IF limit[t] < 0 THEN Cardinality(Present(t))
               ELSE Cardinality(Present(t)) - limit[t]}

\* Broken counts: only of what spawners hold.
RecountedAtSpawners(t, K) ==
  IF t \in defined THEN {k \in Present(t) \ K : place[k] = "spawner"} ELSE {}

Recounted(t, K) == IF t \in defined THEN Present(t) \ K ELSE {}

\* EnforceTokens() in the rules' Think at the end of a frame, which then frees the
\* entities marked for deletion.
Enforce ==
  /\ inRound /\ UNCHANGED <<inRound, defs, disabled>>
  /\ \E excess \in Excess :
       LET K == excess \ {k \in Tokens : place[k] = "dying"}
           Back(t) == IF Above(t) THEN Surplus(Valid(t), limit[t], K) ELSE {{}}
       IN
       /\ known' = [t \in Types |-> Recounted(t, K)]
       /\ item' = [s \in Spawners |-> IF item[s] \in K THEN None ELSE item[s]]
       /\ Freed(K)
       /\ \E back \in {f \in [Types -> SUBSET Spawners] : \A t \in Types : f[t] \in Back(t)} :
            \E new \in Picks([t \in Types |-> Wanted(t, Cardinality(Valid(t)), Cardinality(Present(t)))],
                            Free(disabled), AllOf(back)) :
              /\ spawners' = [t \in Types |-> (Valid(t) \ back[t]) \cup new[t]]
              /\ override' = Overridden(new, Invalid \cup AllOf(back))
  /\ lost' = [t \in Types |-> 0]

\* The end of a frame in which the manager's quarter of a second is not over.
FrameEnd ==
  /\ Freed({}) /\ UNCHANGED <<inRound, defs, lists, points>>

-----------------------------------------------------------------------------
(* Rounds.                                                                 *)

EndRound == inRound /\ inRound' = FALSE /\ UNCHANGED <<defs, lists, points, ents>>

\* What WorldReload leaves: the tokens in players' hands.
InHands == {k \in Tokens : place[k] = "held"}

\* WorldReload and OnRoundStart.  The reload replaces every spawner by a new one, and
\* frees all tokens nobody holds; the round start removes those that are held, and
\* SpawnTokens takes spawners over where the list, of handles that are gone, is short.
NewRound ==
  LET handed == {k \in InHands : type[k] \in defined /\ k \in known[type[k]]}
      stale  == [t \in Types |-> known[t] \ Live(t)]
  IN
  /\ ~ inRound /\ inRound' = TRUE /\ UNCHANGED defs
  /\ place' = [k \in Tokens |-> IF k \in handed THEN "dying"
                                ELSE IF k \in InHands THEN "held" ELSE "free"]
  /\ type' = [k \in Tokens |-> IF k \in InHands THEN type[k] ELSE None]
  /\ known' = stale
  /\ item' = [s \in Spawners |-> None] /\ disabled' = StartDisabled
  /\ \E new \in Picks([t \in Types |-> Wanted(t, Length(t), Cardinality(stale[t]))],
                      Spawners \ StartDisabled, {}) :
       spawners' = new /\ override' = Overridden(new, Spawners)
  /\ lost' = [t \in Types |-> Length(t)]

-----------------------------------------------------------------------------
Scenario ==
  \/ \E t \in Types : RemoveTokenDef(t) \/ \E n \in Limits[t] : SetupToken(t, n)
  \/ \E k \in Tokens, adjustLimit \in BOOLEAN : RemoveTokenEnt(k, adjustLimit)
  \/ ResetManager

World ==
  \/ \E k \in Tokens : Pickup(k) \/ Drop(k) \/ Expire(k)
  \/ \E s \in Spawners : Disable(s) \/ Enable(s)
  \/ EndRound \/ NewRound

Manager == Enforce \/ FrameEnd \/ \E s \in Spawners : SpawnerThink(s)

Next == Scenario \/ World \/ Manager

\* In a round the manager enforces four times a second, and spawners think twice a
\* second.  A think needs an entity; that the few of a model are all in use does not
\* keep it waiting for ever.
Fairness == WF_vars(Enforce) /\ \A s \in Spawners : SF_vars(SpawnerThink(s))

Spec == Init /\ [][Next]_vars
FairSpec == Spec /\ Fairness
-----------------------------------------------------------------------------
(* Properties.                                                             *)

TypeOK ==
  /\ inRound \in BOOLEAN /\ defined \subseteq Types /\ limit \in [Types -> Int]
  /\ known \in [Types -> SUBSET Tokens] /\ spawners \in [Types -> SUBSET Spawners] /\ lost \in [Types -> Nat]
  /\ override \in [Spawners -> Types \cup {None}] /\ item \in [Spawners -> Tokens \cup {None}]
  /\ disabled \subseteq Spawners
  /\ type \in [Tokens -> Types \cup {None}] /\ place \in [Tokens -> Places]
  /\ \A t \in Types \ defined : limit[t] = 0 /\ known[t] = {} /\ spawners[t] = {}

\* A token that lies at a spawner is known to one spawner that is enabled, which will
\* take it away before it puts another there; what spawners know of is in the world.
HoldersAgree ==
  /\ \A k \in Tokens : /\ place[k] = "spawner" => \E s \in Spawners \ disabled : item[s] = k
                       /\ place[k] = "free" <=> type[k] = None
  /\ \A s \in Spawners : item[s] # None =>
       /\ place[item[s]] \in InWorld
       /\ \A r \in Spawners \ {s} : item[r] # item[s]

\* A spawner on the list of a type is overridden with this type: however spawners are
\* given back, disabled, replaced and chosen, none serves two types, and none is left
\* on a list when it is set free.
SpawnersServeOneType == \A t \in Types : \A s \in spawners[t] : override[s] = t

\* A spawner that is overridden with a type whose definition stays is on its list, so
\* that it can be given back and can spawn tokens that count.
OverridesListed ==
  \A s \in Spawners : override[s] \in Kept => s \in spawners[override[s]]

\* The manager knows every token of such a type that is in the world.  (It may count
\* tokens that are gone, until it counts anew.)
TokensKnown == \A t \in Kept : Live(t) \subseteq known[t]

Pool == INSTANCE TokenPool WITH
  Types <- Kept, pool <- [t \in Kept |-> Live(t)], limit <- [t \in Kept |-> limit[t]],
  defined <- defined \cap Kept

\* No token of such a type appears where there are as many as the limit, whatever
\* the lists have missed; and a change of the scenario takes them all away.
ImplementsPool == Pool!Spec

\* Left to itself in a round, the manager gets every type its tokens: as many as the
\* limit, or one in every spawner that is enabled and serves no other type.  (Entities
\* must be there: a model has few, and tokens of a removed type may take them all.)
Supplied(t) ==
  \/ Cardinality(Live(t)) = limit[t]
  \/ /\ Cardinality(Live(t)) < limit[t]
     /\ \A s \in Spawners \ disabled : \/ override[s] \notin {None, t}
                                        \/ (override[s] = t /\ Noticed(s) # None)

TokensReturn ==
  <>[][Manager]_vars /\ <>[]inRound /\ []<>(Unused # {})
    => <>[](\A t \in Kept \cap defined : limit[t] >= 0 => Supplied(t))
=============================================================================
