---------------------------- MODULE TokensProofs ----------------------------
(***************************************************************************)
(* Proofs about the tokens, for any types, limits, spawners and entities:  *)
(* the manager's lists agree with the spawners and with the world, and     *)
(* what it does to the kept types is what TokenPool allows.                *)
(***************************************************************************)
EXTENDS Tokens, FiniteSetTheorems, TLAPS

\* What a spawner holds is of the type it serves; one that is disabled holds nothing.
SpawnersAgree ==
  \A s \in Spawners : /\ item[s] # None => type[item[s]] = override[s]
                      /\ s \in disabled => item[s] = None

Agree == HoldersAgree /\ SpawnersAgree
Lists == SpawnersServeOneType /\ OverridesListed

\* The invariant that is inductive.
IInv == TypeOK /\ Agree /\ Lists /\ TokensKnown

USE DEF Places, InWorld

-----------------------------------------------------------------------------
(* Facts about the operators.                                              *)

LEMMA Finite ==
  ASSUME NEW S, S \subseteq Spawners \/ S \subseteq Tokens
  PROVE  IsFiniteSet(S) /\ Cardinality(S) \in Nat
<1>1. IsFiniteSet(S)
  BY FS_Subset, TokensAssumption
<1>2. QED
  BY <1>1, FS_CardinalityType

\* What RemoveTokens gives back was on the list, and is empty.
LEMMA SurplusEmpty ==
  ASSUME NEW S, NEW n, NEW K, NEW G \in Surplus(S, n, K)
  PROVE  G \subseteq S /\ Held(G) \subseteq K
BY DEF Surplus, Empty, Held

\* Tokens that are removed are in the world no more; the others are where they were.
LEMMA RemovedLive ==
  ASSUME NEW K \in SUBSET Tokens, Removed(K), NEW t
  PROVE  Live(t)' = Live(t) \ K
BY DEF Removed, Live

\* As the entities marked for deletion were not in the world, freeing them is no change.
LEMMA FreedLive ==
  ASSUME NEW K \in SUBSET Tokens, Freed(K), NEW t \in Types
  PROVE  Live(t)' = Live(t) \ K
BY TokensAssumption DEF Freed, Live

\* Spawners that are picked serve the type they were picked for, and no other.
LEMMA PicksServe ==
  ASSUME NEW want, NEW free, NEW freed, NEW new \in Picks(want, free, freed), NEW gone,
         free \cup freed \subseteq Spawners
  PROVE  /\ \A t \in Types : \A s \in new[t] : Overridden(new, gone)[s] = t
         /\ \A s \in Spawners \ AllOf(new) :
              Overridden(new, gone)[s] = IF s \in gone THEN None ELSE override[s]
         /\ AllOf(new) \subseteq free \cup freed
         /\ \A s \in Spawners :
              s \in AllOf(new) => \E t \in Types : s \in new[t] /\ Overridden(new, gone)[s] = t
<1>1. /\ new \in [Types -> SUBSET (free \cup freed)]
      /\ \A t \in Types : \A u \in Types \ {t} : new[t] \cap new[u] = {}
  BY DEF Picks
<1>2. ASSUME NEW t \in Types, NEW s \in new[t]
      PROVE  s \in Spawners /\ s \in AllOf(new) /\ Overridden(new, gone)[s] = t
  <2>1. s \in Spawners /\ s \in AllOf(new)
    BY <1>1, <1>2 DEF AllOf
  <2>2. \A u \in Types : s \in new[u] => u = t
    BY <1>1, <1>2
  <2>3. (CHOOSE u \in Types : s \in new[u]) = t
    BY <1>2, <2>2
  <2>4. QED
    BY <2>1, <2>3 DEF Overridden
<1>3. \A s \in Spawners \ AllOf(new) :
        Overridden(new, gone)[s] = IF s \in gone THEN None ELSE override[s]
  BY DEF Overridden
<1>4. AllOf(new) \subseteq free \cup freed
  BY <1>1 DEF AllOf
<1>5. \A s \in Spawners :
        s \in AllOf(new) => \E t \in Types : s \in new[t] /\ Overridden(new, gone)[s] = t
  BY <1>2 DEF AllOf
<1>6. QED
  BY <1>2, <1>3, <1>4, <1>5

\* A type of which no spawners are wanted gets none.
LEMMA PicksNone ==
  ASSUME NEW want, NEW free, NEW freed, NEW new \in Picks(want, free, freed),
         free \cup freed \subseteq Spawners, NEW t \in Types, want[t] = 0
  PROVE  new[t] = {}
<1>1. new[t] \subseteq Spawners /\ Cardinality(new[t]) <= 0
  BY DEF Picks
<1>2. QED
  BY <1>1, Finite, FS_EmptySet

-----------------------------------------------------------------------------
(* Removal keeps spawners and entities in agreement.                       *)

LEMMA RemovalAgrees ==
  ASSUME TypeOK, Agree, UNCHANGED disabled,
         NEW K \in SUBSET Tokens, NEW S \in SUBSET Spawners, NEW R, R = K \cup Held(S),
         \A k \in K : place[k] \in InWorld,
         Removed(R), Reset(S, K)
  PROVE  /\ Agree' /\ R \in SUBSET Tokens
         /\ type' \in [Tokens -> Types \cup {None}] /\ place' \in [Tokens -> Places]
         /\ override' \in [Spawners -> Types \cup {None}]
         /\ item' \in [Spawners -> Tokens \cup {None}]
<1>1. R \in SUBSET Tokens
  BY DEF Held, TypeOK
<1>2. \A k \in R : place[k] \in InWorld
  BY DEF Held, Agree, HoldersAgree
<1>3. /\ type' = type
      /\ \A k \in Tokens : place'[k] = IF k \in R THEN "dying" ELSE place[k]
  BY DEF Removed
<1>4. /\ \A s \in Spawners : item'[s] = IF item[s] \in R THEN None ELSE item[s]
      /\ \A s \in Spawners : override'[s] = IF s \in S THEN None ELSE override[s]
  BY DEF Reset
<1>5. /\ type' \in [Tokens -> Types \cup {None}] /\ place' \in [Tokens -> Places]
      /\ override' \in [Spawners -> Types \cup {None}]
      /\ item' \in [Spawners -> Tokens \cup {None}]
  BY DEF Removed, Reset, TypeOK
<1>6. \A s \in Spawners : item'[s] # None =>
        item'[s] = item[s] /\ item[s] \in Tokens /\ item[s] \notin R /\ s \notin S
  BY <1>4 DEF TypeOK, Held
<1>7. SpawnersAgree'
  BY <1>3, <1>4, <1>6 DEF Agree, SpawnersAgree
<1>8. HoldersAgree'
  <2>1. ASSUME NEW k \in Tokens, place'[k] = "spawner"
        PROVE  \E s \in Spawners \ disabled' : item'[s] = k
    <3>1. k \notin R /\ place[k] = "spawner"
      BY <1>3, <2>1
    <3>2. PICK s \in Spawners \ disabled : item[s] = k
      BY <3>1 DEF Agree, HoldersAgree
    <3>3. QED
      BY <1>4, <3>1, <3>2
  <2>2. \A k \in Tokens : place'[k] = "free" <=> type'[k] = None
    BY <1>2, <1>3 DEF Agree, HoldersAgree
  <2>3. \A s \in Spawners : item'[s] # None => place'[item'[s]] \in InWorld
    BY <1>3, <1>6 DEF Agree, HoldersAgree
  <2>4. \A s \in Spawners : item'[s] # None => \A r \in Spawners \ {s} : item'[r] # item'[s]
    BY <1>6 DEF Agree, HoldersAgree
  <2>5. QED
    BY <2>1, <2>2, <2>3, <2>4 DEF HoldersAgree
<1>9. QED
  BY <1>1, <1>5, <1>7, <1>8 DEF Agree

-----------------------------------------------------------------------------
(* Each operation keeps the invariant.                                     *)

LEMMA InitIInv == ASSUME Init PROVE IInv
<1>1. /\ spawners = [t \in Types |-> {}] /\ lost = [t \in Types |-> 0]
      /\ \A s \in Spawners : override[s] = None /\ item[s] = None
      /\ \A k \in Tokens : type[k] = None /\ place[k] = "free"
  BY DEF Init
<1>2. TypeOK
  <2>1. inRound \in BOOLEAN /\ defined \subseteq Types /\ disabled \subseteq Spawners
    BY TokensAssumption DEF Init
  <2>2. limit \in [Types -> Int] /\ lost \in [Types -> Nat]
    BY <1>1 DEF Init
  <2>3. known \in [Types -> SUBSET Tokens] /\ spawners \in [Types -> SUBSET Spawners]
    BY <1>1 DEF Init
  <2>4. /\ override \in [Spawners -> Types \cup {None}]
        /\ item \in [Spawners -> Tokens \cup {None}]
    BY DEF Init
  <2>5. type \in [Tokens -> Types \cup {None}] /\ place \in [Tokens -> Places]
    BY DEF Init
  <2>6. \A t \in Types \ defined : limit[t] = 0 /\ known[t] = {} /\ spawners[t] = {}
    BY <1>1 DEF Init
  <2>7. QED
    BY <2>1, <2>2, <2>3, <2>4, <2>5, <2>6 DEF TypeOK
<1>3. Agree
  BY <1>1 DEF Agree, HoldersAgree, SpawnersAgree
<1>4. Lists
  BY <1>1, TokensAssumption DEF Lists, SpawnersServeOneType, OverridesListed, Kept
<1>5. TokensKnown
  BY <1>1 DEF TokensKnown, Live
<1>6. QED
  BY <1>2, <1>3, <1>4, <1>5 DEF IInv

LEMMA SetupTokenIInv ==
  ASSUME IInv, NEW t \in Types, NEW n \in Limits[t], SetupToken(t, n) PROVE IInv'
<1>1. n \in Int
  BY TokensAssumption
<1>2. TypeOK'
  BY <1>1 DEF SetupToken, IInv, TypeOK, lists, points, ents
<1>3. QED
  BY <1>2 DEF SetupToken, IInv, Agree, HoldersAgree, SpawnersAgree, Lists, SpawnersServeOneType,
              OverridesListed, TokensKnown, Live, lists, points, ents

LEMMA RemoveTokenDefIInv == ASSUME IInv, NEW t \in Types, RemoveTokenDef(t) PROVE IInv'
<1> DEFINE K == known[t] \cap Live(t)
<1>1. PICK back : /\ back \subseteq spawners[t] /\ Held(back) \subseteq K
                  /\ Reset(back, K)
  BY SurplusEmpty DEF RemoveTokenDef, Held
<1>2. /\ K \in SUBSET Tokens /\ K \cup Held(back) = K /\ \A k \in K : place[k] \in InWorld
      /\ back \in SUBSET Spawners
  BY <1>1 DEF Live, IInv, TypeOK
<1>3. /\ Removed(K) /\ UNCHANGED <<inRound, disabled>>
      /\ t \in defined /\ t \in Temporary
      /\ defined' = defined \ {t} /\ limit' = [limit EXCEPT ![t] = 0]
      /\ known' = [Unknown(K) EXCEPT ![t] = {}]
      /\ spawners' = [spawners EXCEPT ![t] = {}] /\ lost' = [lost EXCEPT ![t] = 0]
  BY DEF RemoveTokenDef
<1>4. /\ Agree'
      /\ type' \in [Tokens -> Types \cup {None}] /\ place' \in [Tokens -> Places]
      /\ override' \in [Spawners -> Types \cup {None}]
      /\ item' \in [Spawners -> Tokens \cup {None}]
  BY <1>1, <1>2, <1>3, RemovalAgrees DEF IInv
<1>5. TypeOK'
  BY <1>3, <1>4 DEF IInv, TypeOK, Unknown
<1>6. Lists'
  <2>1. \A s \in Spawners : override'[s] = IF s \in back THEN None ELSE override[s]
    BY <1>1 DEF Reset
  <2>2. \A u \in Types : spawners'[u] = IF u = t THEN {} ELSE spawners[u]
    BY <1>3 DEF IInv, TypeOK
  <2>3. SpawnersServeOneType'
    BY <1>1, <2>1, <2>2 DEF IInv, TypeOK, Lists, SpawnersServeOneType
  <2>4. OverridesListed'
    BY <1>1, <1>3, <2>1, <2>2, TokensAssumption DEF IInv, TypeOK, Lists, OverridesListed, Kept
  <2>5. QED
    BY <2>3, <2>4 DEF Lists
<1>7. TokensKnown'
  <2>1. ASSUME NEW u \in Kept PROVE Live(u)' \subseteq known'[u]
    <3>1. u \in Types /\ u # t
      BY <1>3 DEF Kept
    <3>2. known'[u] = known[u] \ K
      BY <1>3, <3>1 DEF Unknown
    <3>3. Live(u)' = Live(u) \ K
      BY <1>2, <1>3, RemovedLive
    <3>4. QED
      BY <3>2, <3>3 DEF IInv, TokensKnown
  <2>2. QED
    BY <2>1 DEF TokensKnown
<1>8. QED
  BY <1>4, <1>5, <1>6, <1>7 DEF IInv

LEMMA RemoveTokenEntIInv ==
  ASSUME IInv, NEW k \in Tokens, NEW adjustLimit \in BOOLEAN, RemoveTokenEnt(k, adjustLimit)
  PROVE  IInv'
<1> DEFINE t == type[k]
<1>1. /\ place[k] \in InWorld /\ t \in defined /\ t \in Types
      /\ Removed({k}) /\ known' = Unknown({k})
      /\ UNCHANGED <<inRound, defined, lost, disabled>>
  BY DEF RemoveTokenEnt, IInv, TypeOK
<1>2. PICK S \in SUBSET spawners[t] :
        /\ Held(S) \subseteq {k} /\ Reset(S, {k})
        /\ spawners' = [spawners EXCEPT ![t] = @ \ S]
  <2>1. CASE Reset({}, {k}) /\ UNCHANGED spawners
    BY <1>1, <2>1 DEF Held, IInv, TypeOK
  <2>2. ASSUME NEW s \in Empty(spawners[t], {k}), Reset({s}, {k}),
               spawners' = [spawners EXCEPT ![t] = @ \ {s}]
        PROVE  \E S \in SUBSET spawners[t] :
                 /\ Held(S) \subseteq {k} /\ Reset(S, {k})
                 /\ spawners' = [spawners EXCEPT ![t] = @ \ S]
    <3>1. {s} \in SUBSET spawners[t] /\ Held({s}) \subseteq {k}
      BY <2>2 DEF Empty, Held
    <3>2. QED
      BY <2>2, <3>1
  <2>3. QED
    BY <2>1, <2>2 DEF RemoveTokenEnt
<1>3. limit' \in [Types -> Int] /\ \A u \in Types : u \notin defined => limit'[u] = limit[u]
  BY <1>1 DEF RemoveTokenEnt, IInv, TypeOK
<1>4. {k} \in SUBSET Tokens /\ {k} = {k} \cup Held(S) /\ S \in SUBSET Spawners
  BY <1>1, <1>2 DEF IInv, TypeOK
<1>5. /\ Agree'
      /\ type' \in [Tokens -> Types \cup {None}] /\ place' \in [Tokens -> Places]
      /\ override' \in [Spawners -> Types \cup {None}]
      /\ item' \in [Spawners -> Tokens \cup {None}]
  BY <1>1, <1>2, <1>4, RemovalAgrees DEF IInv
<1>6. TypeOK'
  BY <1>1, <1>2, <1>3, <1>5 DEF IInv, TypeOK, Unknown
<1>7. Lists'
  <2>1. \A s \in Spawners : override'[s] = IF s \in S THEN None ELSE override[s]
    BY <1>2 DEF Reset
  <2>2. \A u \in Types : spawners'[u] = IF u = t THEN spawners[u] \ S ELSE spawners[u]
    BY <1>2 DEF IInv, TypeOK
  <2>3. SpawnersServeOneType'
    BY <1>1, <1>2, <2>1, <2>2 DEF IInv, TypeOK, Lists, SpawnersServeOneType
  <2>4. OverridesListed'
    <3>1. ASSUME NEW s \in Spawners, override'[s] \in Kept
          PROVE  s \notin S /\ override'[s] = override[s] /\ override[s] \in Types
      BY <2>1, <3>1, TokensAssumption DEF Kept
    <3>2. QED
      BY <2>2, <3>1 DEF IInv, Lists, OverridesListed
  <2>5. QED
    BY <2>3, <2>4 DEF Lists
<1>8. TokensKnown'
  BY <1>1, <1>4, RemovedLive DEF IInv, TokensKnown, Unknown, Kept
<1>9. QED
  BY <1>5, <1>6, <1>7, <1>8 DEF IInv

LEMMA ResetManagerIInv == ASSUME IInv, ResetManager PROVE IInv' /\ \A t \in Kept : Live(t)' = {}
<1> DEFINE K == UNION {known[t] \cap Live(t) : t \in defined}
           S == UNION {spawners[t] : t \in defined}
<1>1. /\ K \in SUBSET Tokens /\ \A k \in K : place[k] \in InWorld
      /\ S \in SUBSET Spawners
  BY DEF Live, IInv, TypeOK
<1>2. /\ Removed(K \cup Held(S)) /\ Reset(S, K) /\ UNCHANGED disabled
      /\ inRound' = FALSE /\ defined' = {} /\ limit' = [t \in Types |-> 0]
      /\ known' = [t \in Types |-> {}] /\ spawners' = [t \in Types |-> {}]
      /\ lost' = [t \in Types |-> 0]
  BY DEF ResetManager
<1>3. /\ Agree' /\ K \cup Held(S) \in SUBSET Tokens
      /\ type' \in [Tokens -> Types \cup {None}] /\ place' \in [Tokens -> Places]
      /\ override' \in [Spawners -> Types \cup {None}]
      /\ item' \in [Spawners -> Tokens \cup {None}]
  BY <1>1, <1>2, RemovalAgrees DEF IInv
<1>4. TypeOK'
  <2>1. inRound' \in BOOLEAN /\ defined' \subseteq Types /\ disabled' \subseteq Spawners
    BY <1>2 DEF IInv, TypeOK
  <2>2. limit' \in [Types -> Int] /\ lost' \in [Types -> Nat]
    BY <1>2
  <2>3. known' \in [Types -> SUBSET Tokens] /\ spawners' \in [Types -> SUBSET Spawners]
    BY <1>2
  <2>4. \A t \in Types \ defined' : limit'[t] = 0 /\ known'[t] = {} /\ spawners'[t] = {}
    BY <1>2
  <2>5. QED
    BY <1>3, <2>1, <2>2, <2>3, <2>4 DEF TypeOK
<1>5. Lists'
  <2>1. SpawnersServeOneType'
    BY <1>2 DEF SpawnersServeOneType
  <2>2. ASSUME NEW s \in Spawners, override'[s] \in Kept PROVE FALSE
    <3>1. s \notin S /\ override[s] \in Kept
      BY <1>2, <2>2, TokensAssumption DEF Reset, Kept
    <3>2. s \in spawners[override[s]]
      BY <3>1 DEF IInv, Lists, OverridesListed
    <3>3. override[s] \in defined
      BY <3>1, <3>2 DEF IInv, TypeOK, Kept
    <3>4. QED
      BY <3>1, <3>2, <3>3
  <2>3. QED
    BY <2>1, <2>2 DEF Lists, OverridesListed
<1>6. ASSUME NEW t \in Kept PROVE Live(t)' = {}
  <2>1. Live(t)' = Live(t) \ (K \cup Held(S))
    BY <1>2, <1>3, RemovedLive
  <2>2. CASE t \in defined
    BY <2>1, <2>2 DEF IInv, TokensKnown
  <2>3. CASE t \notin defined
    BY <2>1, <2>3 DEF IInv, TokensKnown, TypeOK, Kept
  <2>4. QED
    BY <2>2, <2>3
<1>7. QED
  BY <1>3, <1>4, <1>5, <1>6 DEF IInv, TokensKnown

LEMMA ExpireIInv == ASSUME IInv, NEW k \in Tokens, Expire(k) PROVE IInv'
<1>1. /\ {k} \in SUBSET Tokens /\ {k} = {k} \cup Held({}) /\ {} \in SUBSET Spawners
      /\ place[k] \in InWorld /\ Removed({k}) /\ Reset({}, {k}) /\ known' = Unknown({k})
      /\ UNCHANGED <<inRound, defs, spawners, lost, disabled>>
  BY DEF Expire, Held
<1>2. /\ Agree'
      /\ type' \in [Tokens -> Types \cup {None}] /\ place' \in [Tokens -> Places]
      /\ item' \in [Spawners -> Tokens \cup {None}]
  BY <1>1, RemovalAgrees DEF IInv
<1>3. override' = override
  BY <1>1 DEF Reset, IInv, TypeOK
<1>4. TypeOK'
  BY <1>1, <1>2, <1>3 DEF IInv, TypeOK, Unknown, defs
<1>5. Lists'
  BY <1>1, <1>3 DEF IInv, Lists, SpawnersServeOneType, OverridesListed
<1>6. TokensKnown'
  BY <1>1, RemovedLive DEF IInv, TokensKnown, Unknown, Kept
<1>7. QED
  BY <1>2, <1>4, <1>5, <1>6 DEF IInv

\* Players move tokens, which leaves them in the world.
LEMMA CarryIInv ==
  ASSUME IInv, NEW k \in Tokens, NEW to \in {"held", "dropped"},
         place[k] \in InWorld, place' = [place EXCEPT ![k] = to],
         UNCHANGED <<inRound, defs, lists, points, type>>
  PROVE  IInv' /\ \A t \in Types : Live(t)' = Live(t)
<1>1. TypeOK'
  BY DEF IInv, TypeOK, defs, lists, points
<1>2. Agree'
  <2>1. \A j \in Tokens : place'[j] = IF j = k THEN to ELSE place[j]
    BY DEF IInv, TypeOK
  <2>2. /\ UNCHANGED <<item, disabled, override, type>>
        /\ \A s \in Spawners : item[s] # None => item[s] \in Tokens
    BY DEF points, IInv, TypeOK
  <2>3. HoldersAgree'
    BY <2>1, <2>2 DEF IInv, Agree, HoldersAgree
  <2>4. QED
    BY <2>2, <2>3 DEF IInv, Agree, SpawnersAgree
<1>3. \A t \in Types : Live(t)' = Live(t)
  BY DEF Live, IInv, TypeOK
<1>4. Lists' /\ TokensKnown'
  BY <1>3 DEF IInv, Lists, SpawnersServeOneType, OverridesListed, TokensKnown, lists, points, Kept
<1>5. QED
  BY <1>1, <1>2, <1>3, <1>4 DEF IInv

LEMMA DisableIInv ==
  ASSUME IInv, NEW s \in Spawners, Disable(s)
  PROVE  IInv' /\ \A t \in Types : Live(t)' = Live(t) \ Held({s})
<1>1. /\ Held({s}) \in SUBSET Tokens
      /\ Held({s}) = IF item[s] = None THEN {} ELSE {item[s]}
  BY DEF Held, IInv, TypeOK
<1>2. /\ disabled' = disabled \cup {s}
      /\ Removed(Held({s})) /\ known' = Unknown(Held({s})) /\ item' = [item EXCEPT ![s] = None]
      /\ UNCHANGED <<inRound, defs, spawners, lost, override>>
  BY DEF Disable
<1>3. TypeOK'
  BY <1>2 DEF IInv, TypeOK, Removed, Unknown, defs
<1>4. /\ type' = type
      /\ \A k \in Tokens : place'[k] = IF k \in Held({s}) THEN "dying" ELSE place[k]
      /\ \A r \in Spawners : item'[r] = IF r = s THEN None ELSE item[r]
  BY <1>2 DEF Removed, IInv, TypeOK
<1>5. \A r \in Spawners \ {s} : item[r] # None =>
        item[r] \notin Held({s}) /\ item[r] \in Tokens
  BY <1>1 DEF IInv, Agree, HoldersAgree, TypeOK
<1>6. HoldersAgree'
  <2>1. ASSUME NEW k \in Tokens, place'[k] = "spawner"
        PROVE  \E r \in Spawners \ disabled' : item'[r] = k
    <3>1. k \notin Held({s}) /\ place[k] = "spawner"
      BY <1>4, <2>1
    <3>2. PICK r \in Spawners \ disabled : item[r] = k
      BY <3>1 DEF IInv, Agree, HoldersAgree
    <3>3. r # s
      BY <3>1, <3>2, <1>1, TokensAssumption
    <3>4. QED
      BY <1>2, <1>4, <3>2, <3>3
  <2>2. \A k \in Tokens : place'[k] = "free" <=> type'[k] = None
    <3>1. \A k \in Held({s}) : place[k] # "free"
      BY <1>1 DEF IInv, Agree, HoldersAgree
    <3>2. QED
      BY <1>4, <3>1 DEF IInv, Agree, HoldersAgree
  <2>3. \A r \in Spawners : item'[r] # None =>
          /\ place'[item'[r]] \in InWorld
          /\ \A q \in Spawners \ {r} : item'[q] # item'[r]
    BY <1>4, <1>5 DEF IInv, Agree, HoldersAgree
  <2>4. QED
    BY <2>1, <2>2, <2>3 DEF HoldersAgree
<1>7. SpawnersAgree'
  BY <1>2, <1>4 DEF IInv, Agree, SpawnersAgree
<1>8. Lists'
  BY <1>2 DEF IInv, Lists, SpawnersServeOneType, OverridesListed
<1>9. \A t \in Types : Live(t)' = Live(t) \ Held({s})
  BY <1>1, <1>2, RemovedLive
<1>10. TokensKnown'
  BY <1>2, <1>9 DEF IInv, TokensKnown, Unknown, Kept
<1>11. QED
  BY <1>3, <1>6, <1>7, <1>8, <1>9, <1>10 DEF IInv, Agree

LEMMA EnableIInv == ASSUME IInv, NEW s \in Spawners, Enable(s) PROVE IInv'
<1>1. TypeOK'
  BY DEF Enable, IInv, TypeOK, defs, lists, ents
<1>2. Agree'
  BY DEF Enable, IInv, Agree, HoldersAgree, SpawnersAgree, ents
<1>3. Lists' /\ TokensKnown'
  BY DEF Enable, IInv, Lists, SpawnersServeOneType, OverridesListed, TokensKnown, Live, lists, ents
<1>4. QED
  BY <1>1, <1>2, <1>3 DEF IInv

LEMMA SameIInv ==
  ASSUME IInv, inRound' \in BOOLEAN, UNCHANGED <<defs, lists, points, ents>> PROVE IInv'
<1>1. TypeOK'
  BY DEF IInv, TypeOK, defs, lists, points, ents
<1>2. Agree'
  BY DEF IInv, Agree, HoldersAgree, SpawnersAgree, ents, points
<1>3. Lists' /\ TokensKnown'
  BY DEF IInv, Lists, SpawnersServeOneType, OverridesListed, TokensKnown, Live, lists, ents, points
<1>4. QED
  BY <1>1, <1>2, <1>3 DEF IInv

\* A spawner notices that what it held was picked up.
LEMMA NoticeIInv ==
  ASSUME IInv, NEW s \in Spawners, item' = [item EXCEPT ![s] = Noticed(s)],
         UNCHANGED <<inRound, defs, lists, override, disabled, ents>>
  PROVE  IInv'
<1>1. TypeOK'
  BY DEF Noticed, IInv, TypeOK, defs, lists, ents
<1>2. /\ \A r \in Spawners : item'[r] = IF r = s THEN Noticed(s) ELSE item[r]
      /\ UNCHANGED <<override, disabled, type, place>>
      /\ Noticed(s) \in {item[s], None}
      /\ item[s] # None /\ place[item[s]] = "spawner" => Noticed(s) = item[s]
  BY DEF Noticed, IInv, TypeOK, ents
<1>3. HoldersAgree'
  <2>1. ASSUME NEW k \in Tokens, place'[k] = "spawner"
        PROVE  \E r \in Spawners \ disabled' : item'[r] = k
    <3>1. PICK r \in Spawners \ disabled : item[r] = k
      BY <1>2, <2>1 DEF IInv, Agree, HoldersAgree
    <3>2. item'[r] = k
      BY <1>2, <2>1, <3>1, TokensAssumption
    <3>3. QED
      BY <1>2, <3>1, <3>2
  <2>2. \A k \in Tokens : place'[k] = "free" <=> type'[k] = None
    BY <1>2 DEF IInv, Agree, HoldersAgree
  <2>3. \A r \in Spawners : item'[r] # None =>
          /\ place'[item'[r]] \in InWorld
          /\ \A q \in Spawners \ {r} : item'[q] # item'[r]
    BY <1>2 DEF IInv, Agree, HoldersAgree
  <2>4. QED
    BY <2>1, <2>2, <2>3 DEF HoldersAgree
<1>4. SpawnersAgree'
  BY <1>2 DEF IInv, Agree, SpawnersAgree
<1>5. Lists' /\ TokensKnown'
  BY DEF IInv, Lists, SpawnersServeOneType, OverridesListed, TokensKnown, Live, lists, ents
<1>6. QED
  BY <1>1, <1>3, <1>4, <1>5 DEF IInv, Agree

\* A spawner puts a token into the world in place of the one it held.
LEMMA SpawnEntIInv ==
  ASSUME IInv, NEW s \in Spawners \ disabled, NEW k \in Unused, override[s] # None,
         SpawnEnt(s, k)
  PROVE  /\ IInv' /\ override[s] \in Types /\ {Noticed(s)} \ {None} \subseteq Live(override[s])
         /\ \A u \in Types :
              Live(u)' = (Live(u) \ ({Noticed(s)} \ {None}))
                \cup (IF /\ u = override[s]
                         /\ override[s] \notin defined \/ s \in spawners[override[s]]
                        THEN {k} ELSE {})
<1> DEFINE old  == {Noticed(s)} \ {None}
           t    == override[s]
           stay == t \notin defined \/ s \in spawners[t]
<1>1. /\ k \in Tokens /\ place[k] = "free" /\ type[k] = None
      /\ t \in Types
      /\ \A u \in Types : k \notin known[u]
  BY DEF Unused, IInv, TypeOK, Agree, HoldersAgree
<1>2. /\ old \subseteq Tokens /\ k \notin old
      /\ \A j \in old : j = item[s] /\ place[j] = "spawner" /\ type[j] = t
      /\ item[s] # None /\ place[item[s]] = "spawner" => old = {item[s]}
  BY <1>1 DEF Noticed, IInv, TypeOK, Agree, SpawnersAgree
<1>3. /\ type' = [type EXCEPT ![k] = t]
      /\ place' = [j \in Tokens |-> IF j = k THEN (IF stay THEN "spawner" ELSE "dying")
                                    ELSE IF j \in old THEN "dying" ELSE place[j]]
      /\ item' = [item EXCEPT ![s] = IF stay THEN k ELSE None]
      /\ known' = IF stay /\ t \in defined THEN [Unknown(old) EXCEPT ![t] = @ \cup {k}]
                                           ELSE Unknown(old)
      /\ UNCHANGED <<inRound, defs, spawners, lost, override, disabled>>
  BY DEF SpawnEnt
<1>4. /\ \A j \in Tokens : type'[j] = IF j = k THEN t ELSE type[j]
      /\ \A r \in Spawners : item'[r] = IF r = s THEN (IF stay THEN k ELSE None) ELSE item[r]
      /\ \A u \in Types : known'[u] = IF stay /\ t \in defined /\ u = t
                                        THEN (known[u] \ old) \cup {k} ELSE known[u] \ old
  BY <1>3 DEF Unknown, IInv, TypeOK
<1>5. TypeOK'
  <2>1. /\ type' \in [Tokens -> Types \cup {None}]
        /\ item' \in [Spawners -> Tokens \cup {None}]
    BY <1>1, <1>3 DEF IInv, TypeOK
  <2>2. place' \in [Tokens -> Places]
    BY <1>3 DEF IInv, TypeOK
  <2>3. known' \in [Types -> SUBSET Tokens]
    BY <1>1, <1>3 DEF Unknown, IInv, TypeOK
  <2>4. ASSUME NEW u \in Types \ defined
        PROVE  limit'[u] = 0 /\ known'[u] = {} /\ spawners'[u] = {}
    <3>1. limit[u] = 0 /\ known[u] = {} /\ spawners[u] = {}
      BY DEF IInv, TypeOK
    <3>2. ~ (t \in defined /\ u = t)
      OBVIOUS
    <3>3. known'[u] = known[u] \ old
      BY <1>4, <3>2
    <3>4. QED
      BY <1>3, <3>1, <3>3 DEF defs
  <2>5. QED
    BY <1>3, <2>1, <2>2, <2>3, <2>4 DEF IInv, TypeOK, defs
<1>6. \A u \in Types :
        Live(u)' = (Live(u) \ old) \cup (IF u = t /\ stay THEN {k} ELSE {})
  BY <1>1, <1>2, <1>3, <1>4 DEF Live
<1>7. HoldersAgree'
  <2>1. \A r \in Spawners : r # s /\ item[r] # None =>
          /\ item[r] # k /\ item[r] \notin old /\ item[r] \in Tokens
          /\ place[item[r]] \in InWorld
    BY <1>1, <1>2 DEF IInv, TypeOK, Agree, HoldersAgree
  <2>2. ASSUME NEW j \in Tokens, place'[j] = "spawner"
        PROVE  \E r \in Spawners \ disabled' : item'[r] = j
    <3>1. CASE j = k
      BY <1>3, <1>4, <2>2, <3>1
    <3>2. CASE j # k
      <4>1. j \notin old /\ place[j] = "spawner"
        BY <1>3, <2>2, <3>2
      <4>2. PICK r \in Spawners \ disabled : item[r] = j
        BY <4>1 DEF IInv, Agree, HoldersAgree
      <4>3. r # s
        BY <1>2, <4>1, <4>2, TokensAssumption
      <4>4. QED
        BY <1>3, <1>4, <4>2, <4>3
    <3>3. QED
      BY <3>1, <3>2
  <2>3. \A j \in Tokens : place'[j] = "free" <=> type'[j] = None
    <3>1. \A j \in old : type[j] # None
      BY <1>1, <1>2, TokensAssumption
    <3>2. QED
      BY <1>1, <1>3, <1>4, <3>1, TokensAssumption DEF IInv, Agree, HoldersAgree
  <2>4. \A r \in Spawners : item'[r] # None => place'[item'[r]] \in InWorld
    BY <1>1, <1>3, <1>4, <2>1
  <2>5. \A r \in Spawners : item'[r] # None => \A q \in Spawners \ {r} : item'[q] # item'[r]
    BY <1>1, <1>4, <2>1, TokensAssumption DEF IInv, Agree, HoldersAgree
  <2>6. QED
    BY <2>2, <2>3, <2>4, <2>5 DEF HoldersAgree
<1>8. SpawnersAgree'
  <2>1. \A r \in Spawners : r # s /\ item[r] # None => item[r] # k /\ item[r] \in Tokens
    BY <1>1 DEF IInv, TypeOK, Agree, HoldersAgree
  <2>2. QED
    BY <1>1, <1>3, <1>4, <2>1 DEF IInv, Agree, SpawnersAgree
<1>9. Lists'
  BY <1>3 DEF IInv, Lists, SpawnersServeOneType, OverridesListed
<1>10. TokensKnown'
  <2>1. ASSUME NEW u \in Kept PROVE Live(u)' \subseteq known'[u]
    <3>1. u \in Types /\ Live(u) \subseteq known[u]
      BY DEF IInv, TokensKnown, Kept
    <3>2. u = t => t \in defined
      <4>1. u = t => s \in spawners[t]
        BY DEF IInv, Lists, OverridesListed
      <4>2. QED
        BY <1>1, <4>1 DEF IInv, TypeOK
    <3>3. QED
      BY <1>4, <1>6, <3>1, <3>2
  <2>2. QED
    BY <2>1 DEF TokensKnown
<1>11. old \subseteq Live(t)
  BY <1>2 DEF Live
<1>12. QED
  BY <1>1, <1>5, <1>6, <1>7, <1>8, <1>9, <1>10, <1>11 DEF IInv, Agree

LEMMA SpawnerThinkIInv == ASSUME IInv, NEW s \in Spawners, SpawnerThink(s) PROVE IInv'
<1>1. CASE \E k \in Unused : SpawnEnt(s, k)
  <2>1. s \notin disabled /\ override[s] # None
    BY DEF SpawnerThink
  <2>2. PICK k \in Unused : SpawnEnt(s, k)
    BY <1>1
  <2>3. QED
    BY <2>1, <2>2, SpawnEntIInv
<1>2. CASE ~ \E k \in Unused : SpawnEnt(s, k)
  BY <1>2, NoticeIInv DEF SpawnerThink
<1>3. QED
  BY <1>1, <1>2

\* Freeing tokens that no spawner holds keeps spawners and entities in agreement.
LEMMA FreedAgrees ==
  ASSUME TypeOK, Agree, NEW K \in SUBSET Tokens, Freed(K),
         item' = [s \in Spawners |-> IF item[s] \in K THEN None ELSE item[s]],
         UNCHANGED disabled
  PROVE  /\ HoldersAgree'
         /\ type' \in [Tokens -> Types \cup {None}] /\ place' \in [Tokens -> Places]
         /\ item' \in [Spawners -> Tokens \cup {None}]
         /\ \A s \in Spawners : item'[s] # None => item'[s] = item[s] /\ type'[item[s]] = type[item[s]]
<1> DEFINE freed == K \cup {k \in Tokens : place[k] = "dying"}
<1>1. /\ \A k \in Tokens : place'[k] = IF k \in freed THEN "free" ELSE place[k]
      /\ \A k \in Tokens : type'[k] = IF k \in freed THEN None ELSE type[k]
      /\ type' \in [Tokens -> Types \cup {None}] /\ place' \in [Tokens -> Places]
  BY DEF Freed, TypeOK
<1>2. /\ item' \in [Spawners -> Tokens \cup {None}]
      /\ \A s \in Spawners : item'[s] = IF item[s] \in K THEN None ELSE item[s]
  BY DEF TypeOK
<1>3. \A s \in Spawners : item'[s] # None =>
        item'[s] = item[s] /\ item[s] \in Tokens \ freed /\ place[item[s]] \in InWorld
  BY <1>2 DEF TypeOK, Agree, HoldersAgree
<1>4. HoldersAgree'
  <2>1. ASSUME NEW k \in Tokens, place'[k] = "spawner"
        PROVE  \E s \in Spawners \ disabled' : item'[s] = k
    <3>1. k \notin freed /\ place[k] = "spawner"
      BY <1>1, <2>1
    <3>2. PICK s \in Spawners \ disabled : item[s] = k
      BY <3>1 DEF Agree, HoldersAgree
    <3>3. QED
      BY <1>2, <3>1, <3>2
  <2>2. \A k \in Tokens : place'[k] = "free" <=> type'[k] = None
    BY <1>1 DEF Agree, HoldersAgree
  <2>3. \A s \in Spawners : item'[s] # None =>
          /\ place'[item'[s]] \in InWorld
          /\ \A r \in Spawners \ {s} : item'[r] # item'[s]
    BY <1>1, <1>3 DEF Agree, HoldersAgree
  <2>4. QED
    BY <2>1, <2>2, <2>3 DEF HoldersAgree
<1>5. QED
  BY <1>1, <1>2, <1>3, <1>4

LEMMA FrameEndIInv == ASSUME IInv, FrameEnd PROVE IInv' /\ \A t \in Types : Live(t)' = Live(t)
<1>1. /\ Freed({}) /\ {} \in SUBSET Tokens /\ UNCHANGED disabled
      /\ item' = [s \in Spawners |-> IF item[s] \in {} THEN None ELSE item[s]]
  BY DEF FrameEnd, points, IInv, TypeOK
<1>2. /\ HoldersAgree'
      /\ type' \in [Tokens -> Types \cup {None}] /\ place' \in [Tokens -> Places]
      /\ \A s \in Spawners : item'[s] # None => item'[s] = item[s] /\ type'[item[s]] = type[item[s]]
  BY <1>1, FreedAgrees DEF IInv
<1>3. TypeOK'
  BY <1>2 DEF FrameEnd, defs, lists, points, IInv, TypeOK
<1>4. SpawnersAgree'
  BY <1>2 DEF FrameEnd, points, IInv, Agree, SpawnersAgree
<1>5. \A t \in Types : Live(t)' = Live(t)
  BY <1>1, FreedLive
<1>6. Lists' /\ TokensKnown'
  BY <1>5 DEF FrameEnd, lists, points, IInv, Lists, SpawnersServeOneType, OverridesListed,
              TokensKnown, Kept
<1>7. QED
  BY <1>2, <1>3, <1>4, <1>5, <1>6 DEF IInv, Agree

LEMMA EnforceIInv ==
  ASSUME IInv, Enforce
  PROVE  IInv' /\ \A t \in Types : Live(t)' \subseteq Live(t)
<1> DEFINE Back(t, K) == IF Above(t) THEN Surplus(Valid(t), limit[t], K) ELSE {{}}
           want == [t \in Types |-> Wanted(t, Cardinality(Valid(t)), Cardinality(Present(t)))]
<1>1. /\ UNCHANGED <<inRound, defs, disabled>> /\ lost' = [t \in Types |-> 0]
      /\ \E excess \in Excess :
           LET K == excess \ {k \in Tokens : place[k] = "dying"} IN
           /\ known' = [t \in Types |-> Recounted(t, K)]
           /\ item' = [s \in Spawners |-> IF item[s] \in K THEN None ELSE item[s]]
           /\ Freed(K)
           /\ \E back \in {f \in [Types -> SUBSET Spawners] : \A t \in Types : f[t] \in Back(t, K)} :
                \E new \in Picks(want, Free(disabled), AllOf(back)) :
                  /\ spawners' = [t \in Types |-> (Valid(t) \ back[t]) \cup new[t]]
                  /\ override' = Overridden(new, Invalid \cup AllOf(back))
  BY DEF Enforce
<1>2. PICK excess \in Excess :
           LET K == excess \ {k \in Tokens : place[k] = "dying"} IN
           /\ known' = [t \in Types |-> Recounted(t, K)]
           /\ item' = [s \in Spawners |-> IF item[s] \in K THEN None ELSE item[s]]
           /\ Freed(K)
           /\ \E back \in {f \in [Types -> SUBSET Spawners] : \A t \in Types : f[t] \in Back(t, K)} :
                \E new \in Picks(want, Free(disabled), AllOf(back)) :
                  /\ spawners' = [t \in Types |-> (Valid(t) \ back[t]) \cup new[t]]
                  /\ override' = Overridden(new, Invalid \cup AllOf(back))
  BY <1>1
<1> DEFINE K == excess \ {k \in Tokens : place[k] = "dying"}
<1>3. K \in SUBSET Tokens
  BY DEF Excess, Present
<1>4. /\ known' = [t \in Types |-> Recounted(t, K)]
      /\ item' = [s \in Spawners |-> IF item[s] \in K THEN None ELSE item[s]]
      /\ Freed(K)
  BY <1>2
<1>5. PICK back \in {f \in [Types -> SUBSET Spawners] : \A t \in Types : f[t] \in Back(t, K)} :
        \E new \in Picks(want, Free(disabled), AllOf(back)) :
          /\ spawners' = [t \in Types |-> (Valid(t) \ back[t]) \cup new[t]]
          /\ override' = Overridden(new, Invalid \cup AllOf(back))
  BY <1>2
<1>6. PICK new \in Picks(want, Free(disabled), AllOf(back)) :
        /\ spawners' = [t \in Types |-> (Valid(t) \ back[t]) \cup new[t]]
        /\ override' = Overridden(new, Invalid \cup AllOf(back))
  BY <1>5
<1> HIDE DEF K
<1>7. ASSUME NEW t \in Types
      PROVE  back[t] \subseteq Valid(t) /\ Held(back[t]) \subseteq K
  <2>1. CASE Above(t)
    BY <1>5, <2>1, SurplusEmpty
  <2>2. CASE ~ Above(t)
    BY <1>5, <2>2 DEF Held
  <2>3. QED
    BY <2>1, <2>2
<1>8. Free(disabled) \cup AllOf(back) \subseteq Spawners
  BY <1>5 DEF Free, AllOf
<1>9. /\ \A t \in Types : \A s \in new[t] : override'[s] = t
      /\ \A s \in Spawners \ AllOf(new) :
           override'[s] = IF s \in Invalid \cup AllOf(back) THEN None ELSE override[s]
      /\ AllOf(new) \subseteq Free(disabled) \cup AllOf(back)
      /\ \A s \in Spawners :
           s \in AllOf(new) => \E t \in Types : s \in new[t] /\ override'[s] = t
  BY <1>6, <1>8, PicksServe
<1>10. /\ HoldersAgree'
       /\ type' \in [Tokens -> Types \cup {None}] /\ place' \in [Tokens -> Places]
       /\ item' \in [Spawners -> Tokens \cup {None}]
       /\ \A s \in Spawners :
            item'[s] # None => item'[s] = item[s] /\ type'[item[s]] = type[item[s]]
  BY <1>1, <1>3, <1>4, FreedAgrees DEF IInv
<1>11. TypeOK'
  <2>1. override' \in [Spawners -> Types \cup {None}]
    <3>1. \A s \in Spawners : override'[s] \in Types \cup {None}
      BY <1>9 DEF IInv, TypeOK
    <3>2. QED
      BY <1>6, <3>1 DEF Overridden
  <2>2. known' \in [Types -> SUBSET Tokens]
    BY <1>4 DEF Recounted, Present
  <2>3. spawners' \in [Types -> SUBSET Spawners]
    <3>1. \A t \in Types : new[t] \subseteq Spawners /\ Valid(t) \subseteq Spawners
      BY <1>6, <1>8 DEF Picks, Valid, IInv, TypeOK
    <3>2. QED
      BY <1>6, <3>1
  <2>4. lost' \in [Types -> Nat]
    BY <1>1
  <2>5. ASSUME NEW t \in Types \ defined
        PROVE  limit'[t] = 0 /\ known'[t] = {} /\ spawners'[t] = {}
    <3>1. limit[t] = 0 /\ spawners[t] = {}
      BY DEF IInv, TypeOK
    <3>2. want[t] = 0
      BY DEF Wanted
    <3>3. new[t] = {}
      BY <1>6, <1>8, <3>2, PicksNone
    <3>4. QED
      BY <1>1, <1>4, <1>6, <3>1, <3>3 DEF Recounted, Valid, defs
  <2>6. QED
    BY <1>1, <1>10, <2>1, <2>2, <2>3, <2>4, <2>5 DEF IInv, TypeOK, defs
<1>12. SpawnersAgree'
  <2>1. ASSUME NEW s \in Spawners, item'[s] # None PROVE type'[item'[s]] = override'[s]
    <3>1. item'[s] = item[s] /\ type'[item[s]] = type[item[s]] /\ item[s] # None /\ item[s] \notin K
      BY <1>4, <1>10, <2>1
    <3>2. type[item[s]] = override[s] /\ s \notin disabled /\ override[s] # None
      BY <3>1, TokensAssumption DEF IInv, Agree, SpawnersAgree, HoldersAgree, TypeOK
    <3>3. s \notin AllOf(back)
      BY <1>7, <3>1 DEF AllOf, Held
    <3>4. s \notin AllOf(new) /\ s \notin Invalid
      BY <1>9, <3>2, <3>3 DEF Free, Invalid
    <3>5. QED
      BY <1>9, <3>1, <3>2, <3>3, <3>4
  <2>2. \A s \in Spawners : s \in disabled' => item'[s] = None
    BY <1>1, <1>4 DEF IInv, Agree, SpawnersAgree
  <2>3. QED
    BY <2>1, <2>2 DEF SpawnersAgree
<1>13. SpawnersServeOneType'
  <2>1. ASSUME NEW t \in Types, NEW s \in Valid(t) \ back[t] PROVE override'[s] = t
    <3>1. s \in Spawners /\ s \in spawners[t] /\ s \notin disabled /\ override[s] = t
      BY DEF Valid, IInv, TypeOK, Lists, SpawnersServeOneType
    <3>2. \A u \in Types : s \in back[u] => u = t
      BY <1>7, <3>1 DEF Valid, IInv, Lists, SpawnersServeOneType
    <3>3. s \notin AllOf(back) /\ s \notin Invalid
      BY <3>1, <3>2 DEF AllOf, Invalid
    <3>4. s \notin AllOf(new)
      BY <1>9, <3>1, <3>3, TokensAssumption DEF Free
    <3>5. QED
      BY <1>9, <3>1, <3>3, <3>4
  <2>2. QED
    BY <1>6, <1>9, <2>1 DEF SpawnersServeOneType
<1>14. OverridesListed'
  <2>1. ASSUME NEW s \in Spawners, override'[s] \in Kept PROVE s \in spawners'[override'[s]]
    <3>1. CASE s \in AllOf(new)
      <4>1. PICK t \in Types : s \in new[t] /\ override'[s] = t
        BY <1>9, <3>1
      <4>2. \A u \in Types : new[u] \subseteq spawners'[u]
        BY <1>6
      <4>3. QED
        BY <4>1, <4>2
    <3>2. CASE s \notin AllOf(new)
      <4>1. /\ override'[s] = override[s] /\ s \notin Invalid /\ s \notin AllOf(back)
            /\ override[s] \in Types
        BY <1>9, <2>1, <3>2, TokensAssumption DEF Kept
      <4>2. s \in spawners[override[s]]
        BY <2>1, <4>1 DEF IInv, Lists, OverridesListed
      <4>3. s \in Valid(override[s]) \ back[override[s]]
        BY <4>1, <4>2 DEF Valid, Invalid, AllOf
      <4>4. \A t \in Types : Valid(t) \ back[t] \subseteq spawners'[t]
        BY <1>6
      <4>5. QED
        BY <4>1, <4>3, <4>4
    <3>3. QED
      BY <3>1, <3>2
  <2>2. QED
    BY <2>1 DEF OverridesListed
<1>15. \A t \in Types : Live(t)' = Live(t) \ K
  BY <1>3, <1>4, FreedLive
<1>16. TokensKnown'
  <2>1. ASSUME NEW t \in Kept PROVE Live(t)' \subseteq known'[t]
    <3>1. t \in Types /\ Live(t) \subseteq known[t] /\ Live(t)' = Live(t) \ K
      BY <1>15 DEF IInv, TokensKnown, Kept
    <3>2. Live(t) \subseteq Present(t)
      BY DEF Live, Present
    <3>3. t \notin defined => known[t] = {}
      BY <3>1 DEF IInv, TypeOK
    <3>4. known'[t] = IF t \in defined THEN Present(t) \ K ELSE {}
      BY <1>4, <3>1 DEF Recounted
    <3>5. QED
      BY <3>1, <3>2, <3>3, <3>4
  <2>2. QED
    BY <2>1 DEF TokensKnown
<1>17. QED
  BY <1>10, <1>11, <1>12, <1>13, <1>14, <1>15, <1>16 DEF IInv, Agree, Lists

LEMMA NewRoundIInv ==
  ASSUME IInv, NewRound
  PROVE  IInv' /\ \A t \in Kept : Live(t)' = {}
<1> DEFINE handed == {k \in InHands : type[k] \in defined /\ k \in known[type[k]]}
           stale == [t \in Types |-> known[t] \ Live(t)]
           want == [t \in Types |-> Wanted(t, Length(t), Cardinality(stale[t]))]
<1>1. /\ inRound' = TRUE /\ UNCHANGED defs
      /\ place' = [k \in Tokens |-> IF k \in handed THEN "dying"
                                    ELSE IF k \in InHands THEN "held" ELSE "free"]
      /\ type' = [k \in Tokens |-> IF k \in InHands THEN type[k] ELSE None]
      /\ known' = stale
      /\ item' = [s \in Spawners |-> None] /\ disabled' = StartDisabled
      /\ \E new \in Picks(want, Spawners \ StartDisabled, {}) :
           spawners' = new /\ override' = Overridden(new, Spawners)
      /\ lost' = [t \in Types |-> Length(t)]
  BY DEF NewRound
<1>2. PICK new \in Picks(want, Spawners \ StartDisabled, {}) :
        spawners' = new /\ override' = Overridden(new, Spawners)
  BY <1>1
<1>3. (Spawners \ StartDisabled) \cup {} \subseteq Spawners
  OBVIOUS
<1>4. /\ \A t \in Types : \A s \in new[t] : override'[s] = t
      /\ \A s \in Spawners \ AllOf(new) : override'[s] = None
      /\ \A s \in Spawners : s \in AllOf(new) => \E t \in Types : s \in new[t] /\ override'[s] = t
  BY <1>2, <1>3, PicksServe
<1>5. TypeOK'
  <2>1. override' \in [Spawners -> Types \cup {None}]
    <3>1. \A s \in Spawners : override'[s] \in Types \cup {None}
      BY <1>4
    <3>2. QED
      BY <1>2, <3>1 DEF Overridden
  <2>2. spawners' \in [Types -> SUBSET Spawners]
    BY <1>2 DEF Picks
  <2>3. known' \in [Types -> SUBSET Tokens]
    BY <1>1 DEF IInv, TypeOK
  <2>4. lost' \in [Types -> Nat]
    <3>1. ASSUME NEW t \in Types PROVE Length(t) \in Nat
      <4>1. spawners[t] \subseteq Spawners /\ lost[t] \in Nat
        BY DEF IInv, TypeOK
      <4>2. Cardinality(spawners[t]) \in Nat
        BY <4>1, Finite
      <4>3. QED
        BY <4>1, <4>2 DEF Length
    <3>2. QED
      BY <1>1, <3>1
  <2>5. type' \in [Tokens -> Types \cup {None}] /\ place' \in [Tokens -> Places]
    BY <1>1 DEF IInv, TypeOK
  <2>6. ASSUME NEW t \in Types \ defined
        PROVE  limit'[t] = 0 /\ known'[t] = {} /\ spawners'[t] = {}
    <3>1. limit[t] = 0 /\ known[t] = {}
      BY DEF IInv, TypeOK
    <3>2. want[t] = 0
      BY DEF Wanted
    <3>3. new[t] = {}
      BY <1>2, <1>3, <3>2, PicksNone
    <3>4. QED
      BY <1>1, <1>2, <3>1, <3>3 DEF defs
  <2>7. inRound' \in BOOLEAN /\ item' \in [Spawners -> Tokens \cup {None}]
    BY <1>1
  <2>8. QED
    BY <1>1, <2>1, <2>2, <2>3, <2>4, <2>5, <2>6, <2>7, TokensAssumption DEF IInv, TypeOK, defs
<1>6. Agree'
  <2>1. \A k \in Tokens : place'[k] # "spawner" /\ (place'[k] = "free" <=> k \notin InHands)
    BY <1>1
  <2>2. \A k \in InHands : k \in Tokens /\ type[k] # None
    BY DEF InHands, IInv, Agree, HoldersAgree
  <2>3. \A k \in Tokens : place'[k] = "free" <=> type'[k] = None
    BY <1>1, <2>1, <2>2
  <2>4. \A s \in Spawners : item'[s] = None
    BY <1>1
  <2>5. QED
    BY <2>1, <2>3, <2>4 DEF Agree, HoldersAgree, SpawnersAgree
<1>7. Lists'
  BY <1>2, <1>4, TokensAssumption DEF Lists, SpawnersServeOneType, OverridesListed, Kept
<1>8. ASSUME NEW t \in Kept, NEW k \in Tokens, type'[k] = t, place'[k] \in InWorld PROVE FALSE
  <2>1. k \in InHands \ handed /\ type[k] = t /\ t \in Types
    BY <1>1, <1>8, TokensAssumption DEF Kept
  <2>2. k \in Live(t)
    BY <2>1 DEF InHands, Live
  <2>3. k \in known[t]
    BY <2>2 DEF IInv, TokensKnown
  <2>4. t \in defined
    BY <2>1, <2>3 DEF IInv, TypeOK
  <2>5. QED
    BY <2>1, <2>3, <2>4
<1>9. \A t \in Kept : Live(t)' = {}
  BY <1>8 DEF Live
<1>10. QED
  BY <1>5, <1>6, <1>7, <1>9 DEF IInv, TokensKnown

-----------------------------------------------------------------------------
(* The invariants.                                                         *)

\* Every step keeps the invariant.
LEMMA NextIInv == IInv /\ [Next]_vars => IInv'
<1> SUFFICES ASSUME IInv, [Next]_vars PROVE IInv'
  OBVIOUS
<1>1. CASE \E t \in Types : RemoveTokenDef(t) \/ \E n \in Limits[t] : SetupToken(t, n)
  BY <1>1, RemoveTokenDefIInv, SetupTokenIInv
<1>2. CASE \E k \in Tokens, adjustLimit \in BOOLEAN : RemoveTokenEnt(k, adjustLimit)
  BY <1>2, RemoveTokenEntIInv
<1>3. CASE ResetManager
  BY <1>3, ResetManagerIInv
<1>4. CASE \E k \in Tokens : Pickup(k) \/ Drop(k)
  BY <1>4, CarryIInv DEF Pickup, Drop
<1>5. CASE \E k \in Tokens : Expire(k)
  BY <1>5, ExpireIInv
<1>6. CASE \E s \in Spawners : Disable(s) \/ Enable(s)
  BY <1>6, DisableIInv, EnableIInv
<1>7. CASE EndRound \/ UNCHANGED vars
  <2>1. inRound' \in BOOLEAN /\ UNCHANGED <<defs, lists, points, ents>>
    BY <1>7 DEF EndRound, vars, IInv, TypeOK
  <2>2. QED
    BY <2>1, SameIInv
<1>8. CASE NewRound
  BY <1>8, NewRoundIInv
<1>9. CASE Enforce \/ FrameEnd
  BY <1>9, EnforceIInv, FrameEndIInv
<1>10. CASE \E s \in Spawners : SpawnerThink(s)
  BY <1>10, SpawnerThinkIInv
<1>11. QED
  BY <1>1, <1>2, <1>3, <1>4, <1>5, <1>6, <1>7, <1>8, <1>9, <1>10
  DEF Next, Scenario, World, Manager

\* The inductive invariant holds in every state.
LEMMA Invariance == Spec => []IInv
<1>1. Init => IInv
  BY InitIInv
<1>2. IInv /\ [Next]_vars => IInv'
  BY NextIInv
<1>3. QED
  BY <1>1, <1>2, PTL DEF Spec

\* TypeOK: every list holds what it should, and those of a type whose definition was
\* removed are empty.
THEOREM TypeCorrect == Spec => []TypeOK
BY Invariance, PTL DEF IInv

\* HoldersAgree: no token lies at a spawner that does not know it, or at two.
THEOREM SpawnersHoldTheirTokens == Spec => []HoldersAgree
BY Invariance, PTL DEF IInv, Agree

\* SpawnersServeOneType: whatever is given back, disabled, reloaded and picked, the
\* lists of the types are disjoint, and each spawner on a list serves its type.
THEOREM NoSpawnerServesTwoTypes == Spec => []SpawnersServeOneType
BY Invariance, PTL DEF IInv, Lists

\* OverridesListed: no spawner goes on serving a kept type that has lost sight of it.
THEOREM NoOverrideIsForgotten == Spec => []OverridesListed
BY Invariance, PTL DEF IInv, Lists

\* TokensKnown: the manager counts every token of a kept type that is in the world.
THEOREM NoTokenIsUnknown == Spec => []TokensKnown
BY Invariance, PTL DEF IInv

-----------------------------------------------------------------------------
(* The refinement of TokenPool.                                            *)

PoolOf == [t \in Kept |-> Live(t)]

\* The initial states map to the initial state of the pool.
LEMMA InitPool == Init => Pool!Init
BY TokensAssumption DEF Init, Pool!Init, Live, Kept

\* A step that leaves the definitions and limits of the kept types, and in which their
\* tokens at most go.
LEMMA OnlyLeaves ==
  ASSUME defined' \cap Kept = defined \cap Kept, \A t \in Kept : limit'[t] = limit[t],
         \A t \in Kept : Live(t)' \subseteq Live(t)
  PROVE  Pool!Leave
<1>1. PoolOf' \in [Kept -> SUBSET Tokens] /\ \A t \in Kept : PoolOf'[t] \subseteq PoolOf[t]
  BY DEF PoolOf, Live
<1>2. [t \in Kept |-> limit[t]]' = [t \in Kept |-> limit[t]]
  OBVIOUS
<1>3. QED
  BY <1>1, <1>2 DEF Pool!Leave, PoolOf

LEMMA PoolCardinality == \A S : Pool!Cardinality(S) = Cardinality(S)
BY DEF Cardinality, Pool!Cardinality

\* A spawner that puts a token of a kept type into the world finds room for it.
LEMMA SpawnEntPool ==
  ASSUME IInv, NEW s \in Spawners, SpawnerThink(s), NEW k \in Unused, SpawnEnt(s, k),
         NEW t, t = override[s], ShouldSpawnToken(t)
  PROVE  Pool!Next
<1> DEFINE old == {Noticed(s)} \ {None}
<1>1. s \in Spawners \ disabled /\ override[s] # None
  BY DEF SpawnerThink
<1>2. /\ t \in Types /\ old \subseteq Live(t)
      /\ \A u \in Types :
           Live(u)' = (Live(u) \ old)
             \cup (IF u = t /\ (t \notin defined \/ s \in spawners[t]) THEN {k} ELSE {})
  BY <1>1, SpawnEntIInv
<1>3. UNCHANGED <<defined, limit>>
  BY DEF SpawnEnt, defs
<1>4. CASE t \notin Kept
  <2>1. \A u \in Kept : Live(u)' \subseteq Live(u)
    BY <1>2, <1>4 DEF Kept
  <2>2. QED
    BY <1>3, <2>1, OnlyLeaves DEF Pool!Next
<1>5. CASE t \in Kept
  <2>1. s \in spawners[t] /\ t \in defined
    BY <1>2, <1>5 DEF IInv, Lists, OverridesListed, TypeOK
  <2>2. Live(t)' = (Live(t) \ old) \cup {k}
    BY <1>2, <2>1
  <2>3. ASSUME NEW u \in Kept, u # t PROVE Live(u)' = Live(u)
    BY <1>2, <2>3 DEF Live, Kept
  <2>4. PoolOf' = [PoolOf EXCEPT ![t] = (Live(t) \ old) \cup {k}]
    BY <1>5, <2>2, <2>3 DEF PoolOf
  <2>5. k \in Tokens /\ \A u \in Kept : k \notin PoolOf[u]
    BY DEF Unused, PoolOf, Live
  <2>6. limit[t] = -1 \/ Cardinality(Live(t) \ old) < limit[t]
    <3>1. known[t] \subseteq Tokens /\ Live(t) \ old \subseteq known[t] /\ limit[t] \in Int
      BY <1>2, <1>5 DEF IInv, TokensKnown, TypeOK
    <3>2. /\ Cardinality(Live(t) \ old) <= Cardinality(known[t])
          /\ Cardinality(Live(t) \ old) \in Nat /\ Cardinality(known[t]) \in Nat
      BY <3>1, Finite, FS_Subset
    <3>3. limit[t] = -1 \/ Cardinality(known[t]) < limit[t]
      BY <2>1 DEF ShouldSpawnToken
    <3>4. QED
      BY <3>1, <3>2, <3>3
  <2>7. Pool!Enter(t)
    <3>1. t \in defined \cap Kept /\ PoolOf[t] = Live(t) /\ [u \in Kept |-> limit[u]][t] = limit[t]
      BY <1>5, <2>1 DEF PoolOf
    <3>2. UNCHANGED <<defined \cap Kept, [u \in Kept |-> limit[u]]>>
      BY <1>3
    <3>3. /\ Live(t) \ old \in SUBSET PoolOf[t]
          /\ [u \in Kept |-> limit[u]][t] = -1
             \/ Pool!Cardinality(Live(t) \ old) < [u \in Kept |-> limit[u]][t]
      BY <2>6, <3>1, PoolCardinality
    <3>4. QED
      BY <2>4, <2>5, <3>1, <3>2, <3>3 DEF Pool!Enter, PoolOf
  <2>8. QED
    BY <1>5, <2>7 DEF Pool!Next
<1>6. QED
  BY <1>4, <1>5

\* Every step maps to a step of the pool, or leaves it alone.
LEMMA NextPool == IInv /\ [Next]_vars => [Pool!Next]_(Pool!vars)
<1> SUFFICES ASSUME IInv, [Next]_vars PROVE Pool!Next \/ UNCHANGED Pool!vars
  OBVIOUS
<1>1. ASSUME NEW t \in Types, NEW n \in Limits[t], SetupToken(t, n) PROVE Pool!Next
  <2>1. /\ \A u \in Kept : Live(u)' = Live(u)
        /\ defined' = defined \cup {t} /\ limit' = [limit EXCEPT ![t] = n]
    BY <1>1 DEF SetupToken, ents, Live
  <2>2. CASE t \notin Kept
    BY <2>1, <2>2, OnlyLeaves DEF Pool!Next, IInv, TypeOK, Kept
  <2>3. CASE t \in Kept
    <3>1. PoolOf' = PoolOf
      BY <2>1 DEF PoolOf
    <3>2. defined' \cap Kept = (defined \cap Kept) \cup {t}
      BY <2>1, <2>3
    <3>3. /\ limit'[t] \in Int
          /\ [u \in Kept |-> limit[u]]' = [[u \in Kept |-> limit[u]] EXCEPT ![t] = limit'[t]]
          /\ [u \in Kept |-> limit[u]]'[t] = limit'[t]
      BY <2>1, <2>3, TokensAssumption DEF IInv, TypeOK, Kept
    <3>4. Pool!SetLimit(t)
      BY <3>1, <3>2, <3>3 DEF Pool!SetLimit, PoolOf
    <3>5. QED
      BY <2>3, <3>4 DEF Pool!Next
  <2>4. QED
    BY <2>2, <2>3
<1>2. ASSUME NEW t \in Types, RemoveTokenDef(t) PROVE Pool!Next
  <2>1. /\ t \notin Kept /\ Removed(known[t] \cap Live(t)) /\ defined' = defined \ {t}
        /\ limit' = [limit EXCEPT ![t] = 0] /\ known[t] \cap Live(t) \in SUBSET Tokens
    BY <1>2 DEF RemoveTokenDef, Kept, Live
  <2>2. \A u \in Kept : Live(u)' \subseteq Live(u) /\ limit'[u] = limit[u]
    BY <2>1, RemovedLive DEF IInv, TypeOK, Kept
  <2>3. QED
    BY <2>1, <2>2, OnlyLeaves DEF Pool!Next
<1>3. ASSUME NEW k \in Tokens, NEW adjustLimit \in BOOLEAN, RemoveTokenEnt(k, adjustLimit)
      PROVE  Pool!Next
  <2> DEFINE t == type[k]
  <2>1. /\ place[k] \in InWorld /\ t \in defined /\ t \in Types /\ Removed({k})
        /\ defined' = defined /\ {k} \in SUBSET Tokens
        /\ limit' = limit \/ limit' = [limit EXCEPT ![t] = limit[t] - 1]
    BY <1>3 DEF RemoveTokenEnt, IInv, TypeOK
  <2>2. \A u \in Kept : Live(u)' = Live(u) \ {k}
    BY <2>1, RemovedLive
  <2>3. CASE limit' = limit \/ t \notin Kept
    <3>1. \A u \in Kept : limit'[u] = limit[u]
      BY <2>1, <2>3 DEF IInv, TypeOK, Kept
    <3>2. QED
      BY <2>1, <2>2, <3>1, OnlyLeaves DEF Pool!Next
  <2>4. CASE limit' = [limit EXCEPT ![t] = limit[t] - 1] /\ t \in Kept
    <3>1. PoolOf' \in [Kept -> SUBSET Tokens] /\ \A u \in Kept : PoolOf'[u] \subseteq PoolOf[u]
      BY <2>2 DEF PoolOf, Live
    <3>2. PoolOf'[t] # PoolOf[t]
      BY <2>1, <2>2, <2>4 DEF PoolOf, Live
    <3>3. [u \in Kept |-> limit[u]]' =
            [[u \in Kept |-> limit[u]] EXCEPT ![t] = [u \in Kept |-> limit[u]][t] - 1]
      BY <2>4 DEF IInv, TypeOK, Kept
    <3>4. Pool!Leave
      BY <2>1, <2>4, <3>1, <3>2, <3>3 DEF Pool!Leave, PoolOf
    <3>5. QED
      BY <3>4 DEF Pool!Next
  <2>5. QED
    BY <2>1, <2>3, <2>4
<1>4. CASE ResetManager
  <2>1. \A t \in Kept : Live(t)' = {}
    BY <1>4, ResetManagerIInv
  <2>2. defined' = {} /\ limit' = [t \in Types |-> 0]
    BY <1>4 DEF ResetManager
  <2>3. Pool!Clear
    BY <2>1, <2>2 DEF Pool!Clear, Kept
  <2>4. QED
    BY <2>3 DEF Pool!Next
<1>5. ASSUME UNCHANGED defs, \A t \in Kept : Live(t)' \subseteq Live(t) PROVE Pool!Next
  BY <1>5, OnlyLeaves DEF Pool!Next, defs
<1>6. ASSUME NEW k \in Tokens, Pickup(k) \/ Drop(k) \/ Expire(k) PROVE Pool!Next
  <2>1. CASE Pickup(k) \/ Drop(k)
    <3>1. \A t \in Types : Live(t)' = Live(t)
      BY <2>1, CarryIInv DEF Pickup, Drop
    <3>2. QED
      BY <1>5, <2>1, <3>1 DEF Pickup, Drop, Kept
  <2>2. CASE Expire(k)
    BY <1>5, <2>2, RemovedLive DEF Expire
  <2>3. QED
    BY <1>6, <2>1, <2>2
<1>7. ASSUME NEW s \in Spawners, Disable(s) \/ Enable(s) PROVE Pool!Next
  <2>1. CASE Disable(s)
    BY <1>5, <2>1, DisableIInv DEF Disable, Kept
  <2>2. CASE Enable(s)
    BY <1>5, <2>2 DEF Enable, ents, Live
  <2>3. QED
    BY <1>7, <2>1, <2>2
<1>8. CASE EndRound \/ UNCHANGED vars
  BY <1>5, <1>8 DEF EndRound, vars, ents, Live
<1>9. CASE NewRound
  BY <1>5, <1>9, NewRoundIInv DEF NewRound
<1>10. CASE Enforce
  BY <1>5, <1>10, EnforceIInv DEF Enforce, Kept
<1>11. CASE FrameEnd
  BY <1>5, <1>11, FrameEndIInv DEF FrameEnd, Kept
<1>12. ASSUME NEW s \in Spawners, SpawnerThink(s) PROVE Pool!Next
  <2>1. CASE ShouldSpawnToken(override[s])
    <3>1. PICK k \in Unused : SpawnEnt(s, k)
      BY <1>12, <2>1 DEF SpawnerThink
    <3>2. QED
      BY <1>12, <2>1, <3>1, SpawnEntPool
  <2>2. CASE ~ ShouldSpawnToken(override[s])
    BY <1>5, <1>12, <2>2 DEF SpawnerThink, ents, Live
  <2>3. QED
    BY <2>1, <2>2
<1>13. QED
  BY <1>1, <1>2, <1>3, <1>4, <1>6, <1>7, <1>8, <1>9, <1>10, <1>11, <1>12
  DEF Next, Scenario, World, Manager

\* ImplementsPool: however stale the manager's lists are, a token of a kept type comes
\* into the world only below the limit, and a change of the scenario takes them all.
THEOREM TokensImplementPool == Spec => ImplementsPool
<1>1. Init => Pool!Init
  BY InitPool
<1>2. IInv /\ [Next]_vars => [Pool!Next]_(Pool!vars)
  BY NextPool
<1>3. QED
  BY Invariance, <1>1, <1>2, PTL DEF Spec, ImplementsPool, Pool!Spec
=============================================================================
