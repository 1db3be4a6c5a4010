------------------------- MODULE CaptureAreasProofs -------------------------
(***************************************************************************)
(* Proofs about CaptureAreas: the areas of a group add up to its limit at  *)
(* most, areas keep apart, and a shortage is never forgotten, for all      *)
(* groups, limits and maps.                                                *)
(***************************************************************************)
EXTENDS CaptureAreas, FiniteSetTheorems, WellFoundedInduction, TLAPS

-----------------------------------------------------------------------------
(* Induction, for the sets of numbers that the lemmas below define.        *)

\* A set of natural numbers has a least element.
LEMMA Least ==
  ASSUME NEW A \in SUBSET Nat, A # {}
  PROVE  \E n \in A : \A m \in A : n <= m
<1> DEFINE R == {p \in Nat \X Nat : p[1] < p[2]}
<1>1. IsWellFoundedOn(R, Nat)
  BY NatLessThanWellFounded, Zenon DEF OpToRel
<1>2. \A m, n \in Nat : <<m, n>> \in R <=> m < n
  OBVIOUS
<1> HIDE DEF R
<1>3. PICK n \in A : \A m \in A : ~ (<<m, n>> \in R)
  BY <1>1, WFMin
<1>4. ASSUME NEW m \in A PROVE n <= m
  <2>1. ~ (m < n)
    BY <1>2, <1>3
  <2> QED BY <2>1
<1> QED BY <1>4

\* A set that has 0 and the successors of its elements has all natural numbers.
LEMMA SetInduction ==
  ASSUME NEW A \in SUBSET Nat, 0 \in A, \A n \in A : n + 1 \in A
  PROVE  A = Nat
<1>1. SUFFICES ASSUME Nat \ A # {} PROVE FALSE
  OBVIOUS
<1>2. PICK n \in Nat \ A : \A m \in Nat \ A : n <= m
  BY <1>1, Least
<1>3. n # 0 /\ n - 1 \in Nat
  BY <1>2
<1>4. n - 1 \in A
  BY <1>2, <1>3
<1> QED BY <1>3, <1>4, <1>2

-----------------------------------------------------------------------------
(* States of the manager, and where new areas are put.                     *)

\* The part of the type invariant, and the whole of PlacesShared, that a state has
\* while the manager works on it.
OneFailsafe(S) ==
  \A g \in Groups : \A x, y \in S.areas[g] : x[2] = "failsafe" /\ y[2] = "failsafe" => x = y

Apart(S) ==
  \A g, h \in Groups : \A a \in S.areas[g], b \in S.areas[h] :
    /\ a[2] = "found" => a[1] \notin TokenSpots
    /\ a[2] = "found" /\ b[2] = "found" /\ a[1] = b[1] => g = h

Good == {S \in State : OneFailsafe(S) /\ Apart(S)}

\* The areas of a group are finitely many.
LEMMA AreasFinite ==
  ASSUME NEW A \in SUBSET (Spots \X {"found", "failsafe"})
  PROVE  IsFiniteSet(A) /\ Cardinality(A) \in Nat
<1>1. IsFiniteSet({"found", "failsafe"})
  <2>1. IsFiniteSet({"found"}) /\ IsFiniteSet({"failsafe"})
    BY FS_Singleton
  <2>2. IsFiniteSet({"found"} \cup {"failsafe"})
    BY <2>1, FS_Union
  <2>3. {"found", "failsafe"} = {"found"} \cup {"failsafe"}
    OBVIOUS
  <2> QED BY <2>2, <2>3
<1>2. IsFiniteSet(Spots \X {"found", "failsafe"})
  BY <1>1, FS_Product, CaptureAreasAssumption
<1> QED BY <1>2, FS_Subset, FS_CardinalityType

\* The filter gives at most n spawners, of those it was given, and none at a place taken.
LEMMA FilterSound ==
  ASSUME NEW pool \in SUBSET Spots, NEW n \in Nat, NEW existing, NEW X \in Filter(pool, n, existing)
  PROVE  /\ X \subseteq pool /\ X \cap existing = {} /\ IsFiniteSet(X)
         /\ Cardinality(X) \in Nat /\ Cardinality(X) <= n
<1> DEFINE fit == {s \in pool : \A e \in existing : <<e, s>> \notin Near}
<1>1. X \subseteq fit /\ Cardinality(X) = IF n < Cardinality(fit) THEN n ELSE Cardinality(fit)
  BY DEF Filter
<1>2. fit \cap existing = {}
  BY CaptureAreasAssumption
<1>3. IsFiniteSet(fit) /\ IsFiniteSet(X)
  BY <1>1, FS_Subset, fit \subseteq Spots, CaptureAreasAssumption
<1>4. Cardinality(fit) \in Nat /\ Cardinality(X) \in Nat
  BY <1>3, FS_CardinalityType
<1> HIDE DEF fit
<1>5. Cardinality(X) <= n
  BY <1>1, <1>4
<1> QED BY <1>1, <1>2, <1>3, <1>4, <1>5 DEF fit

\* As many areas are found as places.
LEMMA FoundCardinality ==
  ASSUME NEW X, IsFiniteSet(X)
  PROVE  IsFiniteSet(X \X {"found"}) /\ Cardinality(X \X {"found"}) = Cardinality(X)
<1>1. IsFiniteSet({"found"}) /\ Cardinality({"found"}) = 1
  BY FS_Singleton
<1>2. Cardinality(X) \in Nat
  BY FS_CardinalityType
<1>3. /\ IsFiniteSet(X \X {"found"})
      /\ Cardinality(X \X {"found"}) = Cardinality(X) * Cardinality({"found"})
  BY <1>1, FS_Product
<1> QED BY <1>1, <1>2, <1>3

\* The failsafe is one place at most, asked for only while places are missing and the
\* group has no area.
LEMMA FailsafeSound ==
  ASSUME NEW S, NEW g, NEW n, NEW existing, NEW last \in Failsafe(S, g, n, existing)
  PROVE  \/ last = {}
         \/ n # 0 /\ S.areas[g] = {} /\ \E s \in PlayerSpots : last = {<<s, "failsafe">>}
  BY DEF Failsafe

\* What FindSpawnersForCapArea has found: places that are not taken, n at most, of the
\* failsafe one at most, and then for a group without an area.
Fits(S, g, n, new) ==
  /\ new \in SUBSET (Spots \X {"found", "failsafe"})
  /\ \A a \in new : a[2] = "found" => a[1] \notin Existing(S)
  /\ \A x, y \in new : x[2] = "failsafe" /\ y[2] = "failsafe" => x = y
  /\ \A a \in new : a[2] = "failsafe" => S.areas[g] = {}
  /\ Cardinality(new) <= n

LEMMA FindSound ==
  ASSUME NEW S \in Good, NEW g \in Groups, NEW n \in Nat, NEW new \in Find(S, g, n)
  PROVE  Fits(S, g, n, new)
<1> DEFINE taken == Existing(S)
<1>1. PICK caps \in Filter(CapSpots \ S.disabled, n, taken) :
        \/ new = caps \X {"found"}
        \/ \E others \in Filter(PlayerSpots \ S.disabled, n - Cardinality(caps), taken \cup caps) :
             \E last \in Failsafe(S, g, n - Cardinality(caps) - Cardinality(others),
                                  taken \cup caps \cup others) :
               new = ((caps \cup others) \X {"found"}) \cup last
  <2> DEFINE found(X) == X \X {"found"}
             rest(caps, others) == n - Cardinality(caps) - Cardinality(others)
             more(caps) ==
               UNION {{found(caps \cup others) \cup last :
                         last \in Failsafe(S, g, rest(caps, others), taken \cup caps \cup others)} :
                      others \in Filter(PlayerSpots \ S.disabled, n - Cardinality(caps), taken \cup caps)}
             enough == S.retry = "none" /\ Cardinality(CapSpots) >= n
  <2>1. new \in UNION {IF enough THEN {found(caps)} ELSE more(caps) :
                        caps \in Filter(CapSpots \ S.disabled, n, taken)}
    BY DEF Find
  <2> HIDE DEF more, enough, taken
  <2>2. PICK caps \in Filter(CapSpots \ S.disabled, n, taken) : new = found(caps) \/ new \in more(caps)
    BY <2>1
  <2>3. CASE new = found(caps)
    BY <2>2, <2>3
  <2>4. CASE new \in more(caps)
    <3>1. PICK others \in Filter(PlayerSpots \ S.disabled, n - Cardinality(caps), taken \cup caps) :
            new \in {found(caps \cup others) \cup last :
                       last \in Failsafe(S, g, rest(caps, others), taken \cup caps \cup others)}
      BY <2>4 DEF more
    <3>2. PICK last \in Failsafe(S, g, rest(caps, others), taken \cup caps \cup others) :
            new = found(caps \cup others) \cup last
      BY <3>1
    <3> QED BY <2>2, <3>1, <3>2
  <2> QED BY <2>2, <2>3, <2>4
<1>2. /\ caps \subseteq CapSpots /\ caps \cap taken = {} /\ IsFiniteSet(caps)
      /\ Cardinality(caps) \in Nat /\ Cardinality(caps) <= n
  <2> DEFINE pool == CapSpots \ S.disabled
  <2>1. pool \in SUBSET Spots
    BY DEF Spots
  <2>2. caps \in Filter(pool, n, taken)
    BY <1>1
  <2>3. pool \subseteq CapSpots
    OBVIOUS
  <2> HIDE DEF taken, pool
  <2> QED BY <2>1, <2>2, <2>3, FilterSound
<1>3. CASE new = caps \X {"found"}
  <2>1. Cardinality(new) <= n
    BY <1>2, <1>3, FoundCardinality
  <2> QED BY <1>2, <1>3, <2>1 DEF Fits, Spots
<1>4. ASSUME NEW others \in Filter(PlayerSpots \ S.disabled, n - Cardinality(caps), taken \cup caps),
             NEW last \in Failsafe(S, g, n - Cardinality(caps) - Cardinality(others),
                                   taken \cup caps \cup others),
             new = ((caps \cup others) \X {"found"}) \cup last
      PROVE  Fits(S, g, n, new)
  <2> HIDE DEF taken
  <2>1. /\ others \subseteq PlayerSpots /\ others \cap (taken \cup caps) = {} /\ IsFiniteSet(others)
        /\ Cardinality(others) \in Nat /\ Cardinality(others) <= n - Cardinality(caps)
    <3>1. PlayerSpots \ S.disabled \in SUBSET Spots /\ n - Cardinality(caps) \in Nat
      BY <1>2 DEF Spots
    <3> QED BY <3>1, <1>4, FilterSound
  <2> DEFINE both == caps \cup others
  <2>2. IsFiniteSet(both) /\ Cardinality(both) = Cardinality(caps) + Cardinality(others)
    <3>1. Cardinality(caps \cap others) = 0
      BY <2>1, FS_EmptySet, caps \cap others = {}
    <3>2. /\ IsFiniteSet(both)
          /\ Cardinality(both) = Cardinality(caps) + Cardinality(others) - Cardinality(caps \cap others)
      BY <1>2, <2>1, FS_Union
    <3> QED BY <1>2, <2>1, <3>1, <3>2
  <2>3. IsFiniteSet(both \X {"found"}) /\ Cardinality(both \X {"found"}) = Cardinality(both)
    BY <2>2, FoundCardinality
  <2>4. \/ last = {}
        \/ /\ n - Cardinality(caps) - Cardinality(others) # 0 /\ S.areas[g] = {}
           /\ \E s \in PlayerSpots : last = {<<s, "failsafe">>}
    BY <1>4, FailsafeSound
  <2>5. Cardinality(new) <= n
    <3>1. CASE last = {}
      <4>1. new = both \X {"found"}
        BY <1>4, <3>1
      <4> QED BY <1>2, <2>1, <2>2, <2>3, <4>1
    <3>2. ASSUME NEW s \in PlayerSpots, last = {<<s, "failsafe">>},
                 n - Cardinality(caps) - Cardinality(others) # 0
          PROVE  Cardinality(new) <= n
      <4>1. new = (both \X {"found"}) \cup {<<s, "failsafe">>}
        BY <1>4, <3>2
      <4>2. <<s, "failsafe">> \notin both \X {"found"}
        OBVIOUS
      <4>3. Cardinality(new) = Cardinality(both) + 1
        <5> DEFINE A == both \X {"found"}
        <5>1. IsFiniteSet(A) /\ Cardinality(A) = Cardinality(both)
          BY <2>3
        <5>2. <<s, "failsafe">> \notin A /\ new = A \cup {<<s, "failsafe">>}
          BY <4>1, <4>2
        <5> HIDE DEF A, both
        <5> QED BY <5>1, <5>2, FS_AddElement
      <4> QED BY <1>2, <2>1, <2>2, <3>2, <4>3
    <3> QED BY <2>4, <3>1, <3>2
  <2>6. both \subseteq Spots /\ both \cap taken = {}
    BY <1>2, <2>1 DEF Spots
  <2>7. \A a \in new : \/ a \in both \X {"found"}
                       \/ a \in last
    BY <1>4
  <2>8. \A a \in last : /\ a[2] = "failsafe" /\ a \in Spots \X {"found", "failsafe"} /\ S.areas[g] = {}
                        /\ last = {a}
    BY <2>4 DEF Spots
  <2>9. \A a \in both \X {"found"} : a[2] = "found" /\ a[1] \in both
    OBVIOUS
  <2> HIDE DEF both
  <2>10. new \in SUBSET (Spots \X {"found", "failsafe"})
    BY <2>6, <2>7, <2>8
  <2>11. \A a \in new : a[2] = "found" => a[1] \notin taken
    BY <2>6, <2>7, <2>8, <2>9
  <2>12. \A a \in new : a[2] = "failsafe" => a \in last
    BY <2>7, <2>9
  <2> QED BY <2>5, <2>8, <2>10, <2>11, <2>12 DEF Fits, taken
<1> QED BY <1>1, <1>3, <1>4

-----------------------------------------------------------------------------
(* One group.                                                              *)

WithinLimit(S, g) == Cardinality(S.areas[g]) <= limit[g]

\* A group that was seen to: within its limit, and short of it only with a retry ahead.
Served(S, g) ==
  WithinLimit(S, g) /\ (Cardinality(S.areas[g]) < limit[g] => S.retry = "pending")

\* New areas that fit leave the areas apart.
LEMMA AddedApart ==
  ASSUME NEW S \in Good, NEW g \in Groups, NEW n, NEW new, Fits(S, g, n, new),
         NEW T, T.areas = [S.areas EXCEPT ![g] = @ \cup new]
  PROVE  OneFailsafe(T) /\ Apart(T)
<1>1. S.areas \in [Groups -> SUBSET (Spots \X {"found", "failsafe"})] /\ OneFailsafe(S) /\ Apart(S)
  BY DEF Good, State
<1>2. T.areas[g] = S.areas[g] \cup new /\ \A h \in Groups \ {g} : T.areas[h] = S.areas[h]
  BY <1>1
<1>3. ASSUME NEW a \in new, a[2] = "found" 
      PROVE  a[1] \notin TokenSpots /\ \A h \in Groups : \A b \in S.areas[h] : a[1] # b[1]
  BY <1>3 DEF Fits, Existing, PlacesOf
<1>4. \A h \in Groups : \A b \in T.areas[h] : b \in S.areas[h] \/ (h = g /\ b \in new)
  BY <1>2
<1>5. OneFailsafe(T)
  <2> SUFFICES ASSUME NEW h \in Groups, NEW x \in T.areas[h], NEW y \in T.areas[h],
                      x[2] = "failsafe", y[2] = "failsafe"
               PROVE  x = y
    BY DEF OneFailsafe
  <2>1. CASE x \in S.areas[h] /\ y \in S.areas[h]
    BY <1>1, <2>1 DEF OneFailsafe
  <2>2. CASE h = g /\ (x \in new \/ y \in new)
    BY <1>2, <2>2 DEF Fits
  <2> QED BY <1>4, <2>1, <2>2
<1>6. Apart(T)
  <2> SUFFICES ASSUME NEW h \in Groups, NEW k \in Groups,
                      NEW x \in T.areas[h], NEW y \in T.areas[k], x[2] = "found"
               PROVE  x[1] \notin TokenSpots /\ (y[2] = "found" /\ x[1] = y[1] => h = k)
    BY DEF Apart
  <2>1. CASE x \in S.areas[h] /\ y \in S.areas[k]
    BY <1>1, <2>1 DEF Apart
  <2>2. CASE h = g /\ x \in new
    BY <1>3, <1>4, <2>2
  <2>3. CASE x \in S.areas[h] /\ k = g /\ y \in new
    BY <1>1, <1>3, <2>3 DEF Apart
  <2> QED BY <1>4, <2>1, <2>2, <2>3
<1> QED BY <1>5, <1>6

\* New areas that fit are not among those of the group: their numbers add up.
LEMMA AddedCardinality ==
  ASSUME NEW S \in Good, NEW g \in Groups, NEW n, NEW new, Fits(S, g, n, new)
  PROVE  Cardinality(S.areas[g] \cup new) = Cardinality(S.areas[g]) + Cardinality(new)
<1>1. S.areas[g] \in SUBSET (Spots \X {"found", "failsafe"})
  BY DEF Good, State
<1>2. new \in SUBSET (Spots \X {"found", "failsafe"})
  BY DEF Fits
<1>3. S.areas[g] \cap new = {}
  <2> SUFFICES ASSUME NEW a \in S.areas[g], a \in new PROVE FALSE
    OBVIOUS
  <2>1. a[2] = "found" \/ a[2] = "failsafe"
    BY <1>2
  <2>2. a[1] \in Existing(S)
    BY DEF Existing, PlacesOf
  <2> QED BY <2>1, <2>2 DEF Fits
<1>4. Cardinality(S.areas[g] \cap new) = 0
  BY <1>3, FS_EmptySet
<1>5. /\ IsFiniteSet(S.areas[g]) /\ IsFiniteSet(new)
      /\ Cardinality(S.areas[g]) \in Nat /\ Cardinality(new) \in Nat
  BY <1>1, <1>2, AreasFinite
<1>6. Cardinality(S.areas[g] \cup new)
        = Cardinality(S.areas[g]) + Cardinality(new) - Cardinality(S.areas[g] \cap new)
  BY <1>5, FS_Union
<1> QED BY <1>4, <1>5, <1>6

\* SpawnCaptureAreas() for a group sees to it, and to no other's harm.
LEMMA SpawnSound ==
  ASSUME limit \in [Groups -> Nat], \A g \in Groups \ defined : limit[g] = 0,
         NEW S \in Good, NEW g \in Groups, NEW T \in Spawn(S, g)
  PROVE  /\ T \in Good
         /\ WithinLimit(S, g) => Served(T, g)
         /\ \A h \in Groups : WithinLimit(S, h) => WithinLimit(T, h)
         /\ \A h \in Groups : Served(S, h) => Served(T, h)
         /\ \A h \in Groups \ {g} : T.areas[h] = S.areas[h]
<1> DEFINE n == limit[g] - Cardinality(S.areas[g])
<1>1. /\ S \in State /\ OneFailsafe(S) /\ Apart(S)
      /\ S.areas \in [Groups -> SUBSET (Spots \X {"found", "failsafe"})]
      /\ S.retry \in {"none", "pending", "due"}
  BY DEF Good, State
<1>2. \A h \in Groups : Cardinality(S.areas[h]) \in Nat /\ limit[h] \in Nat
  BY <1>1, AreasFinite
<1>5. CASE g \notin defined
  <2>1. T = S /\ limit[g] = 0
    BY <1>5 DEF Spawn
  <2> QED BY <1>2, <2>1 DEF Served, WithinLimit
<1>3. CASE g \in defined /\ n <= 0
  <2>1. T = [S EXCEPT !.retry = Retry(S, FALSE)]
    BY <1>3 DEF Spawn
  <2>2. /\ T \in State /\ T.areas = S.areas
        /\ S.retry = "pending" => T.retry = "pending"
    BY <1>1, <2>1 DEF State, Retry
  <2>3. T \in Good
    BY <1>1, <2>2 DEF Good, OneFailsafe, Apart
  <2>4. ~(Cardinality(S.areas[g]) < limit[g])
    BY <1>2, <1>3
  <2> QED BY <2>2, <2>3, <2>4 DEF Served, WithinLimit
<1>4. CASE g \in defined /\ ~(n <= 0)
  <2>1. n \in Nat
    BY <1>2, <1>4
  <2>2. PICK new \in Find(S, g, n) :
          T = [S EXCEPT !.areas[g] = @ \cup new, !.retry = Retry(S, Cardinality(new) < n)]
    BY <1>4 DEF Spawn
  <2>3. Fits(S, g, n, new)
    BY <2>1, <2>2, FindSound
  <2>4. new \in SUBSET (Spots \X {"found", "failsafe"}) /\ Cardinality(new) \in Nat /\ Cardinality(new) <= n
    BY <2>3, AreasFinite DEF Fits
  <2>5. /\ T \in State /\ T.areas = [S.areas EXCEPT ![g] = @ \cup new]
        /\ Cardinality(new) < n => T.retry = "pending"
        /\ S.retry = "pending" => T.retry = "pending"
    BY <1>1, <2>2, <2>4 DEF State, Retry
  <2>6. T \in Good
    BY <2>3, <2>5, AddedApart DEF Good
  <2>7. Cardinality(T.areas[g]) = Cardinality(S.areas[g]) + Cardinality(new)
    BY <1>1, <2>3, <2>5, AddedCardinality
  <2>8. Served(T, g)
    BY <1>2, <2>4, <2>5, <2>7 DEF Served, WithinLimit
  <2>9. \A h \in Groups \ {g} : T.areas[h] = S.areas[h]
    BY <1>1, <2>5
  <2> QED BY <2>5, <2>6, <2>8, <2>9 DEF Served, WithinLimit
<1> QED BY <1>3, <1>4, <1>5

-----------------------------------------------------------------------------
(* All groups.                                                             *)

Step(S, g, adjusting) == IF adjusting THEN Adjust(S, g) ELSE Spawn(S, g)

\* f gives the outcomes of the first groups, the others yet to come.
InTurn(f, n, S, adjusting) ==
  f = [i \in 0..n |-> IF i = 0 THEN {S}
                      ELSE UNION {Step(T, GroupOrder[i], adjusting) : T \in f[i - 1]}]

\* The recursions of SpawnAll and AdjustAll have a solution.
LEMMA InTurnExists ==
  ASSUME NEW S, NEW adjusting \in BOOLEAN, NEW N \in Nat
  PROVE  \E f : InTurn(f, N, S, adjusting)
<1> DEFINE Then(Z, i) == UNION {Step(T, GroupOrder[i], adjusting) : T \in Z}
           Solves(f, n) == f = [i \in 0..n |-> IF i = 0 THEN {S} ELSE Then(f[i - 1], i)]
           A == {n \in Nat : \E f : Solves(f, n)}
<1>0. \A f, n : Solves(f, n) <=> InTurn(f, n, S, adjusting)
  BY DEF InTurn
<1> HIDE DEF Then
<1>1. 0 \in A
  <2> DEFINE f == [i \in 0..0 |-> {S}]
  <2>1. Solves(f, 0)
    OBVIOUS
  <2> QED BY <2>1
<1>2. ASSUME NEW n \in A PROVE n + 1 \in A
  <2>1. PICK f : Solves(f, n)
    OBVIOUS
  <2> DEFINE h == [i \in 0..n+1 |-> IF i = n + 1 THEN Then(f[n], n + 1) ELSE f[i]]
  <2>2. ASSUME NEW i \in 0..n+1
        PROVE  h[i] = IF i = 0 THEN {S} ELSE Then(h[i - 1], i)
    <3>1. CASE i = n + 1
      BY <3>1
    <3>2. CASE i # n + 1
      <4>1. i \in 0..n /\ h[i] = f[i]
        BY <3>2
      <4>2. f[i] = IF i = 0 THEN {S} ELSE Then(f[i - 1], i)
        BY <2>1, <4>1
      <4>3. i # 0 => i - 1 \in 0..n+1 /\ i - 1 # n + 1
        BY <4>1
      <4> QED BY <4>1, <4>2, <4>3
    <3> QED BY <3>1, <3>2
  <2>3. Solves(h, n + 1)
    BY <2>2
  <2> HIDE DEF h
  <2>4. \E g : Solves(g, n + 1)
    BY <2>3
  <2> QED BY <2>4
<1> HIDE DEF A
<1>3. A = Nat
  BY <1>1, <1>2, SetInduction DEF A
<1>4. N \in A
  BY <1>3
<1> QED BY <1>0, <1>4 DEF A

\* SpawnAll is SpawnCaptureAreas() for one group after the other.
LEMMA SpawnAllInTurn ==
  ASSUME NEW S
  PROVE  \E f : InTurn(f, Len(GroupOrder), S, FALSE) /\ SpawnAll(S) = f[Len(GroupOrder)]
<1> DEFINE N == Len(GroupOrder)
           after == CHOOSE f : InTurn(f, N, S, FALSE)
<1>1. N \in Nat
  BY CaptureAreasAssumption
<1>2. InTurn(after, N, S, FALSE)
  BY <1>1, InTurnExists
<1>3. SpawnAll(S) = after[N]
  BY DEF SpawnAll, InTurn, Step
<1> HIDE DEF after
<1> QED BY <1>2, <1>3

\* So is AdjustAll, for EnforceTokens().
LEMMA AdjustAllInTurn ==
  ASSUME NEW S
  PROVE  \E f : InTurn(f, Len(GroupOrder), S, TRUE) /\ AdjustAll(S) = f[Len(GroupOrder)]
<1> DEFINE N == Len(GroupOrder)
           after == CHOOSE f : InTurn(f, N, S, TRUE)
<1>1. N \in Nat
  BY CaptureAreasAssumption
<1>2. InTurn(after, N, S, TRUE)
  BY <1>1, InTurnExists
<1>3. AdjustAll(S) = after[N]
  BY DEF AdjustAll, InTurn, Step
<1> HIDE DEF after
<1> QED BY <1>2, <1>3

\* What holds of the state at first and is handed on from group to group holds at the end.
\* I has the pairs of a number of groups and a state that is right after so many.
LEMMA InTurnInduction ==
  ASSUME NEW f, NEW N \in Nat, NEW S, NEW adjusting \in BOOLEAN, InTurn(f, N, S, adjusting),
         NEW I, <<0, S>> \in I,
         \A i \in 1..N : \A T, U : <<i - 1, T>> \in I /\ U \in Step(T, GroupOrder[i], adjusting)
                                     => <<i, U>> \in I
  PROVE  \A T \in f[N] : <<N, T>> \in I
<1> DEFINE A == {n \in Nat : n <= N => \A T \in f[n] : <<n, T>> \in I}
           Then(Z, i) == UNION {Step(T, GroupOrder[i], adjusting) : T \in Z}
<1>1. f = [i \in 0..N |-> IF i = 0 THEN {S} ELSE Then(f[i - 1], i)]
  BY DEF InTurn
<1> HIDE DEF Then
<1>2. 0 \in A
  <2>1. f[0] = {S}
    BY <1>1
  <2> QED BY <2>1
<1>3. ASSUME NEW n \in A PROVE n + 1 \in A
  <2> SUFFICES ASSUME n + 1 <= N, NEW U \in f[n + 1] PROVE <<n + 1, U>> \in I
    OBVIOUS
  <2>1. n \in Nat /\ n <= N /\ n + 1 \in 1..N /\ (n + 1) - 1 = n
    OBVIOUS
  <2>2. PICK T \in f[n] : U \in Step(T, GroupOrder[n + 1], adjusting)
    <3>1. ASSUME NEW m \in 0..N PROVE f[m] = IF m = 0 THEN {S} ELSE Then(f[m - 1], m)
      BY <1>1
    <3>2. f[n + 1] = Then(f[n], n + 1)
      BY <2>1, <3>1
    <3> QED BY <3>2 DEF Then
  <2>3. <<n, T>> \in I
    BY <2>1, <2>2
  <2> QED BY <2>1, <2>2, <2>3
<1> HIDE DEF A
<1>4. N \in A
  BY <1>2, <1>3, SetInduction DEF A
<1> QED BY <1>4 DEF A

\* Spawning areas for all groups, none of which has too many, sees to all of them.
LEMMA SpawnAllSound ==
  ASSUME limit \in [Groups -> Nat], \A g \in Groups \ defined : limit[g] = 0,
         NEW S \in Good, \A g \in Groups : WithinLimit(S, g),
         NEW T \in SpawnAll(S)
  PROVE  T \in Good /\ \A g \in Groups : Served(T, g)
<1> DEFINE N == Len(GroupOrder)
           I == {p \in (0..N) \X Good :
                   /\ \A g \in Groups : WithinLimit(p[2], g)
                   /\ \A j \in 1..p[1] : Served(p[2], GroupOrder[j])}
<1>1. N \in Nat /\ (\A i \in 1..N : GroupOrder[i] \in Groups)
        /\ \A g \in Groups : \E i \in 1..N : GroupOrder[i] = g
  BY CaptureAreasAssumption DEF Groups, ToSet
<1>2. PICK f : InTurn(f, N, S, FALSE) /\ SpawnAll(S) = f[N]
  BY SpawnAllInTurn
<1>3. <<0, S>> \in I
  BY <1>1
<1>4. ASSUME NEW i \in 1..N, NEW V, NEW U, <<i - 1, V>> \in I, U \in Step(V, GroupOrder[i], FALSE)
      PROVE  <<i, U>> \in I
  <2>1. /\ V \in Good /\ \A g \in Groups : WithinLimit(V, g)
        /\ \A j \in 1..(i - 1) : Served(V, GroupOrder[j])
    BY <1>4
  <2>2. U \in Spawn(V, GroupOrder[i])
    BY <1>4 DEF Step
  <2>3. /\ U \in Good /\ Served(U, GroupOrder[i])
        /\ \A g \in Groups : WithinLimit(U, g)
        /\ \A g \in Groups : Served(V, g) => Served(U, g)
    BY <1>1, <2>1, <2>2, SpawnSound
  <2>4. \A j \in 1..i : Served(U, GroupOrder[j])
    <3> SUFFICES ASSUME NEW j \in 1..i PROVE Served(U, GroupOrder[j])
      OBVIOUS
    <3>1. j = i \/ (j \in 1..(i - 1) /\ j \in 1..N)
      BY <1>1
    <3> QED BY <1>1, <2>1, <2>3, <3>1
  <2> QED BY <1>1, <2>3, <2>4
<1>5. <<N, T>> \in I
  <2> HIDE DEF I, N
  <2>1. \A i \in 1..N : \A V, U : <<i - 1, V>> \in I /\ U \in Step(V, GroupOrder[i], FALSE)
                                     => <<i, U>> \in I
    BY <1>4
  <2>2. N \in Nat /\ InTurn(f, N, S, FALSE) /\ T \in f[N]
    BY <1>1, <1>2 DEF N
  <2>3. \A V \in f[N] : <<N, V>> \in I
    BY <1>3, <2>1, <2>2, InTurnInduction
  <2> QED BY <2>2, <2>3
<1> QED BY <1>1, <1>5

\* Fewer areas stay apart.
LEMMA FewerGood ==
  ASSUME NEW S \in Good, NEW A \in [Groups -> SUBSET (Spots \X {"found", "failsafe"})],
         \A g \in Groups : A[g] \subseteq S.areas[g]
  PROVE  [S EXCEPT !.areas = A] \in Good
<1> DEFINE T == [S EXCEPT !.areas = A]
<1>1. S \in State /\ OneFailsafe(S) /\ Apart(S)
  BY DEF Good
<1>2. T \in State /\ T.areas = A
  BY <1>1 DEF State
<1>3. OneFailsafe(T)
  BY <1>1, <1>2 DEF OneFailsafe
<1>4. Apart(T)
  BY <1>1, <1>2 DEF Apart
<1> QED BY <1>2, <1>3, <1>4 DEF Good

\* EnforceTokens() sees to a group whose settings changed, and to no other's harm.
LEMMA AdjustSound ==
  ASSUME limit \in [Groups -> Nat], \A g \in Groups \ defined : limit[g] = 0,
         NEW S \in Good, NEW g \in Groups, NEW T \in Adjust(S, g)
  PROVE  /\ T \in Good
         /\ g \in dirty => Served(T, g)
         /\ \A h \in Groups : Served(S, h) => Served(T, h)
         /\ \A h \in Groups \ dirty : T.areas[h] = S.areas[h]
<1> DEFINE diff == limit[g] - Cardinality(S.areas[g])
<1>1. /\ S \in State
      /\ S.areas \in [Groups -> SUBSET (Spots \X {"found", "failsafe"})]
  BY DEF Good, State
<1>2. \A h \in Groups : Cardinality(S.areas[h]) \in Nat /\ limit[h] \in Nat
  BY <1>1, AreasFinite
<1>3. CASE g \notin dirty \/ diff = 0
  <2>1. T = S
    BY <1>3 DEF Adjust
  <2> QED BY <1>2, <1>3, <2>1 DEF Served, WithinLimit
<1>4. CASE ~(g \notin dirty \/ diff = 0) /\ diff > 0
  <2>1. T \in Spawn(S, g)
    BY <1>4 DEF Adjust
  <2>2. WithinLimit(S, g)
    BY <1>2, <1>4 DEF WithinLimit
  <2> QED BY <1>4, <2>1, <2>2, SpawnSound
<1>5. CASE ~(g \notin dirty \/ diff = 0) /\ ~(diff > 0)
  <2>1. PICK kept \in SUBSET S.areas[g] :
          /\ T = [S EXCEPT !.areas[g] = kept]
          /\ Cardinality(kept) = Cardinality(S.areas[g]) - (- diff)
    BY <1>5 DEF Adjust, RemoveSome
  <2>2. Cardinality(kept) = limit[g]
    BY <1>2, <2>1
  <2> DEFINE A == [S.areas EXCEPT ![g] = kept]
  <2>3. /\ A \in [Groups -> SUBSET (Spots \X {"found", "failsafe"})]
        /\ \A h \in Groups : A[h] \subseteq S.areas[h]
        /\ T = [S EXCEPT !.areas = A]
    BY <1>1, <2>1 DEF State
  <2>4. T \in Good
    BY <2>3, FewerGood
  <2>5. /\ T.areas[g] = kept /\ T.retry = S.retry
        /\ \A h \in Groups \ {g} : T.areas[h] = S.areas[h]
    BY <1>1, <2>1 DEF State
  <2>6. Served(T, g)
    BY <1>2, <2>2, <2>5 DEF Served, WithinLimit
  <2> QED BY <1>5, <2>4, <2>5, <2>6 DEF Served, WithinLimit
<1> QED BY <1>3, <1>4, <1>5

\* When those whose settings did not change have been seen to, EnforceTokens() sees to all.
LEMMA AdjustAllSound ==
  ASSUME limit \in [Groups -> Nat], \A g \in Groups \ defined : limit[g] = 0,
         NEW S \in Good, \A g \in Groups \ dirty : Served(S, g),
         NEW T \in AdjustAll(S)
  PROVE  /\ T \in Good /\ \A g \in Groups : Served(T, g)
         /\ \A g \in Groups \ dirty : T.areas[g] = S.areas[g]
<1> DEFINE N == Len(GroupOrder)
           I == {p \in (0..N) \X Good :
                   /\ \A g \in Groups \ dirty : Served(p[2], g) /\ p[2].areas[g] = S.areas[g]
                   /\ \A j \in 1..p[1] : Served(p[2], GroupOrder[j])}
<1>1. N \in Nat /\ (\A i \in 1..N : GroupOrder[i] \in Groups)
        /\ \A g \in Groups : \E i \in 1..N : GroupOrder[i] = g
  BY CaptureAreasAssumption DEF Groups, ToSet
<1>2. PICK f : InTurn(f, N, S, TRUE) /\ AdjustAll(S) = f[N]
  BY AdjustAllInTurn
<1>3. <<0, S>> \in I
  BY <1>1
<1>4. ASSUME NEW i \in 1..N, NEW V, NEW U, <<i - 1, V>> \in I, U \in Step(V, GroupOrder[i], TRUE)
      PROVE  <<i, U>> \in I
  <2>1. /\ V \in Good /\ \A g \in Groups \ dirty : Served(V, g) /\ V.areas[g] = S.areas[g]
        /\ \A j \in 1..(i - 1) : Served(V, GroupOrder[j])
    BY <1>4
  <2>2. U \in Adjust(V, GroupOrder[i])
    BY <1>4 DEF Step
  <2>3. /\ U \in Good
        /\ GroupOrder[i] \in dirty => Served(U, GroupOrder[i])
        /\ \A g \in Groups : Served(V, g) => Served(U, g)
        /\ \A g \in Groups \ dirty : U.areas[g] = V.areas[g]
    BY <1>1, <2>1, <2>2, AdjustSound
  <2>4. \A j \in 1..i : Served(U, GroupOrder[j])
    <3> SUFFICES ASSUME NEW j \in 1..i PROVE Served(U, GroupOrder[j])
      OBVIOUS
    <3>1. j = i \/ (j \in 1..(i - 1) /\ j \in 1..N)
      BY <1>1
    <3> QED BY <1>1, <2>1, <2>3, <3>1
  <2> QED BY <1>1, <2>1, <2>3, <2>4
<1>5. <<N, T>> \in I
  <2> HIDE DEF I, N
  <2>1. \A i \in 1..N : \A V, U : <<i - 1, V>> \in I /\ U \in Step(V, GroupOrder[i], TRUE)
                                     => <<i, U>> \in I
    BY <1>4
  <2>2. N \in Nat /\ InTurn(f, N, S, TRUE) /\ T \in f[N]
    BY <1>1, <1>2 DEF N
  <2>3. \A V \in f[N] : <<N, V>> \in I
    BY <1>3, <2>1, <2>2, InTurnInduction
  <2> QED BY <2>2, <2>3
<1> QED BY <1>1, <1>5

-----------------------------------------------------------------------------
(* The steps.                                                              *)

\* No part is inductive alone: what is placed anew is within the limits because areas keep
\* apart, and a shortage is dealt with again because there are never too many.
IInv == TypeOK /\ AreasWithinLimit /\ PlacesShared /\ ShortageRetried

LEMMA NowGood ==
  ASSUME TypeOK, PlacesShared
  PROVE  Now \in Good /\ Now.areas = areas /\ Now.retry = retry /\ Now.disabled = disabled
<1>1. Now.areas = areas /\ Now.retry = retry /\ Now.disabled = disabled
  BY DEF Now
<1>2. Apart(Now)
  BY <1>1 DEF PlacesShared, Apart
<1>3. OneFailsafe(Now)
  BY <1>1 DEF TypeOK, OneFailsafe
<1> QED BY <1>1, <1>2, <1>3 DEF TypeOK, Good

\* A step that leaves all groups seen to keeps the invariant.
LEMMA ServedStep ==
  ASSUME NEW T \in Good, Becomes(T), \A g \in Groups : Served(T, g),
         limit \in [Groups -> Nat], \A g \in Groups \ defined : limit[g] = 0, defined \subseteq Groups,
         limit' = limit, defined' = defined, inRound' \in BOOLEAN, dirty' \subseteq defined
  PROVE  IInv'
<1>1. /\ areas' = T.areas /\ retry' = T.retry /\ disabled' = T.disabled
      /\ T \in State /\ OneFailsafe(T) /\ Apart(T)
  BY DEF Becomes, Good
<1>2. Now' \in State
  BY <1>1 DEF Now, State
<1>3. TypeOK'
  BY <1>1, <1>2 DEF TypeOK, OneFailsafe
<1>4. PlacesShared'
  BY <1>1 DEF PlacesShared, Apart
<1>5. AreasWithinLimit' /\ ShortageRetried'
  BY <1>1 DEF AreasWithinLimit, ShortageRetried, Served, WithinLimit
<1> QED BY <1>3, <1>4, <1>5 DEF IInv

LEMMA InitInvariant == Init => IInv
<1> SUFFICES ASSUME Init PROVE IInv
  OBVIOUS
<1>1. \A g \in Groups : areas[g] = {} /\ limit[g] = 0
  BY DEF Init, NoAreas
<1>2. Now \in State
  BY CaptureAreasAssumption DEF Init, Now, State, NoAreas
<1>3. TypeOK /\ PlacesShared
  BY <1>1, <1>2 DEF Init, TypeOK, PlacesShared
<1>4. AreasWithinLimit /\ ShortageRetried
  BY <1>1, FS_EmptySet DEF AreasWithinLimit, ShortageRetried, Init
<1> QED BY <1>3, <1>4 DEF IInv

\* With no areas no group has too many.
LEMMA RemovedGood ==
  ASSUME limit \in [Groups -> Nat], NEW S \in State, S.areas = NoAreas
  PROVE  S \in Good /\ \A g \in Groups : WithinLimit(S, g)
<1>1. \A g \in Groups : S.areas[g] = {} /\ Cardinality(S.areas[g]) = 0 /\ limit[g] \in Nat
  BY FS_EmptySet DEF NoAreas
<1>2. OneFailsafe(S) /\ Apart(S)
  BY <1>1 DEF OneFailsafe, Apart
<1>3. \A g \in Groups : WithinLimit(S, g)
  BY <1>1 DEF WithinLimit
<1> QED BY <1>2, <1>3 DEF Good

LEMMA NewRoundInvariant ==
  ASSUME IInv, NewRound
  PROVE  IInv'
<1> DEFINE S == [RemoveAll(Now) EXCEPT !.disabled = StartDisabled]
<1>1. PICK T \in SpawnAll(S) : Becomes(T)
  BY DEF NewRound
<1>2. /\ limit \in [Groups -> Nat] /\ limit' = limit /\ inRound' \in BOOLEAN
      /\ defined \subseteq Groups /\ defined' = defined /\ dirty' \subseteq defined
      /\ \A g \in Groups \ defined : limit[g] = 0
  BY DEF IInv, TypeOK, NewRound
<1>3. S \in Good /\ \A g \in Groups : WithinLimit(S, g)
  <2>1. S \in State /\ S.areas = NoAreas
    BY CaptureAreasAssumption DEF IInv, TypeOK, RemoveAll, Now, State, NoAreas
  <2> QED BY <1>2, <2>1, RemovedGood
<1> HIDE DEF S
<1>4. T \in Good /\ \A g \in Groups : Served(T, g)
  BY <1>1, <1>2, <1>3, SpawnAllSound
<1> QED BY <1>1, <1>2, <1>4, ServedStep

LEMMA EnforceInvariant ==
  ASSUME IInv, Enforce
  PROVE  IInv'
<1>1. PICK S \in IF retry = "due" THEN SpawnAll(RemoveAll(Now)) ELSE {Now} :
        \E T \in AdjustAll(S) : Becomes(T)
  BY DEF Enforce
<1>2. PICK T \in AdjustAll(S) : Becomes(T)
  BY <1>1
<1>3. /\ limit \in [Groups -> Nat] /\ limit' = limit /\ inRound /\ inRound' \in BOOLEAN
      /\ defined \subseteq Groups /\ defined' = defined /\ dirty' \subseteq defined
      /\ (\A g \in Groups \ defined : limit[g] = 0) /\ Now \in Good /\ retry \in {"none", "pending", "due"}
      /\ Now.areas = areas /\ Now.retry = retry
  BY NowGood DEF IInv, TypeOK, Enforce, Now, State
<1>4. S \in Good /\ \A g \in Groups \ dirty : Served(S, g)
  <2>1. CASE retry = "due"
    <3> DEFINE R == RemoveAll(Now)
    <3>1. R \in State /\ R.areas = NoAreas
      BY DEF RemoveAll, Now, IInv, TypeOK, State, NoAreas
    <3>2. R \in Good /\ \A g \in Groups : WithinLimit(R, g)
      BY <1>3, <3>1, RemovedGood
    <3>3. S \in SpawnAll(R)
      BY <1>1, <2>1
    <3> HIDE DEF R
    <3> QED BY <1>3, <3>2, <3>3, SpawnAllSound
  <2>2. CASE retry # "due"
    <3>1. S = Now
      BY <1>1, <2>2
    <3>2. \A g \in Groups \ dirty : Served(Now, g)
      BY <1>3, <2>2 DEF Served, WithinLimit, IInv, AreasWithinLimit, ShortageRetried
    <3> QED BY <1>3, <3>1, <3>2
  <2> QED BY <2>1, <2>2
<1>5. T \in Good /\ \A g \in Groups : Served(T, g)
  BY <1>2, <1>3, <1>4, AdjustAllSound
<1> QED BY <1>2, <1>3, <1>5, ServedStep

\* What AreasStay says of a step.
Stay ==
  \A g \in Groups \ dirty :
    inRound /\ inRound' /\ retry # "due" /\ limit'[g] = limit[g] => areas'[g] = areas[g]

LEMMA EnforceStays == ASSUME IInv, Enforce PROVE Stay
<1> SUFFICES ASSUME retry # "due" PROVE \A g \in Groups \ dirty : areas'[g] = areas[g]
  BY DEF Stay
<1>1. PICK T \in AdjustAll(Now) : Becomes(T)
  BY DEF Enforce
<1>2. /\ limit \in [Groups -> Nat] /\ (\A g \in Groups \ defined : limit[g] = 0) /\ inRound /\ Now \in Good /\ Now.areas = areas /\ Now.retry = retry
  BY NowGood DEF IInv, TypeOK, Enforce
<1>3. \A g \in Groups \ dirty : Served(Now, g)
  BY <1>2, NowGood DEF Served, WithinLimit, IInv, AreasWithinLimit, ShortageRetried, TypeOK, State
<1>4. \A g \in Groups \ dirty : T.areas[g] = Now.areas[g]
  BY <1>1, <1>2, <1>3, AdjustAllSound
<1> QED BY <1>1, <1>2, <1>4 DEF Becomes

\* A definition that is removed without having had a place takes no area away.
LEMMA RemoveStays == ASSUME IInv, NEW g \in Groups, RemoveCaptureAreaDef(g) PROVE Stay
<1> SUFFICES ASSUME NEW h \in Groups \ dirty, limit'[h] = limit[h]
             PROVE  areas'[h] = areas[h]
  BY DEF Stay
<1>1. /\ limit \in [Groups -> Nat] /\ areas \in [Groups -> SUBSET (Spots \X {"found", "failsafe"})]
      /\ areas' = [areas EXCEPT ![g] = {}] /\ limit' = [limit EXCEPT ![g] = 0]
  BY NowGood DEF IInv, TypeOK, Now, State, RemoveCaptureAreaDef
<1>2. CASE h = g
  <2>1. Cardinality(areas[h]) <= 0 /\ IsFiniteSet(areas[h]) /\ Cardinality(areas[h]) \in Nat
    BY <1>1, <1>2, AreasFinite DEF IInv, AreasWithinLimit
  <2>2. areas[h] = {}
    BY <2>1, FS_EmptySet
  <2> QED BY <1>1, <1>2, <2>2
<1>3. CASE h # g
  BY <1>1, <1>3
<1> QED BY <1>2, <1>3

LEMMA NextStays == IInv /\ [Next]_vars => Stay
<1> SUFFICES ASSUME IInv, [Next]_vars PROVE Stay
  OBVIOUS
<1>1. CASE \E g \in Groups : RemoveCaptureAreaDef(g)
  BY <1>1, RemoveStays
<1>2. CASE \E g \in Groups, n \in Limits : SetupCaptureArea(g, n)
  BY <1>2 DEF SetupCaptureArea, Stay
<1>3. CASE \E s \in Spots : Toggle(s)
  BY <1>3 DEF Toggle, Stay
<1>4. CASE ResetManager \/ EndRound \/ NewRound
  BY <1>4 DEF ResetManager, EndRound, NewRound, Stay
<1>5. CASE Tick \/ UNCHANGED vars
  BY <1>5 DEF Tick, vars, Stay
<1>6. CASE Enforce
  BY <1>6, EnforceStays
<1> QED BY <1>1, <1>2, <1>3, <1>4, <1>5, <1>6 DEF Next

LEMMA StepInvariant == IInv /\ [Next]_vars => IInv'
<1> SUFFICES ASSUME IInv, [Next]_vars PROVE IInv'
  OBVIOUS
<1>0. /\ inRound \in BOOLEAN /\ defined \subseteq Groups /\ dirty \subseteq defined
      /\ limit \in [Groups -> Nat] /\ \A g \in Groups \ defined : limit[g] = 0
      /\ areas \in [Groups -> SUBSET (Spots \X {"found", "failsafe"})]
      /\ retry \in {"none", "pending", "due"} /\ disabled \subseteq Spots
      /\ \A g \in Groups : \A x, y \in areas[g] : x[2] = "failsafe" /\ y[2] = "failsafe" => x = y
  BY DEF IInv, TypeOK, Now, State
<1>1. ASSUME NEW g \in Groups, NEW n \in Limits, SetupCaptureArea(g, n) PROVE IInv'
  <2>1. n \in Nat
    BY CaptureAreasAssumption
  <2>2. /\ limit' = [limit EXCEPT ![g] = n] /\ dirty' = dirty \cup {g} /\ defined' = defined \cup {g}
        /\ UNCHANGED <<inRound, areas, retry, disabled>>
    BY <1>1 DEF SetupCaptureArea
  <2>3. TypeOK' /\ PlacesShared'
    BY <1>0, <2>1, <2>2 DEF TypeOK, Now, State, PlacesShared, IInv
  <2>4. \A h \in Groups \ dirty' : h \in Groups \ dirty /\ limit'[h] = limit[h]
    BY <1>0, <2>2
  <2> QED BY <2>2, <2>3, <2>4 DEF IInv, AreasWithinLimit, ShortageRetried
<1>2. ASSUME NEW g \in Groups, RemoveCaptureAreaDef(g) PROVE IInv'
  <2>2. /\ limit' = [limit EXCEPT ![g] = 0] /\ dirty' = dirty \ {g} /\ defined' = defined \ {g}
        /\ areas' = [areas EXCEPT ![g] = {}]
        /\ UNCHANGED <<inRound, retry, disabled>>
    BY <1>2 DEF RemoveCaptureAreaDef
  <2>3. /\ limit'[g] = 0 /\ areas'[g] = {}
        /\ \A h \in Groups \ {g} : limit'[h] = limit[h] /\ areas'[h] = areas[h]
    BY <1>0, <2>2
  <2>4. TypeOK'
    <3>1. Now' \in State
      BY <1>0, <2>2 DEF Now, State
    <3> QED BY <1>0, <2>2, <2>3, <3>1 DEF TypeOK
  <2>5. PlacesShared'
    BY <2>3 DEF PlacesShared, IInv
  <2>6. Cardinality({}) = 0
    BY FS_EmptySet
  <2> QED BY <2>2, <2>3, <2>4, <2>5, <2>6 DEF IInv, AreasWithinLimit, ShortageRetried
<1>3. CASE ResetManager
  <2>1. \A g \in Groups : areas'[g] = {} /\ limit'[g] = 0
    BY <1>3 DEF ResetManager, NoAreas
  <2>2. Now' \in State
    BY <1>0, <1>3 DEF ResetManager, Now, State, NoAreas
  <2>3. TypeOK' /\ PlacesShared'
    BY <1>3, <2>1, <2>2 DEF ResetManager, TypeOK, PlacesShared
  <2>4. Cardinality({}) = 0
    BY FS_EmptySet
  <2> QED BY <1>3, <2>1, <2>3, <2>4 DEF IInv, AreasWithinLimit, ShortageRetried, ResetManager
<1>4. ASSUME NEW s \in Spots, Toggle(s) PROVE IInv'
  BY <1>0, <1>4 DEF Toggle, IInv, TypeOK, Now, State, PlacesShared, AreasWithinLimit, ShortageRetried
<1>5. CASE EndRound
  <2>1. ~ inRound' /\ inRound' \in BOOLEAN /\ UNCHANGED <<defined, limit, dirty, areas, retry, disabled>>
    BY <1>5 DEF EndRound
  <2>2. TypeOK' /\ PlacesShared' /\ AreasWithinLimit'
    BY <2>1 DEF IInv, TypeOK, Now, PlacesShared, AreasWithinLimit
  <2> QED BY <2>1, <2>2 DEF IInv, ShortageRetried
<1>6. CASE NewRound
  BY <1>6, NewRoundInvariant
<1>7. CASE Tick
  BY <1>0, <1>7 DEF Tick, IInv, TypeOK, Now, State, PlacesShared, AreasWithinLimit, ShortageRetried
<1>8. CASE Enforce
  BY <1>8, EnforceInvariant
<1>9. CASE UNCHANGED vars
  BY <1>9 DEF vars, IInv, TypeOK, Now, PlacesShared, AreasWithinLimit, ShortageRetried
<1> QED BY <1>1, <1>2, <1>3, <1>4, <1>5, <1>6, <1>7, <1>8, <1>9 DEF Next

-----------------------------------------------------------------------------
(* The theorems.                                                           *)

LEMMA Invariant == Spec => []IInv
<1> QED BY InitInvariant, StepInvariant, PTL DEF Spec

\* Groups, areas and the retry have their types, and no group ever has two areas from the
\* failsafe of FindSpawnersForCapArea.
THEOREM TypeCorrect == Spec => []TypeOK
<1>1. IInv => TypeOK
  BY DEF IInv
<1> QED BY <1>1, Invariant, PTL

\* However many groups, settings, switched spawners and retries: what SpawnCaptureAreas
\* and RemoveCaptureAreas leave a group is never more than its limit.
THEOREM AreasAlwaysWithinLimit == Spec => []AreasWithinLimit
<1>1. IInv => AreasWithinLimit
  BY DEF IInv
<1> QED BY <1>1, Invariant, PTL

\* FilterSpawnersForCapArea keeps the areas of all groups apart, and away from tokens.
THEOREM PlacesAlwaysShared == Spec => []PlacesShared
<1>1. IInv => PlacesShared
  BY DEF IInv
<1> QED BY <1>1, Invariant, PTL

\* m_flNextCapSpawn is never lost while a group is short of areas.
THEOREM ShortageAlwaysRetried == Spec => []ShortageRetried
<1>1. IInv => ShortageRetried
  BY DEF IInv
<1> QED BY <1>1, Invariant, PTL

\* AreasStay: EnforceTokens() and SpawnCaptureAreas() move no area of a group on account of
\* another group, but by a retry, which places all anew.
THEOREM AreasAlwaysStay == Spec => AreasStay
<1>1. IInv /\ [Next]_vars => [Stay]_vars
  BY NextStays
<1> QED BY <1>1, Invariant, PTL DEF Spec, AreasStay, Stay
=============================================================================
