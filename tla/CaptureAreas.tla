---------------------------- MODULE CaptureAreas ----------------------------
(***************************************************************************)
(* The capture areas of a scenario, which the token manager places, takes  *)
(* away and, where it found too few places, places anew                    *)
(* (server/mp/ge_tokenmanager.cpp).                                        *)
(*                                                                         *)
(* A place is a spawner of capture areas or of players.  The settings of a *)
(* team, which only add spawners that come before the others, are left     *)
(* out, and so is what happens to a player who touches an area.            *)
(***************************************************************************)
EXTENDS Integers, FiniteSets, Sequences, SequencesExt

CONSTANTS
  GroupOrder,     \* the groups of areas, as the dictionary m_vCaptureAreas orders them
  Limits,         \* the limits a scenario sets
  CapSpots,       \* the spawners of capture areas, and
  PlayerSpots,    \* of players
  TokenSpots,     \* the spawners of tokens that areas keep away from
  StartDisabled,  \* the spawners the map starts disabled
  Near            \* the pairs of places that are closer than fSpread

Groups == ToSet(GroupOrder)
Spots  == CapSpots \cup PlayerSpots

ASSUME CaptureAreasAssumption ==
  /\ GroupOrder \in Seq(Groups) /\ IsInjective(GroupOrder) /\ Limits \subseteq Nat
  /\ IsFiniteSet(Spots) /\ CapSpots \cap PlayerSpots = {} /\ StartDisabled \subseteq Spots
  /\ \A s \in Spots : <<s, s>> \in Near

VARIABLES
  inRound,   \* GEGameplay()->IsInRound()
  defined,   \* the groups m_vCaptureAreas holds
  limit,     \* iLimit of each group, 0 of one that is not defined
  dirty,     \* the groups with bDirty
  areas,     \* vAreas of each group, as pairs of a place and how it was found
  retry,     \* m_flNextCapSpawn: "none" for zero, "pending" and, when past, "due"
  disabled   \* the spawners with m_bDisabled

vars == <<inRound, defined, limit, dirty, areas, retry, disabled>>

\* What the operations below work on.  Each gives the set of its outcomes.
State == [areas: [Groups -> SUBSET (Spots \X {"found", "failsafe"})],
          retry: {"none", "pending", "due"}, disabled: SUBSET Spots]

Now == [areas |-> areas, retry |-> retry, disabled |-> disabled]

NoAreas == [g \in Groups |-> {}]

PlacesOf(found) == {a[1] : a \in found}

\* The places that areas and tokens take.
Existing(S) == TokenSpots \cup UNION {PlacesOf(S.areas[g]) : g \in Groups}

-----------------------------------------------------------------------------
(* Places.                                                                 *)

\* Broken filter: only the places of tokens are kept clear.
FilterTokensOnly(pool, n, existing) ==
  LET fit == {s \in pool : \A e \in existing \cap TokenSpots : <<e, s>> \notin Near}
  IN {X \in SUBSET fit : Cardinality(X) = IF n < Cardinality(fit) THEN n ELSE Cardinality(fit)}

\* FilterSpawnersForCapArea(): n > 0 of the spawners, enabled ones, not near a
\* place that is taken.  Those chosen together may be near each other.
Filter(pool, n, existing) ==
  LET fit == {s \in pool : \A e \in existing : <<e, s>> \notin Near}
  IN {X \in SUBSET fit : Cardinality(X) = IF n < Cardinality(fit) THEN n ELSE Cardinality(fit)}

\* Broken failsafe: on top of what was asked for.
FailsafeAlways(S, g, n, existing) ==
  LET spots == {s \in PlayerSpots : \E e \in existing : e # s} IN
  IF S.areas[g] # {} \/ spots = {} THEN {{}} ELSE {{<<s, "failsafe">>} : s \in spots}

\* "Failsafe to spawn at least ONE": a player spawner away from some place that is
\* taken, n places short and without an area.
Failsafe(S, g, n, existing) ==
  LET spots == {s \in PlayerSpots : \E e \in existing : e # s} IN
  IF n = 0 \/ S.areas[g] # {} \/ spots = {} THEN {{}}
  ELSE {{<<s, "failsafe">>} : s \in spots}

\* FindSpawnersForCapArea(): n > 0 places.  With no retry pending it does without the
\* spawners of players if those of capture areas would be enough, were all enabled.
Find(S, g, n) ==
  LET taken == Existing(S)
      found(X) == X \X {"found"}
  IN UNION {
       IF S.retry = "none" /\ Cardinality(CapSpots) >= n THEN {found(caps)}
       ELSE UNION {
              {found(caps \cup others) \cup last :
                 last \in Failsafe(S, g, n - Cardinality(caps) - Cardinality(others),
                                   taken \cup caps \cup others)}
              : others \in Filter(PlayerSpots \ S.disabled, n - Cardinality(caps), taken \cup caps)}
       : caps \in Filter(CapSpots \ S.disabled, n, taken)}

-----------------------------------------------------------------------------
(* Areas.                                                                  *)

\* Broken retries: one group that found its places ends the retry of another; a retry
\* that found all places is not over.
RetryOfLast(S, short) == IF short THEN "pending" ELSE "none"
RetryForEver(S, short) == IF short THEN "pending" ELSE S.retry

Retry(S, short) ==
  IF short THEN "pending" ELSE IF S.retry = "due" THEN "none" ELSE S.retry

\* SpawnCaptureAreas() for a group, which does nothing, and clears no retry, where the
\* group is not defined.
Spawn(S, g) ==
  LET n == limit[g] - Cardinality(S.areas[g]) IN
  IF g \notin defined THEN {S}
  ELSE IF n <= 0 THEN {[S EXCEPT !.retry = Retry(S, FALSE)]}
  ELSE {[S EXCEPT !.areas[g] = @ \cup new, !.retry = Retry(S, Cardinality(new) < n)] : new \in Find(S, g, n)}

\* SpawnCaptureAreas() for all of them, one after the other.
SpawnAll(S) ==
  LET after[i \in 0..Len(GroupOrder)] ==
        IF i = 0 THEN {S} ELSE UNION {Spawn(T, GroupOrder[i]) : T \in after[i - 1]}
  IN  after[Len(GroupOrder)]

\* RemoveCaptureAreas() of n areas of a group, picked at random.
RemoveSome(S, g, n) ==
  {[S EXCEPT !.areas[g] = kept] :
     kept \in {X \in SUBSET S.areas[g] : Cardinality(X) = Cardinality(S.areas[g]) - n}}

RemoveAll(S) == [S EXCEPT !.areas = NoAreas]

\* Broken: groups whose settings did not change are adjusted as well.
AdjustUnasked(S, g) ==
  LET diff == limit[g] - Cardinality(S.areas[g]) IN
  IF diff = 0 THEN {S} ELSE IF diff > 0 THEN Spawn(S, g) ELSE RemoveSome(S, g, - diff)

\* EnforceTokens() for a group whose settings changed.
Adjust(S, g) ==
  LET diff == limit[g] - Cardinality(S.areas[g]) IN
  IF g \notin dirty \/ diff = 0 THEN {S}
  ELSE IF diff > 0 THEN Spawn(S, g) ELSE RemoveSome(S, g, - diff)

AdjustAll(S) ==
  LET after[i \in 0..Len(GroupOrder)] ==
        IF i = 0 THEN {S} ELSE UNION {Adjust(T, GroupOrder[i]) : T \in after[i - 1]}
  IN  after[Len(GroupOrder)]

-----------------------------------------------------------------------------
Init ==
  /\ inRound = FALSE /\ defined = {} /\ limit = [g \in Groups |-> 0] /\ dirty = {}
  /\ areas = NoAreas /\ retry = "none" /\ disabled = StartDisabled

Becomes(S) == areas' = S.areas /\ retry' = S.retry /\ disabled' = S.disabled

\* SetupCaptureArea of the Python bindings, which defines the group if it must.
SetupCaptureArea(g, n) ==
  /\ defined' = defined \cup {g}
  /\ limit' = [limit EXCEPT ![g] = n] /\ dirty' = dirty \cup {g}
  /\ UNCHANGED <<inRound, areas, retry, disabled>>

\* RemoveCaptureAreaDef()
RemoveCaptureAreaDef(g) ==
  /\ g \in defined /\ defined' = defined \ {g}
  /\ limit' = [limit EXCEPT ![g] = 0] /\ dirty' = dirty \ {g}
  /\ areas' = [areas EXCEPT ![g] = {}]
  /\ UNCHANGED <<inRound, retry, disabled>>

\* Reset(), with every scenario that is loaded.
ResetManager ==
  /\ inRound' = FALSE /\ defined' = {} /\ limit' = [g \in Groups |-> 0] /\ dirty' = {}
  /\ areas' = NoAreas /\ retry' = "none" /\ UNCHANGED disabled

\* The map switches a spawner.
Toggle(s) ==
  /\ disabled' = IF s \in disabled THEN disabled \ {s} ELSE disabled \cup {s}
  /\ UNCHANGED <<inRound, defined, limit, dirty, areas, retry>>

EndRound == /\ inRound /\ inRound' = FALSE
            /\ UNCHANGED <<defined, limit, dirty, areas, retry, disabled>>

\* The world is reloaded and its spawners are new; OnRoundStart places all areas anew.
NewRound ==
  /\ ~ inRound /\ inRound' = TRUE /\ UNCHANGED <<defined, limit, dirty>>
  /\ \E S \in SpawnAll([RemoveAll(Now) EXCEPT !.disabled = StartDisabled]) : Becomes(S)

\* A tenth of a second goes by.
Tick == /\ retry = "pending" /\ retry' = "due"
        /\ UNCHANGED <<inRound, defined, limit, dirty, areas, disabled>>

\* EnforceTokens(): where places were missing all areas are placed anew, and groups
\* whose settings changed are adjusted.
Enforce ==
  /\ inRound /\ dirty' = {} /\ UNCHANGED <<inRound, defined, limit>>
  /\ \E S \in IF retry = "due" THEN SpawnAll(RemoveAll(Now)) ELSE {Now} :
       \E T \in AdjustAll(S) : Becomes(T)

Next ==
  \/ \E g \in Groups : RemoveCaptureAreaDef(g) \/ \E n \in Limits : SetupCaptureArea(g, n)
  \/ \E s \in Spots : Toggle(s)
  \/ ResetManager \/ EndRound \/ NewRound \/ Tick \/ Enforce

\* Time goes by, and in a round the manager enforces four times a second.
Spec == Init /\ [][Next]_vars /\ WF_vars(Tick) /\ WF_vars(Enforce)

-----------------------------------------------------------------------------
(* Properties.                                                             *)

TypeOK ==
  /\ inRound \in BOOLEAN /\ defined \subseteq Groups /\ dirty \subseteq defined
  /\ limit \in [Groups -> Nat] /\ \A g \in Groups \ defined : limit[g] = 0
  /\ Now \in State
  /\ \A g \in Groups : \A x, y \in areas[g] : x[2] = "failsafe" /\ y[2] = "failsafe" => x = y

\* Unless its settings have just changed, a group has no more areas than its limit:
\* what is chosen among three kinds of places and the failsafe adds up.
AreasWithinLimit == \A g \in Groups \ dirty : Cardinality(areas[g]) <= limit[g]

\* No two areas lie at one place, of whatever groups, and none at a token's, except
\* for one that the failsafe has put there.
PlacesShared ==
  \A g, h \in Groups : \A a \in areas[g], b \in areas[h] :
    /\ a[2] = "found" => a[1] \notin TokenSpots
    /\ a[2] = "found" /\ b[2] = "found" /\ a[1] = b[1] => g = h

\* A group that has fewer areas than its limit, in a round, is not given up: the areas
\* will be placed anew.
ShortageRetried ==
  \A g \in Groups \ dirty :
    inRound /\ Cardinality(areas[g]) < limit[g] => retry # "none"

\* bDirty "indicates we need to refresh our spawned capture areas" (ge_tokenmanager.h:72): in a
\* round, where a retry is not due, those of a group that is not dirty stay where they are,
\* whatever becomes of other groups and of the spawners they lie at.
AreasStay ==
  [][\A g \in Groups \ dirty :
       inRound /\ inRound' /\ retry # "due" /\ limit'[g] = limit[g] => areas'[g] = areas[g]]_vars

\* The spawners of capture areas that nothing else comes near.
Roomy == {c \in CapSpots : \A e \in (CapSpots \cup TokenSpots) \ {c} : <<e, c>> \notin Near}

\* When the spawners are all enabled at last, and those of capture areas are enough
\* for all groups, all get their areas, and these are not placed anew from then on: the
\* retry is over, or no group is left that it would visit.
AreasSettle ==
  /\ <>[][Tick \/ Enforce]_vars
  /\ <>[](/\ inRound /\ disabled = {}
         /\ MapThenSumSet(LAMBDA g : limit[g], Groups) <= Cardinality(Roomy))
  => <>[](/\ retry = "none" \/ defined = {}
          /\ \A g \in Groups : Cardinality(areas[g]) = limit[g])
=============================================================================
