--------------------------- MODULE BotQuotaProofs ---------------------------
(***************************************************************************)
(* Proofs about the teams and the bots, for any number of humans, bots and *)
(* slots: the list of bots is exact, and frames even the teams out.        *)
(***************************************************************************)
EXTENDS BotQuota, FiniteSetTheorems, TLAPS

-----------------------------------------------------------------------------
(* Sizes of teams.                                                         *)

LEMMA SizeType == ASSUME NEW tm, NEW t PROVE IsFiniteSet(Members(tm, t)) /\ Size(tm, t) \in Nat
<1>1. IsFiniteSet(Clients)
  BY FS_Union, TeamsAssumption DEF Clients
<1>2. Members(tm, t) \in SUBSET Clients
  BY DEF Members
<1>3. IsFiniteSet(Members(tm, t))
  BY <1>1, <1>2, FS_Subset
<1>4. QED
  BY <1>3, FS_CardinalityType DEF Size

LEMMA DifferenceType ==
  ASSUME NEW tm
  PROVE  /\ Lead(tm) \in Int /\ Difference(tm) \in Nat
         /\ Difference(tm) = IF Lead(tm) < 0 THEN -Lead(tm) ELSE Lead(tm)
  BY SizeType DEF Lead, Difference, Abs

\* Players who join a team they were not in, and no other, make it larger.
LEMMA TeamGrows ==
  ASSUME NEW tm, NEW new, NEW t, NEW W, W \subseteq Clients,
         \A p \in W : tm[p] # t,
         Members(new, t) = Members(tm, t) \cup W
  PROVE  /\ IsFiniteSet(W) /\ Cardinality(W) \in Nat
         /\ Size(new, t) = Size(tm, t) + Cardinality(W)
<1>1. IsFiniteSet(Clients)
  BY FS_Union, TeamsAssumption DEF Clients
<1>2. IsFiniteSet(W) /\ Cardinality(W) \in Nat
  BY <1>1, FS_Subset, FS_CardinalityType
<1>3. Members(tm, t) \cap W = {}
  BY DEF Members
<1>4. Cardinality({}) = 0
  BY FS_EmptySet
<1>5. Cardinality(Members(tm, t) \cup W)
        = Cardinality(Members(tm, t)) + Cardinality(W) - Cardinality(Members(tm, t) \cap W)
  BY <1>2, SizeType, FS_Union
<1>6. Cardinality(Members(tm, t) \cap W) = 0
  BY <1>3, <1>4
<1>7. Size(new, t) = Cardinality(Members(tm, t) \cup W)
  BY DEF Size
<1>8. Size(tm, t) = Cardinality(Members(tm, t)) /\ Size(tm, t) \in Nat
  BY SizeType DEF Size
<1>9. QED
  BY <1>2, <1>5, <1>6, <1>7, <1>8

\* Players who leave the team they were in make it smaller.
LEMMA TeamShrinks ==
  ASSUME NEW tm, NEW new, NEW t, NEW W, W \subseteq Members(tm, t),
         Members(new, t) = Members(tm, t) \ W
  PROVE  Size(new, t) = Size(tm, t) - Cardinality(W)
<1>1. Members(tm, t) \cap W = W
  OBVIOUS
<1>2. Cardinality(Members(tm, t) \ W)
        = Cardinality(Members(tm, t)) - Cardinality(Members(tm, t) \cap W)
  BY SizeType, FS_Difference
<1>3. QED
  BY <1>1, <1>2 DEF Size

-----------------------------------------------------------------------------
(* What the balancer and the joins do to the difference.                   *)

\* The balancer leaves the difference no larger, moves players from one game team to
\* the other only, and those only when they were warned and the teams are uneven.
LEMMA BalancedEvens ==
  ASSUME team \in [Clients -> TeamNames], NEW tm \in Balanced
  PROVE  /\ tm \in [Clients -> TeamNames]
         /\ Difference(tm) <= Difference(team)
         /\ \A p \in Clients : tm[p] # team[p] =>
              team[p] \in GameTeams /\ tm[p] \in GameTeams /\ inBalance /\ Difference(team) > 1
<1>1. CASE ~ (BalanceTeamsNow /\ inBalance /\ Uneven(team))
  BY <1>1, DifferenceType DEF Balanced
<1>2. CASE BalanceTeamsNow /\ inBalance /\ Uneven(team)
  <2> DEFINE heavy == Heavy(team)
             light == Other(heavy)
             Chosen(players) == LET n == Switches(Difference(team), Cardinality(players))
                                IN {P \in SUBSET players : Cardinality(P) = n}
  <2>1. PICK players \in Willing(Members(team, heavy)) :
          \E P \in Chosen(players) : tm = Moved(team, P, light)
    BY <1>2 DEF Balanced
  <2>p. PICK P \in Chosen(players) : tm = Moved(team, P, light)
    BY <2>1
  <2>2. players \subseteq Members(team, heavy) /\ P \subseteq players
    BY <2>1, <2>p DEF Willing
  <2>3. Cardinality(players) \in Nat
    BY <2>2, SizeType, FS_Subset, FS_CardinalityType
  <2>4. Cardinality(P) \in Nat /\ Cardinality(P) <= Difference(team) - 1
    <3>1. Cardinality(P) = Switches(Difference(team), Cardinality(players))
      BY <2>p
    <3>2. Difference(team) \in Nat /\ Difference(team) > 1
      BY <1>2, DifferenceType DEF Uneven
    <3>3. QED
      BY <2>3, <3>1, <3>2 DEF Switches
  <2>5. heavy \in GameTeams /\ light \in GameTeams /\ heavy # light
    BY DEF Heavy, Other, GameTeams
  <2>6. /\ Members(tm, heavy) = Members(team, heavy) \ P
        /\ Members(tm, light) = Members(team, light) \cup P
    BY <2>p, <2>2, <2>5 DEF Members, Moved
  <2>7. /\ Size(tm, heavy) = Size(team, heavy) - Cardinality(P)
        /\ Size(tm, light) = Size(team, light) + Cardinality(P)
    <3>1. P \subseteq Clients /\ \A p \in P : team[p] # light
      BY <2>2, <2>5 DEF Members
    <3>2. QED
      BY <2>2, <2>6, <3>1, TeamShrinks, TeamGrows
  <2>8. Difference(tm) <= Difference(team)
    <3>1. CASE Lead(team) > 0
      <4>1. heavy = "janus" /\ light = "mi6"
        BY <3>1 DEF Heavy, Other
      <4>2. Lead(tm) = Lead(team) - 2 * Cardinality(P)
        BY <2>4, <2>7, <4>1, SizeType DEF Lead
      <4>3. QED
        BY <2>4, <3>1, <4>2, DifferenceType
    <3>2. CASE ~ (Lead(team) > 0)
      <4>1. heavy = "mi6" /\ light = "janus"
        BY <3>2 DEF Heavy, Other
      <4>2. Lead(tm) = Lead(team) + 2 * Cardinality(P)
        BY <2>4, <2>7, <4>1, SizeType DEF Lead
      <4>3. QED
        BY <2>4, <3>2, <4>2, DifferenceType
    <3>3. QED
      BY <3>1, <3>2
  <2>9. \A p \in Clients : tm[p] = IF p \in P THEN light ELSE team[p]
    BY <2>p DEF Moved
  <2>10. \A p \in P : team[p] = heavy
    BY <2>2 DEF Members
  <2>11. tm \in [Clients -> TeamNames]
    BY <2>p, <2>5 DEF Moved, TeamNames
  <2>12. inBalance /\ Difference(team) > 1
    BY <1>2 DEF Uneven
  <2>13. QED
    BY <2>5, <2>8, <2>9, <2>10, <2>11, <2>12
<1>3. QED
  BY <1>1, <1>2

\* Players of no game team who all join the team t make it larger, and not the other.
LEMMA JoinersGrow ==
  ASSUME NEW tm, NEW new, NEW W, W \subseteq Clients, NEW t \in GameTeams,
         \A p \in W : tm[p] \notin GameTeams /\ new[p] = t,
         \A p \in Clients \ W : new[p] = tm[p]
  PROVE  /\ Cardinality(W) \in Nat
         /\ Size(new, t) = Size(tm, t) + Cardinality(W)
         /\ Size(new, Other(t)) = Size(tm, Other(t))
<1>1. Other(t) \in GameTeams /\ Other(t) # t
  BY DEF Other, GameTeams
<1>2. \A p \in W : tm[p] # t
  OBVIOUS
<1>3. Members(new, t) = Members(tm, t) \cup W
  BY DEF Members
<1>4. Members(new, Other(t)) = Members(tm, Other(t))
  BY <1>1 DEF Members
<1>5. Cardinality(W) \in Nat /\ Size(new, t) = Size(tm, t) + Cardinality(W)
  BY <1>2, <1>3, TeamGrows
<1>6. QED
  BY <1>4, <1>5 DEF Size

\* They leave the difference no larger if they all join the lighter team, and are no more.
LEMMA LighterEvens ==
  ASSUME NEW tm, NEW new, NEW W, W \subseteq Clients,
         \A p \in W : tm[p] \notin GameTeams /\ new[p] \in Lighter(tm),
         \A p \in Clients \ W : new[p] = tm[p],
         Cardinality(W) <= Difference(tm)
  PROVE  Difference(new) <= Difference(tm)
<1>1. CASE Lead(tm) > 0
  <2>1. Lighter(tm) = {"mi6"}
    BY <1>1, SizeType DEF Lighter, Lead, Other, GameTeams
  <2>2. "mi6" \in GameTeams /\ Other("mi6") = "janus"
    BY DEF Other, GameTeams
  <2>3. \A p \in W : tm[p] \notin GameTeams /\ new[p] = "mi6"
    BY <2>1
  <2>4. /\ Cardinality(W) \in Nat
        /\ Size(new, "mi6") = Size(tm, "mi6") + Cardinality(W)
        /\ Size(new, Other("mi6")) = Size(tm, Other("mi6"))
    BY <2>2, <2>3, JoinersGrow
  <2>5. Lead(new) = Lead(tm) - Cardinality(W)
    BY <2>2, <2>4, SizeType DEF Lead
  <2>6. QED
    BY <1>1, <2>4, <2>5, DifferenceType
<1>2. CASE Lead(tm) < 0
  <2>1. Lighter(tm) = {"janus"}
    BY <1>2, SizeType DEF Lighter, Lead, Other, GameTeams
  <2>2. "janus" \in GameTeams /\ Other("janus") = "mi6"
    BY DEF Other, GameTeams
  <2>3. \A p \in W : tm[p] \notin GameTeams /\ new[p] = "janus"
    BY <2>1
  <2>4. /\ Cardinality(W) \in Nat
        /\ Size(new, "janus") = Size(tm, "janus") + Cardinality(W)
        /\ Size(new, Other("janus")) = Size(tm, Other("janus"))
    BY <2>2, <2>3, JoinersGrow
  <2>5. Lead(new) = Lead(tm) + Cardinality(W)
    BY <2>2, <2>4, SizeType DEF Lead
  <2>6. QED
    BY <1>2, <2>4, <2>5, DifferenceType
<1>3. CASE Lead(tm) = 0
  <2>1. Cardinality(W) <= 0
    BY <1>3, DifferenceType
  <2>2. IsFiniteSet(W) /\ Cardinality(W) \in Nat
    <3>1. IsFiniteSet(Clients)
      BY FS_Union, TeamsAssumption DEF Clients
    <3>2. QED
      BY <3>1, FS_Subset, FS_CardinalityType
  <2>3. W = {}
    BY <2>1, <2>2, FS_EmptySet
  <2>4. Members(new, "mi6") = Members(tm, "mi6") /\ Members(new, "janus") = Members(tm, "janus")
    BY <2>3 DEF Members
  <2>5. Lead(new) = Lead(tm)
    BY <2>4 DEF Lead, Size
  <2>6. QED
    BY <2>5, DifferenceType
<1>4. QED
  BY <1>1, <1>2, <1>3, DifferenceType

\* Players of no game team who pick one leave the difference no larger than it was, or
\* than need be.
LEMMA JoinedEvens ==
  ASSUME NEW tm \in [Clients -> TeamNames], NEW W \in SUBSET Clients,
         \A p \in W : tm[p] \notin GameTeams,
         NEW new, Joined(tm, W, new)
  PROVE  /\ new \in [Clients -> TeamNames]
         /\ \A p \in Clients : new[p] # tm[p] => p \in W /\ new[p] \in GameTeams
         /\ Difference(new) <= 1 \/ Difference(new) <= Difference(tm)
<1>1. PICK f \in [W -> GameTeams] : new = [p \in Clients |-> IF p \in W THEN f[p] ELSE tm[p]]
  BY DEF Joined
<1>2. new \in [Clients -> TeamNames]
  BY <1>1 DEF TeamNames
<1>3. \A p \in Clients : new[p] # tm[p] => p \in W /\ new[p] \in GameTeams
  BY <1>1
<1>4. ASSUME Cardinality(W) <= Difference(tm), \A p \in W : new[p] \in Lighter(tm)
      PROVE  Difference(new) <= Difference(tm)
  <2>1. W \subseteq Clients /\ \A p \in Clients \ W : new[p] = tm[p]
    BY <1>1
  <2>2. QED
    BY <1>4, <2>1, LighterEvens
<1>5. QED
  BY <1>2, <1>3, <1>4 DEF Joined

-----------------------------------------------------------------------------
(* What a frame and a join do to the teams.                                *)

\* A frame moves players between the game teams and the players of no team.  With
\* teamplay it leaves the teams no more uneven than they were, or than need be.
LEMMA FrameMoves ==
  ASSUME team \in [Clients -> TeamNames], EnforceTeamplay
  PROVE  /\ team' \in [Clients -> TeamNames]
         /\ \A p \in Clients : team'[p] # team[p] =>
              /\ {team[p], team'[p]} \subseteq GameTeams \cup {"unassigned"}
              /\ teamplay /\ team[p] \in GameTeams => inBalance /\ Difference(team) > 1
         /\ teamplay => Difference(team') <= 1 \/ Difference(team') <= Difference(team)
<1>1. CASE teamplay
  <2>1. PICK tm \in Balanced : PickTeams(tm)
    BY <1>1 DEF EnforceTeamplay
  <2>2. /\ tm \in [Clients -> TeamNames]
        /\ Difference(tm) <= Difference(team)
        /\ \A p \in Clients : tm[p] # team[p] =>
             team[p] \in GameTeams /\ tm[p] \in GameTeams /\ inBalance /\ Difference(team) > 1
    BY <2>1, BalancedEvens
  <2>3. PICK W \in SUBSET Members(tm, "unassigned") : Joined(tm, W, team')
    BY <2>1 DEF PickTeams, Walked, Willing
  <2>4. W \in SUBSET Clients /\ \A p \in W : tm[p] = "unassigned"
    BY <2>3 DEF Members
  <2>5. \A p \in W : tm[p] \notin GameTeams
    BY <2>4 DEF GameTeams
  <2>6. /\ team' \in [Clients -> TeamNames]
        /\ \A p \in Clients : team'[p] # tm[p] => p \in W /\ team'[p] \in GameTeams
        /\ Difference(team') <= 1 \/ Difference(team') <= Difference(tm)
    BY <2>2, <2>3, <2>4, <2>5, JoinedEvens
  <2>7. ASSUME NEW p \in Clients, team'[p] # team[p]
        PROVE  /\ {team[p], team'[p]} \subseteq GameTeams \cup {"unassigned"}
               /\ team[p] \in GameTeams => inBalance /\ Difference(team) > 1
    <3>1. CASE team'[p] = tm[p]
      BY <2>2, <2>7, <3>1
    <3>2. CASE team'[p] # tm[p]
      <4>1. tm[p] = "unassigned" /\ team'[p] \in GameTeams
        BY <2>4, <2>6, <3>2
      <4>2. team[p] = tm[p] /\ team[p] \notin GameTeams
        BY <2>2, <4>1 DEF GameTeams
      <4>3. QED
        BY <4>1, <4>2
    <3>3. QED
      BY <3>1, <3>2
  <2>8. Difference(team') <= 1 \/ Difference(team') <= Difference(team)
    BY <2>2, <2>6, DifferenceType
  <2>9. QED
    BY <2>6, <2>7, <2>8
<1>2. CASE ~ teamplay
  <2>1. PICK W \in Left("mi6"), V \in Left("janus") : team' = Moved(team, W \cup V, "unassigned")
    BY <1>2 DEF EnforceTeamplay, LeaveTeams
  <2>0. ASSUME NEW t, NEW X \in Left(t) PROVE X \subseteq Members(team, t)
    <3>1. PICK M \in Willing(Members(team, t) \cap Humans) :
            X \in Walked(Members(team, t), M \cup (Members(team, t) \cap Bots))
      BY <2>0 DEF Left
    <3>2. X \subseteq M \cup (Members(team, t) \cap Bots)
      BY <3>1 DEF Walked
    <3>3. M \subseteq Members(team, t)
      BY <3>1 DEF Willing
    <3>4. QED
      BY <3>2, <3>3
  <2>2. \A p \in W \cup V : team[p] \in GameTeams
    BY <2>0, <2>1 DEF Members, GameTeams
  <2>3. QED
    BY <1>2, <2>1, <2>2 DEF Moved, TeamNames
<1>3. QED
  BY <1>1, <1>2

\* Bots that join are connected then, and nobody else moves.
LEMMA BotsJoin ==
  ASSUME team \in [Clients -> TeamNames], NEW B \in SUBSET Bots, BotsPutInServer(B)
  PROVE  /\ team' \in [Clients -> TeamNames]
         /\ \A p \in B : team'[p] # "out"
         /\ \A p \in Clients \ B : team'[p] = team[p]
<1>1. B \in SUBSET Clients /\ \A p \in B : team[p] = "out"
  BY DEF BotsPutInServer, Clients
<1>2. CASE teamplay
  <2>1. \A p \in B : team[p] \notin GameTeams
    BY <1>1 DEF GameTeams
  <2>2. Joined(team, B, team')
    BY <1>2 DEF BotsPutInServer
  <2>3. /\ team' \in [Clients -> TeamNames]
        /\ \A p \in Clients : team'[p] # team[p] => p \in B
    BY <1>1, <2>1, <2>2, JoinedEvens
  <2>4. \A p \in B : team'[p] \in GameTeams
    BY <1>1, <2>2 DEF Joined
  <2>5. QED
    BY <2>3, <2>4 DEF GameTeams
<1>3. CASE ~ teamplay
  BY <1>1, <1>3 DEF BotsPutInServer, Moved, TeamNames
<1>4. QED
  BY <1>2, <1>3

-----------------------------------------------------------------------------
(* The type invariant.                                                     *)

\* Initially the invariant holds.
LEMMA InitTypeOK == Init => TypeOK
BY BotQuotaAssumption
DEF Init, TeamsInit, TypeOK, TeamsTypeOK, Connected, TeamNames, Clients

\* Steps in which no bot comes or goes leave the list of bots exact.
LEMMA SameBots ==
  ASSUME TypeOK, UNCHANGED quota, TeamsTypeOK',
         \A b \in Bots : team'[b] = "out" <=> team[b] = "out"
  PROVE  TypeOK'
BY DEF TypeOK, quota, Connected, Clients

\* What one human does, or what happens to it, keeps the invariant.
LEMMA HumanActsTypeOK == TypeOK /\ UNCHANGED quota /\ HumanActs => TypeOK'
<1> SUFFICES ASSUME TypeOK, UNCHANGED quota, NEW p \in Humans,
                    \/ ClientPutInServer(p) \/ ClientDisconnected(p) \/ Select(p)
                    \/ \E to \in Destinations : JoinTeam(p, to)
             PROVE  TypeOK'
  BY DEF HumanActs
<1>0. p \in Clients /\ p \notin Bots
  BY TeamsAssumption DEF Clients
<1>1. CASE ClientPutInServer(p)
  <2>1. PICK t \in {"spectator", "new"} :
          /\ team' = [team EXCEPT ![p] = t]
          /\ choosing' \subseteq choosing \cup {p} /\ (t = "spectator" => choosing' = choosing)
    BY <1>1 DEF ClientPutInServer
  <2>2. team[p] = "out" /\ UNCHANGED <<teamplay, slowed, inBalance, due>>
    BY <1>1 DEF ClientPutInServer, balancer
  <2>3. /\ team' \in [Clients -> TeamNames] /\ team'[p] = t
        /\ \A q \in Clients \ {p} : team'[q] = team[q]
    BY <1>0, <2>1 DEF TypeOK, TeamsTypeOK, TeamNames
  <2>4. choosing' \subseteq {q \in Humans : team'[q] \notin {"out", "spectator"}}
    BY <2>1, <2>2, <2>3 DEF TypeOK, TeamsTypeOK, Clients
  <2>5. slowed' \subseteq {q \in Humans : team'[q] # "out"}
    BY <2>2, <2>3 DEF TypeOK, TeamsTypeOK, Clients
  <2>6. TeamsTypeOK'
    BY <2>2, <2>3, <2>4, <2>5 DEF TypeOK, TeamsTypeOK
  <2>7. QED
    BY <1>0, <2>3, <2>6, SameBots DEF Clients
<1>2. CASE ClientDisconnected(p)
  <2>1. TeamsTypeOK'
    BY <1>0, <1>2 DEF TypeOK, TeamsTypeOK, ClientDisconnected, TeamNames, balancer, Clients
  <2>2. QED
    BY <1>0, <1>2, <2>1, SameBots DEF ClientDisconnected, TypeOK, TeamsTypeOK, Clients
<1>3. CASE Select(p)
  <2>1. TeamsTypeOK'
    BY <1>3 DEF TypeOK, TeamsTypeOK, Select, balancer
  <2>2. QED
    BY <1>3, <2>1, SameBots DEF Select
<1>4. ASSUME NEW to \in Destinations, JoinTeam(p, to) PROVE TypeOK'
  <2>1. to \in TeamNames \ {"out"}
    BY DEF Destinations, TeamNames, GameTeams
  <2>2. team' = team \/ team' = [team EXCEPT ![p] = to]
    BY <1>4 DEF JoinTeam
  <2>3. /\ team' \in [Clients -> TeamNames]
        /\ \A q \in Clients \ {p} : team'[q] = team[q]
    BY <2>1, <2>2 DEF TypeOK, TeamsTypeOK
  <2>4. slowed' \subseteq slowed \cup {p} /\ choosing' \subseteq choosing \cup {p}
    BY <1>4 DEF JoinTeam, Respawned
  <2>5. team[p] # "out" /\ team'[p] # "out"
    BY <1>0, <1>4, <2>1, <2>2 DEF JoinTeam, TypeOK, TeamsTypeOK
  <2>6. p \in choosing' => team'[p] # "spectator"
    BY <1>0, <1>4 DEF JoinTeam, TypeOK, TeamsTypeOK
  <2>7. TeamsTypeOK'
    BY <1>4, <2>3, <2>4, <2>5, <2>6 DEF JoinTeam, TypeOK, TeamsTypeOK, balancer, Clients
  <2>8. QED
    BY <1>0, <2>3, <2>7, SameBots DEF Clients
<1>5. QED
  BY <1>1, <1>2, <1>3, <1>4

\* A frame keeps the invariant.
LEMMA EnforceTeamplayTypeOK == TypeOK /\ UNCHANGED quota /\ EnforceTeamplay => TypeOK'
<1> SUFFICES ASSUME TypeOK, UNCHANGED quota, EnforceTeamplay PROVE TypeOK'
  OBVIOUS
<1> DEFINE H == {p \in Humans : team'[p] # team[p]}
<1>1. /\ team' \in [Clients -> TeamNames]
      /\ \A p \in Clients : team'[p] # team[p] =>
           {team[p], team'[p]} \subseteq GameTeams \cup {"unassigned"}
  BY FrameMoves DEF TypeOK, TeamsTypeOK
<1>2. \A p \in Clients : team'[p] # team[p] =>
        team[p] \notin {"out", "spectator"} /\ team'[p] \notin {"out", "spectator"}
  BY <1>1 DEF GameTeams
<1>3. slowed' \subseteq slowed \cup H /\ choosing' \subseteq choosing \cup H
  BY DEF EnforceTeamplay, Respawned
<1>4. /\ choosing' \subseteq {p \in Humans : team'[p] \notin {"out", "spectator"}}
      /\ slowed' \subseteq {p \in Humans : team'[p] # "out"}
  BY <1>2, <1>3 DEF TypeOK, TeamsTypeOK, Clients
<1>5. teamplay' \in BOOLEAN /\ inBalance' \in BOOLEAN /\ due' \in BOOLEAN
  <2>1. teamplay' = teamplay /\ Warned
    BY DEF EnforceTeamplay
  <2>2. inBalance' \in BOOLEAN
    <3>1. CASE BalanceTeamsNow
      BY <2>1, <3>1 DEF Warned
    <3>2. CASE ~ BalanceTeamsNow
      BY <2>1, <3>2 DEF Warned, TypeOK, TeamsTypeOK
    <3>3. QED
      BY <3>1, <3>2
  <2>3. QED
    BY <2>1, <2>2 DEF Warned, TypeOK, TeamsTypeOK
<1>6. QED
  BY <1>1, <1>2, <1>4, <1>5, SameBots DEF TeamsTypeOK, Clients

\* Bots that are created are put on the list.
LEMMA CreateBotsTypeOK ==
  ASSUME TypeOK, NEW n, CreateBots(n), UNCHANGED <<kicked, threshold>> PROVE TypeOK'
<1>1. PICK B \in SUBSET {b \in Bots : team[b] = "out"} :
        BotsPutInServer(B) /\ botList' = botList \cup B
  BY DEF CreateBots
<1>2. /\ team' \in [Clients -> TeamNames]
      /\ \A p \in B : team'[p] # "out"
      /\ \A p \in Clients \ B : team'[p] = team[p]
  BY <1>1, BotsJoin DEF TypeOK, TeamsTypeOK
<1>3. /\ \A p \in Humans : team'[p] = team[p]
      /\ UNCHANGED <<teamplay, people, balancer>>
  BY <1>1, <1>2, TeamsAssumption DEF Clients, BotsPutInServer
<1>4. TeamsTypeOK'
  BY <1>2, <1>3 DEF TypeOK, TeamsTypeOK, people, balancer
<1>5. QED
  BY <1>1, <1>2, <1>4 DEF TypeOK, Connected, Clients

\* Every step keeps the invariant.
LEMMA NextTypeOK == TypeOK /\ [Next]_vars => TypeOK'
<1> SUFFICES ASSUME TypeOK, [Next]_vars PROVE TypeOK'
  OBVIOUS
<1>1. CASE UNCHANGED quota /\ HumanActs
  BY <1>1, HumanActsTypeOK
<1>2. CASE UNCHANGED quota /\ (SetTeamplay \/ BalanceOff \/ ServerTime)
  <2>1. UNCHANGED team /\ TeamsTypeOK'
    BY <1>2 DEF SetTeamplay, BalanceOff, ServerTime, BalanceDue, MayChangeTeam,
                TypeOK, TeamsTypeOK, people, balancer
  <2>2. QED
    BY <1>2, <2>1, SameBots
<1>3. CASE UNCHANGED quota /\ EnforceTeamplay
  BY <1>3, EnforceTeamplayTypeOK
<1>4. CASE BotCommand
  BY <1>4, CreateBotsTypeOK DEF BotCommand
<1>5. CASE \E b \in Bots : BotRemoveCommand(b)
  BY <1>5 DEF BotRemoveCommand, TypeOK, TeamsTypeOK, Connected, teamVars, people, balancer
<1>6. CASE \E n \in Thresholds : SetThreshold(n)
  BY <1>6, BotQuotaAssumption
  DEF SetThreshold, TypeOK, TeamsTypeOK, Connected, teamVars, people, balancer
<1>7. CASE EnforceBotCount
  <2>1. CASE UNCHANGED <<botList, teamVars>> /\ \E B \in SUBSET botList : kicked' = kicked \cup B
    BY <1>7, <2>1 DEF EnforceBotCount, TypeOK, TeamsTypeOK, Connected, teamVars, people, balancer
  <2>2. CASE UNCHANGED kicked /\ \E n : CreateBots(n)
    BY <1>7, <2>2, CreateBotsTypeOK DEF EnforceBotCount
  <2>3. QED
    BY <1>7, <2>1, <2>2 DEF EnforceBotCount
<1>8. ASSUME NEW b \in Bots, BotKicked(b) PROVE TypeOK'
  <2>1. b \in Clients /\ b \notin Humans
    BY TeamsAssumption DEF Clients
  <2>2. team' = [team EXCEPT ![b] = "out"] /\ team' \in [Clients -> TeamNames]
    BY <1>8 DEF BotKicked, ClientDisconnected, TypeOK, TeamsTypeOK, TeamNames
  <2>3. TeamsTypeOK'
    BY <1>8, <2>1, <2>2 DEF BotKicked, ClientDisconnected, TypeOK, TeamsTypeOK, balancer, Clients
  <2>4. botList' = Connected' \cap Bots
    BY <1>8, <2>1, <2>2 DEF BotKicked, Unlisted, TypeOK, TeamsTypeOK, Connected
  <2>5. QED
    BY <1>8, <2>3, <2>4 DEF BotKicked, Unlisted, TypeOK
<1>9. CASE UNCHANGED vars
  BY <1>9 DEF vars, teamVars, quota, people, balancer, TypeOK, TeamsTypeOK, Connected
<1>10. QED
  BY <1>1, <1>2, <1>3, <1>4, <1>5, <1>6, <1>7, <1>8, <1>9 DEF Next, Commands, Frame

\* TypeOK: the bots that EnforceBotCount counts in m_vBotList are the bots that are
\* connected, whatever commands, joins, kicks and changes of team happen in between.
THEOREM TypeCorrect == Spec => []TypeOK
<1>1. TypeOK /\ [Next]_vars => TypeOK'
  BY NextTypeOK
<1>2. QED
  BY InitTypeOK, <1>1, PTL DEF Spec

\* FramesEvenTeams: with teamplay no frame makes the teams more uneven than they were or
\* need be, and BalanceTeams moves players only after its warning and when they are.
THEOREM FramesAlwaysEvenTeams == Spec => FramesEvenTeams
<1> DEFINE Evens ==
      teamplay /\ team' # team /\ EnforceTeamplay =>
        /\ Difference(team') <= 1 \/ Difference(team') <= Difference(team)
        /\ (\E p \in Clients : team[p] \in GameTeams /\ team'[p] # team[p])
             => inBalance /\ Difference(team) > 1
<1>1. TypeOK => Evens
  BY FrameMoves DEF TypeOK, TeamsTypeOK
<1>2. TypeOK => [Evens]_teamVars
  BY <1>1
<1>3. QED
  BY TypeCorrect, <1>2, PTL DEF FramesEvenTeams, Spec
=============================================================================
