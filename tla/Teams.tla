------------------------------- MODULE Teams -------------------------------
(***************************************************************************)
(* The teams of the players: what ChangeTeam does to a human               *)
(* (server/mp/gemp_player.cpp) and to a bot (server/mp/gebot_player.cpp),  *)
(* and how CGEMPRules::EnforceTeamplay and BalanceTeams                    *)
(* (shared/mp/gemp_gamerules.cpp) move players in every frame.             *)
(*                                                                         *)
(* The order of the players in the list of a team is left open, and so is  *)
(* whom the balancer prefers.                                              *)
(***************************************************************************)
EXTENDS Integers, FiniteSets

CONSTANTS
  Humans, Bots,
  MayRefuse      \* whom the scenario may not let change: its CanPlayerChangeTeam

Clients == Humans \cup Bots

ASSUME TeamsAssumption ==
  IsFiniteSet(Humans) /\ IsFiniteSet(Bots) /\ Humans \cap Bots = {} /\ MayRefuse \subseteq Clients

VARIABLES
  teamplay,   \* IsTeamplay()
  team,       \* of each client: GetTeamNumber(); "out" is not connected, and "new" is
              \*   "unassigned" but on the list of no team
  choosing,   \* the humans in a team with m_bPreSpawn: they choose a character
  slowed,     \* those for whom m_flNextTeamChangeTime is not over
  inBalance,  \* m_bInTeamBalance: players were warned
  due         \* BalanceTeams passes its settings, the clocks and m_flNextTeamBalance

people   == <<choosing, slowed>>
balancer == <<inBalance, due>>
teamVars == <<teamplay, team, people, balancer>>

GameTeams == {"mi6", "janus"}
TeamNames == GameTeams \cup {"out", "new", "spectator", "unassigned"}

-----------------------------------------------------------------------------
(* Teams.  tm: the teams at a point within a frame.                        *)

Members(tm, t) == {p \in Clients : tm[p] = t}
Size(tm, t)    == Cardinality(Members(tm, t))

Abs(n) == IF n < 0 THEN -n ELSE n
Lead(tm) == Size(tm, "janus") - Size(tm, "mi6")  \* plDiff
Difference(tm) == Abs(Lead(tm))

Other(t) == IF t = "mi6" THEN "janus" ELSE "mi6"

\* Where one who does not choose a team may end up.
Lighter(tm) == {t \in GameTeams : Size(tm, t) <= Size(tm, Other(t))}

Moved(tm, P, t) == [p \in Clients |-> IF p \in P THEN t ELSE tm[p]]

\* A loop over a team's list L by index, in which those of M leave the list: whoever
\* follows one who left is skipped.  The sets that may have left, for any order of L.
Walked(L, M) == {W \in SUBSET M : /\ Cardinality(M \ W) <= Cardinality(W)
                                  /\ Cardinality(W) <= Cardinality(L \ W) + 1}

\* W have joined one after the other, each the lighter team or, if there is none, any.
\* The heavier team gets nobody before they are level, and they stay level then.
Joined(tm, W, new) ==
  /\ new \in {[p \in Clients |-> IF p \in W THEN f[p] ELSE tm[p]] : f \in [W -> GameTeams]}
  /\ \/ Difference(new) <= 1
     \/ Cardinality(W) <= Difference(tm) /\ \A p \in W : new[p] \in Lighter(tm)

-----------------------------------------------------------------------------
(* BalanceTeams.                                                           *)

\* Broken: the wrong team.
HeavySwapped(tm) == IF Lead(tm) > 0 THEN "mi6" ELSE "janus"

Heavy(tm) == IF Lead(tm) > 0 THEN "janus" ELSE "mi6"

Switches(n, c) == IF n - 1 < c THEN n - 1 ELSE c

BalanceTeamsNow == due /\ teamplay

\* Broken: a difference of two is let pass.
UnevenByThree(tm) == Difference(tm) > 2

Uneven(tm) == Difference(tm) > 1

\* Whom of S the scenario lets change their team, in every way it may answer.
Willing(S) == {S \ R : R \in SUBSET (S \cap MayRefuse)}

\* The second time, some of the heavy team whom the scenario lets go are moved.
Balanced ==
  IF BalanceTeamsNow /\ inBalance /\ Uneven(team)
    THEN LET heavy == Heavy(team)
             Chosen(players) ==
               LET n == Switches(Difference(team), Cardinality(players))
               IN {P \in SUBSET players : Cardinality(P) = n}
         IN {Moved(team, P, Other(heavy)) :
               P \in UNION {Chosen(players) : players \in Willing(Members(team, heavy))}}
    ELSE {team}

Warned ==
  /\ inBalance' = IF BalanceTeamsNow THEN ~ inBalance /\ Uneven(team) ELSE inBalance
  /\ due' = (due /\ ~ teamplay)

-----------------------------------------------------------------------------
(* ChangeTeam.                                                             *)

\* H, who are not spectators, have changed team.  They must choose a character again;
\* one who has played is respawned, which ends its waiting time.  Not in intermissions.
Respawned(H) ==
  \/ choosing' = choosing \cup H /\ slowed' = (slowed \ H) \cup (H \cap choosing)
  \/ H # {} /\ choosing' = choosing /\ slowed' = slowed \cup H

\* Without teamplay the players of the team t leave it, by force.  A bot is not asked.
Left(t) ==
  LET list == Members(team, t)
  IN UNION {Walked(list, M \cup (list \cap Bots)) : M \in Willing(list \cap Humans)}

\* Broken: the loop over the game teams stops before the last.
LeaveFirstTeam == \E W \in Left("mi6") : team' = Moved(team, W, "unassigned")

LeaveTeams ==
  \E W \in Left("mi6"), V \in Left("janus") : team' = Moved(team, W \cup V, "unassigned")

\* With teamplay the players of no team pick one, unless they have to wait.
PickTeams(tm) ==
  LET list == Members(tm, "unassigned") IN
  \E M \in Willing((list \cap Humans) \ slowed) :
    \E W \in Walked(list, M \cup (list \cap Bots)) : Joined(tm, W, team')

EnforceTeamplay ==
  /\ UNCHANGED teamplay /\ Warned
  /\ \/ teamplay /\ \E tm \in Balanced : PickTeams(tm)
     \/ ~ teamplay /\ LeaveTeams
  /\ Respawned({p \in Humans : team'[p] # team[p]})

-----------------------------------------------------------------------------
(* Players.                                                                *)

\* Where jointeam leads.  One who leaves the choice to the game gets a game team.
Destinations == {"spectator", "unassigned"} \cup (IF teamplay THEN GameTeams ELSE {})

\* One who does not play, or is killed for the change, waits; others are respawned.  A
\* request to leave for the spectators ends the choice even when the scenario refuses.
JoinTeam(p, to) ==
  /\ UNCHANGED <<teamplay, balancer>>
  /\ team[p] # "out" /\ p \notin slowed
  /\ to # IF team[p] = "new" THEN "unassigned" ELSE team[p]
  /\ \/ /\ team' = [team EXCEPT ![p] = to] /\ slowed' = slowed \cup {p}
        /\ choosing' = IF to = "spectator" THEN choosing \ {p} ELSE choosing \cup {p}
     \/ /\ "spectator" \notin {team[p], to} /\ p \notin choosing
        /\ team' = [team EXCEPT ![p] = to]
        /\ Respawned({p})
     \/ /\ p \in MayRefuse /\ to = "spectator"
        /\ choosing' = choosing \ {p} /\ UNCHANGED <<team, slowed>>

\* A character is chosen, and the player spawns.
Select(p) ==
  /\ p \in choosing /\ choosing' = choosing \ {p} /\ slowed' = slowed \ {p}
  /\ UNCHANGED <<teamplay, team, balancer>>

\* InitialSpawn of a human, who watches at first; whom the scenario does not let watch is
\* asked for a character, and is on no team's list.
ClientPutInServer(p) ==
  /\ team[p] = "out" /\ UNCHANGED <<teamplay, slowed, balancer>>
  /\ \/ team' = [team EXCEPT ![p] = "spectator"] /\ UNCHANGED choosing
     \/ /\ p \in MayRefuse
        /\ team' = [team EXCEPT ![p] = "new"] /\ choosing' = choosing \cup {p}

ClientDisconnected(p) ==
  /\ team[p] # "out" /\ team' = [team EXCEPT ![p] = "out"]
  /\ choosing' = choosing \ {p} /\ slowed' = slowed \ {p}
  /\ UNCHANGED <<teamplay, balancer>>

\* InitialSpawn of bots, which pick a team at once.
BotsPutInServer(B) ==
  /\ \A b \in B : team[b] = "out"
  /\ UNCHANGED <<teamplay, people, balancer>>
  /\ IF teamplay THEN Joined(team, B, team') ELSE team' = Moved(team, B, "unassigned")

-----------------------------------------------------------------------------
(* The rest of the world.                                                  *)

SetTeamplay == teamplay' = ~ teamplay /\ UNCHANGED <<team, people, balancer>>

\* Settings, or a clock that has less than 45 seconds left, stop the balancer.
BalanceOff == due /\ due' = FALSE /\ UNCHANGED <<teamplay, team, people, inBalance>>

BalanceDue == ~ due /\ due' = TRUE /\ UNCHANGED <<teamplay, team, people, inBalance>>

MayChangeTeam(p) ==
  /\ p \in slowed /\ slowed' = slowed \ {p}
  /\ UNCHANGED <<teamplay, team, choosing, balancer>>

TeamsInit ==
  /\ teamplay \in BOOLEAN /\ team = [p \in Clients |-> "out"]
  /\ choosing = {} /\ slowed = {} /\ inBalance = FALSE /\ due = TRUE

HumanActs ==
  \E p \in Humans :
    \/ ClientPutInServer(p) \/ ClientDisconnected(p) \/ Select(p)
    \/ \E to \in Destinations : JoinTeam(p, to)

ServerTime == BalanceDue \/ \E p \in Humans : MayChangeTeam(p)

-----------------------------------------------------------------------------
(* Properties.                                                             *)

TeamsTypeOK ==
  /\ teamplay \in BOOLEAN /\ inBalance \in BOOLEAN /\ due \in BOOLEAN
  /\ team \in [Clients -> TeamNames]
  /\ choosing \subseteq {p \in Humans : team[p] \notin {"out", "spectator"}}
  /\ slowed \subseteq {p \in Humans : team[p] # "out"}

\* A frame with teamplay leaves the teams no more uneven than they were or need be.
\* It takes a player from one team to the other only after a warning, and only while
\* the teams are uneven.
FramesEvenTeams ==
  [][teamplay /\ team' # team /\ EnforceTeamplay =>
       /\ Difference(team') <= 1 \/ Difference(team') <= Difference(team)
       /\ (\E p \in Clients : team[p] \in GameTeams /\ team'[p] # team[p])
            => inBalance /\ Difference(team) > 1]_teamVars
=============================================================================
