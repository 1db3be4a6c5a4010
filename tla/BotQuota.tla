------------------------------ MODULE BotQuota ------------------------------
(***************************************************************************)
(* How CGEMPRules::EnforceBotCount (shared/mp/gemp_gamerules.cpp) fills a  *)
(* server with bots, composed with the teams the bots and the humans join. *)
(*                                                                         *)
(* A bot leaves when the engine runs the kick the server gave it, so that  *)
(* a bot counts until then; a human counts once it plays.  How much time   *)
(* is between two checks is left open.                                     *)
(***************************************************************************)
EXTENDS Teams

CONSTANTS
  MaxClients,
  Thresholds,  \* values of ge_bot_threshold
  OpenSlots,   \* ge_bot_openslots
  Strict       \* ge_bot_strict_openslot

ASSUME BotQuotaAssumption ==
  MaxClients \in Nat /\ OpenSlots \in Nat /\ Strict \in BOOLEAN /\ Thresholds \subseteq Nat

VARIABLES
  botList,    \* m_vBotList; its order is left open
  kicked,     \* bots for which a kickid command waits
  threshold   \* ge_bot_threshold

quota == <<botList, kicked, threshold>>
vars  == <<teamVars, quota>>

Connected == {p \in Clients : team[p] # "out"}
Active    == {p \in Humans \ choosing : team[p] \notin {"out", "spectator"}}
Inactive  == (Connected \cap Humans) \ Active

AtMost(m, n) == IF m < n THEN m ELSE n

-----------------------------------------------------------------------------
\* CreateBot(), for as many as there are slots.
CreateBots(n) ==
  \E B \in SUBSET {b \in Bots : team[b] = "out"} :
    /\ Cardinality(B) = AtMost(n, MaxClients - Cardinality(Connected))
    /\ BotsPutInServer(B) /\ botList' = botList \cup B

\* Broken: only the bots are compared with the threshold.
BotsAboveThreshold(t) == Cardinality(botList) > t

Excess(t) == Cardinality(Active) + Cardinality(botList) > t

BotThreshold ==
  AtMost(threshold, MaxClients - OpenSlots) - (IF Strict THEN Cardinality(Inactive) ELSE 0)

EnforceBotCount ==
  LET bots  == Cardinality(botList)
      total == Cardinality(Active) + bots
      limit == IF Active = {} /\ bots > 0 THEN 0 ELSE BotThreshold
  IN
  /\ threshold > 0 /\ UNCHANGED threshold
  /\ \/ /\ Excess(limit) /\ bots > 0
        /\ UNCHANGED <<botList, teamVars>>
        /\ \E B \in SUBSET botList :
             Cardinality(B) = AtMost(total - limit, bots) /\ kicked' = kicked \cup B
     \/ /\ total < limit /\ Active # {}
        /\ UNCHANGED kicked /\ CreateBots(limit - total)

-----------------------------------------------------------------------------
\* Broken: a bot that leaves stays on the list.
BotStaysListed(b) == botList

Unlisted(b) == botList \ {b}

\* The engine runs the kick.
BotKicked(b) ==
  /\ b \in kicked /\ kicked' = kicked \ {b}
  /\ ClientDisconnected(b) /\ botList' = Unlisted(b) /\ UNCHANGED threshold

\* ge_bot.
BotCommand == UNCHANGED <<kicked, threshold>> /\ CreateBots(1)

\* ge_bot_remove, for each of the bots it picks.
BotRemoveCommand(b) ==
  /\ b \in botList \ kicked /\ kicked' = kicked \cup {b}
  /\ UNCHANGED <<teamVars, botList, threshold>>

\* ge_bot_threshold; a value below 2 turns the quota off and removes the bots.
SetThreshold(n) ==
  /\ n # threshold /\ threshold' = IF n < 2 THEN 0 ELSE n
  /\ kicked' = IF n < 2 THEN kicked \cup botList ELSE kicked
  /\ UNCHANGED <<teamVars, botList>>

-----------------------------------------------------------------------------
Init ==
  /\ TeamsInit /\ botList = {} /\ kicked = {}
  /\ threshold \in {n \in Thresholds : n # 1}

Commands ==
  \/ UNCHANGED quota /\ (HumanActs \/ SetTeamplay \/ BalanceOff)
  \/ BotCommand \/ \E b \in Bots : BotRemoveCommand(b)
  \/ \E n \in Thresholds : SetThreshold(n)

Frame ==
  \/ EnforceBotCount \/ \E b \in Bots : BotKicked(b)
  \/ UNCHANGED quota /\ (ServerTime \/ EnforceTeamplay)

Next == Commands \/ Frame

\* Every frame enforces the teams, and the balance when that is due; waiting times end;
\* the bots are counted, and the engine runs its commands.
Fairness ==
  /\ WF_vars(UNCHANGED quota /\ (BalanceDue \/ EnforceTeamplay))
  /\ WF_vars(UNCHANGED quota /\ \E p \in Humans : MayChangeTeam(p))
  /\ WF_vars((\E b \in Bots : BotKicked(b)) \/ EnforceBotCount)

Spec == Init /\ [][Next]_vars
FairSpec == Spec /\ Fairness

\* Nobody acts any more, from some time on.
QuietSpec == FairSpec /\ <>[][Frame]_vars

-----------------------------------------------------------------------------
(* Properties, those of liveness for QuietSpec: what frames make of a       *)
(* server, whatever it has come to, once nobody acts any more.             *)

\* The list of bots are the bots that are connected; those that are kicked are on it.
TypeOK ==
  /\ TeamsTypeOK /\ threshold \in Nat
  /\ botList = Connected \cap Bots /\ kicked \subseteq botList

\* Once nobody acts any more, all but those whom the scenario does not let go end up
\* where the mode wants them: in a team, or in none.
TeamsFollowMode ==
  <>[](\A p \in Bots \cup (Humans \ MayRefuse) :
         team[p] \notin (IF teamplay THEN {"unassigned"} ELSE GameTeams))

\* Then the balancer comes to an end: the teams are even, and it moves nobody.
TeamsEvenOut == <>[](teamplay => Difference(team) <= 1 /\ ~ inBalance)

\* Then the server ends up with as many bots as the threshold and the slots leave for them,
\* and with none where nobody plays.
BotsFollowThreshold ==
  LET room   == AtMost(threshold, MaxClients - OpenSlots) - Cardinality(Active)
                  - (IF Strict THEN Cardinality(Inactive) ELSE 0)
      wanted == IF Active = {} \/ room < 0 THEN 0
                ELSE AtMost(room, MaxClients - Cardinality(Connected \cap Humans))
  IN <>[](threshold > 0 => Cardinality(botList) = wanted)
=============================================================================
