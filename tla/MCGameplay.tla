---------------------------- MODULE MCGameplay ----------------------------
(* Instances of Gameplay for TLC.                                          *)
EXTENDS Gameplay

\* The inputs of the runs.
ScoreCommands == {"endround", "endmatch", "changelevel", "gameplay", "newlevel", "teamplay"}
\* What happens to a match without moving a level change that is under way.
MatchCommands == {"endround", "endmatch", "gameplay", "allowtimer", "settings"}

Added == {-1}
SomePoints == {-1, 2}

CONSTANTS p1, t1
Nobody == {}
OnePlayer == {p1}
OneTeam == {t1}
=============================================================================
