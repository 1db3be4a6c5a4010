---------------------------- MODULE MCVotekick ----------------------------
(* An instance of Votekick for TLC. *)
EXTENDS Votekick

CONSTANTS ann, ben, cid, bot

MCPeople == {ann, ben, cid}
MCBots == {bot}
=============================================================================
