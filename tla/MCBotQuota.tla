----------------------------- MODULE MCBotQuota -----------------------------
(* An instance of BotQuota for TLC.                                        *)
EXTENDS BotQuota
CONSTANTS h1, h2, b1, b2
=============================================================================
