------------------------------ MODULE MCTokens ------------------------------
EXTENDS Tokens, TLC
CONSTANTS flag, gun
MCLimits == (flag :> {2}) @@ (gun :> {1})
=============================================================================
