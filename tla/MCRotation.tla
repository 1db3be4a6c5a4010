----------------------------- MODULE MCRotation -----------------------------
(* Instances of Rotation for TLC.  Two maps of five are so large that they need the   *)
(* transition before and after them, and must not follow each other; of another such  *)
(* map the server has the script only.                                                *)
EXTENDS Rotation, TLC
CONSTANTS bunker, egypt, facility, caverns, cradle, aztec, custom, transition, typo

MCIntensity ==
  [m \in Levels \cup Missing |->
     IF m \in {caverns, cradle, aztec} THEN 7 ELSE IF m = transition THEN 1 ELSE 3]

\* Few players have all maps to play on, many the large ones, and too many none.
MCSuits == (1 :> Maps) @@ (2 :> {caverns, cradle}) @@ (3 :> {})
=============================================================================
