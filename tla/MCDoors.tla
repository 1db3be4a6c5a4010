------------------------------ MODULE MCDoors ------------------------------
(* Instances of Doors for TLC: two doors that name each other as partners,  *)
(* and one by itself that returns on its own.                               *)
EXTENDS Doors, TLC
CONSTANTS a, b, c, u1, u2

Ring    == (a :> b) @@ (b :> a) @@ (c :> NoDoor)
InOrder == <<a, b, c>>
Lengths == (a :> 3) @@ (b :> 2) @@ (c :> 1)
Limits  == (a :> 2) @@ (b :> 2) @@ (c :> 0)
Waits   == (a :> 0) @@ (b :> -1) @@ (c :> 2)
=============================================================================
