------------------------------- MODULE Ballot -------------------------------
(***************************************************************************)
(* What a votekick promises: a vote is decided at the very step at which   *)
(* enough votes are in, whether a vote, a departure or an arrival makes    *)
(* them enough; a vote that times out had too few; and votes come and go   *)
(* one by one.                                                             *)
(***************************************************************************)
EXTENDS Integers

VARIABLES state,    \* "idle", "running", and how the last vote ended: "banned",
                    \* "failed", or "fled" when the target gave itself away
          votes, needed

vars == <<state, votes, needed>>

Init == state = "idle" /\ votes = 0 /\ needed = 0

\* The vote is decided at once if the votes are enough, and goes on if not.
Settle == needed' \in Nat /\ state' = IF votes' >= needed' THEN "banned" ELSE "running"

\* Somebody calls a vote and is the first to agree.
Open == state # "running" /\ votes' = 1 /\ Settle

\* Somebody agrees, or withdraws by leaving, and whoever comes or goes changes the
\* number needed.
Change == state = "running" /\ votes' \in votes - 1 .. votes + 1 /\ Settle

Fail == state = "running" /\ votes < needed /\ state' = "failed" /\ UNCHANGED <<votes, needed>>

Flee == state = "running" /\ state' = "fled" /\ UNCHANGED <<votes, needed>>

Next == Open \/ Change \/ Fail \/ Flee

Spec == Init /\ [][Next]_vars
=============================================================================
