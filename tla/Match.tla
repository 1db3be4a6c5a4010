------------------------------- MODULE Match -------------------------------
(***************************************************************************)
(* What the gameplay manager promises to players and scenarios: a match is *)
(* a series of rounds; the points of a round are added to the match scores *)
(* exactly once, when the round ends, whoever ends it; and once the match  *)
(* is final no round begins until a scenario is loaded.                    *)
(***************************************************************************)
EXTENDS Integers

CONSTANTS Players, Teams, Points  \* Points: what a scorer may gain at once.

Scorers == Players \cup Teams

VARIABLES phase,    \* "ready", "playing", "resting" (between rounds), "over"
          final,    \* the match ends with this round or has ended
          board     \* the round and the match score of every scorer

vars == <<phase, final, board>>

NoScore == [round |-> 0, match |-> 0]

Init == phase = "ready" /\ final = FALSE /\ board = [s \in Scorers |-> NoScore]

Score ==
  /\ \E s \in Scorers, p \in Points : board' = [board EXCEPT ![s].round = @ + p]
  /\ UNCHANGED <<phase, final>>

\* A new round starts the teams from zero.  It may start the players from zero,
\* and must if teamplay is switched, which costs the teams their match scores;
\* no player's match score changes.
BeginRound ==
  /\ phase \in {"ready", "resting"}
  /\ ~final
  /\ phase' = "playing"
  /\ \E fresh, switched \in BOOLEAN :
       board' = [s \in Scorers |->
         [round |-> IF s \in Teams \/ fresh \/ switched THEN 0 ELSE board[s].round,
          match |-> IF s \in Teams /\ switched THEN 0 ELSE board[s].match]]
  /\ UNCHANGED final

\* A round ends, and the match with it or not.
EndRound ==
  /\ phase = "playing"
  /\ \/ phase' = "resting" /\ final' \in {final, TRUE}
     \/ phase' = "over" /\ final' = TRUE
  /\ board' = [s \in Scorers |-> [round |-> board[s].round,
                                  match |-> board[s].match + board[s].round]]

\* The match ends between rounds: no score is counted again.
EndMatch ==
  /\ phase \in {"ready", "resting"}
  /\ phase' = "over"
  /\ final' = TRUE
  /\ UNCHANGED board

\* A scenario is loaded, on this level or on the next.
Reload == phase' = "ready" /\ final' = FALSE /\ board' = [s \in Scorers |-> NoScore]

Next == Score \/ BeginRound \/ EndRound \/ EndMatch \/ Reload

Spec == Init /\ [][Next]_vars
=============================================================================
