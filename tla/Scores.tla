------------------------------- MODULE Scores -------------------------------
(***************************************************************************)
(* The score board: a round score and a match score for every player and   *)
(* every team, and what the game rules do to the whole of it.  The module  *)
(* has no variables; Gameplay applies it to the board it keeps.  Deaths    *)
(* are kept and banked beside the scores in the same places.               *)
(***************************************************************************)
EXTENDS Integers

CONSTANTS Players, Teams

ASSUME ScoresAssumption == Players \cap Teams = {}

Scorers == Players \cup Teams

Board == [Scorers -> [round: Int, match: Int]]

\* ResetPlayerScores( true ) and ResetTeamScores( true ) together.
Blank == [s \in Scorers |-> [round |-> 0, match |-> 0]]

\* The round scores of those in who are set to zero.
RoundCleared(board, who) ==
  [s \in Scorers |-> IF s \in who THEN [board[s] EXCEPT !.round = 0] ELSE board[s]]

\* OnRoundEnd: every round score is added to its match score, and stays shown.
Banked(board) == [s \in Scorers |-> [board[s] EXCEPT !.match = @ + board[s].round]]

\* A change of teamplay: players retain their match score, teams do not.
TeamplaySwitched(board) ==
  [s \in Scorers |-> IF s \in Teams THEN [round |-> 0, match |-> 0]
                                    ELSE [board[s] EXCEPT !.round = 0]]

\* points more for s in this round.
Scored(board, s, points) == [board EXCEPT ![s].round = @ + points]
=============================================================================
