------------------------------ MODULE Gameplay ------------------------------
(***************************************************************************)
(* The life of a match: the round states and the think function of         *)
(* CGEBaseGameplayManager (server/mp/ge_gameplay.cpp), and what the game   *)
(* rules that listen to it do (shared/mp/gemp_gamerules.cpp): the match    *)
(* and the round timers, the settings that drive them, the scores and the  *)
(* level change.                                                           *)
(*                                                                         *)
(* Time is whole seconds and relative to the present: a Tick moves every   *)
(* deadline one second closer, and the operations of Timer are used with   *)
(* the current time zero.                                                  *)
(***************************************************************************)
EXTENDS Timer, Scores

CONSTANTS
  \* The settings: the values ge_roundtime, ge_roundcount and mp_timelimit (in
  \* seconds) are given, the values of ge_teamplay, and whether ge_autoteam is on.
  RoundTimes, RoundCounts, TimeLimits, TeamplayValues, AutoTeam,
  \* The legal range of a ge_roundtime other than zero (60 and 3000 in the code).
  MinRoundTime, MaxRoundTime,
  \* ge_rounddelay, the intermission of a round that is not counted (3), mp_chattime,
  \* the remaining match time too short for another round (30), and
  \* GE_CHANGELEVEL_DELAY (1).
  RoundDelay, SkipDelay, ChatTime, EndWindow, LevelDelay,
  \* Arguments of ge_setcurrentroundtime and ge_addtoroundtime.
  CurrentTimes, Additions,
  \* The points a scorer may gain or lose at once.
  Points,
  \* Whether CanRoundEnd and CanMatchEnd of the scenario may answer no.
  ScenarioMayBlock,
  \* The other inputs an instance allows.
  Commands,
  \* Bounds of the model: the length ge_addtoroundtime may build up, the scores,
  \* and how long ago a timer expired is remembered.
  MaxLength, MaxScore, MaxOverrun

AllCommands == {"endround", "endmatch", "changelevel", "gameplay", "allowtimer",
                "newlevel", "settings", "teamplay"}

ASSUME GameplayAssumption ==
  /\ RoundTimes \subseteq Nat /\ RoundCounts \subseteq Nat /\ TimeLimits \subseteq Nat
  /\ TeamplayValues \subseteq 0..2 /\ AutoTeam \in BOOLEAN
  /\ MinRoundTime \in Nat \ {0} /\ MaxRoundTime \in Nat /\ MinRoundTime <= MaxRoundTime
  /\ RoundDelay \in Nat \ {0} /\ SkipDelay \in Nat \ {0} /\ ChatTime \in Nat \ {0}
  /\ EndWindow \in Nat /\ LevelDelay \in Nat
  /\ CurrentTimes \subseteq Int /\ Additions \subseteq Int /\ Points \subseteq Int
  /\ ScenarioMayBlock \in BOOLEAN /\ Commands \subseteq AllCommands
  /\ MaxLength \in Nat /\ MaxScore \in Nat /\ MaxOverrun \in Nat
  \* An overrun of MaxOverrun is one no change of a timer can make up for.
  /\ MaxRoundTime <= MaxOverrun /\ \A n \in TimeLimits \cup Additions : n <= MaxOverrun

VARIABLES
  roundState,   \* m_iRoundState; NONE only lives inside ResetState
  gameOver,     \* m_bGameOver
  roundCount,   \* m_iRoundCount, counted up to 2
  intermission, \* GetRemainingIntermission()
  matchTimer, roundTimer,
  change,       \* m_flChangeLevelTime: the state of the level change, time left
  roundTime, numRounds, timeLimit,  \* ge_roundtime, ge_roundcount, mp_timelimit
  teamplay,     \* ge_teamplay and m_bTeamPlayDesired
  board         \* the scores

life     == <<roundState, gameOver, roundCount, intermission>>
timers   == <<matchTimer, roundTimer>>
settings == <<roundTime, numRounds, timeLimit>>
vars     == <<life, timers, change, settings, teamplay, board>>

RoundStates == {"PRE_START", "PLAYING", "INTERMISSION", "GAME_OVER"}

IsInRound == roundState = "PLAYING"

-----------------------------------------------------------------------------
(* The level change.                                                         *)

NoChange  == [state |-> "none", left |-> 0]
Scheduled == [state |-> "pending", left |-> LevelDelay]
Issued    == [state |-> "issued", left |-> 0]

\* Broken SetupChangeLevel: every think of the final intermission reschedules.
AlwaysScheduled(c) == Scheduled

\* Broken SetupChangeLevel: it forgets that the change was issued.
ScheduledAgain(c) == IF c.state = "pending" THEN c ELSE Scheduled

\* SetupChangeLevel without a level: a change that is under way stands.
SetUp(c) == IF c.state = "none" THEN Scheduled ELSE c

\* The end of a frame: ChangeLevel, strictly after the delay, and only once.
FrameEnd(c) == IF c.state = "pending" /\ c.left < 0 THEN Issued ELSE c

-----------------------------------------------------------------------------
(* The timers of the game rules and the settings.                            *)

\* ChangeRoundTimer and ChangeMatchTimer.
Changed(t, n) ==
  IF n = t.length THEN t
  ELSE IF n > 0 THEN ChangeLength(t, 0, n) ELSE Stop(t)

\* Broken SetRoundTimerEnabled: a timer that is enabled again stays stopped.
AllowedButIdle(t, state) ==
  IF t.enabled = state THEN t ELSE IF state THEN Enable(t) ELSE Disable(t)

\* SetRoundTimerEnabled: a timer that is enabled again starts over.
Allowed(t, state) ==
  IF t.enabled = state THEN t
  ELSE IF state THEN Start(Enable(t), 0, roundTime) ELSE Disable(t)

\* The value ge_roundtime has after it is given n.
LegalRoundTime(n) ==
  IF n = 0 THEN 0
  ELSE IF n < MinRoundTime THEN MinRoundTime
  ELSE IF n > MaxRoundTime THEN MaxRoundTime ELSE n

\* The intermissions of a match of count rounds, as the count callback reckons.
RoundDelays(count) == (IF RoundDelay > SkipDelay THEN RoundDelay ELSE SkipDelay) * (count - 1)

\* GERoundCount_Callback: the round time that makes count rounds fit the limit.
RoundTimeFor(count, limit) ==
  IF count = 0 THEN roundTime
  ELSE IF count = 1 THEN limit
  ELSE IF limit > RoundDelays(count) THEN (limit - RoundDelays(count)) \div count
  ELSE roundTime

\* ge_roundtime.SetValue( n ) in the code: the callback, which changes the round
\* timer t, runs only when the value changes.
AdoptRoundTime(n, t) ==
  /\ roundTime' = LegalRoundTime(n)
  /\ roundTimer' = IF n = roundTime THEN t ELSE Changed(t, LegalRoundTime(n))

\* HandleTimeLimitChange, of the timers match and round.
AdoptTimeLimit(limit, match, round) ==
  /\ matchTimer' = Changed(match, limit)
  /\ AdoptRoundTime(IF limit > 0 THEN RoundTimeFor(numRounds, limit) ELSE roundTime, round)

-----------------------------------------------------------------------------
\* The bound of the model on scores: they can be banked once more.
Fits(b) == \A s \in Scorers : b[s].match + b[s].round \in -MaxScore..MaxScore

(* The steps of a match, as conjuncts the actions are built from.            *)

\* The listeners of ROUND_END: the round timer stops, the scores are banked.
BankRound ==
  /\ roundTimer' = Stop(roundTimer)
  /\ board' = Banked(board)

\* EndRound( showreport ), but for m_bGameOver, which EndMatch sets before it.
EndRound(report) ==
  /\ IsInRound
  /\ roundState' = "INTERMISSION"
  /\ intermission' = IF report THEN RoundDelay ELSE SkipDelay
  /\ BankRound
  /\ UNCHANGED <<roundCount, matchTimer, settings, teamplay>>

\* MATCH_END: the final intermission begins.
FinalIntermission ==
  /\ roundState' = "GAME_OVER"
  /\ intermission' = ChatTime
  /\ UNCHANGED <<roundCount, matchTimer, settings, teamplay>>

\* Broken EndMatch: the listeners of ROUND_END hear of the last round again.
EndMatchBanksAgain ==
  /\ gameOver' = TRUE
  /\ \/ roundCount > 1 /\ EndRound(TRUE)
     \/ roundCount > 1 /\ ~IsInRound /\ BankRound /\ FinalIntermission
     \/ roundCount <= 1 /\ BankRound /\ FinalIntermission

\* EndMatch: after more than one round the round ends first, with a report, and
\* the match ends when its intermission does.
EndMatch ==
  /\ gameOver' = TRUE
  /\ \/ roundCount > 1 /\ EndRound(TRUE)
     \/ roundCount <= 1 /\ IsInRound /\ BankRound /\ FinalIntermission
     \/ ~IsInRound /\ FinalIntermission /\ UNCHANGED <<roundTimer, board>>

\* The values ge_autoteam may give ge_teamplay, unless teamplay is forced on.
AutoTeamplay == IF AutoTeam /\ teamplay.wanted # 1 THEN {0, 2} ELSE {teamplay.wanted}

\* SetupRound takes the teamplay mode of the scenario, and switches teamplay if it
\* toggles.
SetupSwitches(wanted, toggles) == toggles /\ teamplay.on # (wanted # 0)

\* The game rules' ROUND_START, but for the team scores.
OnRoundStart == roundTimer' = Start(roundTimer, 0, roundTime)

\* StartRound: teamplay is settled, ROUND_START resets the team scores, and the
\* scenario's OnRoundBegin resets the scores of the players or does not.
StartRound ==
  /\ roundState' = "PLAYING"
  /\ roundCount' = IF roundCount < 2 THEN roundCount + 1 ELSE 2
  /\ OnRoundStart
  /\ \E wanted \in AutoTeamplay, toggles \in BOOLEAN, cleared \in {Teams, Scorers} :
       LET switch == SetupSwitches(wanted, toggles)
           before == IF switch THEN TeamplaySwitched(board) ELSE board
       IN  /\ teamplay' = [wanted |-> wanted, on |-> IF switch THEN wanted # 0 ELSE teamplay.on]
           /\ board' = RoundCleared(before, cleared)
           /\ Fits(board')
  /\ UNCHANGED <<gameOver, intermission, matchTimer, settings>>

\* GetNextScenario: the values ge_teamplay may be given when the manager chooses
\* the scenario itself.
Chosen == IF teamplay.wanted = 1 THEN {1} ELSE {0, 2}

ResetState == gameOver' = FALSE /\ roundCount' = 0 /\ intermission' = 0

\* The game rules' MATCH_START, with ge_teamplay one of values.
OnMatchStart(values) ==
  /\ board' = Blank
  /\ \E v \in values : teamplay' = [wanted |-> v, on |-> v # 0]

\* InitScenario and StartMatch.  The match timer is left running.
StartMatch(values) == ResetState /\ roundState' = "PRE_START" /\ OnMatchStart(values)

\* A level starts: new game rules with new timers, and the settings stay.  A map
\* that is only a transition schedules the next change at once.
StartLevel ==
  /\ StartMatch(Chosen)
  /\ change' \in {NoChange, Scheduled}
  /\ AdoptTimeLimit(timeLimit, NewTimer, NewTimer)
  /\ UNCHANGED <<numRounds, timeLimit>>

-----------------------------------------------------------------------------
(* When a round or the match is over.                                        *)

\* IsRoundTimeRunning() and no time remains.
RanOut(t) == Running(t) /\ Remaining(t, 0) <= 0

ShouldEndRound(canRoundEnd) == RanOut(roundTimer) /\ canRoundEnd

\* Whether a match of the given clock has no time for another round.
MatchTimeOver ==
  Running(matchTimer) /\ Remaining(matchTimer, 0) <= IF roundState = "INTERMISSION"
                                                     THEN EndWindow ELSE 0

ShouldEndMatch(canRoundEnd, canMatchEnd) ==
  \/ gameOver
  \/ /\ IsInRound /\ Running(roundTimer) => ShouldEndRound(canRoundEnd)
     /\ MatchTimeOver
     /\ canMatchEnd

-----------------------------------------------------------------------------
(* The actions.                                                              *)

Init ==
  /\ roundState = "PRE_START" /\ gameOver = FALSE /\ roundCount = 0 /\ intermission = 0
  /\ change = NoChange
  /\ \E n \in RoundTimes : roundTime = LegalRoundTime(n)
  /\ numRounds = 0 /\ timeLimit \in TimeLimits
  /\ matchTimer = Changed(NewTimer, timeLimit) /\ roundTimer = NewTimer
  /\ \E v \in TeamplayValues : teamplay = [wanted |-> v, on |-> v # 0]
  /\ board = Blank

\* Broken max: the remaining intermission goes below zero.
OneLessAlways(n) == n - 1

\* A second less remains, but never less than none.
OneLess(n) == IF n > 0 THEN n - 1 ELSE n

\* A second passes.
Tick ==
  /\ matchTimer' = Elapse(matchTimer, MaxOverrun)
  /\ roundTimer' = Elapse(roundTimer, MaxOverrun)
  /\ intermission' = OneLess(intermission)
  /\ change' = IF change.state = "pending" /\ change.left >= 0
               THEN [change EXCEPT !.left = @ - 1] ELSE change
  /\ UNCHANGED <<roundState, gameOver, roundCount, settings, teamplay, board>>

Answers == IF ScenarioMayBlock THEN BOOLEAN ELSE {TRUE}

\* Broken check: the remaining time is never negative.
NeverQuiteOver == intermission < 0

IntermissionOver == intermission = 0

\* Broken OnThink: a final round is followed by another one.
ThinkBetweenRoundsOnTime(canMatchEnd) ==
  /\ roundState = "INTERMISSION" /\ IntermissionOver
  /\ IF MatchTimeOver /\ canMatchEnd THEN EndMatch ELSE StartRound

\* The intermission of a round is over: the match ends or the next round starts.
ThinkBetweenRounds(canMatchEnd) ==
  /\ roundState = "INTERMISSION" /\ IntermissionOver
  /\ \/ ShouldEndMatch(TRUE, canMatchEnd) /\ EndMatch
     \/ ~ShouldEndMatch(TRUE, canMatchEnd) /\ StartRound

\* In a round: the match ends, which may take ending the round first, or the
\* round does, or the scenario thinks.
ThinkInRound(canRoundEnd, canMatchEnd) ==
  /\ IsInRound
  /\ \/ ShouldEndMatch(canRoundEnd, canMatchEnd) /\ EndMatch
     \/ /\ ~ShouldEndMatch(canRoundEnd, canMatchEnd)
        /\ ShouldEndRound(canRoundEnd)
        /\ EndRound(TRUE) /\ UNCHANGED gameOver
     \/ /\ ~ShouldEndMatch(canRoundEnd, canMatchEnd)
        /\ ~ShouldEndRound(canRoundEnd)
        /\ UNCHANGED <<life, timers, settings, teamplay, board>>

\* An intermission goes on.
ThinkIdle ==
  /\ roundState = "INTERMISSION" => ~IntermissionOver
  /\ roundState \in {"INTERMISSION", "GAME_OVER"}
  /\ UNCHANGED <<life, timers, settings, teamplay, board>>

\* Think of the game rules, when OnThink is not held back and the scenario gives one of
\* the answers: one step of the match, the level change once the final intermission is
\* over, and the end of the frame.
ThinkWith(answers) ==
  /\ \/ roundState = "PRE_START" /\ StartRound
     \/ \E canMatchEnd \in answers : ThinkBetweenRounds(canMatchEnd)
     \/ \E canRoundEnd, canMatchEnd \in answers : ThinkInRound(canRoundEnd, canMatchEnd)
     \/ ThinkIdle
  /\ change' = FrameEnd(IF gameOver /\ roundState = "GAME_OVER" /\ IntermissionOver
                        THEN SetUp(change) ELSE change)

Think == ThinkWith(Answers)

\* A frame less than a tenth of a second after the last think of the match.
HeldBackThink ==
  /\ change' = FrameEnd(change)
  /\ UNCHANGED <<life, timers, settings, teamplay, board>>

\* ge_endround, with or without the report, and EndRound of a scenario.
EndRoundCommand ==
  /\ "endround" \in Commands
  /\ \E report \in BOOLEAN : EndRound(report)
  /\ UNCHANGED <<gameOver, change>>

\* ge_endmatch, EndMatch of a scenario, and changelevel before the final
\* intermission.
EndMatchCommand ==
  /\ "endmatch" \in Commands
  /\ ~gameOver
  /\ EndMatch
  /\ UNCHANGED change

\* changelevel during the final intermission, or with a second argument: the
\* change is scheduled anew, even if one is under way.
ChangeLevelCommand ==
  /\ "changelevel" \in Commands
  /\ change' = Scheduled
  /\ UNCHANGED <<life, timers, settings, teamplay, board>>

\* ge_gameplay loads the scenario it names, and ge_gameplayreload one the manager
\* chooses, at any moment.
LoadScenario ==
  /\ "gameplay" \in Commands
  /\ StartMatch({teamplay.wanted} \cup Chosen)
  /\ roundTimer' = Allowed(roundTimer, TRUE)
  /\ UNCHANGED <<matchTimer, settings, change>>

\* The engine has changed the level.
NewLevel == "newlevel" \in Commands /\ change.state = "issued" /\ StartLevel

\* AllowRoundTimer of a scenario.
AllowRoundTimer ==
  /\ "allowtimer" \in Commands
  /\ \E state \in BOOLEAN : roundTimer' = Allowed(roundTimer, state)
  /\ UNCHANGED <<life, matchTimer, settings, change, teamplay, board>>

\* ge_roundtime is set from the console: its callback always runs.
SetRoundTime ==
  /\ "settings" \in Commands
  /\ \E n \in RoundTimes :
       /\ roundTime' = LegalRoundTime(n)
       /\ roundTimer' = Changed(roundTimer, LegalRoundTime(n))
  /\ UNCHANGED <<life, matchTimer, numRounds, timeLimit, change, teamplay, board>>

SetRoundCount ==
  /\ "settings" \in Commands
  /\ numRounds' \in RoundCounts
  /\ AdoptRoundTime(RoundTimeFor(numRounds', timeLimit), roundTimer)
  /\ UNCHANGED <<life, matchTimer, timeLimit, change, teamplay, board>>

SetTimeLimit ==
  /\ "settings" \in Commands
  /\ timeLimit' \in TimeLimits
  /\ AdoptTimeLimit(timeLimit', matchTimer, roundTimer)
  /\ UNCHANGED <<life, numRounds, change, teamplay, board>>

SetTeamplayVar ==
  /\ "teamplay" \in Commands
  /\ \E v \in TeamplayValues : teamplay' = [teamplay EXCEPT !.wanted = v]
  /\ UNCHANGED <<life, timers, settings, change, board>>

\* SetRoundTimer, the time left in this round.
SetRoundTimer ==
  /\ \E n \in CurrentTimes :
       roundTimer' = IF n = Remaining(roundTimer, 0) THEN roundTimer
                     ELSE IF n > 0 THEN SetCurrentLength(roundTimer, 0, n)
                     ELSE Stop(roundTimer)
  /\ UNCHANGED <<life, matchTimer, settings, change, teamplay, board>>

AddToRoundTimer ==
  /\ roundTimer.started
  /\ \E n \in Additions :
       /\ roundTimer.length + n <= MaxLength
       /\ roundTimer' = AddToLength(roundTimer, 0, n)
  /\ UNCHANGED <<life, matchTimer, settings, change, teamplay, board>>

\* AddRoundScore, by a kill or by the scenario, in any round state.
Score ==
  /\ \E s \in Scorers, p \in Points : board' = Scored(board, s, p)
  /\ Fits(board')
  /\ UNCHANGED <<life, timers, settings, change, teamplay>>

ServerNext == Tick \/ Think \/ HeldBackThink

InputNext ==
  \/ EndRoundCommand \/ EndMatchCommand \/ ChangeLevelCommand \/ LoadScenario \/ NewLevel
  \/ AllowRoundTimer \/ SetRoundTime \/ SetRoundCount \/ SetTimeLimit \/ SetTeamplayVar
  \/ SetRoundTimer \/ AddToRoundTimer
  \/ Score

Next == ServerNext \/ InputNext

Spec == Init /\ [][Next]_vars

\* The engine runs frames and time passes; nobody has to type a command.
LiveSpec == Spec /\ WF_vars(Tick) /\ WF_vars(Think)

-----------------------------------------------------------------------------
TypeOK ==
  /\ roundState \in RoundStates /\ gameOver \in BOOLEAN
  /\ roundCount \in 0..2 /\ intermission \in Nat
  /\ matchTimer \in TimerRecord /\ roundTimer \in TimerRecord
  /\ change \in [state: {"none", "pending", "issued"}, left: Int]
  /\ roundTime \in Nat /\ numRounds \in Nat /\ timeLimit \in Nat
  /\ teamplay \in [wanted: 0..2, on: BOOLEAN]
  /\ board \in Board

\* The flags and counters of a match go together: a match that is over is in an
\* intermission, the one between rounds only if it had several; the final
\* intermission belongs to a match that is over; and outside of intermissions
\* no intermission time is left over that would cut the next one short.
Lifecycle ==
  /\ gameOver => \/ roundState = "GAME_OVER"
                 \/ roundState = "INTERMISSION" /\ roundCount > 1
  /\ roundState = "GAME_OVER" => gameOver
  /\ roundState \in {"PLAYING", "INTERMISSION"} => roundCount > 0
  /\ roundState = "PRE_START" => roundCount = 0
  /\ roundState \in {"PRE_START", "PLAYING"} => intermission = 0

\* The timers of the game rules, whatever is set when, and disabled and enabled
\* in between: the match timer counts down mp_timelimit, and in a round the
\* round timer, if the scenario allows it, counts down ge_roundtime, as long as
\* nobody sets the time of the current round alone.
TimersFollowSettings ==
  /\ matchTimer.started <=> timeLimit > 0
  /\ matchTimer.length = timeLimit
  /\ IsInRound /\ roundTimer.enabled =>
       /\ roundTimer.started <=> roundTime > 0
       /\ roundTimer.length = roundTime

\* The match keeps the promise of the abstract one: points are banked once per
\* round, and no round begins once the match is final.
Phase == [PRE_START |-> "ready", PLAYING |-> "playing",
          INTERMISSION |-> "resting", GAME_OVER |-> "over"]

Abstract == INSTANCE Match WITH phase <- Phase[roundState], final <- gameOver

ImplementsMatch == Abstract!Spec

\* A match that is over leads to a change of level, unless a scenario is loaded,
\* however often commands end rounds and the timers are changed.
GameOverChangesLevel == gameOver ~> (change.state = "issued" \/ ~gameOver)

\* A level change is issued once: the thinks of the final intermission that go on
\* until the engine has changed the level neither issue it again nor postpone it.
LevelChangedOnce == [][change.state = "issued" => UNCHANGED change]_vars

\* An intermission ends.
IntermissionEnds == roundState = "INTERMISSION" ~> roundState # "INTERMISSION"

\* From some moment on nobody types a command, and the scenario does not object.
Unattended == <>[][Tick \/ ThinkWith({TRUE})]_vars

\* A server left to itself changes the level in the end if it has a time limit, whatever
\* the rounds are and whatever was done to the match, its settings and its timers before.
UnattendedMatchEnds ==
  Unattended => (timeLimit > 0 ~> (change.state = "issued" \/ timeLimit = 0))
=============================================================================
