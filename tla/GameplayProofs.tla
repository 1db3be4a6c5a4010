--------------------------- MODULE GameplayProofs ---------------------------
(***************************************************************************)
(* Proofs about the life of a match, for every set of players, teams,      *)
(* settings and delays: the types, the lifecycle invariant, and that       *)
(* Gameplay implements Match.                                              *)
(***************************************************************************)
EXTENDS Gameplay, TLAPS

-----------------------------------------------------------------------------
(* The timers of the game rules.  Nothing ever pauses them, and their ends   *)
(* are relative to the present.                                              *)

\* The fields have their types, agree, and show no more than the length.
Sound(t) == t \in TimerRecord /\ Agree(t) /\ WithinLength(t, 0) /\ ~ t.paused

LEMMA NewTimerSound == Sound(NewTimer)
  BY DEF Sound, NewTimer, TimerRecord, Agree, WithinLength, Remaining, AtLeastZero

LEMMA EnableSound == ASSUME NEW t, Sound(t) PROVE Sound(Enable(t))
  BY DEF Sound, TimerRecord, Agree, WithinLength, Remaining, AtLeastZero, Enable

LEMMA StopSound == ASSUME NEW t, Sound(t) PROVE Sound(Stop(t))
  BY DEF Sound, TimerRecord, Agree, WithinLength, Remaining, AtLeastZero, Stop

LEMMA DisableSound == ASSUME NEW t, Sound(t) PROVE Sound(Disable(t))
  BY DEF Sound, TimerRecord, Agree, WithinLength, Remaining, AtLeastZero, Stop, Disable

LEMMA StartSound == ASSUME NEW n \in Int, NEW t, Sound(t) PROVE Sound(Start(t, 0, n))
<1>1. CASE t.enabled /\ n > 0
  <2>1. Start(t, 0, n) = Restarted(0, n)
    BY <1>1 DEF Start
  <2>2. Restarted(0, n) \in TimerRecord
    BY <1>1 DEF Sound, TimerRecord, Restarted
  <2>3. /\ Agree(Restarted(0, n)) /\ WithinLength(Restarted(0, n), 0)
        /\ ~ Restarted(0, n).paused
    BY <1>1 DEF Restarted, Agree, WithinLength, Remaining, AtLeastZero
  <2> QED BY <2>1, <2>2, <2>3 DEF Sound
<1>2. CASE ~(t.enabled /\ n > 0)
  BY <1>2, StopSound DEF Start
<1> QED BY <1>1, <1>2

\* A started timer with a new end and a new length.
LEMMA RetimedSound ==
  ASSUME NEW t, Sound(t), t.started, NEW e \in Int, NEW len \in Nat, len > 0, e <= len
  PROVE  /\ Sound(Retimed(t, e, len))
         /\ Retimed(t, e, len).length = len /\ Retimed(t, e, len).enabled = t.enabled
<1> DEFINE s == Retimed(t, e, len)
<1>1. s \in TimerRecord
  BY Zenon DEF Sound, TimerRecord, Retimed
<1>2. /\ s.enabled = t.enabled /\ s.started = t.started /\ s.paused = t.paused
      /\ s.pauseLeft = t.pauseLeft /\ s.end = e /\ s.length = len
  BY DEF Sound, TimerRecord, Retimed
<1> HIDE DEF s
<1>3. Agree(s) /\ WithinLength(s, 0) /\ ~ s.paused
  BY <1>2 DEF Sound, Agree, WithinLength, Remaining, AtLeastZero
<1> QED BY <1>1, <1>2, <1>3 DEF Sound, s

\* A timer that is not paused has nothing to resume, and none of its lengths is wrong.
LEMMA NeverPaused ==
  ASSUME NEW t, Sound(t)
  PROVE  /\ Resume(t, 0) = t /\ \A s : Repaused(t, s, 0) = s
         /\ t.enabled \in BOOLEAN /\ t.started \in BOOLEAN
         /\ t.length \in Nat /\ t.end \in Int /\ (t.started => t.end <= t.length)
  BY DEF Sound, Resume, Repaused, TimerRecord, WithinLength, Remaining, AtLeastZero

LEMMA ChangeLengthSound ==
  ASSUME NEW n \in Int, NEW t, Sound(t)
  PROVE  /\ Sound(ChangeLength(t, 0, n))
         /\ t.started /\ n > 0 => /\ ChangeLength(t, 0, n).length = n
                                /\ ChangeLength(t, 0, n).enabled = t.enabled
<1>0. /\ t.length \in Nat /\ t.end \in Int /\ (t.started => t.end <= t.length)
  BY NeverPaused
<1>1. CASE t.enabled /\ n > 0 /\ t.started
  <2> DEFINE e == IF t.end - 0 + (n - t.length) > 0 THEN t.end + (n - t.length) ELSE 0 + n
  <2>1. ChangeLength(t, 0, n) = WithLength(t, 0, n)
    BY <1>1, NeverPaused DEF ChangeLength
  <2>2. WithLength(t, 0, n) = Retimed(t, e, n)
    BY <1>0 DEF WithLength
  <2>3. e \in Int /\ n \in Nat /\ e <= n
    BY <1>0, <1>1
  <2> HIDE DEF e
  <2>4. /\ Sound(Retimed(t, e, n)) /\ Retimed(t, e, n).length = n
        /\ Retimed(t, e, n).enabled = t.enabled
    BY <1>1, <2>3, RetimedSound
  <2> QED BY <2>1, <2>2, <2>4, Zenon
<1>2. CASE ~(t.enabled /\ n > 0 /\ t.started)
  <2>1. t.started => t.enabled
    BY DEF Sound, Agree
  <2> QED BY <1>2, <2>1, StopSound, StartSound DEF ChangeLength
<1> QED BY <1>1, <1>2

LEMMA SetCurrentLengthSound ==
  ASSUME NEW n \in Int, NEW t, Sound(t) PROVE Sound(SetCurrentLength(t, 0, n))
<1>1. CASE t.enabled /\ n > 0 /\ t.started
  <2>1. SetCurrentLength(t, 0, n) = Retimed(t, n, n)
    BY <1>1, NeverPaused DEF SetCurrentLength
  <2> QED BY <1>1, <2>1, RetimedSound
<1>2. CASE ~(t.enabled /\ n > 0 /\ t.started)
  BY <1>2, StopSound, StartSound DEF SetCurrentLength
<1> QED BY <1>1, <1>2

LEMMA AddToLengthSound ==
  ASSUME NEW n \in Int, NEW t, Sound(t), t.started PROVE Sound(AddToLength(t, 0, n))
<1>1. AddToLength(t, 0, n) = Lengthened(t, 0, n) /\ t.length > 0
  BY NeverPaused DEF AddToLength, Sound, Agree
<1>2. CASE t.end - 0 + n > 0
  <2>1. Lengthened(t, 0, n) = Retimed(t, t.end + n, t.length + n)
    BY <1>2 DEF Lengthened
  <2>2. /\ t.end + n \in Int /\ t.length + n \in Nat /\ t.length + n > 0
        /\ t.end + n <= t.length + n
    <3>1. t.end \in Int /\ t.length \in Nat /\ t.end <= t.length
      BY NeverPaused, Zenon
    <3> QED BY <1>2, <3>1
  <2> QED BY <1>1, <2>1, <2>2, RetimedSound
<1>3. CASE ~(t.end - 0 + n > 0)
  <2>1. Lengthened(t, 0, n) = Retimed(t, 0, 1)
    BY <1>3 DEF Lengthened
  <2> QED BY <1>1, <2>1, RetimedSound
<1> QED BY <1>2, <1>3

LEMMA ElapseSound ==
  ASSUME NEW m \in Nat, NEW t, Sound(t) PROVE Sound(Elapse(t, m))
  BY DEF Sound, TimerRecord, Agree, WithinLength, Remaining, AtLeastZero, Elapse, Running

-----------------------------------------------------------------------------
(* The invariant.                                                            *)

\* The inductive invariant, in parts.  The timers must be sound, not just typed,
\* because a length change is only well-behaved on a timer whose fields agree; and
\* the lifecycle is needed because a command may end a round or a match in any
\* state it allows.
LifeType ==
  /\ roundState \in RoundStates /\ gameOver \in BOOLEAN
  /\ roundCount \in 0..2 /\ intermission \in Nat
SettingsType == roundTime \in Nat /\ numRounds \in Nat /\ timeLimit \in Nat
TimersSound == Sound(matchTimer) /\ Sound(roundTimer)
ChangeType == change \in [state: {"none", "pending", "issued"}, left: Int]
TeamplayType == teamplay \in [wanted: 0..2, on: BOOLEAN]
BoardType == board \in Board

IInv ==
  /\ LifeType /\ SettingsType /\ TimersSound /\ ChangeType /\ TeamplayType /\ BoardType
  /\ Lifecycle

LEMMA IInvTypes == IInv => TypeOK
  BY DEF IInv, LifeType, SettingsType, TimersSound, ChangeType, TeamplayType, BoardType,
         TypeOK, Sound

-----------------------------------------------------------------------------
(* Settings, timers and scores.                                              *)

LEMMA LegalRoundTimeType == ASSUME NEW n \in Nat PROVE LegalRoundTime(n) \in Nat
  BY GameplayAssumption DEF LegalRoundTime

LEMMA RoundTimeForType ==
  ASSUME SettingsType, NEW count \in Nat, NEW limit \in Nat
  PROVE  RoundTimeFor(count, limit) \in Nat
<1>1. CASE count = 0 \/ count = 1
  BY <1>1 DEF RoundTimeFor, SettingsType
<1>2. CASE count > 1
  <2>1. RoundDelays(count) \in Int
    BY GameplayAssumption DEF RoundDelays
  <2>2. ASSUME NEW d \in Int, limit > d PROVE (limit - d) \div count \in Nat
    BY <1>2, <2>2
  <2>3. QED
    BY <1>2, <2>1, <2>2 DEF RoundTimeFor, SettingsType
<1>3. QED
  BY <1>1, <1>2

LEMMA ChangedSound ==
  ASSUME NEW n \in Nat, NEW t, Sound(t) PROVE Sound(Changed(t, n))
  BY ChangeLengthSound, StopSound DEF Changed

LEMMA AllowedSound ==
  ASSUME SettingsType, NEW state \in BOOLEAN, NEW t, Sound(t)
  PROVE  Sound(Allowed(t, state))
  BY EnableSound, DisableSound, StartSound DEF Allowed, SettingsType

LEMMA AdoptRoundTimeSound ==
  ASSUME SettingsType, NEW n \in Nat, NEW t, Sound(t), AdoptRoundTime(n, t)
  PROVE  roundTime' \in Nat /\ Sound(roundTimer')
  BY LegalRoundTimeType, ChangedSound DEF AdoptRoundTime

LEMMA AdoptTimeLimitSound ==
  ASSUME SettingsType, NEW limit \in Nat, NEW m, Sound(m), NEW r, Sound(r),
         AdoptTimeLimit(limit, m, r)
  PROVE  roundTime' \in Nat /\ Sound(matchTimer') /\ Sound(roundTimer')
<1> DEFINE n == IF limit > 0 THEN RoundTimeFor(numRounds, limit) ELSE roundTime
<1>1. n \in Nat
  BY RoundTimeForType DEF SettingsType
<1>2. AdoptRoundTime(n, r) /\ matchTimer' = Changed(m, limit)
  BY DEF AdoptTimeLimit
<1> HIDE DEF n
<1>3. QED
  BY <1>1, <1>2, AdoptRoundTimeSound, ChangedSound

LEMMA BankedType == ASSUME NEW b \in Board PROVE Banked(b) \in Board
  BY DEF Board, Banked

LEMMA ClearedType == ASSUME NEW b \in Board, NEW who PROVE RoundCleared(b, who) \in Board
  BY DEF Board, RoundCleared

LEMMA SwitchedType == ASSUME NEW b \in Board PROVE TeamplaySwitched(b) \in Board
  BY DEF Board, TeamplaySwitched

LEMMA ScoredType ==
  ASSUME NEW b \in Board, NEW s \in Scorers, NEW p \in Int
  PROVE  Scored(b, s, p) \in Board
  BY DEF Board, Scored

LEMMA BlankType == Blank \in Board
  BY DEF Board, Blank

-----------------------------------------------------------------------------
(* The steps of a match.  Each lemma says that the step keeps all of IInv but *)
(* the type of the level change, which the steps do not touch.               *)

MatchInv == LifeType /\ SettingsType /\ TimersSound /\ TeamplayType /\ BoardType /\ Lifecycle

LEMMA IInvSplit == IInv => MatchInv /\ ChangeType
  BY DEF IInv, MatchInv

LEMMA IInvJoin == MatchInv' /\ ChangeType' => IInv'
  BY DEF IInv, MatchInv

LEMMA EndRoundKeeps ==
  ASSUME MatchInv, NEW report \in BOOLEAN, EndRound(report),
         gameOver' \in BOOLEAN, gameOver' => roundCount > 1
  PROVE  MatchInv'
<1>1. /\ roundState = "PLAYING" /\ roundState' = "INTERMISSION"
      /\ intermission' = (IF report THEN RoundDelay ELSE SkipDelay)
      /\ roundTimer' = Stop(roundTimer) /\ board' = Banked(board)
      /\ UNCHANGED <<roundCount, matchTimer, settings, teamplay>>
  BY DEF EndRound, BankRound, IsInRound
<1>2. LifeType'
  BY <1>1, GameplayAssumption DEF MatchInv, LifeType, RoundStates
<1>3. SettingsType' /\ TeamplayType'
  BY <1>1 DEF MatchInv, SettingsType, TeamplayType, settings
<1>4. TimersSound'
  BY <1>1, StopSound DEF MatchInv, TimersSound
<1>5. BoardType'
  BY <1>1, BankedType DEF MatchInv, BoardType
<1>6. Lifecycle'
  BY <1>1 DEF MatchInv, Lifecycle
<1>7. QED
  BY <1>2, <1>3, <1>4, <1>5, <1>6 DEF MatchInv

LEMMA EndMatchKeeps == ASSUME MatchInv, EndMatch PROVE MatchInv'
<1>1. CASE roundCount > 1 /\ EndRound(TRUE)
  BY <1>1, EndRoundKeeps DEF EndMatch
<1>2. CASE /\ gameOver' = TRUE /\ FinalIntermission
           /\ \/ IsInRound /\ BankRound
              \/ ~IsInRound /\ UNCHANGED <<roundTimer, board>>
  <2>1. /\ roundState' = "GAME_OVER" /\ intermission' = ChatTime
        /\ UNCHANGED <<roundCount, matchTimer, settings, teamplay>>
    BY <1>2 DEF FinalIntermission
  <2>2. LifeType' /\ Lifecycle'
    BY <1>2, <2>1, GameplayAssumption DEF MatchInv, LifeType, RoundStates, Lifecycle
  <2>3. SettingsType' /\ TeamplayType'
    BY <2>1 DEF MatchInv, SettingsType, TeamplayType, settings
  <2>4. TimersSound'
    BY <1>2, <2>1, StopSound DEF MatchInv, TimersSound, BankRound
  <2>5. BoardType'
    BY <1>2, BankedType DEF MatchInv, BoardType, BankRound
  <2>6. QED
    BY <2>2, <2>3, <2>4, <2>5 DEF MatchInv
<1>3. QED
  BY <1>1, <1>2 DEF EndMatch

LEMMA TeamplayRecord ==
  ASSUME NEW w \in 0..2, NEW b \in BOOLEAN
  PROVE  [wanted |-> w, on |-> b] \in [wanted: 0..2, on: BOOLEAN]
  OBVIOUS

LEMMA TeamplayUpdate ==
  ASSUME NEW t \in [wanted: 0..2, on: BOOLEAN], NEW b \in BOOLEAN, NEW w \in 0..2
  PROVE  /\ [t EXCEPT !.on = b] \in [wanted: 0..2, on: BOOLEAN]
         /\ [t EXCEPT !.wanted = w] \in [wanted: 0..2, on: BOOLEAN]
  BY Zenon

LEMMA StartRoundKeeps ==
  ASSUME MatchInv, StartRound, ~gameOver, intermission = 0
  PROVE  MatchInv'
<1>1. /\ roundState' = "PLAYING"
      /\ roundCount' = (IF roundCount < 2 THEN roundCount + 1 ELSE 2)
      /\ roundTimer' = Start(roundTimer, 0, roundTime)
      /\ UNCHANGED <<gameOver, intermission, matchTimer, settings>>
  BY DEF StartRound, OnRoundStart
<1>2. LifeType' /\ Lifecycle'
  BY <1>1 DEF MatchInv, LifeType, RoundStates, Lifecycle
<1>3. SettingsType'
  BY <1>1 DEF MatchInv, SettingsType, settings
<1>4. TimersSound'
  BY <1>1, StartSound DEF MatchInv, TimersSound, SettingsType
<1>5. PICK wanted \in AutoTeamplay, toggles \in BOOLEAN, cleared \in {Teams, Scorers} :
      LET switch == SetupSwitches(wanted, toggles)
          before == IF switch THEN TeamplaySwitched(board) ELSE board
      IN  /\ teamplay' = [wanted |-> wanted, on |-> IF switch THEN wanted # 0 ELSE teamplay.on]
          /\ board' = RoundCleared(before, cleared)
  BY DEF StartRound
<1>6. BoardType'
  <2>1. board' = RoundCleared(board, cleared) \/ board' = RoundCleared(TeamplaySwitched(board), cleared)
    BY <1>5
  <2>2. QED
    BY <2>1, SwitchedType, ClearedType DEF MatchInv, BoardType
<1>7. TeamplayType'
  <2>1. wanted \in 0..2 /\ teamplay.on \in BOOLEAN
    <3>1. teamplay.wanted \in 0..2 /\ teamplay.on \in BOOLEAN
      BY DEF MatchInv, TeamplayType
    <3>2. QED
      BY <1>5, <3>1 DEF AutoTeamplay
  <2>2. teamplay' = [wanted |-> wanted, on |-> wanted # 0] \/ teamplay' = [wanted |-> wanted, on |-> teamplay.on]
    BY <1>5
  <2>3. (wanted # 0) \in BOOLEAN
    BY Zenon
  <2>4. QED
    BY <2>1, <2>2, <2>3, TeamplayRecord DEF TeamplayType
<1>8. QED
  BY <1>2, <1>3, <1>4, <1>6, <1>7 DEF MatchInv

LEMMA ChosenType == ASSUME TeamplayType PROVE Chosen \cup {teamplay.wanted} \subseteq 0..2
  BY DEF Chosen, TeamplayType

LEMMA StartMatchKeeps ==
  ASSUME NEW values, values \subseteq 0..2, StartMatch(values)
  PROVE  LifeType' /\ Lifecycle' /\ BoardType' /\ TeamplayType'
<1>0. /\ roundState' = "PRE_START" /\ gameOver' = FALSE /\ roundCount' = 0
      /\ intermission' = 0
  BY DEF StartMatch, ResetState
<1>1. LifeType'
  <2>1. gameOver' \in BOOLEAN
    BY <1>0, Zenon
  <2>2. roundState' \in RoundStates /\ roundCount' \in 0..2 /\ intermission' \in Nat
    BY <1>0 DEF RoundStates
  <2>3. QED
    BY <2>1, <2>2 DEF LifeType
<1>2. Lifecycle'
  BY <1>0 DEF Lifecycle
<1>3. BoardType'
  BY BlankType DEF StartMatch, OnMatchStart, BoardType
<1>4. TeamplayType'
  <2>1. PICK v \in values : teamplay' = [wanted |-> v, on |-> v # 0]
    BY DEF StartMatch, OnMatchStart
  <2>2. v \in 0..2 /\ (v # 0) \in BOOLEAN
    BY Zenon
  <2>3. QED
    BY <2>1, <2>2, TeamplayRecord DEF TeamplayType
<1>5. QED
  BY <1>1, <1>2, <1>3, <1>4

\* Whatever leaves the match, the settings and the scores alone keeps the invariant.
LEMMA QuietKeeps ==
  ASSUME MatchInv, UNCHANGED <<life, timers, settings, teamplay, board>>
  PROVE  MatchInv'
  BY DEF MatchInv, LifeType, SettingsType, TimersSound, TeamplayType, BoardType, Lifecycle,
         IsInRound, life, timers, settings

-----------------------------------------------------------------------------
(* The actions.                                                              *)

LEMMA InitHolds == Init => IInv
<1> SUFFICES ASSUME Init PROVE IInv
  OBVIOUS
<1>1. LifeType /\ Lifecycle
  <2>1. roundState = "PRE_START" /\ gameOver = FALSE /\ roundCount = 0 /\ intermission = 0
    BY Zenon DEF Init
  <2>2. gameOver \in BOOLEAN
    BY <2>1, Zenon
  <2>3. roundState \in RoundStates /\ roundCount \in 0..2 /\ intermission \in Nat
    BY <2>1 DEF RoundStates
  <2>4. QED
    BY <2>1, <2>2, <2>3 DEF LifeType, Lifecycle
<1>2. SettingsType
  BY GameplayAssumption, LegalRoundTimeType DEF Init, SettingsType
<1>3. TimersSound
  BY <1>2, NewTimerSound, ChangedSound DEF Init, TimersSound, SettingsType
<1>4. ChangeType
  BY DEF Init, ChangeType, NoChange
<1>5. TeamplayType
  <2>1. PICK v \in TeamplayValues : teamplay = [wanted |-> v, on |-> v # 0]
    BY DEF Init
  <2>2. v \in 0..2 /\ (v # 0) \in BOOLEAN
    BY GameplayAssumption, Zenon
  <2>3. QED
    BY <2>1, <2>2, TeamplayRecord DEF TeamplayType
<1>6. BoardType
  BY BlankType DEF Init, BoardType
<1>7. QED
  BY <1>1, <1>2, <1>3, <1>4, <1>5, <1>6 DEF IInv

\* The level change stays well-formed when it is set up and when a frame ends.
LEMMA ChangeSteps ==
  ASSUME NEW c \in [state: {"none", "pending", "issued"}, left: Int]
  PROVE  /\ SetUp(c) \in [state: {"none", "pending", "issued"}, left: Int]
         /\ FrameEnd(c) \in [state: {"none", "pending", "issued"}, left: Int]
  BY GameplayAssumption DEF SetUp, FrameEnd, Scheduled, Issued

LEMMA TickKeeps == ASSUME IInv, Tick PROVE IInv'
<1>1. LifeType' /\ Lifecycle'
  BY DEF IInv, LifeType, Lifecycle, Tick, OneLess, IsInRound
<1>2. SettingsType' /\ TeamplayType' /\ BoardType'
  BY DEF IInv, SettingsType, TeamplayType, BoardType, Tick, settings
<1>3. TimersSound'
  BY ElapseSound, GameplayAssumption DEF IInv, TimersSound, Tick
<1>4. ChangeType'
  BY DEF IInv, ChangeType, Tick
<1>5. QED
  BY <1>1, <1>2, <1>3, <1>4 DEF IInv

LEMMA ThinkKeeps == ASSUME IInv, Think PROVE IInv'
<1>1. MatchInv /\ ChangeType
  BY IInvSplit
<1>2. ChangeType'
  <2>1. change' = FrameEnd(SetUp(change)) \/ change' = FrameEnd(change)
    BY DEF Think, ThinkWith
  <2>2. QED
    BY <1>1, <2>1, ChangeSteps DEF ChangeType
<1>3. CASE roundState = "PRE_START" /\ StartRound
  <2>1. ~gameOver /\ intermission = 0
    BY <1>1, <1>3 DEF MatchInv, Lifecycle, LifeType
  <2>2. QED
    BY <1>1, <1>2, <1>3, <2>1, StartRoundKeeps, IInvJoin
<1>4. ASSUME NEW m \in Answers, ThinkBetweenRounds(m) PROVE MatchInv'
  <2>1. CASE EndMatch
    BY <1>1, <2>1, EndMatchKeeps
  <2>2. CASE ~ShouldEndMatch(TRUE, m) /\ StartRound
    BY <1>1, <1>4, <2>2, StartRoundKeeps DEF ShouldEndMatch, ThinkBetweenRounds, IntermissionOver
  <2>3. QED
    BY <1>4, <2>1, <2>2 DEF ThinkBetweenRounds
<1>5. ASSUME NEW r \in Answers, NEW m \in Answers, ThinkInRound(r, m) PROVE MatchInv'
  <2>1. CASE EndMatch
    BY <1>1, <2>1, EndMatchKeeps
  <2>2. CASE ~ShouldEndMatch(r, m) /\ EndRound(TRUE) /\ UNCHANGED gameOver
    <3>1. ~gameOver
      BY <2>2 DEF ShouldEndMatch
    <3>2. gameOver' \in BOOLEAN
      BY <1>1, <2>2 DEF MatchInv, LifeType
    <3>3. gameOver' => roundCount > 1
      BY <2>2, <3>1
    <3>4. QED
      BY <1>1, <2>2, <3>2, <3>3, EndRoundKeeps
  <2>3. CASE UNCHANGED <<life, timers, settings, teamplay, board>>
    BY <1>1, <2>3, QuietKeeps
  <2>4. QED
    BY <1>5, <2>1, <2>2, <2>3 DEF ThinkInRound
<1>6. CASE ThinkIdle
  BY <1>1, <1>2, <1>6, QuietKeeps, IInvJoin DEF ThinkIdle
<1>7. QED
  BY <1>2, <1>3, <1>4, <1>5, <1>6, IInvJoin DEF Think, ThinkWith

LEMMA HeldBackThinkKeeps == ASSUME IInv, HeldBackThink PROVE IInv'
  BY IInvSplit, IInvJoin, QuietKeeps, ChangeSteps DEF HeldBackThink, ChangeType

\* The commands of the match itself.
LEMMA MatchCommandsKeep ==
  ASSUME IInv, EndRoundCommand \/ EndMatchCommand \/ ChangeLevelCommand PROVE IInv'
<1>1. MatchInv /\ ChangeType
  BY IInvSplit
<1>2. CASE EndRoundCommand
  <2>1. PICK report \in BOOLEAN : EndRound(report)
    BY <1>2 DEF EndRoundCommand
  <2>2. ~gameOver /\ gameOver' = gameOver /\ gameOver' \in BOOLEAN /\ ChangeType'
    BY <1>1, <1>2, <2>1 DEF EndRoundCommand, EndRound, IsInRound, MatchInv, Lifecycle,
                            LifeType, ChangeType
  <2>3. QED
    BY <1>1, <2>1, <2>2, EndRoundKeeps, IInvJoin
<1>3. CASE EndMatchCommand
  BY <1>1, <1>3, EndMatchKeeps, IInvJoin DEF EndMatchCommand, ChangeType
<1>4. CASE ChangeLevelCommand
  <2>1. Scheduled \in [state: {"none", "pending", "issued"}, left: Int]
    BY GameplayAssumption DEF Scheduled
  <2>2. QED
    BY <1>1, <1>4, <2>1, QuietKeeps, IInvJoin DEF ChangeLevelCommand, ChangeType
<1>5. QED
  BY <1>2, <1>3, <1>4

LEMMA LoadScenarioKeeps == ASSUME IInv, LoadScenario PROVE IInv'
<1>1. LifeType' /\ Lifecycle' /\ BoardType' /\ TeamplayType'
  <2>1. {teamplay.wanted} \cup Chosen \subseteq 0..2
    BY ChosenType DEF IInv
  <2>2. QED
    BY <2>1, StartMatchKeeps DEF LoadScenario
<1>2. SettingsType' /\ ChangeType'
  BY DEF IInv, SettingsType, ChangeType, LoadScenario, settings
<1>3. TimersSound'
  BY AllowedSound DEF IInv, TimersSound, LoadScenario
<1>4. QED
  BY <1>1, <1>2, <1>3 DEF IInv

LEMMA NewLevelKeeps == ASSUME IInv, NewLevel PROVE IInv'
<1>1. StartMatch(Chosen) /\ change' \in {NoChange, Scheduled}
      /\ AdoptTimeLimit(timeLimit, NewTimer, NewTimer) /\ UNCHANGED <<numRounds, timeLimit>>
  BY DEF NewLevel, StartLevel
<1>2. LifeType' /\ Lifecycle' /\ BoardType' /\ TeamplayType'
  <2>1. Chosen \subseteq 0..2
    BY ChosenType DEF IInv
  <2>2. QED
    BY <1>1, <2>1, StartMatchKeeps
<1>3. ChangeType'
  BY <1>1, GameplayAssumption DEF ChangeType, NoChange, Scheduled
<1>4. SettingsType' /\ TimersSound'
  BY <1>1, NewTimerSound, AdoptTimeLimitSound DEF IInv, SettingsType, TimersSound
<1>5. QED
  BY <1>2, <1>3, <1>4 DEF IInv

\* The commands that change only settings and timers.
TunesOnly == UNCHANGED <<life, change, teamplay, board>>

LEMMA TuneKeeps ==
  ASSUME IInv, TunesOnly, SettingsType', TimersSound' PROVE IInv'
  BY DEF IInv, TunesOnly, LifeType, ChangeType, TeamplayType, BoardType, Lifecycle,
         IsInRound, life

LEMMA SettingsCommandsKeep ==
  ASSUME IInv, AllowRoundTimer \/ SetRoundTime \/ SetRoundCount \/ SetTimeLimit PROVE IInv'
<1>1. SettingsType /\ Sound(matchTimer) /\ Sound(roundTimer)
  BY DEF IInv, TimersSound
<1>2. CASE AllowRoundTimer
  BY <1>1, <1>2, AllowedSound, TuneKeeps
  DEF AllowRoundTimer, TunesOnly, SettingsType, TimersSound, settings
<1>3. CASE SetRoundTime
  <2>1. PICK n \in RoundTimes : /\ roundTime' = LegalRoundTime(n)
                                /\ roundTimer' = Changed(roundTimer, LegalRoundTime(n))
    BY <1>3 DEF SetRoundTime
  <2>2. n \in Nat /\ LegalRoundTime(n) \in Nat
    BY GameplayAssumption, LegalRoundTimeType
  <2>3. QED
    BY <1>1, <1>3, <2>1, <2>2, ChangedSound, TuneKeeps
    DEF SetRoundTime, TunesOnly, SettingsType, TimersSound
<1>4. CASE SetRoundCount
  <2>1. numRounds' \in Nat /\ timeLimit \in Nat
    BY <1>1, <1>4, GameplayAssumption DEF SetRoundCount, SettingsType
  <2>2. RoundTimeFor(numRounds', timeLimit) \in Nat
    BY <1>1, <2>1, RoundTimeForType
  <2>3. roundTime' \in Nat /\ Sound(roundTimer')
    BY <1>1, <1>4, <2>2, AdoptRoundTimeSound DEF SetRoundCount
  <2>4. QED
    BY <1>1, <1>4, <2>1, <2>3, TuneKeeps DEF SetRoundCount, TunesOnly, SettingsType, TimersSound
<1>5. CASE SetTimeLimit
  <2>1. timeLimit' \in Nat
    BY <1>5, GameplayAssumption DEF SetTimeLimit
  <2>2. roundTime' \in Nat /\ Sound(matchTimer') /\ Sound(roundTimer')
    BY <1>1, <1>5, <2>1, AdoptTimeLimitSound DEF SetTimeLimit
  <2>3. QED
    BY <1>1, <1>5, <2>1, <2>2, TuneKeeps DEF SetTimeLimit, TunesOnly, SettingsType, TimersSound
<1>6. QED
  BY <1>2, <1>3, <1>4, <1>5

LEMMA RoundTimerCommandsKeep ==
  ASSUME IInv, SetRoundTimer \/ AddToRoundTimer PROVE IInv'
<1>1. SettingsType /\ Sound(matchTimer) /\ Sound(roundTimer)
  BY DEF IInv, TimersSound
<1>2. Sound(roundTimer')
  <2>1. CASE SetRoundTimer
    <3>1. PICK n \in Int :
            roundTimer' = IF n = Remaining(roundTimer, 0) THEN roundTimer
                          ELSE IF n > 0 THEN SetCurrentLength(roundTimer, 0, n)
                          ELSE Stop(roundTimer)
      BY <2>1, GameplayAssumption DEF SetRoundTimer
    <3>2. QED
      BY <1>1, <3>1, SetCurrentLengthSound, StopSound
  <2>2. CASE AddToRoundTimer
    BY <1>1, <2>2, AddToLengthSound, GameplayAssumption DEF AddToRoundTimer
  <2>3. QED
    BY <2>1, <2>2
<1>3. TunesOnly /\ SettingsType' /\ matchTimer' = matchTimer
  BY <1>1 DEF SetRoundTimer, AddToRoundTimer, TunesOnly, SettingsType, settings
<1>4. QED
  BY <1>1, <1>2, <1>3, TuneKeeps DEF TimersSound

LEMMA TeamplayAndScoreKeep ==
  ASSUME IInv, SetTeamplayVar \/ Score PROVE IInv'
<1>1. CASE SetTeamplayVar
  <2>1. PICK v \in 0..2 : teamplay' = [teamplay EXCEPT !.wanted = v]
    BY <1>1, GameplayAssumption DEF SetTeamplayVar
  <2>2. TeamplayType'
    BY <2>1, TeamplayUpdate, Zenon DEF IInv, TeamplayType
  <2>3. UNCHANGED <<life, timers, settings, change, board>>
    BY <1>1 DEF SetTeamplayVar
  <2>4. QED
    BY <2>2, <2>3 DEF IInv, LifeType, SettingsType, TimersSound, ChangeType, BoardType,
                      Lifecycle, IsInRound, life, timers, settings
<1>2. CASE Score
  <2>1. PICK s \in Scorers, p \in Int : board' = Scored(board, s, p)
    BY <1>2, GameplayAssumption DEF Score
  <2>2. BoardType'
    BY <2>1, ScoredType DEF IInv, BoardType
  <2>3. UNCHANGED <<life, timers, settings, change, teamplay>>
    BY <1>2 DEF Score
  <2>4. QED
    BY <2>2, <2>3 DEF IInv, LifeType, SettingsType, TimersSound, ChangeType, TeamplayType,
                      Lifecycle, IsInRound, life, timers, settings
<1>3. QED
  BY <1>1, <1>2

LEMMA StepKeeps == IInv /\ [Next]_vars => IInv'
<1> SUFFICES ASSUME IInv, [Next]_vars PROVE IInv'
  OBVIOUS
<1>1. CASE ServerNext
  BY <1>1, TickKeeps, ThinkKeeps, HeldBackThinkKeeps DEF ServerNext
<1>2. CASE InputNext
  BY <1>2, MatchCommandsKeep, LoadScenarioKeeps, NewLevelKeeps, SettingsCommandsKeep,
     RoundTimerCommandsKeep, TeamplayAndScoreKeep DEF InputNext
<1>3. CASE UNCHANGED vars
  BY <1>3 DEF IInv, LifeType, SettingsType, TimersSound, ChangeType, TeamplayType, BoardType,
              Lifecycle, IsInRound, vars, life, timers, settings
<1>4. QED
  BY <1>1, <1>2, <1>3 DEF Next

LEMMA Inductive == Spec => []IInv
  BY InitHolds, StepKeeps, PTL DEF Spec

\* The types of the game rules' state, the two timers included.
THEOREM TypeCorrect == Spec => []TypeOK
  BY Inductive, IInvTypes, PTL

\* The flags and counters of a match go together, whatever commands come when.
THEOREM LifecycleAlways == Spec => []Lifecycle
<1>1. IInv => Lifecycle
  BY DEF IInv
<1>2. QED
  BY Inductive, <1>1, PTL

-----------------------------------------------------------------------------
(* The timers follow the settings.                                           *)

\* Of a sound timer only the length matters: it is started if that is not zero.  The
\* match timer must be enabled always, since nothing would start it again; and the
\* round time must be a legal one, since the console's callback makes it so while the
\* others leave the timer alone if the value does not change.
Following ==
  /\ matchTimer.enabled /\ matchTimer.length = timeLimit
  /\ IsInRound /\ roundTimer.enabled => roundTimer.length = roundTime
  /\ LegalRoundTime(roundTime) = roundTime

LEMMA FollowingSuffices == IInv /\ Following => TimersFollowSettings
  BY DEF IInv, TimersSound, SettingsType, Sound, Agree, TimerRecord, Following,
         TimersFollowSettings

LEMMA LegalIsLegal ==
  ASSUME NEW n \in Nat PROVE LegalRoundTime(LegalRoundTime(n)) = LegalRoundTime(n)
  BY GameplayAssumption DEF LegalRoundTime

\* A change of length reaches an enabled timer, and no change switches a timer.
LEMMA ChangedLength ==
  ASSUME NEW n \in Nat, NEW t, Sound(t)
  PROVE  /\ Changed(t, n).enabled = t.enabled
         /\ t.enabled => Changed(t, n).length = n
<1>1. /\ t.enabled \in BOOLEAN /\ t.started \in BOOLEAN /\ t.length \in Nat
      /\ n = 0 \/ n > 0
  BY DEF Sound, TimerRecord
<1>2. CASE n = t.length
  BY <1>2 DEF Changed
<1>3. CASE n # t.length /\ n = 0
  BY <1>1, <1>3 DEF Changed, Stop
<1>4. CASE n # t.length /\ n > 0 /\ ~ t.enabled
  BY <1>4 DEF Changed, ChangeLength
<1>5. CASE n # t.length /\ n > 0 /\ t.enabled /\ ~ t.started
  <2>1. Start(t, 0, n) = Restarted(0, n)
    BY <1>5 DEF Start
  <2>2. Changed(t, n) = Restarted(0, n)
    BY <1>5, <2>1 DEF Changed, ChangeLength
  <2>3. QED
    BY <1>5, <2>2 DEF Restarted
<1>6. CASE n # t.length /\ n > 0 /\ t.enabled /\ t.started
  <2>1. Changed(t, n) = ChangeLength(t, 0, n)
    BY <1>6 DEF Changed
  <2>2. /\ ChangeLength(t, 0, n).enabled = t.enabled
        /\ ChangeLength(t, 0, n).length = n
    BY <1>6, n \in Int, ChangeLengthSound, Zenon
  <2>3. QED
    BY <2>1, <2>2
<1>7. QED
  BY <1>1, <1>2, <1>3, <1>4, <1>5, <1>6

LEMMA FollowingInit == Init => Following
<1> SUFFICES ASSUME Init PROVE Following
  OBVIOUS
<1>1. timeLimit \in Nat /\ matchTimer = Changed(NewTimer, timeLimit)
  BY GameplayAssumption DEF Init
<1>2. matchTimer.enabled /\ matchTimer.length = timeLimit
  BY <1>1, NewTimerSound, ChangedLength DEF NewTimer
<1>3. LegalRoundTime(roundTime) = roundTime
  BY GameplayAssumption, LegalIsLegal DEF Init
<1>4. QED
  BY <1>2, <1>3 DEF Following, Init, IsInRound

\* What a frame does to the timers.
LEMMA ServerFollows == ASSUME IInv, Following, ServerNext PROVE Following'
<1>1. SettingsType
  BY DEF IInv
<1>2. CASE Tick
  <2>1. UNCHANGED <<roundState, roundTime, timeLimit>>
    BY <1>2 DEF Tick, settings
  <2>2. ASSUME NEW t, Sound(t)
        PROVE  LET e == Elapse(t, MaxOverrun) IN e.enabled = t.enabled /\ e.length = t.length
    BY <2>2 DEF Elapse, Sound, TimerRecord
  <2>3. QED
    BY <1>2, <2>1, <2>2 DEF Tick, Following, IsInRound, IInv, TimersSound
<1>3. CASE Think \/ HeldBackThink
  <2>1. \/ StartRound
        \/ EndMatch \/ EndRound(TRUE)
        \/ UNCHANGED <<life, timers, settings>>
    BY <1>3 DEF Think, ThinkWith, HeldBackThink, ThinkBetweenRounds, ThinkInRound, ThinkIdle
  <2>2. CASE StartRound
    <3>1. roundTimer' = Start(roundTimer, 0, roundTime) /\ UNCHANGED <<matchTimer, settings>>
      BY <2>2 DEF StartRound, OnRoundStart
    <3>2. roundTimer'.enabled => roundTimer'.length = roundTime
      BY <1>1, <3>1 DEF Start, Stop, Restarted, SettingsType
    <3>3. QED
      BY <3>1, <3>2 DEF Following, settings
  <2>3. CASE EndMatch \/ EndRound(TRUE)
    BY <2>3 DEF EndMatch, EndRound, FinalIntermission, Following, IsInRound, settings
  <2>4. CASE UNCHANGED <<life, timers, settings>>
    BY <2>4 DEF Following, IsInRound, life, timers, settings
  <2>5. QED
    BY <2>1, <2>2, <2>3, <2>4
<1>4. QED
  BY <1>2, <1>3 DEF ServerNext

\* What commands, settings and scenarios do, but for those that set the time of the
\* current round.
LEMMA InputFollows ==
  ASSUME CurrentTimes = {}, Additions = {}, IInv, Following, InputNext
  PROVE  Following'
<1>1. /\ SettingsType /\ Sound(matchTimer) /\ Sound(roundTimer)
      /\ IsInRound /\ roundTimer.enabled => roundTimer.length = roundTime
      /\ matchTimer.enabled /\ matchTimer.length = timeLimit
      /\ LegalRoundTime(roundTime) = roundTime
  BY DEF IInv, TimersSound, Following
<1>2. CASE EndRoundCommand \/ EndMatchCommand
  BY <1>1, <1>2 DEF EndRoundCommand, EndMatchCommand, EndMatch, EndRound, FinalIntermission,
                    Following, IsInRound, settings
<1>3. CASE ChangeLevelCommand \/ SetTeamplayVar \/ Score
  BY <1>1, <1>3 DEF ChangeLevelCommand, SetTeamplayVar, Score, Following, IsInRound,
                    life, timers, settings
<1>4. CASE LoadScenario
  BY <1>1, <1>4 DEF LoadScenario, StartMatch, Following, IsInRound, settings
<1>5. CASE NewLevel
  <2> DEFINE n == IF timeLimit > 0 THEN RoundTimeFor(numRounds, timeLimit) ELSE roundTime
  <2>1. n \in Nat
    BY <1>1, RoundTimeForType DEF SettingsType
  <2>2. /\ roundState' = "PRE_START" /\ timeLimit' = timeLimit
        /\ matchTimer' = Changed(NewTimer, timeLimit) /\ roundTime' = LegalRoundTime(n)
    BY <1>5 DEF NewLevel, StartLevel, StartMatch, AdoptTimeLimit, AdoptRoundTime
  <2> HIDE DEF n
  <2>3. LegalRoundTime(roundTime') = roundTime'
    BY <2>1, <2>2, LegalIsLegal
  <2>4. matchTimer'.enabled /\ matchTimer'.length = timeLimit'
    BY <1>1, <2>2, NewTimerSound, ChangedLength DEF NewTimer, SettingsType
  <2>5. QED
    BY <2>2, <2>3, <2>4 DEF Following, IsInRound
<1>6. CASE AllowRoundTimer
  <2>1. PICK state \in BOOLEAN : roundTimer' = Allowed(roundTimer, state)
    BY <1>6 DEF AllowRoundTimer
  <2>2. UNCHANGED <<roundState, matchTimer, settings>>
    BY <1>6 DEF AllowRoundTimer, life
  <2>3. CASE roundTimer.enabled = state
    BY <1>1, <2>1, <2>2, <2>3 DEF Allowed, Following, IsInRound, settings
  <2>4. CASE ~ roundTimer.enabled /\ state
    <3>1. roundTimer' = Start(Enable(roundTimer), 0, roundTime) /\ Enable(roundTimer).enabled
      BY <1>1, <2>1, <2>4 DEF Allowed, Enable, Sound, TimerRecord
    <3>2. roundTimer'.length = roundTime
      BY <1>1, <3>1 DEF Start, Stop, Restarted, SettingsType
    <3>3. QED
      BY <1>1, <2>2, <3>2 DEF Following, settings
  <2>5. CASE roundTimer.enabled /\ ~ state
    <3>1. roundTimer' = Disable(roundTimer)
      BY <2>1, <2>5 DEF Allowed
    <3>2. ~ roundTimer'.enabled
      BY <1>1, <3>1 DEF Disable, Stop, Sound, TimerRecord
    <3>3. QED
      BY <1>1, <2>2, <3>2 DEF Following, settings
  <2>6. QED
    BY <1>1, <2>3, <2>4, <2>5 DEF Sound, TimerRecord
<1>7. CASE SetRoundTime
  <2>1. PICK n \in RoundTimes : /\ roundTime' = LegalRoundTime(n)
                                /\ roundTimer' = Changed(roundTimer, LegalRoundTime(n))
    BY <1>7 DEF SetRoundTime
  <2>2. n \in Nat /\ LegalRoundTime(n) \in Nat
    BY GameplayAssumption, LegalRoundTimeType
  <2>3. LegalRoundTime(roundTime') = roundTime'
    BY <2>1, <2>2, LegalIsLegal
  <2>4. roundTimer'.enabled => roundTimer'.length = roundTime'
    BY <1>1, <2>1, <2>2, ChangedLength
  <2>5. QED
    BY <1>1, <1>7, <2>3, <2>4 DEF SetRoundTime, Following, life
<1>8. ASSUME NEW n \in Nat, AdoptRoundTime(n, roundTimer), UNCHANGED roundState
      PROVE  /\ LegalRoundTime(roundTime') = roundTime'
             /\ IsInRound' /\ roundTimer'.enabled => roundTimer'.length = roundTime'
  <2>1. CASE n = roundTime
    BY <1>1, <1>8, <2>1 DEF AdoptRoundTime, IsInRound
  <2>2. CASE n # roundTime
    BY <1>1, <1>8, <2>2, LegalRoundTimeType, LegalIsLegal, ChangedLength DEF AdoptRoundTime
  <2>3. QED
    BY <2>1, <2>2
<1>9. CASE SetRoundCount
  <2>1. RoundTimeFor(numRounds', timeLimit) \in Nat
    BY <1>1, <1>9, GameplayAssumption, RoundTimeForType DEF SetRoundCount, SettingsType
  <2>2. QED
    BY <1>1, <1>8, <1>9, <2>1 DEF SetRoundCount, Following, life
<1>10. CASE SetTimeLimit
  <2> DEFINE n == IF timeLimit' > 0 THEN RoundTimeFor(numRounds, timeLimit') ELSE roundTime
  <2>1. timeLimit' \in Nat
    BY <1>10, GameplayAssumption DEF SetTimeLimit
  <2>2. n \in Nat
    BY <1>1, <2>1, RoundTimeForType DEF SettingsType
  <2>3. /\ AdoptRoundTime(n, roundTimer) /\ UNCHANGED roundState
        /\ matchTimer' = Changed(matchTimer, timeLimit')
    BY <1>10 DEF SetTimeLimit, AdoptTimeLimit, life
  <2> HIDE DEF n
  <2>4. matchTimer'.enabled /\ matchTimer'.length = timeLimit'
    BY <1>1, <2>1, <2>3, ChangedLength
  <2>5. QED
    BY <1>8, <2>2, <2>3, <2>4 DEF Following
<1>11. ~ SetRoundTimer /\ ~ AddToRoundTimer
  BY DEF SetRoundTimer, AddToRoundTimer
<1>12. QED
  BY <1>2, <1>3, <1>4, <1>5, <1>6, <1>7, <1>9, <1>10, <1>11 DEF InputNext

\* However settings, levels, scenarios and AllowRoundTimer interleave, the match timer
\* counts down mp_timelimit and the round timer of a round ge_roundtime, as long as
\* nobody sets the time of the current round alone.
THEOREM TimersAlwaysFollowSettings ==
  ASSUME CurrentTimes = {}, Additions = {} PROVE Spec => []TimersFollowSettings
<1>1. IInv /\ Following /\ [Next]_vars => Following'
  <2>1. ASSUME Following, UNCHANGED vars PROVE Following'
    BY <2>1 DEF Following, IsInRound, vars, life, timers, settings
  <2>2. QED
    BY <2>1, ServerFollows, InputFollows DEF Next
<1>2. QED
  BY <1>1, FollowingInit, Inductive, FollowingSuffices, PTL DEF Spec

\* LevelChangedOnce: the thinks that go on until the engine has obeyed neither issue the
\* change again nor postpone it, unless somebody types changelevel with a map.
THEOREM LevelAlwaysChangedOnce ==
  ASSUME Commands \cap {"changelevel", "newlevel"} = {} PROVE Spec => LevelChangedOnce
<1>1. change.state = "issued" /\ [Next]_vars => UNCHANGED change
  <2> SUFFICES ASSUME change.state = "issued", [Next]_vars PROVE UNCHANGED change
    OBVIOUS
  <2>1. FrameEnd(change) = change /\ FrameEnd(SetUp(change)) = change
    BY DEF FrameEnd, SetUp
  <2>2. CASE ServerNext
    BY <2>1, <2>2 DEF ServerNext, Tick, Think, ThinkWith, HeldBackThink
  <2>3. CASE InputNext
    <3>1. ~ChangeLevelCommand /\ ~NewLevel
      BY DEF ChangeLevelCommand, NewLevel
    <3>2. QED
      BY <2>3, <3>1
      DEF InputNext, EndRoundCommand, EndMatchCommand, LoadScenario, AllowRoundTimer, SetRoundTime,
          SetRoundCount, SetTimeLimit, SetTeamplayVar, SetRoundTimer, AddToRoundTimer, Score
  <2>4. CASE UNCHANGED vars
    BY <2>4 DEF vars
  <2>5. QED
    BY <2>2, <2>3, <2>4 DEF Next
<1>2. [Next]_vars => [change.state = "issued" => UNCHANGED change]_vars
  BY <1>1
<1>3. QED
  BY <1>2, PTL DEF Spec, LevelChangedOnce

-----------------------------------------------------------------------------
(* Gameplay implements Match.                                                *)

ScorePair == [round: Int, match: Int]

LEMMA ScoreRecord ==
  ASSUME NEW r \in ScorePair
  PROVE  /\ r = [round |-> r.round, match |-> r.match]
         /\ [r EXCEPT !.round = 0] = [round |-> 0, match |-> r.match]
         /\ [r EXCEPT !.match = @ + r.round] = [round |-> r.round, match |-> r.match + r.round]
<1>1. r = [round |-> r.round, match |-> r.match]
  BY DEF ScorePair
<1>2. [r EXCEPT !.round = 0] = [round |-> 0, match |-> r.match]
  BY DEF ScorePair
<1>3. [r EXCEPT !.match = @ + r.round] = [round |-> r.round, match |-> r.match + r.round]
  BY DEF ScorePair
<1>4. QED
  BY <1>1, <1>2, <1>3

LEMMA ZeroedTwice ==
  ASSUME NEW m PROVE [[round |-> 0, match |-> m] EXCEPT !.round = 0] = [round |-> 0, match |-> m]
  OBVIOUS

LEMMA Phases ==
  /\ Phase["PRE_START"] = "ready" /\ Phase["PLAYING"] = "playing"
  /\ Phase["INTERMISSION"] = "resting" /\ Phase["GAME_OVER"] = "over"
  BY DEF Phase

LEMMA AbstractInit == Init => Abstract!Init
  BY Phases DEF Init, Abstract!Init, Blank, Abstract!NoScore, Scorers, Abstract!Scorers

\* What the board becomes when a round begins, written as Match writes it.
Begun(b, fresh, switched) ==
  [s \in Scorers |->
     [round |-> IF s \in Teams \/ fresh \/ switched THEN 0 ELSE b[s].round,
      match |-> IF s \in Teams /\ switched THEN 0 ELSE b[s].match]]

LEMMA ClearedIsBegun ==
  ASSUME NEW b \in Board
  PROVE  /\ RoundCleared(b, Teams) = Begun(b, FALSE, FALSE)
         /\ RoundCleared(b, Scorers) = Begun(b, TRUE, FALSE)
         /\ RoundCleared(TeamplaySwitched(b), Teams) = Begun(b, FALSE, TRUE)
         /\ RoundCleared(TeamplaySwitched(b), Scorers) = Begun(b, TRUE, TRUE)
<1>1. ASSUME NEW s \in Scorers PROVE b[s] \in ScorePair
  BY DEF Board, ScorePair
<1>2. RoundCleared(b, Teams) = Begun(b, FALSE, FALSE)
  <2>1. ASSUME NEW s \in Scorers
        PROVE  (IF s \in Teams THEN [b[s] EXCEPT !.round = 0] ELSE b[s]) =
               [round |-> IF s \in Teams \/ FALSE \/ FALSE THEN 0 ELSE b[s].round,
                match |-> IF s \in Teams /\ FALSE THEN 0 ELSE b[s].match]
    BY <1>1, ScoreRecord
  <2>2. QED
    BY <2>1 DEF RoundCleared, Begun
<1>3. RoundCleared(b, Scorers) = Begun(b, TRUE, FALSE)
  <2>1. ASSUME NEW s \in Scorers
        PROVE  (IF s \in Scorers THEN [b[s] EXCEPT !.round = 0] ELSE b[s]) =
               [round |-> IF s \in Teams \/ TRUE \/ FALSE THEN 0 ELSE b[s].round,
                match |-> IF s \in Teams /\ FALSE THEN 0 ELSE b[s].match]
    BY <1>1, ScoreRecord
  <2>2. QED
    BY <2>1 DEF RoundCleared, Begun
<1>4. ASSUME NEW who
      PROVE  RoundCleared(TeamplaySwitched(b), who) =
             [s \in Scorers |->
               [round |-> 0, match |-> IF s \in Teams THEN 0 ELSE b[s].match]]
  <2>1. ASSUME NEW s \in Scorers
        PROVE  TeamplaySwitched(b)[s] =
               [round |-> 0, match |-> IF s \in Teams THEN 0 ELSE b[s].match]
    BY <1>1, ScoreRecord DEF TeamplaySwitched
  <2>2. ASSUME NEW s \in Scorers
        PROVE  [TeamplaySwitched(b)[s] EXCEPT !.round = 0] = TeamplaySwitched(b)[s]
    BY <2>1, ZeroedTwice, Zenon
  <2>3. QED
    BY <2>1, <2>2 DEF RoundCleared
<1>5. ASSUME NEW fresh \in BOOLEAN
      PROVE  Begun(b, fresh, TRUE) =
             [s \in Scorers |->
               [round |-> 0, match |-> IF s \in Teams THEN 0 ELSE b[s].match]]
  BY DEF Begun
<1>6. QED
  BY <1>2, <1>3, <1>4, <1>5

LEMMA StartRoundBegins ==
  ASSUME IInv, StartRound, ~gameOver, roundState \in {"PRE_START", "INTERMISSION"}
  PROVE  Abstract!BeginRound
<1>1. \E fresh, switched \in BOOLEAN : board' = Begun(board, fresh, switched)
  <2>1. \/ board' = RoundCleared(board, Teams)
        \/ board' = RoundCleared(board, Scorers)
        \/ board' = RoundCleared(TeamplaySwitched(board), Teams)
        \/ board' = RoundCleared(TeamplaySwitched(board), Scorers)
    BY DEF StartRound
  <2>2. board \in Board
    BY DEF IInv, BoardType
  <2>3. QED
    BY <2>1, <2>2, ClearedIsBegun
<1>2. Phase[roundState] \in {"ready", "resting"} /\ Phase[roundState'] = "playing"
  BY Phases DEF StartRound
<1>3. gameOver' = gameOver
  BY DEF StartRound
<1>4. QED
  BY <1>1, <1>2, <1>3 DEF Abstract!BeginRound, Begun, Scorers, Abstract!Scorers

LEMMA BankedIsAbstract ==
  ASSUME NEW b \in Board
  PROVE  Banked(b) = [s \in Scorers |-> [round |-> b[s].round, match |-> b[s].match + b[s].round]]
<1>1. ASSUME NEW s \in Scorers
      PROVE  [b[s] EXCEPT !.match = @ + b[s].round] =
             [round |-> b[s].round, match |-> b[s].match + b[s].round]
  BY ScoreRecord DEF Board, ScorePair
<1>2. QED
  BY <1>1 DEF Banked

LEMMA EndRoundEnds ==
  ASSUME IInv, NEW report \in BOOLEAN, EndRound(report), gameOver' \in {gameOver, TRUE}
  PROVE  Abstract!EndRound
<1>1. Phase[roundState] = "playing" /\ Phase[roundState'] = "resting"
  BY Phases DEF EndRound, IsInRound
<1>2. board' = [s \in Scorers |-> [round |-> board[s].round,
                                   match |-> board[s].match + board[s].round]]
  BY BankedIsAbstract DEF EndRound, BankRound, IInv, BoardType
<1>3. QED
  BY <1>1, <1>2 DEF Abstract!EndRound, Scorers, Abstract!Scorers

LEMMA EndMatchEnds ==
  ASSUME IInv, EndMatch, roundState # "GAME_OVER"
  PROVE  Abstract!EndRound \/ Abstract!EndMatch
<1>1. gameOver' = TRUE
  BY DEF EndMatch
<1>2. CASE EndRound(TRUE)
  BY <1>1, <1>2, EndRoundEnds
<1>3. CASE IsInRound /\ BankRound /\ FinalIntermission
  <2>1. Phase[roundState] = "playing" /\ Phase[roundState'] = "over"
    BY <1>3, Phases DEF IsInRound, FinalIntermission
  <2>2. board' = [s \in Scorers |-> [round |-> board[s].round,
                                     match |-> board[s].match + board[s].round]]
    BY <1>3, BankedIsAbstract DEF BankRound, IInv, BoardType
  <2>3. QED
    BY <1>1, <2>1, <2>2 DEF Abstract!EndRound, Scorers, Abstract!Scorers
<1>4. CASE ~IsInRound /\ FinalIntermission /\ UNCHANGED <<roundTimer, board>>
  <2>1. Phase[roundState] \in {"ready", "resting"} /\ Phase[roundState'] = "over"
    BY <1>4, Phases DEF IsInRound, FinalIntermission, IInv, LifeType, RoundStates
  <2>2. QED
    BY <1>1, <1>4, <2>1 DEF Abstract!EndMatch
<1>5. QED
  BY <1>2, <1>3, <1>4 DEF EndMatch

LEMMA StartMatchReloads == ASSUME NEW values, StartMatch(values) PROVE Abstract!Reload
  BY Phases DEF StartMatch, ResetState, OnMatchStart, Abstract!Reload, Blank, Abstract!NoScore, Scorers, Abstract!Scorers

\* The steps that Match does not see.
LEMMA Stutters ==
  ASSUME UNCHANGED <<roundState, gameOver, board>> PROVE UNCHANGED Abstract!vars
  BY DEF Abstract!vars

LEMMA ThinkMaps == ASSUME IInv, Think PROVE [Abstract!Next]_Abstract!vars
<1>1. CASE roundState = "PRE_START" /\ StartRound
  BY <1>1, StartRoundBegins DEF IInv, Lifecycle, Abstract!Next
<1>2. ASSUME NEW m \in Answers, ThinkBetweenRounds(m) PROVE Abstract!Next
  <2>1. CASE EndMatch
    BY <1>2, <2>1, EndMatchEnds DEF ThinkBetweenRounds, Abstract!Next
  <2>2. CASE ~ShouldEndMatch(TRUE, m) /\ StartRound
    BY <1>2, <2>2, StartRoundBegins DEF ThinkBetweenRounds, ShouldEndMatch, Abstract!Next
  <2>3. QED
    BY <1>2, <2>1, <2>2 DEF ThinkBetweenRounds
<1>3. ASSUME NEW r \in Answers, NEW m \in Answers, ThinkInRound(r, m)
      PROVE  [Abstract!Next]_Abstract!vars
  <2>1. CASE EndMatch
    BY <1>3, <2>1, EndMatchEnds DEF ThinkInRound, IsInRound, Abstract!Next
  <2>2. CASE EndRound(TRUE) /\ UNCHANGED gameOver
    BY <2>2, EndRoundEnds DEF Abstract!Next
  <2>3. CASE UNCHANGED <<life, timers, settings, teamplay, board>>
    BY <2>3, Stutters DEF life
  <2>4. QED
    BY <1>3, <2>1, <2>2, <2>3 DEF ThinkInRound
<1>4. CASE ThinkIdle
  BY <1>4, Stutters DEF ThinkIdle, life
<1>5. QED
  BY <1>1, <1>2, <1>3, <1>4 DEF Think, ThinkWith

LEMMA InputMaps == ASSUME IInv, InputNext PROVE [Abstract!Next]_Abstract!vars
<1>1. CASE EndRoundCommand
  BY <1>1, EndRoundEnds DEF EndRoundCommand, Abstract!Next
<1>2. CASE EndMatchCommand
  BY <1>2, EndMatchEnds DEF EndMatchCommand, IInv, Lifecycle, Abstract!Next
<1>3. CASE LoadScenario \/ NewLevel
  BY <1>3, StartMatchReloads DEF LoadScenario, NewLevel, StartLevel, Abstract!Next
<1>4. CASE Score
  BY <1>4 DEF Score, Scored, Scorers, Abstract!Scorers, Abstract!Score, Abstract!Next, life
<1>5. CASE \/ ChangeLevelCommand \/ AllowRoundTimer \/ SetRoundTime \/ SetRoundCount
           \/ SetTimeLimit \/ SetTeamplayVar \/ SetRoundTimer \/ AddToRoundTimer
  <2>1. UNCHANGED <<life, board>>
    BY <1>5 DEF ChangeLevelCommand, AllowRoundTimer, SetRoundTime, SetRoundCount,
                SetTimeLimit, SetTeamplayVar, SetRoundTimer, AddToRoundTimer
  <2>2. QED
    BY <2>1, Stutters DEF life
<1>6. QED
  BY <1>1, <1>2, <1>3, <1>4, <1>5 DEF InputNext

LEMMA StepMaps == IInv /\ [Next]_vars => [Abstract!Next]_Abstract!vars
<1> SUFFICES ASSUME IInv, [Next]_vars PROVE [Abstract!Next]_Abstract!vars
  OBVIOUS
<1>1. CASE Tick \/ HeldBackThink \/ UNCHANGED vars
  BY <1>1, Stutters DEF Tick, HeldBackThink, vars, life
<1>2. QED
  BY <1>1, ThinkMaps, InputMaps DEF Next, ServerNext

\* The match keeps the promise of the abstract one: points are banked once per
\* round, whoever ends it, and no round begins once the match is final.
THEOREM GameplayImplementsMatch == Spec => ImplementsMatch
  BY Inductive, AbstractInit, StepMaps, PTL DEF Spec, ImplementsMatch, Abstract!Spec
=============================================================================
