# GoldenEye: Source, the match server: specification

TLA+ modules, TLC runs and TLAPS proofs about the server code of GoldenEye: Source
(`src/game/ges`). All paths below are relative to that directory unless they start
with `src/`.

## 1. The system

The mod is a multiplayer game on the Source engine. The engine calls the server DLL once
per frame and for every console command and event, all on one thread. What can go wrong is
therefore not a data race; it is the order of frames, commands, callbacks of settings,
answers of the Python scenario, and seconds that pass in between.

| Part | State | Operations | Talks to | Correct when |
|---|---|---|---|---|
| **Game timer** `shared/ge_game_timer.*` | enabled, started, paused, length, end time, pause rest | enable, disable, start, stop, pause, resume, three changes of length | read by rules, HUD, scenarios | pauses cost no time, a change keeps the time spent, flags agree |
| **Gameplay manager** `server/mp/ge_gameplay.*` | round state, game over, round count, end of the intermission, scenario | `OnThink`, `StartRound`, `EndRound`, `EndMatch`, `LoadScenario`, commands | asks the scenario; fires `GP_EVENT`s at the rules; reads the timers | a match ends once, no round after its end, it does end |
| **Game rules: clocks, settings, level change** `shared/mp/gemp_gamerules.*` | match and round timer, `ge_roundtime`, `ge_roundcount`, `mp_timelimit`, time of the level change | callbacks of the settings, listeners of the events, `Think`, `SetupChangeLevel`, `ChangeLevel` | drives the manager; commands the engine | timers follow the settings; the level changes once |
| **Scores** `server/mp/gemp_player.h`, teams | round and match score of players and teams | score, bank at the end of a round, reset, switch of teamplay | rules, scenarios | points are counted exactly once |
| **Votekick** rules | target, voters, count, goal, deadline | `!gevotekick`, `!voodoo`, join, leave, rename, expiry | chat, engine's `banid` | a kick needs the share of those present, one vote each; a vote ends |
| **Token manager** `server/mp/ge_tokenmanager.*`, `server/mp/ge_spawner.*`, `server/ent_capturearea.*` | per type of token: limit, tokens, spawners taken over; per group: capture areas, the time of the next attempt | define, spawn, remove, enforce four times a second; spawners think, are enabled and disabled by the map; tokens are picked up, dropped, used up | spawners, players, scenarios, rounds | tokens converge to the limit and never exceed it; lists and spawners agree; areas share no place |
| **Teams** rules, `server/mp/gemp_player.cpp` | team of each player, choice of a character, balance warning | `ChangeTeam`, `SetPlayerModel`, `EnforceTeamplay`, `BalanceTeams` | scenario may refuse | frames never make teams less even; they become even; nobody is moved unwarned |
| **Bot quota** rules | list of bots, kicks under way, threshold | `EnforceBotCount`, `ge_bot`, `ge_bot_remove`, the callback of the threshold | engine adds and kicks, teams | the list is exact; settles at the threshold, leaves the open slots |
| **Round winners** rules | none (a function of the scores) | `GetRoundWinner`, `GetRoundTeamWinner` | round reports | best score, then fewest deaths, else a tie |
| **Map rotation** `server/mp/ge_mapmanager.*`, rules | `nextlevel`, `ge_nextnextmap`, the level announced, recent maps and their record in a file | choose, announce, `changelevel`, transition map, a new level | match, level change, engine | what is announced is played; nobody stays on the transition on the way to a map; the record survives it |
| **Doors** `server/ge_door.*`, `src/game/sdk/server/doors.cpp` | of each door: direction, place, uses, last activator, lock, wait | use, touch, inputs of the map, obstacles, move, return | partners, players | partners agree, the last reports, only who moved it turns it, it comes to rest |
| Loadouts, spawners, radar, web requests, players and weapons, other map entities, bots' AI, Python glue, client | see `PROJECT.json` | | | not modelled (section 8) |

The hard behaviours are: a match whose end is decided in one frame and carried out many
seconds later, after commands and settings may have changed everything it was decided
from; a think function that repeats a request every tenth of a second until the engine has
obeyed; timers stopped by an event, and changed by settings while they are stopped; and
callbacks that set other settings, whose callbacks run in turn. `PROJECT.json` lists each
one under "hazards", with its line.

## 2. The modules

```
Countdown  <--implements--  GameTimer  --extends-->  Timer  <--extends--  Gameplay  --implements-->  Match
                                                                  Scores  <--extends--+

Ballot  <--implements--  Votekick        TokenPool  <--implements--  Tokens        CaptureAreas

Teams  <--extends--  BotQuota            Rotation            Doors
```

* **Timer** has the operations of `CGEGameTimer` on a record of its fields, one operator per
  method, and no variables.
* **GameTimer** runs one timer against `gpGlobals->curtime`. Its abstract specification is
  **Countdown**: a mode, the seconds shown and the length, and nothing of end times.
* **Scores** has the score board and what the rules do to all of it.
* **Gameplay** composes the manager, the two timers, the settings, the scores and the level
  change. Its abstract specification is **Match**: a series of rounds whose points are
  banked once, and a point of no return. `Phase` maps the round states to Match's.
* **Votekick** has the vote, the players as they arrive and leave, and what is known of
  them. It shares no state with Gameplay and stands beside it. Its abstract specification
  is **Ballot**: votes come and go one by one and are decided when they suffice.
* **Tokens** has the token manager with its lists, the spawners it takes over and the token
  entities, as players, the map and the scenario treat them. Its abstract specification
  is **TokenPool**: sets of tokens with limits no token may enter beyond.
* **CaptureAreas** has the other half of the token manager: groups of areas, the places they
  compete for, and the attempts to place them. Where tokens lie is a constant there: nothing
  else of Tokens is read.
* **Teams** has the teams and their balance, and no Next of its own; **BotQuota** adds the
  bots and composes both: frames, players and administrators in any order.
* **Rotation** has the way from map to map. It keeps of a match only the stages that
  Match distinguishes once it is final, and of the level change whether it waits for its
  delay; Gameplay has both in full, without the names of the maps.
* **Doors** has the doors of a map, their partners, and who uses, touches, commands and blocks
  them. It stands by itself: nothing of the match reads a door.
* **MCGameTimer**, **MCGameplay**, **MCVotekick**, **MCTokens**, **MCCaptureAreas**,
  **MCBotQuota**, **MCRotation**, **MCDoors** give values to constants for TLC.
* **GameTimerProofs**, **GameplayProofs**, **VotekickProofs**, **TokensProofs**,
  **CaptureAreasProofs**, **BotQuotaProofs**, **RotationProofs**, **DoorsProofs** hold lemmas and
  theorems, each about the module it extends.

Definitions named `Broken ...` in their comment are faulty variants of the code: each
property has been seen to fail when one of them takes the place of the real definition
(the "mutants" of `PROJECT.json`).

### How state and actions correspond to the code

| Gameplay | Code |
|---|---|
| `roundState`, `gameOver`, `roundCount`, `intermission` | `m_iRoundState`, `m_bGameOver`, `m_iRoundCount`, `GetRemainingIntermission()` |
| `matchTimer`, `roundTimer` | `m_hMatchTimer`, `m_hRoundTimer` |
| `change` | `m_flChangeLevelTime`: zero, a time to come, or moved 9999 s away after `ChangeLevel` |
| `roundTime`, `numRounds`, `timeLimit` | `ge_roundtime`, `ge_roundcount`, `mp_timelimit` in seconds |
| `teamplay` | `ge_teamplay` and `m_bTeamPlayDesired` |
| `Think` | one `CGEMPRules::Think`: `OnThink` of the manager with all events it fires, then the level change |
| `HeldBackThink` | a frame within 0.1 s of the last think of the manager |
| `EndRoundCommand`, `EndMatchCommand`, `ChangeLevelCommand`, `LoadScenario` | `ge_endround`, `ge_endmatch` and `EndMatch` of a scenario, `changelevel`, `ge_gameplay` and `ge_gameplayreload` |
| `SetRoundTime`, `SetRoundCount`, `SetTimeLimit`, `SetTeamplayVar` | the settings and their callbacks, nested ones included |
| `AllowRoundTimer`, `SetRoundTimer`, `AddToRoundTimer`, `Score` | calls of the scenario and the console |
| `NewLevel` | the engine loads the level: new rules, new timers, new match |

| Votekick | Code |
|---|---|
| `present`, `active` | those `FOR_EACH_MPPLAYER` finds, and those whose `ClientActive` has run |
| `known` | players with `m_iSteamIDHash` set: `PreThink` needs the status lists for it, and bots never get one |
| `vote` | `m_pKickTargetID`, `m_iVoteCount`, `m_iVoteGoal`, `m_vVoterIDs`, `m_flVoteFrac`, `m_flKickEndTime`; `state` is how the vote stands |
| `since`, `lastCaller` | `m_flLastKickCall`, `m_pLastKickCaller` (`"freed"` when it dangles) |
| `ClientPutInServer`, `ClientActive`, `ClientDisconnected` | the callbacks of the engine of these names |
| `CallVote`, `Agree` | `!gevotekick` and `!gevotekickid`; `!voodoo` |
| `ChangeName`, `Expire`, `LearnSteamHash` | `ClientSettingsChanged`; the last part of `Think`; `PreThink` |

| Tokens | Code |
|---|---|
| `defined`, `limit`; `known`; `spawners`, `lost` | `m_vTokenTypes` with `iLimit`; `vTokens`; `vSpawners`, whose spawners that were freed are `lost` handles |
| `override`, `item`, `disabled` | `m_szOverrideEntity`, `m_hCurrentEntity`, `m_bDisabled` of a spawner |
| `type`, `place` | a token entity: its class; at a spawner, held, dropped, marked for deletion, free |
| `SetupToken`, `RemoveTokenDef`, `RemoveTokenEnt`, `ResetManager` | the calls of scenarios |
| `Enforce` | `EnforceTokens`: the definitions in order, `RemoveTokens` and `SpawnTokens` of each |
| `SpawnerThink`, `Disable`, `Enable` | `CGESpawner::Think`, `OnDisabled`, `OnEnabled` |
| `Pickup`, `Drop`, `Expire` | `CGEWeapon::Equip`, `Drop`, and its removal some time after |
| `FrameEnd`; `EndRound`, `NewRound` | the engine frees what is marked; the round state and `WorldReload` |

| CaptureAreas | Code |
|---|---|
| `defined`; `limit`, `dirty`, `areas`; `retry` | the entries of `m_vCaptureAreas`, which `FOR_EACH_DICT` visits; `iLimit`, `bDirty`, `vAreas` of a group; `m_flNextCapSpawn` of all |
| `SetupCaptureArea`, `RemoveCaptureAreaDef`, `ResetManager`, `Toggle` | the calls of scenarios; the map's switches of spawners |
| `Enforce`, `NewRound`, `Tick` | the second half of `EnforceTokens`; a round spawns all anew; `m_flNextCapSpawn` passes |
| `Find`, `Filter`, `Failsafe` | `FindSpawnersForCapArea` with its filter and its last resort |

| Teams, BotQuota | Code |
|---|---|
| `team`, `choosing`, `slowed` | `GetTeamNumber()`, `m_bPreSpawn`, `m_flNextTeamChangeTime`; `"new"` is `TEAM_UNASSIGNED` on no team's list, where a player is left whom the scenario does not let watch when he arrives |
| `inBalance`, `due` | `m_bInTeamBalance`; whether `BalanceTeams` passes its settings and clocks |
| `botList`, `kicked`, `threshold` | `m_vBotList`; bots with a `kickid` under way; `ge_bot_threshold` |
| `EnforceTeamplay` | the function of this name with `BalanceTeams`, once per frame |
| `JoinTeam`, `Select`, `MayChangeTeam` | `ChangeTeam` for whoever asks; the choice of a character; the waiting time passes |
| `ClientPutInServer`, `ClientDisconnected`, `BotsPutInServer` | the engine's callbacks |
| `EnforceBotCount`, `BotKicked`, `BotCommand`, `BotRemoveCommand`, `SetThreshold` | the bot quota, the engine's kick, `ge_bot`, `ge_bot_remove`, the threshold's callback |

| Rotation | Code |
|---|---|
| `nextlevel`, `nextnextmap`, `target`, `announced` | `nextlevel`, `ge_nextnextmap`, `m_szNextLevel`, the map of the last `server_mapannounce` |
| `change` | `m_flChangeLevelTime`: zero, to come, past, or moved away though the engine has not obeyed |
| `Maps`, `CustomMaps`, `Missing`, `Unknown` | installed with a script, without one; scripts of maps that are not installed; other names |
| `recents`, `record` | `m_pRecentMaps` as far as `GetRecentMaps` reads it; `gamesetuprecord.txt` |
| `Choices`, `Viable`, `Bearable`, `Others` | `SelectNewMap` and the steps of `GetViableMapList` |
| `SetUp`, `Announce` | `SetupChangeLevel` |
| `ThinkFinal`, `Delay`, `ChangeLevel`, `StartLevel` | the think of the final intermission, `GE_CHANGELEVEL_DELAY`, `ChangeLevel` and the engine's command, `LevelInitPreEntity` |
| `MatchEnds`, `IntermissionEnds`, `LoadScenario` | what Gameplay does in full |
| `EndMatchCommand`, `ChangeLevelCommand`, `SetNextLevel` | `ge_endmatch` and `changelevel`, `changelevel` at once, `nextlevel` set by hand |

| Doors | Code |
|---|---|
| `state`, `pos`, `timer` of a door | `m_toggle_state`; how far it is; the wait of `DoorHitTop` in `m_flMoveDoneTime`, which `Return` sets |
| `uses`, `last`, `since` | `m_iCurrentUses`, `m_pLastActivator`, the time since `m_flStartMoveTime` |
| `locked`, `deaf`; `Partners` | `m_bLocked`; doors without a touch function; `BuildPartnerList` |
| `reports`, `mover` | who fires `OnAllPartnersOpened` or `Closed` in this step; who set a door in motion |
| `MayUse`, `Counted`, `Use`, `Touch` | `CheckUse` with its conditions and its effects, `Use`, `DoorTouch` |
| `SentGroup`, `Sent`, `Arrived` | `DoorGroupGoUp` and `DoorGroupGoDown`, `DoorGoUp` and `DoorGoDown`, the end of `MoveThink` with `DoorHitTop` and `DoorHitBottom` |
| `InputOpen` and the other inputs, `InputLock` | the inputs of these names; `Lock` and `Unlock` |
| `Tick`, `Blocked` | a quarter of a second of `MoveThink` of every door, in the engine's order; one in which a door is blocked |
| `Fired` | `CheckPartnerPosistions` of each door that arrives, which sees the partners as far as they have been handled |

Abstractions:

* The target of a vote is a network ID; all bots share one. A Steam hash names its player;
  collisions are left out. The text of a call that finds no player has no effect.
* `ge_votekickpreference` and the option for names (`iAlertCode & 16`) are on. The `banid`
  command reaches the engine, which disconnects the target some time: like anybody, at any time.
* A vote that is over forgets its voters and share: the next call sets them before it reads them.
* In the votekick, too, seconds are relative to the present.
* Time is whole seconds. In Gameplay it is relative to the present: `Tick` brings every
  deadline one second closer, so the states are finite without a last instant.
* Nothing in the code calls `SetRoundTimerPaused` or `SetMatchTimerPaused`. Gameplay's
  timers are therefore never paused; GameTimer covers pauses.
* `roundCount` counts up to 2; the code only asks whether it is above 1.
* `CanRoundEnd` and `CanMatchEnd` answer anything if `ScenarioMayBlock`, else yes.
  `OnRoundBegin` clears the players' round scores or does not; a scenario's teamplay mode
  is a choice (`toggles`) at each round.
* `ge_rounddelay`, `mp_chattime` and `ge_autoteam` are constants of an instance. How many
  are connected is not modelled: `ge_autoteam` may decide either way each round.
* The rule that a round lasts at least 60 seconds is in release builds only
  (`gemp_gamerules.cpp:138`) and is the one modelled.
* A level change that the engine does not obey is repeated 2.7 hours later; this is left out.
* Scenario hooks do not call back into the manager (section 8).
* Tokens: the order of lists and the random choice of spawners are left open. What a spawner
  that is not taken over holds, where tokens lie, how they look and their ammunition is left
  out. A type a scenario removes again (`Temporary`) is modelled, and excluded
  from the properties that the code does not keep for it (section 4).
* Teams: `EnforceTeamplay` changes the list of a team while it walks it by index. Which players
  it reaches is characterised by `Walked`: whoever follows one who leaves is skipped, so that, over all
  orders of the list, at least half of those who would leave do, and who leaves is
  separated from the next by one who stays. `due` covers the settings of the balancer, the
  tournament, the clocks and `m_flNextTeamBalance`. Bots are told apart, though the code kicks by name;
  the time between two checks of the bots is left open; the level has enough AI nodes.
* Rotation: the choice keeps which maps suit a number of players and drops their weights, a
  positive weight that rounds to none included. `__real_changelevel` is the next command the
  engine obeys. Administrators ask neither for the transition nor set `ge_nextnextmap`. The
  transition itself is small.
* Doors: a quarter of a second moves a door by one unit, and `CheckUse` only asks for a quarter
  and for a whole second. Acceleration, the sense in which a rotating door opens, damage by
  doors, sounds, area portals and the outputs that depend on one door alone are left out; so are
  door groups by name (`m_bDoorGroup`). Weapons and mines that block a door are obstacles like any other.
  The partners of a door never change (`SetPartner` has no caller), and doors of a group name each other.

## 3. The runs

| Run | Question | States |
|---|---|---|
| `game_timer` | Does a timer implement the abstract countdown under every sequence of operations? | 917 |
| `game_timer_shorten` | The unit test's expectation of a shortened timer: violated | |
| `gameplay` | Do flags agree, do the timers follow the settings; does a match that is over change the level, once, and does a server left to itself in any state get there? | 114 thousand |
| `gameplay_scores` | Are points counted once, with scores, teamplay, timers set for a round and new levels? | 718 thousand |
| `votekick` | Do votes, voters, goal and players agree, and is each vote decided when it can be? | 187 thousand |
| `votekick_twice` | "Make sure they can't vote again": violated | |
| `tokens` | Do lists, spawners and world agree, is no limit exceeded, do tokens come back? | 164 thousand |
| `capture_areas` | Do limits hold, are places shared out, do areas stay, is no shortage forgotten, do the areas settle? | 192 thousand |
| `bot_quota` | Do frames only even teams out, and do teams and bots settle? | 200 thousand |
| `rotation` | Is what is announced played, what is played announced, and is the record kept, with transitions, wishes, overridden changes, maps that are not installed and names of no map? | 77 thousand |
| `doors` | Do partners agree and report, does a used door come to rest, does a returning door close? | 79 thousand |
| `doors_locked` | "How many times the door can be activated mid-motion": violated | |

What the properties say:

* `FieldsAgree`, `CountsDown` (GameTimer): no residue of an old countdown, and the refinement of
  Countdown.
* `Lifecycle`: `m_bGameOver`, the round state, the round count and the intermission time fit
  together. It excludes in particular a round that starts with the match over, and
  intermission time left over into a round.
* `ImplementsMatch`: Gameplay refines Match: points are counted once, and no round begins once the
  match is final. TLC checks it with the inputs of `gameplay_scores`; for all inputs it is proved.
* `TimersFollowSettings`: the match timer is `mp_timelimit`, the round timer in a round is
  `ge_roundtime` if the scenario allows it, however settings, `AllowRoundTimer`, scenario
  loads and levels interleave.
* `Tally`, `GoalTracksPlayers` (Votekick): the count is the number of voters listed, and the
  goal is between the share of those who have arrived and of those on their way as well.
* `ImplementsBallot`: a vote is decided at the step that makes the votes enough. This is a
  statement about `ClientActive`, which changes the goal and does not check, and about the
  check at the deadline, which never finds enough votes.
* `VoteEnds`: a vote ends, though players come and go for ever.
* `LevelChangedOnce`, `GameOverChangesLevel`, `IntermissionEnds`,
  `UnattendedMatchEnds`: what must happen, and happen once. A server is unattended from the
  moment on when only time, frames and a scenario that does not object are left.
* `HoldersAgree`, `SpawnersServeOneType`, `OverridesListed`, `TokensKnown` (Tokens): what lies at a
  spawner is known to exactly one; a spawner on a list serves that type; no override is
  forgotten; no token is unknown to the manager.
* `ImplementsPool`: no token enters beyond the limit, though the manager compares the limit
  with spawners and spawns by tokens. `TokensReturn`: left to itself in a round, the manager
  gets every type as many as its limit or its spawners allow.
* `AreasWithinLimit`, `PlacesShared`, `ShortageRetried`, `AreasStay`, `AreasSettle` (CaptureAreas):
  three kinds of places add up to the limit, no place is given twice, a group that lacks areas is
  not given up for another that does not, areas stay where they are while other groups change,
  unless a shortage is retried, and with places enough every group gets its areas and keeps them: the
  retry comes to an end, or nothing is defined any more that it would place.
* `FramesEvenTeams` (Teams): no frame makes teams less even than they were or need be, and
  none takes a player to the other team unwarned or from even teams. `TeamsFollowMode`,
  `TeamsEvenOut`, `BotsFollowThreshold` (BotQuota): where teams and bots settle once nobody acts.
* `TransitionGoesOn`, `AnnouncedIsPlayed`, `LevelsAsAnnounced`, `HistoryKept` (Rotation): whoever
  is on the transition while a map the server has is announced is on the way there; what players are told is played, or what they are told instead; the level
  that starts is the one they were told last or the transition to it, and never too large after the
  level it leaves; a new level remembers what the last one did, through a transition.
* `PartnersInSync`, `UnlockedRestFresh`, `LastDoorReports`, `OnlyMoverTurns` (Doors): doors of a
  group go the same way whichever of them is moved, though they may be at different places; an arrival
  leaves a door all its uses; whichever door of a group arrives last, one of them reports; whoever
  sets doors in motion has a second in which nobody else turns them, at any door of the group, where
  only uses move them and none is locked.
* `ComesToRest`, `ReturnsShut`: players who press use at a door for ever do not keep it moving for
  ever, and a door that returns after a positive wait closes once it is left alone.

The types are an invariant of the runs `gameplay` and `bot_quota`; those of the other
modules are proved for every value of the constants (section 5).

### Bounds, and why they are enough

* Lengths 0 to 4 or so, with 0 and a negative one, cover every order of lengths, time spent
  and adjustments: the code only compares and subtracts them. `MinRoundTime` and
  `MaxRoundTime` lie inside the values asked for, so both clamps take effect. `EndWindow`,
  the delays and the limits are scaled down and keep the order relations that matter:
  time limits below, at and above a round and its intermission.
* `MaxOverrun`: how long ago a timer ran out matters to a later change of length only up to
  the largest change. The assumption of Gameplay states it.
* `MaxLength` bounds what `ge_addtoroundtime` builds up (the code has no bound), `MaxTime`
  the clock of GameTimer, `MaxScore` and `Fits` the scores.
* One player and one team are enough for the scores: no operation of Scores relates two
  scorers, and players and teams differ only from each other.
* Three people and a bot are enough for a target, a caller, another voter and somebody
  without a hash; the shares 0, 350 and 700 give goals of 0 to 3 for up to four players.
  `MinPlayers` is 3 instead of 4, the delays 1 and 2 seconds: only their order matters.
* `Commands` selects the inputs of a run. `gameplay` has the settings and what happens to a match, and
  leaves out what moves a level change under way (an administrator who types `changelevel` for
  ever can postpone it for ever), and `ge_setcurrentroundtime` and `ge_addtoroundtime`, whose purpose
  is to leave the setting that `TimersFollowSettings` compares with. `gameplay_scores` has these,
  maps asked for, new levels, and what touches scores. What `gameplay` then says of levels that
  follow each other is proved (`LifecycleAlways`, `TimersAlwaysFollowSettings`).
* Tokens: a type with the limit 2 and one with the limit 1 that comes and goes, two spawners and
  two entities: enough for a type that takes the spawner another had, for fewer spawners than the
  limits ask for, for lists with a spawner too many, and for entities that run out.
* CaptureAreas: two groups with limits 0 to 2, two spawners of their own, one of which
  starts disabled and lies near a player's, and another of players near a token: the failsafe is
  used besides both, and the groups compete for all of them.
* BotQuota: two humans, one of whom the scenario may refuse whatever he asks for, on arrival too, two bots, four slots, one of
  them open, thresholds 0 and 3. Four clients give differences up to four, at which the balancer
  overshoots.
* Rotation: five maps, two so large that they need the transition on both sides and must not
  follow each other, a script of a third such map that is not installed, one map without a script, one
  name of no map, and a record of two. Of three numbers of players one suits all maps, one only the
  large ones, one none. Administrators ask for a small map, a large one and one without a
  script, at any time; `nextlevel` may also be a map, the script alone, or no name at all.
* Doors: two partners of lengths 3 and 2, a limit of 2 uses, two players, and a third door of length 1.
  The partners arrive at different times, and get further apart when something blocks them: one yields
  to an obstacle and the other pushes on. With length 3 a door can be turned back and forth on its way. The third has what the first two lack: it returns by
  itself after a wait of half a second, in which it can be touched, commanded and locked. The limit is reached on the way, and both times that
  `CheckUse` asks for pass in the middle of a move and after it.

The server never stops, and deadlock is checked in every run.

### Fairness

`LiveSpec` adds weak fairness of `Tick` (time passes) and `Think` (a frame comes that is not
held back): the engine runs frames as long as the server is up, and the manager holds a frame
back for a tenth of a second at most. No fairness is assumed of commands,
settings or scenarios, nor that the engine obeys the level change. The votekick's is
that of `Tick` and `Expire`, which every frame runs; nobody has to vote. Tokens has weak
fairness of `Enforce` and strong fairness of each `SpawnerThink` (every spawner thinks twice a
second; that an entity slot is free may come and go); CaptureAreas that of `Tick` and
`Enforce`; BotQuota that of the frames that enforce teams and bots, of the waiting
times that pass and of the engine's kicks, and `QuietSpec`, with which the run checks, adds that from some
  moment on only these happen (TLC reaches all states all the same, and checks the safety
  properties in each); Rotation that of frames, of the delay, and of the
engine, which obeys a command for a map it has. Doors has weak fairness of `Tick`: frames go on,
and what stands in the way goes away some time. Players, scenarios, maps and
administrators owe nothing: where a property needs them to rest, its statement says so.

## 4. What the checks found

Three statements in the repository do not describe the code (`PROJECT.json`, "findings"):

1. `ChangeLength` to less than the time spent **restarts** the timer with the new length.
   The unit test `ChangeTimerLengthLess` expects no time to be left.
2. "Make sure they can't vote again": a voter is listed by its Steam hash, which is 0 until
   the status lists have come from the web. Who votes before is not recognised later, and
   while 0 is listed no other player without a hash can vote.
3. A use of a **locked** door counts (`ge_door.cpp:509`), and only an arrival resets the count. Tried
   `m_iUseLimit` times, a locked door and its partners refuse uses at rest after it has been
   unlocked. The limit is documented as one on uses "mid-motion" (`ge_door.h:25`).

Worth knowing, though no document rules it out, or none that is more than a comment:

* A round timer that is stopped in an intermission ("timer inactive", `ge_gameplay.h:215`) is started
  by a change of a setting or by `AllowRoundTimer`; `StartRound` starts it anew, so no round is harmed.
* `ge_roundcount 1` gives two rounds above 50 minutes, the maximum of `ge_roundtime`.
* When the share of those who remain rounds to zero, a departure bans the target without a
  vote (`gemp_gamerules.cpp:1235`).
* A spawner learns of a pickup in its next think. Disabled in between, it removes the token
  from the player's hands (`ge_spawner.cpp:301`).
* `RemoveTokenDef` gives back only the spawners above the limit. The others keep the override
  until the round ends, without a limit and without a list (`ge_tokenmanager.cpp:126`).
* The failsafe for capture areas accepts a place near one of the places taken if it is far from
  another (`ge_tokenmanager.cpp:861`).
* The balancer moves one player less than the difference: with four or more it overshoots, but
  the difference still falls (`TeamsEvenOut`). Held off by a setting or a clock it remembers
  its warning, and moves players much later without a new one. The 30 seconds it
  means to wait when nobody can be moved are overwritten with 15 (`gemp_gamerules.cpp:1898`).
* `ChangeTeam` ends the choice of a character before the scenario may refuse the team
  (`gemp_player.cpp:758`). Bots are kicked by name, of which two may be equal (`gemp_gamerules.cpp:1806`).
* A level that finds `ge_nextnextmap` and needs the transition for it has `SetupChangeLevel` set it
  anew, and clears it right after (`gemp_gamerules.cpp:1053`): the transition then leads nowhere. Usually
  the transition is the level that finds it, and goes on. An administrator who overrides a
  change through the transition, within its second of delay, makes another level find it. The run
  has this; `TransitionGoesOn` and `AnnouncedIsPlayed` are about servers to which it does not happen
  (`Straight`), the other two properties hold in any case.
* The map manager chooses, and commands ask for, installed maps only (`ge_mapmanager.cpp:505`); `nextlevel`
  is not checked (`gemp_gamerules.cpp:1290`). With the name of a large map of which the server has
  only the script it leads to the transition, where `ge_nextnextmap` fails the test of
  `gemp_gamerules.cpp:1049`: players stay on the transition until a match there is over, and
  the name is left over until the next change that needs the transition sets it anew.
* A door with auto-return and a wait of 0 opens for good. `SetMoveDoneTime(0)` (`doors.cpp:1067`) sets
  a time that is up, the engine no longer simulates such a door (`baseentity_shared.cpp:1004`), nor does its
  physics shadow (`baseentity.cpp:2284`), and nothing calls `DoorGoDown`. A use or a command of the map still closes it.
* Once the last group of capture areas that was short of places is removed, nothing clears
  `m_flNextCapSpawn`: the loop that does visits defined groups only (`ge_tokenmanager.cpp:588`). Every
  enforcement from then on takes away all areas, of which there are none, and places none, until a
  group is defined. The group then gets its areas and the retry ends.
* Partners of a door are moved in spite of their own lock and limit: a locked door opens with its
  partner, and players who take turns at partners that arrive at different times can turn them for
  ever. `InputOpen`, `InputClose` and `InputForceToggle` store the activator with one door only
  (`ge_door.cpp:600`), so that at its partner whoever was there before may turn both within the second.
  A touch stores it with none (`doors.cpp:669`), and a use of a locked door stores whoever only tried:
  `OnlyMoverTurns` is about doors that none of these reach.
* A door that arrives within the call that a touch causes stays deaf to touches until it has moved
  by other means (`doors.cpp:671`). `SetPartner` compares the class name so that any entity
  passes; it has no caller.
* `nextlevel` is not checked: with a name of no map the engine refuses the command, and the server
  stays in the final intermission for 2.7 hours or until `changelevel`. `changelevel` in the
  intermission of the last round is ignored (`ge_endmatch`), though it is neither too
  late nor refused.

## 5. What is proved

TLAPS checks these for every value of the constants that satisfies `GameTimerAssumption`,
`GameplayAssumption`, `ScoresAssumption`, `VotekickAssumption`, `TokensAssumption`,
`CaptureAreasAssumption`, `TeamsAssumption`, `BotQuotaAssumption`, `RotationAssumption`,
`DoorsAssumption`, `PartnersAssumption`: any players, teams, points, settings, shares, delays, types
of tokens, limits, spawners, groups of capture areas and their order, bots, slots, maps installed or not, thresholds,
doors and groups of doors that name each other. `PartnersAssumption` says only the last: that the
list of partners has doors, and not the door itself, follows from how `BuildPartnerList` builds it.

| Theorem | Statement |
|---|---|
| `GameTimerProofs!TypeCorrect` | `Spec => []TypeOK` |
| `GameTimerProofs!FieldsAlwaysAgree` | `Spec => []FieldsAgree` |
| `GameTimerProofs!RemainingAlwaysWithinLength` | `Spec => []RemainingWithinLength` |
| `GameTimerProofs!TimerImplementsCountdown` | `Spec => CountsDown` |
| `GameplayProofs!TypeCorrect` | `Spec => []TypeOK` |
| `GameplayProofs!LifecycleAlways` | `Spec => []Lifecycle` |
| `GameplayProofs!TimersAlwaysFollowSettings` | `Spec => []TimersFollowSettings` if `CurrentTimes` and `Additions` are empty |
| `GameplayProofs!LevelAlwaysChangedOnce` | `Spec => LevelChangedOnce` if `Commands` holds neither `"changelevel"` nor `"newlevel"` |
| `GameplayProofs!GameplayImplementsMatch` | `Spec => ImplementsMatch` |
| `VotekickProofs!TypeCorrect` | `Spec => []TypeOK` |
| `VotekickProofs!TallyAlways` | `Spec => []Tally` |
| `VotekickProofs!GoalAlwaysTracksPlayers` | `Spec => []GoalTracksPlayers` |
| `VotekickProofs!VotekickImplementsBallot` | `Spec => ImplementsBallot` |
| `TokensProofs!TypeCorrect` | `Spec => []TypeOK` |
| `TokensProofs!SpawnersHoldTheirTokens` | `Spec => []HoldersAgree` |
| `TokensProofs!NoSpawnerServesTwoTypes` | `Spec => []SpawnersServeOneType` |
| `TokensProofs!NoOverrideIsForgotten` | `Spec => []OverridesListed` |
| `TokensProofs!NoTokenIsUnknown` | `Spec => []TokensKnown` |
| `TokensProofs!TokensImplementPool` | `Spec => ImplementsPool` |
| `CaptureAreasProofs!TypeCorrect` | `Spec => []TypeOK` |
| `CaptureAreasProofs!AreasAlwaysWithinLimit` | `Spec => []AreasWithinLimit` |
| `CaptureAreasProofs!PlacesAlwaysShared` | `Spec => []PlacesShared` |
| `CaptureAreasProofs!ShortageAlwaysRetried` | `Spec => []ShortageRetried` |
| `CaptureAreasProofs!AreasAlwaysStay` | `Spec => AreasStay` |
| `BotQuotaProofs!TypeCorrect` | `Spec => []TypeOK`: the list of bots is exact |
| `BotQuotaProofs!FramesAlwaysEvenTeams` | `Spec => FramesEvenTeams` |
| `RotationProofs!TypeCorrect` | `Spec => []TypeOK` |
| `RotationProofs!TransitionAlwaysGoesOn` | `Spec => TransitionGoesOn` |
| `RotationProofs!HistoryAlwaysKept` | `Spec => HistoryKept` |
| `RotationProofs!LevelsAlwaysAsAnnounced` | `Spec => LevelsAsAnnounced` |
| `RotationProofs!MapIsFound` | `Viable` is not empty if a map suits, and repeats the level or takes a map too intense only if there is no other |
| `DoorsProofs!TypeCorrect` | `Spec => []TypeOK` |
| `DoorsProofs!InSyncAlways` | `Spec => []PartnersInSync` |
| `DoorsProofs!FreshAtRest` | `Spec => []UnlockedRestFresh` |
| `DoorsProofs!LastAlwaysReports` | `Spec => LastDoorReports` |
| `DoorsProofs!OnlyMoverAlwaysTurns` | `Spec => OnlyMoverTurns` |

The argument for timers. `GameTimerProofs` calls a record sound when it has its type, its fields
agree and its remaining time is within its length, and shows that each operation keeps it
sound. None of the three is inductive alone: a pause stores the remaining time, which is a
natural number only because the timer is started with an end, and a change of length is only
within bounds because the old remaining time was. `GameplayProofs` has the same for timers that
are never paused and whose time is relative to the present. The refinement then takes each operation
to the step of Countdown it is, which needs the fields to agree: a stopped timer shows no
time *and* has length zero.

The argument for the match. The inductive invariant is the types, the two timers sound, and
Lifecycle. Soundness is needed because timers of any state are restarted and
lengthened here, Lifecycle because `EndMatch` distinguishes rounds by `roundCount` and
`Think` by `gameOver`: only in an intermission of a later round can the match be over and the
final intermission not have begun, and there `ShouldEndMatch` answers yes. That is also
the step of the refinement that needs the invariant: `StartRound` after an
intermission must find the match not final.

The argument for the vote. The invariant adds to the two properties that a vote which is on
is undecided. An arrival keeps that because the new goal is the share of all who are
present, which is at least the old one: the goal is monotone in the players
(`GoalMonotone`), and the old one was bounded by their share (`GoalTracksPlayers`). The tally
is needed for the type already: a departure takes one vote away, which is a natural number
only if the voter was counted.

The argument for the timers of the match. `Following` strengthens `TimersFollowSettings`: the match
timer is enabled, both lengths are those of the settings, and the round time is
legal. With the timers sound, a timer is started exactly if its length is positive, so that
equal lengths are enough.

The argument for tokens. The invariant joins the types, `HoldersAgree`, the agreement of lists and
overrides in both directions, and `TokensKnown`. Each part is kept through `Enforce` by
what is on the lists before and after (`Recounted`, `Surplus`, `Picks`): a spawner that is given
back leaves its list and loses its override in one step, and one that is chosen had none. The
refinement needs `TokensKnown`: the manager lets a spawner spawn while the tokens it knows
are fewer than the limit, and these include all there are.

The argument for capture areas. The invariant is the conjunction of the types and the three invariants, and none
of them is inductive alone. New areas add to the number of the old ones only if no place is
given twice (`AddedCardinality`, from `PlacesShared`), so that a limit is kept because areas keep
apart; and a shortage is answered by `SpawnCaptureAreas` alone, which counts on there never being
too many. What one group's turn does (`FindSound`, `SpawnSound`, `AdjustSound`) is handed on from
group to group by an induction over their order (`InTurnInduction`): a group that has been
served stays so through the turns of the others, which leave its areas alone and may turn
a retry on but not off. `Enforce` needs it twice, for the areas placed anew and for those adjusted. The same induction
hands on that groups which are not dirty keep their areas (`AreasStay`). The turn of a group that is
not defined does nothing; that none of these lacks areas, since its limit is 0, is part of the types.

The argument for teams. The types are inductive as they stand, with the list of bots equal to
the bots that are connected. `FramesEvenTeams` is about one frame: those who join go
to the team that is smaller at that moment (`JoinedEvens`), and the balancer moves fewer than
the difference (`BalancedEvens`); both are counted with the sizes of disjoint sets.

The argument for the rotation. `Bound` says that a change to the transition will find in `ge_nextnextmap` the map announced, if the
server has it; `OnTheWay`, that the transition itself is then on the way to that map. An administrator who overrides
such a change breaks them (section 4), so that the invariant is one of behaviours in which `Straight` holds throughout:
the condition stands in `TransitionGoesOn` itself, and no constant rules anything out. `RecordCurrent` says
that the record is that of the level once a change is under way, and needs no such condition.
`Headed` says where a change leads: to
the map announced, or to the transition with `ge_nextnextmap` that map or no map of the server. Administrators who
override a change keep that, so that `LevelsAsAnnounced` needs no condition on them. `MapIsFound` counts: the
recent maps left out are at most two fewer than the maps there are.

The argument for doors. The invariant joins the types, what each door by itself keeps (one that moves is
short of its end, and only doors with auto-return wait), the agreement of
partners and the uses of doors at rest. Being short of the end is what keeps a
move by one unit within the length. Each call sends all of a group the same way; groups are equal or apart
(`GroupsApart`, from `PartnersAssumption`), so that the others stay as they were. Uses change
at a use, which an unlocked group follows by a move, and an arrival, which resets them.

`LastDoorReports` is about the door that is handled last among those that arrive in one step: of a list
that has them all, the greatest place at which one of them stands (`Greatest`) is that of a door
which sees all others where they are now (`TimeReports`, `CallReports`). For a frame the list is the
engine's order, and what must be shown is that a door of the group arrives at all and that those
that do not were there before; for a call it is the door with its partners, which by then have
all been sent. A blocked door does both in one step: the frame of the others, then the call.
`OnlyMoverTurns` needs `MoverKnown`, that the last activator a door remembers is who set it in motion:
`CheckUse` tells all doors of the group, and whatever else moves one sets `mover` to nobody.

Induction. The library's induction theorems take an operator as a parameter, which the
provers cannot instantiate. Where a proof needs induction, over the groups of capture areas and over the list of partners,
it is over a set of numbers instead: the set of those for which the claim holds has 0 and the
successor of each element (`SetInduction`), and a set of numbers without a least element is empty
(`Least`, from `NatLessThanWellFounded` and `WFMin`). The recursions themselves are functions
whose existence is proved the same way (`InTurnExists`, `WalkExists`). No module declares a RECURSIVE operator.

Only model-checked: every invariant, action property and refinement that a passing run checks is a
theorem above. Liveness under fairness is beyond the prover, since fairness is about
ENABLED: `GameOverChangesLevel`, `IntermissionEnds`, `UnattendedMatchEnds`, `VoteEnds`, `TokensReturn`,
`AreasSettle`, `TeamsFollowMode`, `TeamsEvenOut`, `BotsFollowThreshold`, `AnnouncedIsPlayed`,
`ComesToRest` and `ReturnsShut` stay with TLC.

## 6. Plan

The order is that of importance to players.

1. *Done*: Timer, GameTimer, Countdown; Scores, Gameplay, Match; their proofs.
2. *Done*: Votekick, Ballot; their proofs.
3. *Done*: Tokens, TokenPool, CaptureAreas; their proofs.
4. *Done*: Teams, BotQuota; their proofs.
5. *Done*: Rotation; its proofs. `TimersFollowSettings` and `LevelChangedOnce` proved.
6. *Done*: Doors; its proofs, those of its action properties included.
7. *Left*: re-entrant calls of scenario hooks, as nested steps of Gameplay. They need a stack of
   calls in every operation of the manager; the hooks of the scenarios that come with the game are
   in Python files, and decide which nestings occur.
8. *Left*: a touch of a capture area and the token that a scenario lets a player bring there.
9. *Left*: the round winners. They read deaths, which Scores leaves out, and have no state.
10. *Left*: partners of a door that return by themselves at different times; mines, and what becomes
   of those attached to a door; the thread of the web requests, which the rules poll.

## 7. Running

`tlc -config Gameplay.cfg MCGameplay` checks a run; `tlapm GameplayProofs.tla` checks proofs.
The longest run (`bot_quota`) takes three to four minutes with two workers, the others at most two; each module of proofs takes up to two minutes.

## 8. What is not modelled

* Scenario hooks that call the manager from inside `OnRoundEnd` or `BeforeSetupRound`
  (listed under "hazards").
* Which scenario is chosen: a weighted random choice over files, like the weights of maps.
* The transfer of a token from player to player, global ammunition, and what a scenario does when
  an area is touched. Player spawns, and the weapons a spawner that is not taken over holds.
* Round winners: a function of scores and deaths without state or order of events.
* The round lock: the manager stores it and only scenarios read it.
* Deaths, kills and stats beside scores: they are reset and banked in the same statements.
* Loadouts, radar, weapons, players' movement, bots' navigation, map entities other than doors: data
  and geometry without a protocol. The client shows what the server sends. The web request
  is one flag about network I/O. The SDK and vendored libraries are outside of the project but for
  two facts: when a ConVar calls its callback (`src/tier1/convar.cpp:873`), and what
  `mp_timelimit`'s callback does.
