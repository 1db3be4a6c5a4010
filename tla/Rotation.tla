------------------------------ MODULE Rotation ------------------------------
(***************************************************************************)
(* From map to map: how the game rules (shared/mp/gemp_gamerules.cpp)      *)
(* settle which level comes next, with the choice of the map manager       *)
(* (server/mp/ge_mapmanager.cpp), the wishes of administrators, and the    *)
(* transition map that lies between two maps too large for the engine.     *)
(*                                                                         *)
(* Of the match only the stages are kept that Match distinguishes once it  *)
(* is final; the seconds before a level change are those of Gameplay, here *)
(* just passed or not.  What happens after the server has given the engine *)
(* its command is one step: the command is the next the engine obeys.      *)
(***************************************************************************)
EXTENDS Integers, Sequences, FiniteSets

CONSTANTS
  Maps,         \* the maps with a script, which the manager may choose
  CustomMaps,   \* maps without one
  Transition,   \* "ge_transition"
  Missing,      \* scripts of maps that are not installed
  Unknown,      \* other names of no map
  NoMap,        \* the empty name
  Intensity,    \* resintensity of each of them: the default for custom maps
  PlayerCounts,
  Suits,        \* of each number of players: the maps that suit it, with a weight
  MapCycle,     \* the maps in the cycle file
  UseMapCycle,  \* ge_mapchooser_usemapcycle
  BufferCount,          \* ge_mapchooser_mapbuffercount
  CrashThreshold,       \* ge_mapchooser_resthreshold
  TransitionThreshold,  \* the 10 in SetupChangeLevel
  Wishes,       \* the maps administrators ask for
  Names         \* the values they give nextlevel, which nobody checks

Scripted == Maps \cup {Transition} \cup Missing
Levels   == Maps \cup {Transition} \cup CustomMaps

\* No map is so large that the way to it from the transition needs another one.
ASSUME RotationAssumption ==
  /\ Transition \notin Maps \cup CustomMaps /\ NoMap \notin Levels \cup Missing \cup Unknown
  /\ (Missing \cup Unknown) \cap Levels = {} /\ Maps \cap CustomMaps = {}
  /\ IsFiniteSet(Maps)
  /\ Intensity \in [Levels \cup Missing -> Nat]
  /\ BufferCount \in Nat /\ CrashThreshold \in Nat /\ TransitionThreshold \in Nat
  /\ Suits \in [PlayerCounts -> SUBSET Maps] /\ MapCycle \subseteq Maps \cup CustomMaps
  /\ Wishes \subseteq Maps \cup CustomMaps
  /\ Names \subseteq Maps \cup CustomMaps \cup Missing \cup Unknown
  /\ UseMapCycle \in BOOLEAN
  /\ \A m \in Maps \cup {Transition} : Intensity[m] + Intensity[Transition] < TransitionThreshold

VARIABLES
  level,        \* gpGlobals->mapname
  stage,        \* of the match: "on", "ending" in the intermission of its last round,
                \*   "final" in the final intermission
  nextlevel, nextnextmap,  \* nextlevel and ge_nextnextmap
  target,       \* m_szNextLevel
  announced,    \* the map of the last server_mapannounce
  change,       \* m_flChangeLevelTime: "none", "pending", "due", or "refused" when
                \*   the engine did not obey
  recents,      \* m_pRecentMaps, as far as it is read
  record        \* the maps in gamesetuprecord.txt

wishes == <<nextlevel, nextnextmap>>
plan   == <<target, announced, change>>
past   == <<recents, record>>
vars   == <<level, stage, wishes, plan, past>>

-----------------------------------------------------------------------------
(* The choice of the map manager.                                            *)

\* GetRecentMaps.
Recent(s) == SubSeq(s, 1, IF Len(s) < BufferCount THEN Len(s) ELSE BufferCount)

\* ParseLogData, and ParseCurrentMapData, which puts the level in front.
Remembered(l, maps) == Recent(IF l \in Scripted THEN <<l>> \o maps ELSE maps)

TooIntense(m, l) == Intensity[m] + Intensity[l] >= CrashThreshold

\* The level itself is a candidate only if it is the only one.
Others(suited, l) == IF suited = {l} THEN suited ELSE suited \ {l}

\* Maps too intense to follow l are, unless all are.
Bearable(suited, l) ==
  LET calm == {m \in suited \ {l} : ~TooIntense(m, l)}
  IN  IF calm = {} THEN Others(suited, l) ELSE {m \in Others(suited, l) : ~TooIntense(m, l)}

\* The recent maps have no chance, as long as two others are left.
Viable(suited, l, maps) ==
  LET some  == Bearable(suited, l)
      spare == Cardinality(some) - 2
  IN  some \ {maps[i] : i \in {j \in 1..Len(maps) : j <= spare}}

\* SelectNewMap by the number of players, or else GetNextLevelName.
Choices(n) ==
  LET viable == IF UseMapCycle THEN {} ELSE Viable(Suits[n], level, recents)
      cycle  == IF MapCycle = {} THEN {level} ELSE MapCycle
  IN  IF viable = {} THEN cycle ELSE viable

-----------------------------------------------------------------------------
(* SetupChangeLevel.                                                         *)

\* Broken: the map that is left does not count.
NeedTransitionAnywhere(m, l) == m \in Scripted /\ Intensity[m] >= TransitionThreshold

\* Two maps the engine cannot hold one after the other.
NeedTransition(m, l) == m \in Scripted /\ Intensity[m] + Intensity[l] >= TransitionThreshold

\* Broken SetupChangeLevel: the rotation is not recorded.
AnnounceUnrecorded(m, l, maps) ==
  /\ announced' = m
  /\ target' = IF NeedTransition(m, l) THEN Transition ELSE m
  /\ change' = "pending" /\ UNCHANGED record

\* What SetupChangeLevel does about the map m in the level l, but for ge_nextnextmap,
\* which the caller may still set.
Announce(m, l, maps) ==
  /\ announced' = m
  /\ target' = IF NeedTransition(m, l) THEN Transition ELSE m
  /\ record' = IF l = Transition THEN record ELSE maps
  /\ change' = "pending"

\* Broken SetupChangeLevel: the transition does not learn where it leads.
SetUpNowhere(m) ==
  /\ Announce(m, level, recents)
  /\ UNCHANGED <<level, stage, nextnextmap, recents>>

SetUp(m) ==
  /\ Announce(m, level, recents)
  /\ nextnextmap' = IF NeedTransition(m, level) THEN m ELSE nextnextmap
  /\ UNCHANGED <<level, stage, recents>>

-----------------------------------------------------------------------------
(* The actions.                                                              *)

Init ==
  /\ level \in Maps \cup CustomMaps /\ stage = "on"
  /\ nextlevel = NoMap /\ nextnextmap = NoMap
  /\ target = NoMap /\ announced = NoMap /\ change = "none"
  /\ record = <<>> /\ recents = Remembered(level, <<>>)

\* EndMatch: in the final intermission at once, or after that of the round.
EndMatch == stage = "on" /\ stage' \in {"ending", "final"}

\* The match ends, for whatever reason.
MatchEnds == EndMatch /\ UNCHANGED <<level, wishes, plan, past>>

IntermissionEnds ==
  /\ stage = "ending" /\ stage' = "final"
  /\ UNCHANGED <<level, wishes, plan, past>>

\* Broken: every think of the final intermission sets the change up again.
ThinkFinalAgain ==
  /\ stage = "final"
  /\ \/ nextlevel # NoMap /\ SetUp(nextlevel)
     \/ nextlevel = NoMap /\ \E n \in PlayerCounts : \E m \in Choices(n) : SetUp(m)
  /\ UNCHANGED nextlevel

\* The think of the match once the final intermission is over.
ThinkFinal ==
  /\ stage = "final" /\ change = "none"
  /\ \/ nextlevel # NoMap /\ SetUp(nextlevel)
     \/ nextlevel = NoMap /\ \E n \in PlayerCounts : \E m \in Choices(n) : SetUp(m)
  /\ UNCHANGED nextlevel

\* GE_CHANGELEVEL_DELAY passes.
Delay ==
  /\ change = "pending" /\ change' = "due"
  /\ UNCHANGED <<level, stage, wishes, target, announced, past>>

\* The game rules of a new level, which goes on to ge_nextnextmap at once; the name of a
\* map that is not installed leads nowhere, and stays.
StartLevel(l) ==
  /\ level' = l /\ stage' = "on"
  /\ recents' = Remembered(l, record)
  /\ \/ /\ nextnextmap \notin Levels
        /\ nextlevel' = NoMap /\ target' = NoMap /\ change' = "none"
        /\ UNCHANGED <<nextnextmap, announced, record>>
     \/ /\ nextnextmap \in Levels
        /\ nextlevel' = nextnextmap /\ nextnextmap' = NoMap
        /\ Announce(nextnextmap, l, recents')

\* ChangeLevel, and what the engine makes of it: it refuses a name of no map, and
\* would be asked for the same again hours later.
ChangeLevel ==
  /\ change = "due"
  /\ \/ target \in Levels /\ StartLevel(target)
     \/ /\ target \notin Levels /\ change' = "refused"
        /\ UNCHANGED <<level, stage, wishes, target, announced, past>>

\* ge_endmatch with a map, and changelevel outside of the final intermission: once the
\* match is over they do nothing.
EndMatchCommand ==
  /\ EndMatch /\ nextlevel' \in Wishes
  /\ UNCHANGED <<level, nextnextmap, plan, past>>

\* changelevel in the final intermission, or at once: whatever is under way.
ChangeLevelCommand ==
  \E m \in Wishes : nextlevel' = m /\ SetUp(m)

\* Somebody sets nextlevel.
SetNextLevel ==
  /\ nextlevel' \in Names \cup {NoMap}
  /\ UNCHANGED <<level, stage, nextnextmap, plan, past>>

\* ge_gameplay loads a scenario and so starts a new match; a level change that is
\* under way goes on.
LoadScenario ==
  /\ stage' = "on"
  /\ UNCHANGED <<level, wishes, plan, past>>

Next ==
  \/ MatchEnds \/ IntermissionEnds \/ ThinkFinal \/ Delay \/ ChangeLevel
  \/ EndMatchCommand \/ ChangeLevelCommand \/ SetNextLevel \/ LoadScenario

Spec == Init /\ [][Next]_vars

\* Frames come, time passes, and the engine obeys when it can.
LiveSpec ==
  Spec /\ WF_vars(IntermissionEnds) /\ WF_vars(ThinkFinal) /\ WF_vars(Delay) /\ WF_vars(ChangeLevel)

-----------------------------------------------------------------------------
Stages == {"on", "ending", "final"}
Changes == {"none", "pending", "due", "refused"}

TypeOK ==
  /\ level \in Levels /\ stage \in Stages /\ change \in Changes
  /\ {nextlevel, target, announced} \subseteq Levels \cup Missing \cup Unknown \cup {NoMap}
  /\ nextnextmap \in Scripted \cup {NoMap}
  /\ recents \in Seq(IF level = Transition THEN Scripted ELSE Maps) /\ record \in Seq(Maps)
  /\ Len(recents) <= BufferCount /\ Len(record) <= BufferCount

\* Whatever finds ge_nextnextmap is the transition: no administrator overrides a change
\* that goes through the transition, whose destination another level would find.
Straight == nextnextmap \in Levels => target = Transition

\* Nobody is left on the transition, where there is nothing to play, while a map the
\* server has is announced: whoever sees the transition is on the way to it.  One who was
\* promised a map that is not installed stays, until the match there is over.
TransitionGoesOn ==
  []Straight =>
    [](level = Transition /\ announced \in Maps \cup CustomMaps =>
         change \in {"pending", "due"} /\ target = announced)

\* What is announced is played next, or what is announced instead of it, directly or
\* by way of the transition, whatever becomes of the match, of nextlevel and of
\* earlier changes the engine refused; as long as changelevel is not repeated for ever.
AnnouncedIsPlayed ==
  []Straight /\ <>[][~ChangeLevelCommand]_vars =>
     \A m \in Maps \cup CustomMaps :
       (announced = m /\ change \in {"pending", "due"}) ~> (level = m \/ announced # m)

\* "Tell our players what the next map will be" (SetupChangeLevel): the level that starts is
\* the map announced last, or the transition with the same map still announced, whatever
\* nextlevel and ge_nextnextmap have been set to since; and never one that the engine cannot
\* hold after the level it leaves.
LevelsAsAnnounced ==
  [][ChangeLevel /\ change' # "refused" =>
       /\ level' \in {announced, Transition}
       /\ level' = Transition => announced' = announced
       /\ level' \in Maps => Intensity[level'] + Intensity[level] < TransitionThreshold]_vars

\* A new level remembers the maps the last one did, and itself in front of them,
\* even if a transition lies in between, whose level leaves the record alone.
HistoryKept ==
  [][/\ level = Transition => UNCHANGED record
     /\ level' = Transition /\ level # Transition => record' = recents
     /\ level' # level /\ level' # Transition =>
          recents' = Remembered(level', IF level = Transition THEN record ELSE recents)]_vars
=============================================================================
