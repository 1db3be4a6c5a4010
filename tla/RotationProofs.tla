--------------------------- MODULE RotationProofs ---------------------------
(***************************************************************************)
(* Proofs about the rotation of the maps, for any maps, thresholds and     *)
(* lengths of the record.                                                  *)
(***************************************************************************)
EXTENDS Rotation, SequenceTheorems, FiniteSetTheorems, TLAPS

-----------------------------------------------------------------------------
(* The choice of the map manager.                                          *)

\* What GetRecentMaps returns is no longer than the buffer.
LEMMA RecentType ==
  ASSUME NEW S, NEW s \in Seq(S)
  PROVE  Recent(s) \in Seq(S) /\ Len(Recent(s)) <= BufferCount
<1> DEFINE n == IF Len(s) < BufferCount THEN Len(s) ELSE BufferCount
<1>1. Len(s) \in Nat /\ n \in Nat /\ n <= Len(s) /\ n <= BufferCount
  BY LenProperties, RotationAssumption
<1>2. \A i \in 1..n : s[i] \in S
  BY <1>1, ElementOfSeq
<1>3. /\ SubSeq(s, 1, n) \in Seq(S)
      /\ Len(SubSeq(s, 1, n)) = IF 1 <= n THEN n - 1 + 1 ELSE 0
  <2>1. 1 \in Int /\ n \in Int
    BY <1>1
  <2> HIDE DEF n
  <2>2. QED
    BY <1>2, <2>1, SubSeqProperties
<1>4. Recent(s) = SubSeq(s, 1, n)
  BY DEF Recent
<1> HIDE DEF n
<1>5. QED
  BY <1>1, <1>3, <1>4, RotationAssumption

\* A level remembers the maps of the record, and itself if it has a script.
LEMMA RememberedType ==
  ASSUME NEW l \in Levels, NEW maps \in Seq(Maps)
  PROVE  /\ Remembered(l, maps) \in Seq(IF l = Transition THEN Scripted ELSE Maps)
         /\ Len(Remembered(l, maps)) <= BufferCount
<1> DEFINE S == IF l = Transition THEN Scripted ELSE Maps
<1>1. maps \in Seq(S)
  BY DEF Scripted
<1>2. CASE l \in Scripted
  <2>1. l \in S
    BY <1>2, RotationAssumption DEF Scripted
  <2> HIDE DEF S
  <2>2. <<l>> \in Seq(S)
    BY <2>1
  <2>3. <<l>> \o maps \in Seq(S)
    BY <1>1, <2>2, ConcatProperties
  <2>4. QED
    BY <1>2, <2>3, RecentType DEF Remembered, S
<1>3. CASE l \notin Scripted
  <2> HIDE DEF S
  <2>1. QED
    BY <1>1, <1>3, RecentType DEF Remembered, S
<1>4. QED
  BY <1>2, <1>3

\* The recent maps that are left out are fewer than the maps there are.
LEMMA FewLeftOut ==
  ASSUME NEW maps, NEW spare \in Int
  PROVE  LET R == {maps[i] : i \in {j \in 1..Len(maps) : j <= spare}}
         IN  /\ IsFiniteSet(R)
             /\ Cardinality(R) \in Nat
             /\ spare <= 0 => R = {}
             /\ spare >= 0 => Cardinality(R) <= spare
<1> DEFINE J == {j \in 1..Len(maps) : j <= spare}
           R == {maps[i] : i \in J}
           f == [i \in J |-> maps[i]]
<1>1. CASE spare <= 0
  <2>1. J = {} /\ R = {}
    BY <1>1
  <2>2. QED
    BY <1>1, <2>1, FS_EmptySet
<1>2. CASE spare > 0
  <2>1. IsFiniteSet(1..spare) /\ Cardinality(1..spare) = spare
    <3>1. 1 \in Int
      OBVIOUS
    <3>2. QED
      BY <1>2, <3>1, FS_Interval
  <2>2. J \in SUBSET (1..spare)
    OBVIOUS
  <2>3. IsFiniteSet(J) /\ Cardinality(J) <= spare /\ Cardinality(J) \in Nat
    BY <2>1, <2>2, FS_Subset, FS_CardinalityType
  <2>4. f \in Surjection(J, R)
    BY DEF Surjection
  <2>5. IsFiniteSet(R) /\ Cardinality(R) <= Cardinality(J)
    <3> HIDE DEF J, R, f
    <3>1. QED
      BY <2>3, <2>4, FS_Surjection
  <2>6. Cardinality(R) \in Nat
    BY <2>5, FS_CardinalityType
  <2> HIDE DEF J, R
  <2>7. Cardinality(R) <= spare
    BY <2>3, <2>5, <2>6
  <2>8. QED
    BY <1>2, <2>5, <2>6, <2>7 DEF J, R
<1>3. QED
  BY <1>1, <1>2

\* SelectNewMap finds a map whenever one suits the number of players, however many were
\* played of late; it repeats the level, or lets a map follow it that is too intense,
\* only if every other map that suits is the level, or is too intense.
THEOREM MapIsFound ==
  ASSUME NEW suited, IsFiniteSet(suited), suited # {}, NEW l, NEW maps
  PROVE  /\ Viable(suited, l, maps) # {} /\ Viable(suited, l, maps) \subseteq suited
         /\ l \in Viable(suited, l, maps) => suited = {l}
         /\ \A m \in Viable(suited, l, maps) :
              TooIntense(m, l) => \A o \in suited \ {l} : TooIntense(o, l)
<1> DEFINE some == Bearable(suited, l)
           spare == Cardinality(some) - 2
           R == {maps[i] : i \in {j \in 1..Len(maps) : j <= spare}}
<1>1. /\ some # {} /\ some \in SUBSET suited
      /\ l \in some => suited = {l}
      /\ \A m \in some : TooIntense(m, l) => \A o \in suited \ {l} : TooIntense(o, l)
  BY DEF Bearable, Others
<1>2. IsFiniteSet(some) /\ Cardinality(some) \in Nat
  BY <1>1, FS_Subset, FS_CardinalityType
<1>3. Viable(suited, l, maps) = some \ R
  BY DEF Viable
<1>4. spare \in Int
  BY <1>2
<1> HIDE DEF some
<1>5. CASE spare <= 0
  <2>1. R = {}
    BY <1>4, <1>5, FewLeftOut
  <2> HIDE DEF R
  <2>2. QED
    BY <1>1, <1>3, <2>1
<1>6. CASE spare > 0
  <2>1. IsFiniteSet(R) /\ Cardinality(R) \in Nat /\ Cardinality(R) <= spare
    <3>1. spare >= 0
      BY <1>4, <1>6
    <3> HIDE DEF spare
    <3>2. QED
      BY <1>4, <3>1, FewLeftOut
  <2> HIDE DEF R
  <2>2. some \ R # {}
    <3>1. SUFFICES ASSUME some \subseteq R PROVE FALSE
      OBVIOUS
    <3>2. Cardinality(some) <= Cardinality(R)
      BY <2>1, <3>1, FS_Subset
    <3>3. QED
      BY <1>2, <2>1, <3>2
  <2>3. QED
    BY <1>1, <1>3, <2>2
<1>7. QED
  BY <1>4, <1>5, <1>6

LEMMA ViableAreSuited ==
  ASSUME NEW suited, NEW l, NEW maps
  PROVE  Viable(suited, l, maps) \subseteq suited
BY DEF Viable, Bearable, Others

LEMMA ChoicesType ==
  ASSUME TypeOK, NEW n \in PlayerCounts, NEW m \in Choices(n)
  PROVE  m \in Levels /\ (level # Transition => m # Transition)
<1>1. Viable(Suits[n], level, recents) \subseteq Maps
  BY ViableAreSuited, RotationAssumption
<1>2. QED
  BY <1>1, RotationAssumption DEF Choices, TypeOK, Levels, Scripted

-----------------------------------------------------------------------------
(* Type correctness.                                                       *)

LEMMA InitTypeOK == Init => TypeOK
<1> SUFFICES ASSUME Init PROVE TypeOK
  OBVIOUS
<1>1. <<>> \in Seq(Maps) /\ Len(<<>>) = 0
  BY EmptySeq
<1>2. level \in Levels /\ level # Transition
  BY RotationAssumption DEF Init, Levels, Scripted
<1>3. recents \in Seq(Maps) /\ Len(recents) <= BufferCount
  BY <1>1, <1>2, RememberedType DEF Init
<1>4. QED
  BY <1>1, <1>2, <1>3, RotationAssumption DEF Init, TypeOK, Stages, Changes

LEMMA SetUpTypeOK ==
  ASSUME TypeOK, NEW m \in Levels \cup Missing \cup Unknown, SetUp(m),
         nextlevel' \in Levels \cup Missing \cup Unknown \cup {NoMap}
  PROVE  TypeOK'
<1>1. record' \in Seq(Maps) /\ Len(record') <= BufferCount
  BY DEF SetUp, Announce, TypeOK
<1>2. nextnextmap' \in Scripted \cup {NoMap}
  BY DEF SetUp, NeedTransition, TypeOK
<1>3. {nextlevel', target', announced'} \subseteq Levels \cup Missing \cup Unknown \cup {NoMap}
  BY DEF SetUp, Announce, Levels, Scripted
<1>4. QED
  BY <1>1, <1>2, <1>3 DEF SetUp, Announce, TypeOK, Changes

LEMMA StartLevelTypeOK ==
  ASSUME TypeOK, NEW l \in Levels, StartLevel(l)
  PROVE  TypeOK'
<1>1. /\ recents' \in Seq(IF level' = Transition THEN Scripted ELSE Maps)
      /\ Len(recents') <= BufferCount
  BY RememberedType DEF StartLevel, TypeOK
<1>2. record' \in Seq(Maps) /\ Len(record') <= BufferCount
  BY <1>1 DEF StartLevel, Announce, TypeOK
<1>3. {nextlevel', target', announced'} \subseteq Levels \cup Missing \cup Unknown \cup {NoMap}
  BY DEF StartLevel, Announce, TypeOK, Levels, Scripted
<1>4. nextnextmap' \in Scripted \cup {NoMap} /\ level' \in Levels
      /\ stage' \in Stages /\ change' \in Changes
  BY DEF StartLevel, Announce, TypeOK, Stages, Changes
<1>5. QED
  BY <1>1, <1>2, <1>3, <1>4 DEF TypeOK

LEMMA NextTypeOK == TypeOK /\ [Next]_vars => TypeOK'
<1> SUFFICES ASSUME TypeOK, [Next]_vars PROVE TypeOK'
  OBVIOUS
<1>1. CASE MatchEnds \/ IntermissionEnds \/ EndMatchCommand \/ LoadScenario
  BY <1>1, RotationAssumption
  DEF MatchEnds, EndMatch, IntermissionEnds, EndMatchCommand, LoadScenario,
      wishes, plan, past, TypeOK, Stages, Levels, Scripted
<1>2. CASE ThinkFinal
  <2>1. CASE nextlevel # NoMap /\ SetUp(nextlevel)
    BY <1>2, <2>1, SetUpTypeOK DEF ThinkFinal, TypeOK
  <2>2. ASSUME NEW n \in PlayerCounts, NEW m \in Choices(n), SetUp(m) PROVE TypeOK'
    BY <1>2, <2>2, SetUpTypeOK, ChoicesType DEF ThinkFinal, TypeOK
  <2>3. QED
    BY <1>2, <2>1, <2>2 DEF ThinkFinal
<1>3. CASE Delay
  BY <1>3 DEF Delay, wishes, past, TypeOK, Changes
<1>4. CASE ChangeLevel
  <2>1. CASE target \in Levels /\ StartLevel(target)
    BY <2>1, StartLevelTypeOK
  <2>2. CASE target \notin Levels /\ change' = "refused"
    BY <1>4, <2>2 DEF ChangeLevel, StartLevel, wishes, past, TypeOK, Changes
  <2>3. QED
    BY <1>4, <2>1, <2>2 DEF ChangeLevel
<1>5. CASE ChangeLevelCommand
  BY <1>5, SetUpTypeOK, RotationAssumption DEF ChangeLevelCommand, Levels, Scripted
<1>6. CASE SetNextLevel
  BY <1>6, RotationAssumption DEF SetNextLevel, plan, past, TypeOK, Levels, Scripted
<1>7. CASE UNCHANGED vars
  BY <1>7 DEF vars, wishes, plan, past, TypeOK
<1>8. QED
  BY <1>1, <1>2, <1>3, <1>4, <1>5, <1>6, <1>7 DEF Next

\* TypeOK: in particular the record of the rotation holds maps of the manager only, never
\* the transition, and no more of them than GetRecentMaps is asked for.
THEOREM TypeCorrect == Spec => []TypeOK
<1>1. TypeOK /\ [Next]_vars => TypeOK'
  BY NextTypeOK
<1>2. QED
  BY InitTypeOK, <1>1, PTL DEF Spec

-----------------------------------------------------------------------------
(* The record of the rotation.                                             *)

\* The transition keeps no map to go on to, and the record is that of the level once a
\* change is under way.
RecordCurrent ==
  /\ level = Transition => nextnextmap \notin Levels
  /\ change # "none" /\ level # Transition => record = recents

\* What a step does to the record, which is what HistoryKept says.
Keeps ==
  /\ level = Transition => UNCHANGED record
  /\ level' = Transition /\ level # Transition => record' = recents
  /\ level' # level /\ level' # Transition =>
       recents' = Remembered(level', IF level = Transition THEN record ELSE recents)

LEMMA NamesOfMaps ==
  /\ Transition \in Levels /\ NoMap # Transition /\ NoMap \notin Levels
  /\ Transition \notin Wishes \cup Names /\ Transition \notin Maps \cup CustomMaps
  /\ Wishes \cup Maps \cup CustomMaps \subseteq Levels
BY RotationAssumption DEF Levels, Scripted

LEMMA TransitionIsSmall == \A m \in Levels : ~NeedTransition(m, Transition)
<1> SUFFICES ASSUME NEW m \in Levels, m \in Scripted
             PROVE  ~(Intensity[m] + Intensity[Transition] >= TransitionThreshold)
  BY DEF NeedTransition
<1>1. m \in Maps \cup {Transition}
  BY RotationAssumption DEF Scripted, Levels
<1>2. Intensity[m] \in Nat /\ Intensity[Transition] \in Nat
  BY NamesOfMaps, RotationAssumption
<1>3. QED
  BY <1>1, <1>2, RotationAssumption

LEMMA InitRecord == Init => RecordCurrent
BY NamesOfMaps DEF Init, RecordCurrent

LEMMA SetUpRecord ==
  ASSUME RecordCurrent, NEW m, SetUp(m)
  PROVE  RecordCurrent' /\ Keeps
<1>1. level = Transition /\ m \in Levels => ~NeedTransition(m, level)
  BY TransitionIsSmall
<1>2. level' = Transition => nextnextmap' \notin Levels
  BY <1>1 DEF SetUp, RecordCurrent
<1>3. QED
  BY <1>2 DEF SetUp, Announce, RecordCurrent, Keeps

LEMMA StartLevelRecord ==
  ASSUME RecordCurrent, change = "due", NEW l \in Levels, StartLevel(l)
  PROVE  RecordCurrent' /\ Keeps
<1>1. level # Transition => record = recents
  BY DEF RecordCurrent
<1>2. recents' = Remembered(l, record) /\ level' = l /\ nextnextmap' \notin Levels
  BY NamesOfMaps DEF StartLevel
<1>3. CASE nextnextmap \notin Levels
  BY <1>1, <1>2, <1>3 DEF StartLevel, RecordCurrent, Keeps
<1>4. CASE nextnextmap \in Levels
  <2>1. level # Transition
    BY <1>4 DEF RecordCurrent
  <2>2. record' = IF l = Transition THEN record ELSE recents'
    BY <1>4 DEF StartLevel, Announce
  <2>3. QED
    BY <1>1, <1>2, <2>1, <2>2 DEF RecordCurrent, Keeps
<1>5. QED
  BY <1>3, <1>4

LEMMA NextRecord ==
  ASSUME RecordCurrent, [Next]_vars
  PROVE  RecordCurrent' /\ Keeps
<1>1. CASE MatchEnds \/ IntermissionEnds \/ EndMatchCommand \/ LoadScenario \/ SetNextLevel
           \/ UNCHANGED vars
  <2>1. UNCHANGED <<level, nextnextmap, plan, past>>
    BY <1>1 DEF MatchEnds, IntermissionEnds, EndMatchCommand, LoadScenario, SetNextLevel,
                vars, wishes
  <2>2. QED
    BY <2>1 DEF plan, past, RecordCurrent, Keeps
<1>2. CASE ThinkFinal \/ ChangeLevelCommand
  <2>1. PICK m : SetUp(m)
    BY <1>2 DEF ThinkFinal, ChangeLevelCommand
  <2>2. QED
    BY <2>1, SetUpRecord
<1>3. CASE Delay
  BY <1>3 DEF Delay, wishes, past, RecordCurrent, Keeps
<1>4. CASE ChangeLevel
  <2>1. CASE target \in Levels /\ StartLevel(target)
    BY <1>4, <2>1, StartLevelRecord DEF ChangeLevel
  <2>2. CASE target \notin Levels
    BY <1>4, <2>2 DEF ChangeLevel, wishes, past, RecordCurrent, Keeps
  <2>3. QED
    BY <1>4, <2>1, <2>2 DEF ChangeLevel
<1>5. QED
  BY <1>1, <1>2, <1>3, <1>4 DEF Next

\* HistoryKept: the rotation that SetupChangeLevel writes down is the one the next map
\* reads, and the transition between them leaves it alone.
THEOREM HistoryAlwaysKept == Spec => HistoryKept
<1>1. RecordCurrent /\ [Next]_vars => RecordCurrent'
  BY NextRecord
<1>2. RecordCurrent /\ [Next]_vars => [Keeps]_vars
  BY NextRecord
<1>3. QED
  BY <1>1, <1>2, InitRecord, PTL DEF Spec, HistoryKept, Keeps

-----------------------------------------------------------------------------
(* The transition.                                                         *)

\* Whoever is on the transition while a map the server has is announced is on the way
\* to it: what TransitionGoesOn says of a state.
OnTheWay ==
  level = Transition /\ announced \in Maps \cup CustomMaps =>
    change \in {"pending", "due"} /\ target = announced

\* A change to the transition will find there the map announced, if the server has it.
Bound ==
  target = Transition /\ announced \in Maps \cup CustomMaps => nextnextmap = announced

LEMMA SetUpBound ==
  ASSUME NEW m, SetUp(m)
  PROVE  OnTheWay' /\ Bound'
<1>1. level = Transition /\ m \in Maps \cup CustomMaps => ~NeedTransition(m, level)
  BY TransitionIsSmall, NamesOfMaps
<1>2. m \in Maps \cup CustomMaps => m # Transition
  BY NamesOfMaps
<1>3. QED
  BY <1>1, <1>2 DEF SetUp, Announce, OnTheWay, Bound

\* The transition goes on to the map it was reached for; other levels find none.
LEMMA StartLevelBound ==
  ASSUME RecordCurrent, OnTheWay, Bound, Straight, target \in Levels, StartLevel(target)
  PROVE  OnTheWay' /\ Bound'
<1>1. CASE nextnextmap \notin Levels
  <2>1. level' = Transition => announced \notin Maps \cup CustomMaps
    BY <1>1, NamesOfMaps DEF StartLevel, Bound
  <2>2. target' # Transition /\ UNCHANGED announced
    BY <1>1, NamesOfMaps DEF StartLevel
  <2>3. QED
    BY <2>1, <2>2 DEF OnTheWay, Bound
<1>2. CASE nextnextmap \in Levels
  <2>1. target = Transition
    BY <1>2 DEF Straight
  <2>2. announced' = nextnextmap /\ change' = "pending" /\ target' = nextnextmap
    <3>1. ~NeedTransition(nextnextmap, Transition)
      BY <1>2, TransitionIsSmall
    <3>2. QED
      BY <1>2, <2>1, <3>1 DEF StartLevel, Announce
  <2>3. QED
    BY <2>2, NamesOfMaps DEF OnTheWay, Bound
<1>3. QED
  BY <1>1, <1>2

LEMMA NextBound ==
  ASSUME RecordCurrent, OnTheWay, Bound, Straight, [Next]_vars
  PROVE  OnTheWay' /\ Bound'
<1>1. CASE MatchEnds \/ IntermissionEnds \/ EndMatchCommand \/ LoadScenario \/ SetNextLevel
           \/ UNCHANGED vars
  <2>1. UNCHANGED <<level, nextnextmap, plan>>
    BY <1>1 DEF MatchEnds, IntermissionEnds, EndMatchCommand, LoadScenario, SetNextLevel,
                vars, wishes
  <2>2. QED
    BY <2>1 DEF plan, OnTheWay, Bound
<1>2. CASE ThinkFinal \/ ChangeLevelCommand
  <2>1. PICK m : SetUp(m)
    BY <1>2 DEF ThinkFinal, ChangeLevelCommand
  <2>2. QED
    BY <2>1, SetUpBound
<1>3. CASE Delay
  BY <1>3 DEF Delay, wishes, OnTheWay, Bound
<1>4. CASE ChangeLevel
  <2>1. CASE target \in Levels /\ StartLevel(target)
    BY <2>1, StartLevelBound
  <2>2. CASE target \notin Levels /\ change' = "refused"
    <3>1. UNCHANGED <<level, nextnextmap, target, announced>>
      BY <1>4, <2>2, NamesOfMaps DEF ChangeLevel, StartLevel, wishes
    <3>2. level = Transition => announced \notin Maps \cup CustomMaps
      BY <2>2, NamesOfMaps DEF OnTheWay
    <3>3. QED
      BY <3>1, <3>2 DEF OnTheWay, Bound
  <2>3. QED
    BY <1>4, <2>1, <2>2 DEF ChangeLevel
<1>5. QED
  BY <1>1, <1>2, <1>3, <1>4 DEF Next

\* TransitionGoesOn: SetupChangeLevel and LevelInitPreEntity never leave the players on
\* the transition map while a map the server has is announced, whatever is set and asked
\* for, and by whom, as long as only the transition finds ge_nextnextmap.
THEOREM TransitionAlwaysGoesOn == Spec => TransitionGoesOn
<1>1. Init => OnTheWay /\ Bound
  BY NamesOfMaps, RotationAssumption DEF Init, OnTheWay, Bound
<1>2. RecordCurrent /\ OnTheWay /\ Bound /\ Straight /\ [Next]_vars => OnTheWay' /\ Bound'
  BY NextBound
<1>3. RecordCurrent /\ [Next]_vars => RecordCurrent'
  BY NextRecord
<1>4. Spec /\ []Straight => []OnTheWay
  BY <1>1, <1>2, <1>3, InitRecord, PTL DEF Spec
<1>5. QED
  BY <1>4, PTL DEF TransitionGoesOn, OnTheWay

-----------------------------------------------------------------------------
(* What is announced.                                                      *)

\* A change leads to the map announced, or to the transition, which will find that map in
\* ge_nextnextmap, or none.
Headed ==
  /\ change = "none" => nextnextmap \notin Levels
  /\ change # "none" =>
       /\ target \in {announced, Transition}
       /\ target # Transition => ~NeedTransition(announced, level)
       /\ target = Transition => nextnextmap \notin Levels \/ nextnextmap = announced

\* What a step that starts a level does, which is what LevelsAsAnnounced says.
StartsAsAnnounced ==
  /\ level' \in {announced, Transition}
  /\ level' = Transition => announced' = announced
  /\ level' \in Maps => Intensity[level'] + Intensity[level] < TransitionThreshold

LEMMA InitHeaded == Init => Headed
BY NamesOfMaps DEF Init, Headed

LEMMA SetUpHeaded ==
  ASSUME NEW m, SetUp(m), m # Transition \/ nextnextmap \notin Levels
  PROVE  Headed'
BY DEF SetUp, Announce, Headed, NeedTransition

LEMMA NextHeaded == TypeOK /\ Headed /\ [Next]_vars => Headed'
<1> SUFFICES ASSUME TypeOK, Headed, [Next]_vars PROVE Headed'
  OBVIOUS
<1>1. CASE MatchEnds \/ IntermissionEnds \/ EndMatchCommand \/ LoadScenario \/ SetNextLevel
           \/ UNCHANGED vars
  <2>1. UNCHANGED <<level, nextnextmap, plan>>
    BY <1>1 DEF MatchEnds, IntermissionEnds, EndMatchCommand, LoadScenario, SetNextLevel,
                vars, wishes
  <2> QED BY <2>1 DEF plan, Headed, NeedTransition
<1>2. CASE ThinkFinal
  BY <1>2, SetUpHeaded DEF ThinkFinal, Headed
<1>3. CASE Delay
  BY <1>3 DEF Delay, wishes, Headed, NeedTransition
<1>4. CASE ChangeLevel
  <2>1. CASE target \in Levels /\ StartLevel(target)
    BY <1>4, <2>1, NamesOfMaps DEF StartLevel, Announce, Headed, NeedTransition
  <2>2. CASE target \notin Levels /\ change' = "refused"
    BY <1>4, <2>2, NamesOfMaps DEF ChangeLevel, StartLevel, wishes, Headed, NeedTransition
  <2>3. QED
    BY <1>4, <2>1, <2>2 DEF ChangeLevel
<1>5. CASE ChangeLevelCommand
  <2>1. PICK m \in Wishes : SetUp(m)
    BY <1>5 DEF ChangeLevelCommand
  <2>2. m # Transition
    BY RotationAssumption
  <2> QED BY <2>1, <2>2, SetUpHeaded
<1> QED BY <1>1, <1>2, <1>3, <1>4, <1>5 DEF Next

LEMMA HeadedStarts ==
  ASSUME TypeOK, Headed, ChangeLevel, change' # "refused"
  PROVE  StartsAsAnnounced
<1>1. target \in Levels /\ StartLevel(target) /\ change = "due"
  BY DEF ChangeLevel
<1>2. level' = target /\ target \in {announced, Transition}
  BY <1>1 DEF StartLevel, Headed
<1>3. level' = Transition => announced' = announced
  BY <1>1, <1>2 DEF StartLevel, Announce, Headed
<1>4. ASSUME level' \in Maps
      PROVE  Intensity[level'] + Intensity[level] < TransitionThreshold
  <2>1. target # Transition /\ target = announced /\ announced \in Scripted
    BY <1>2, <1>4, RotationAssumption DEF Scripted
  <2>2. ~(Intensity[target] + Intensity[level] >= TransitionThreshold)
    BY <1>1, <2>1 DEF Headed, NeedTransition
  <2>3. Intensity[target] \in Nat /\ Intensity[level] \in Nat /\ TransitionThreshold \in Nat
    BY <1>1, RotationAssumption DEF TypeOK
  <2> QED BY <1>2, <2>2, <2>3
<1> QED BY <1>2, <1>3, <1>4 DEF StartsAsAnnounced

\* LevelsAsAnnounced: between SetupChangeLevel and the engine's command nothing comes between
\* the announcement and the level, even where administrators override each other.
THEOREM LevelsAlwaysAsAnnounced == Spec => LevelsAsAnnounced
<1>1. Headed /\ TypeOK /\ [Next]_vars => [ChangeLevel /\ change' # "refused" => StartsAsAnnounced]_vars
  BY HeadedStarts
<1>2. Spec => []Headed
  BY InitHeaded, NextHeaded, TypeCorrect, PTL DEF Spec
<1> QED BY <1>1, <1>2, TypeCorrect, PTL DEF Spec, LevelsAsAnnounced, StartsAsAnnounced
=============================================================================
