--------------------------- MODULE VotekickProofs ---------------------------
(***************************************************************************)
(* Proofs about the votekick, for any players and bots, any shares and     *)
(* delays: the votes are those of the voters, the goal follows the         *)
(* players, and the vote implements the abstract ballot.                   *)
(***************************************************************************)
EXTENDS Votekick, FiniteSetTheorems, TLAPS

\* The inductive invariant, in parts.  A vote that is on is undecided: only so can
\* an arrival go without a check, and the check when time is over find too few.
CrowdType ==
  /\ present \subseteq Players /\ active \subseteq present
  /\ known \subseteq present \cap People
  /\ lastCaller \in Players \cup {"NULL", "freed"}
VoteType == vote \in VoteRecord /\ since \in 0..CallerWait
Running == VoteOn <=> vote.state = "running"
Undecided == VoteOn => vote.count < vote.goal

IInv == CrowdType /\ VoteType /\ Running /\ Undecided /\ Tally /\ GoalTracksPlayers

LEMMA IInvTypes == IInv => TypeOK
  BY DEF IInv, CrowdType, VoteType, TypeOK

-----------------------------------------------------------------------------
(* The goal, and the sizes of sets of players.                               *)

LEMMA GoalType == ASSUME NEW n \in Nat, NEW s \in Nat PROVE Goal(n, s) \in Nat
<1>1. n * s \in Nat
  OBVIOUS
<1>2. ASSUME NEW p \in Nat PROVE (p + 500) \div 1000 \in Nat
  OBVIOUS
<1>3. QED
  BY <1>1, <1>2 DEF Goal

\* More players never need fewer votes.
LEMMA GoalMonotone ==
  ASSUME NEW m \in Nat, NEW n \in Nat, m <= n, NEW s \in Nat
  PROVE  Goal(m, s) <= Goal(n, s)
<1>1. m * s \in Nat /\ n * s \in Nat /\ m * s <= n * s
  <2>1. PICK d \in Nat : n = m + d
    <3>1. n - m \in Nat /\ n = m + (n - m)
      OBVIOUS
    <3>2. QED
      BY <3>1
  <2>2. n * s = m * s + d * s
    BY <2>1
  <2>3. m * s \in Nat /\ n * s \in Nat /\ d * s \in Nat
    OBVIOUS
  <2>4. ASSUME NEW a \in Nat, NEW b \in Nat, NEW c \in Nat, a = b + c PROVE b <= a
    BY <2>4
  <2>5. QED
    BY <2>2, <2>3, <2>4
<1>2. ASSUME NEW p \in Nat, NEW q \in Nat, p <= q
      PROVE  (p + 500) \div 1000 <= (q + 500) \div 1000
  BY <1>2
<1>3. QED
  BY <1>1, <1>2 DEF Goal

LEMMA PlayersFinite ==
  ASSUME NEW S, S \subseteq Players PROVE IsFiniteSet(S) /\ Cardinality(S) \in Nat
<1>1. IsFiniteSet(Players)
  BY VotekickAssumption, FS_Union DEF Players
<1>2. QED
  BY <1>1, FS_Subset, FS_CardinalityType

\* A goal for a set of players is at least that for a part of them.
LEMMA GoalOfPart ==
  ASSUME NEW T, T \subseteq Players, NEW S, S \subseteq T, NEW s \in Nat
  PROVE  /\ Goal(Cardinality(T), s) \in Nat
         /\ Goal(Cardinality(S), s) <= Goal(Cardinality(T), s)
<1>1. Cardinality(S) \in Nat /\ Cardinality(T) \in Nat /\ Cardinality(S) <= Cardinality(T)
  BY PlayersFinite, FS_Subset
<1>2. QED
  BY <1>1, GoalType, GoalMonotone

LEMMA VotersFinite ==
  ASSUME NEW S \in SUBSET (People \cup {"0"}), NEW h
  PROVE  /\ IsFiniteSet(S) /\ Cardinality(S) \in Nat
         /\ h \notin S => Cardinality(S \cup {h}) = Cardinality(S) + 1
         /\ h \in S => /\ Cardinality(S \ {h}) = Cardinality(S) - 1
                       /\ Cardinality(S \ {h}) \in Nat
<1>1. IsFiniteSet(People \cup {"0"})
  BY VotekickAssumption, FS_AddElement
<1>2. IsFiniteSet(S) /\ IsFiniteSet(S \ {h})
  BY <1>1, FS_Subset
<1>3. Cardinality(S) \in Nat /\ Cardinality(S \ {h}) \in Nat
  BY <1>2, FS_CardinalityType
<1>4. QED
  BY <1>2, <1>3, FS_AddElement, FS_RemoveElement

LEMMA HashType == ASSUME NEW p \in Players, CrowdType PROVE SteamHash(p) \in People \cup {"0"}
  BY DEF SteamHash, CrowdType

-----------------------------------------------------------------------------
(* What a vote becomes.                                                      *)

LEMMA ClosedFacts ==
  ASSUME NEW v \in VoteRecord, NEW how \in {"banned", "failed", "fled"}
  PROVE  /\ Closed(v, how) \in VoteRecord
         /\ Closed(v, how).target = "NULLID" /\ Closed(v, how).state = how
         /\ Closed(v, how).count = v.count /\ Closed(v, how).goal = v.goal
<1>1. v.count \in Nat /\ v.goal \in Nat
  BY DEF VoteRecord
<1>2. how \in {"idle", "running", "banned", "failed", "fled"}
  OBVIOUS
<1>3. {} \in SUBSET (People \cup {"0"}) /\ "NULLID" \in People \cup {"NULLID", "BOT"}
  OBVIOUS
<1>4. Closed(v, how) \in VoteRecord
  BY <1>1, <1>2, <1>3 DEF Closed, NoVote, VoteRecord
<1>5. QED
  BY <1>4 DEF Closed, NoVote

\* A vote that is checked is closed if its votes are enough, and goes on if not.
LEMMA CheckVotekickFacts ==
  ASSUME NEW v \in VoteRecord, v.target # "NULLID", v.state = "running",
         VoteType, CheckVotekick(v)
  PROVE  /\ VoteType'
         /\ vote'.count = v.count /\ vote'.goal = v.goal
         /\ vote'.state = IF v.count >= v.goal THEN "banned" ELSE "running"
         /\ VoteOn' => vote' = v
         /\ Running' /\ Undecided'
<1>1. since' \in 0..CallerWait
  BY VotekickAssumption DEF CheckVotekick, VoteType
<1>2. v.count \in Nat /\ v.goal \in Nat
  BY DEF VoteRecord
<1>3. CASE v.count >= v.goal
  <2>1. vote' = Closed(v, "banned")
    BY <1>3 DEF CheckVotekick, Decided
  <2>2. QED
    BY <1>1, <1>3, <2>1, ClosedFacts DEF VoteType, VoteOn, Running, Undecided
<1>4. CASE ~(v.count >= v.goal)
  <2>1. vote' = v
    BY <1>4 DEF CheckVotekick, Decided
  <2>2. QED
    BY <1>1, <1>2, <1>4, <2>1 DEF VoteType, VoteOn, Running, Undecided
<1>5. QED
  BY <1>3, <1>4

\* A checked vote keeps the invariant if, as it is checked, its votes are those of
\* its voters and its goal is that of the players.
LEMMA CheckVotekickInv ==
  ASSUME NEW v \in VoteRecord, v.target # "NULLID", v.state = "running",
         VoteType, CrowdType', CheckVotekick(v),
         v.count = Cardinality(v.voters), v.voters \ {"0"} \subseteq known',
         Goal(Cardinality(active'), v.share) <= v.goal,
         v.goal <= Goal(Cardinality(present'), v.share)
  PROVE  IInv'
<1>1. Tally'
  BY CheckVotekickFacts DEF Tally
<1>2. GoalTracksPlayers'
  BY CheckVotekickFacts DEF GoalTracksPlayers
<1>3. QED
  BY <1>1, <1>2, CheckVotekickFacts DEF IInv

LEMMA EndInv ==
  ASSUME NEW how \in {"failed", "fled"}, IInv, UNCHANGED <<crowd, lastCaller>>, End(how)
  PROVE  IInv'
<1>1. CrowdType'
  BY DEF IInv, CrowdType, crowd
<1>2. vote' \in VoteRecord /\ vote'.target = "NULLID" /\ vote'.state = how
  BY ClosedFacts DEF End, IInv, VoteType
<1>3. since' \in 0..CallerWait
  BY VotekickAssumption DEF End
<1>4. QED
  BY <1>1, <1>2, <1>3 DEF IInv, VoteType, Running, Undecided, Tally, GoalTracksPlayers, VoteOn

-----------------------------------------------------------------------------
(* Each action keeps the invariant and is a step or a stutter of the ballot. *)

Same == UNCHANGED <<vote.state, vote.count, vote.goal>>

\* What has to be shown of each action.
Kept == IInv' /\ (Abstract!Next \/ Same)

LEMMA ClientPutInServerKeeps ==
  ASSUME IInv, NEW p \in Players, ClientPutInServer(p) PROVE Kept
<1>1. CrowdType'
  BY DEF IInv, CrowdType, ClientPutInServer
<1>2. ASSUME VoteOn
      PROVE  Goal(Cardinality(present), vote.share) <= Goal(Cardinality(present'), vote.share)
  <2>1. present' \subseteq Players /\ present \subseteq present'
    BY <1>1 DEF CrowdType, ClientPutInServer
  <2>2. vote.share \in Nat
    BY DEF IInv, VoteType, VoteRecord
  <2>3. QED
    BY <2>1, <2>2, GoalOfPart
<1>3. GoalTracksPlayers'
  <2>1. vote.goal \in Nat /\ vote.share \in Nat
    BY DEF IInv, VoteType, VoteRecord
  <2>2. present \subseteq Players /\ active \subseteq Players /\ present' \subseteq Players
    BY <1>1 DEF IInv, CrowdType
  <2>3. \A S \in SUBSET Players : Goal(Cardinality(S), vote.share) \in Nat
    BY <2>1, GoalOfPart
  <2>4. QED
    BY <1>2, <2>1, <2>2, <2>3 DEF IInv, GoalTracksPlayers, ClientPutInServer, VoteOn
<1>4. VoteType' /\ Running' /\ Undecided' /\ Tally' /\ Same
  BY DEF IInv, VoteType, Running, Undecided, Tally, VoteOn, ClientPutInServer, Same
<1>5. QED
  BY <1>1, <1>3, <1>4 DEF IInv, Kept

LEMMA ClientActiveKeeps ==
  ASSUME IInv, NEW p \in Players, ClientActive(p) PROVE Kept
<1>1. CrowdType' /\ present \subseteq Players /\ active' \subseteq present
  BY DEF IInv, CrowdType, ClientActive
<1>2. CASE ~VoteOn
  <2>1. vote' = vote /\ since' = since
    BY <1>2 DEF ClientActive
  <2>2. QED
    BY <1>1, <1>2, <2>1 DEF IInv, Kept, Same, VoteType, Running, Undecided, Tally,
       GoalTracksPlayers, VoteOn
<1>3. CASE VoteOn
  <2> DEFINE g == Goal(Cardinality(present), vote.share)
  <2>1. vote.share \in Nat /\ vote.count \in Nat /\ vote.goal \in Nat
    BY DEF IInv, VoteType, VoteRecord
  <2>2. g \in Nat /\ vote.goal <= g /\ vote.count < g
    BY <1>1, <1>3, <2>1, GoalOfPart DEF IInv, GoalTracksPlayers, Undecided
  <2>3. vote' = [vote EXCEPT !.goal = g] /\ since' = since
    BY <1>3 DEF ClientActive, Regoaled, WithGoal
  <2>4. Goal(Cardinality(active'), vote.share) <= g
    BY <1>1, <2>1, GoalOfPart
  <2>5. present' = present /\ known' = known
    BY DEF ClientActive
  <2> HIDE DEF g
  <2>6. /\ vote' \in VoteRecord /\ vote'.goal = g /\ vote'.count = vote.count
        /\ vote'.state = vote.state /\ vote'.share = vote.share
        /\ vote'.voters = vote.voters /\ vote'.target = vote.target
    BY <2>2, <2>3 DEF IInv, VoteType, VoteRecord
  <2>7. VoteType' /\ Running' /\ Undecided' /\ Tally'
    BY <2>2, <2>3, <2>5, <2>6 DEF IInv, VoteType, Running, Undecided, Tally, VoteOn
  <2>8. GoalTracksPlayers'
    BY <2>2, <2>4, <2>5, <2>6 DEF GoalTracksPlayers, g
  <2>9. Abstract!Change
    <3>1. vote.state = "running"
      BY <1>3 DEF IInv, Running
    <3>2. ~(vote'.count >= vote'.goal) /\ vote'.goal \in Nat
      BY <2>1, <2>2, <2>6
    <3>3. vote'.count \in vote.count - 1 .. vote.count + 1
      BY <2>1, <2>6
    <3>4. QED
      BY <2>6, <3>1, <3>2, <3>3 DEF Abstract!Change, Abstract!Settle
  <2>10. QED
    BY <1>1, <2>7, <2>8, <2>9 DEF IInv, Kept, Abstract!Next
<1>4. QED
  BY <1>2, <1>3

\* A step that changes the votes by at most one and then checks the vote is a change
\* of the ballot.
LEMMA CheckVotekickChanges ==
  ASSUME IInv, VoteOn, NEW v \in VoteRecord, v.target # "NULLID", v.state = "running",
         CheckVotekick(v), v.count \in vote.count - 1 .. vote.count + 1
  PROVE  Abstract!Change
<1>1. vote.state = "running" /\ VoteType
  BY DEF IInv, Running
<1>2. /\ vote'.count = v.count /\ vote'.goal = v.goal
      /\ vote'.state = IF v.count >= v.goal THEN "banned" ELSE "running"
  BY <1>1, CheckVotekickFacts
<1>3. v.goal \in Nat
  BY DEF VoteRecord
<1>4. QED
  BY <1>1, <1>2, <1>3 DEF Abstract!Change, Abstract!Settle

LEMMA ClientDisconnectedKeeps ==
  ASSUME IInv, NEW p \in Players, ClientDisconnected(p) PROVE Kept
<1>1. CrowdType'
  BY DEF IInv, CrowdType, ClientDisconnected
<1>2. CASE ~VoteOn
  <2>1. vote' = vote /\ since' = since
    BY <1>2 DEF ClientDisconnected
  <2>2. QED
    BY <1>1, <1>2, <2>1 DEF IInv, Kept, Same, VoteType, Running, Undecided, Tally,
       GoalTracksPlayers, VoteOn
<1>3. CASE VoteOn
  <2> DEFINE h == SteamHash(p)
             w == Withdrawn(vote, h)
             v == WithGoal(w, Remaining(p))
  <2>1. /\ vote \in VoteRecord /\ vote.target # "NULLID" /\ vote.state = "running"
        /\ vote.count = Cardinality(vote.voters) /\ vote.voters \ {"0"} \subseteq known
        /\ vote.share \in Nat /\ vote.voters \in SUBSET (People \cup {"0"})
    BY <1>3 DEF IInv, VoteType, Running, Tally, VoteOn, VoteRecord
  <2>2. /\ w \in VoteRecord /\ w.target = vote.target /\ w.state = "running"
        /\ w.share = vote.share /\ w.voters = vote.voters \ {h}
        /\ w.count = Cardinality(w.voters)
        /\ w.count \in vote.count - 1 .. vote.count + 1
    <3>1. CASE h \in vote.voters
      <4>1. vote.count - 1 \in Nat /\ Cardinality(vote.voters \ {h}) = vote.count - 1
        BY <2>1, <3>1, VotersFinite
      <4>2. w = [vote EXCEPT !.voters = vote.voters \ {h}, !.count = vote.count - 1]
        BY <3>1 DEF Withdrawn
      <4> HIDE DEF w, h
      <4>3. /\ w.voters = vote.voters \ {h} /\ w.count = vote.count - 1
            /\ w.target = vote.target /\ w.state = vote.state /\ w.share = vote.share
        BY <2>1, <4>2 DEF VoteRecord
      <4>4. w \in VoteRecord
        BY <2>1, <4>1, <4>2 DEF VoteRecord
      <4>5. QED
        BY <2>1, <4>1, <4>3, <4>4 DEF VoteRecord
    <3>2. CASE h \notin vote.voters
      <4>1. w = vote
        BY <3>2 DEF Withdrawn
      <4>2. vote.count \in Nat /\ vote.voters = vote.voters \ {h}
        BY <2>1, <3>2 DEF VoteRecord
      <4> HIDE DEF w, h
      <4>3. QED
        BY <2>1, <4>1, <4>2
    <3>3. QED
      BY <3>1, <3>2
  <2>3. w.voters \ {"0"} \subseteq known'
    <3>1. known' = known \ {p} /\ (p \in known => h = p) /\ (p \notin known => known' = known)
      BY DEF ClientDisconnected, SteamHash
    <3> HIDE DEF h, w
    <3>2. QED
      BY <2>1, <2>2, <3>1
  <2>4. /\ present \subseteq Players /\ present' \subseteq Players /\ active' \subseteq present'
        /\ Cardinality(present') = Remaining(p) /\ Remaining(p) \in Nat
    <3>1. present \subseteq Players /\ p \in present /\ present' = present \ {p}
      BY DEF IInv, CrowdType, ClientDisconnected
    <3>2. present' \subseteq Players /\ active' \subseteq present'
      BY <1>1 DEF CrowdType
    <3>3. Cardinality(present') = Cardinality(present) - 1 /\ Cardinality(present') \in Nat
      BY <3>1, <3>2, PlayersFinite, FS_RemoveElement
    <3>4. QED
      BY <3>1, <3>2, <3>3 DEF Remaining
  <2>5. /\ Goal(Remaining(p), w.share) \in Nat
        /\ Goal(Cardinality(active'), w.share) <= Goal(Remaining(p), w.share)
        /\ Goal(Cardinality(present'), w.share) = Goal(Remaining(p), w.share)
    BY <2>1, <2>2, <2>4, GoalOfPart
  <2>6. CheckVotekick(v)
    BY <1>3 DEF ClientDisconnected
  <2>7. /\ v \in VoteRecord /\ v.target # "NULLID" /\ v.state = "running"
        /\ v.count = w.count /\ v.voters = w.voters /\ v.share = w.share
        /\ v.goal = Goal(Remaining(p), w.share)
    <3>1. v = [w EXCEPT !.goal = Goal(Remaining(p), w.share)]
      BY DEF WithGoal
    <3> HIDE DEF v, w
    <3>2. QED
      BY <2>1, <2>2, <2>5, <3>1 DEF VoteRecord
  <2>8. VoteType /\ Goal(Cardinality(present'), w.share) \in Nat
    BY <2>5 DEF IInv
  <2> HIDE DEF v, w, h
  <2>9. v.goal <= Goal(Cardinality(present'), v.share)
    BY <2>5, <2>7
  <2>10. IInv'
    BY <1>1, <2>2, <2>3, <2>5, <2>6, <2>7, <2>8, <2>9, CheckVotekickInv
  <2>11. Abstract!Change
    BY <1>3, <2>2, <2>6, <2>7, CheckVotekickChanges
  <2>12. QED
    BY <2>10, <2>11 DEF Kept, Abstract!Next
<1>4. QED
  BY <1>2, <1>3

LEMMA LearnSteamHashKeeps ==
  ASSUME IInv, NEW p \in People, LearnSteamHash(p) PROVE Kept
  BY DEF IInv, CrowdType, VoteType, Running, Undecided, Tally, GoalTracksPlayers, VoteOn,
     LearnSteamHash, Kept, Same

LEMMA TickKeeps == ASSUME IInv, Tick PROVE Kept
<1>1. /\ present' = present /\ active' = active /\ known' = known
      /\ lastCaller' = lastCaller
  BY DEF Tick, crowd
<1>2. /\ vote' \in VoteRecord /\ vote'.target = vote.target /\ vote'.count = vote.count
      /\ vote'.goal = vote.goal /\ vote'.voters = vote.voters
      /\ vote'.share = vote.share /\ vote'.state = vote.state
  <2>1. vote \in VoteRecord
    BY DEF IInv, VoteType
  <2>2. vote.left - 1 \in Int
    BY <2>1 DEF VoteRecord
  <2>3. vote' = vote \/ vote' = [vote EXCEPT !.left = vote.left - 1]
    BY DEF Tick
  <2>4. QED
    BY <2>1, <2>2, <2>3 DEF VoteRecord
<1>3. since' \in 0..CallerWait
  BY VotekickAssumption DEF Tick, IInv, VoteType
<1>4. QED
  BY <1>1, <1>2, <1>3 DEF IInv, CrowdType, VoteType, Running, Undecided, Tally,
     GoalTracksPlayers, VoteOn, Kept, Same

LEMMA CallVoteKeeps ==
  ASSUME IInv, NEW p \in People, NEW q \in Players, CallVote(p, q) PROVE Kept
<1>1. PICK share \in Shares :
        CheckVotekick([target |-> NetworkID(q), count |-> 1,
                       goal |-> Goal(Cardinality(present), share),
                       voters |-> {SteamHash(p)}, share |-> share, left |-> VoteTime,
                       state |-> "running"])
  BY DEF CallVote
<1> DEFINE v == [target |-> NetworkID(q), count |-> 1,
                 goal |-> Goal(Cardinality(present), share),
                 voters |-> {SteamHash(p)}, share |-> share, left |-> VoteTime,
                 state |-> "running"]
<1>2. /\ present' = present /\ active' = active /\ known' = known /\ lastCaller' = p
      /\ p \in active /\ vote.state # "running"
  BY DEF CallVote, crowd, IInv, Running
<1>3. CrowdType' /\ present \subseteq Players /\ active \subseteq present
  BY <1>2 DEF IInv, CrowdType, Players
<1>4. share \in Nat /\ VoteTime \in Int
  BY VotekickAssumption
<1>5. /\ Goal(Cardinality(present), share) \in Nat
      /\ Goal(Cardinality(active), share) <= Goal(Cardinality(present), share)
  BY <1>3, <1>4, GoalOfPart
<1>6. NetworkID(q) \in People \cup {"NULLID", "BOT"} /\ NetworkID(q) # "NULLID"
  BY VotekickAssumption DEF NetworkID, Players
<1>7. SteamHash(p) \in People \cup {"0"}
  BY DEF SteamHash
<1>8. v \in VoteRecord
  BY <1>4, <1>5, <1>6, <1>7 DEF VoteRecord
<1>9. Cardinality({SteamHash(p)}) = 1
  BY FS_Singleton
<1>10. {SteamHash(p)} \ {"0"} \subseteq known'
  BY <1>2 DEF SteamHash
<1>11. /\ v.target # "NULLID" /\ v.state = "running" /\ v.count = 1
       /\ v.count = Cardinality(v.voters) /\ v.voters \ {"0"} \subseteq known'
       /\ Goal(Cardinality(active'), v.share) <= v.goal
       /\ v.goal <= Goal(Cardinality(present'), v.share)
       /\ CheckVotekick(v) /\ VoteType
  BY <1>1, <1>2, <1>5, <1>6, <1>9, <1>10 DEF IInv
<1> HIDE DEF v
<1>12. IInv'
  BY <1>3, <1>8, <1>11, CheckVotekickInv
<1>13. Abstract!Open
  <2>1. /\ vote'.count = v.count /\ vote'.goal = v.goal
        /\ vote'.state = IF v.count >= v.goal THEN "banned" ELSE "running"
    BY <1>8, <1>11, CheckVotekickFacts
  <2>2. v.goal \in Nat
    BY <1>8 DEF VoteRecord
  <2>3. QED
    BY <1>2, <1>11, <2>1, <2>2 DEF Abstract!Open, Abstract!Settle
<1>14. QED
  BY <1>12, <1>13 DEF Kept, Abstract!Next

LEMMA AgreeKeeps == ASSUME IInv, NEW p \in People, Agree(p) PROVE Kept
<1> DEFINE h == SteamHash(p)
           v == Seconded(vote, h)
<1>1. /\ present' = present /\ active' = active /\ known' = known
      /\ lastCaller' = lastCaller /\ VoteOn /\ CheckVotekick(v)
  BY DEF Agree, crowd
<1>2. CrowdType'
  BY <1>1 DEF IInv, CrowdType
<1>3. /\ vote \in VoteRecord /\ vote.target # "NULLID" /\ vote.state = "running"
      /\ vote.count = Cardinality(vote.voters) /\ vote.voters \ {"0"} \subseteq known
      /\ vote.voters \in SUBSET (People \cup {"0"}) /\ vote.count \in Nat
      /\ Goal(Cardinality(active), vote.share) <= vote.goal
      /\ vote.goal <= Goal(Cardinality(present), vote.share)
  BY <1>1 DEF IInv, VoteType, Running, Tally, GoalTracksPlayers, VoteOn, VoteRecord
<1>4. h \in People \cup {"0"} /\ (h = "0" \/ h \in known)
  BY DEF SteamHash
<1>5. /\ v \in VoteRecord /\ v.target = vote.target /\ v.state = "running"
      /\ v.share = vote.share /\ v.goal = vote.goal /\ v.voters = vote.voters \cup {h}
      /\ v.count = Cardinality(v.voters)
      /\ v.count \in vote.count - 1 .. vote.count + 1
  <2>1. CASE h \in vote.voters
    <3>1. v = vote /\ vote.voters = vote.voters \cup {h}
      BY <2>1 DEF Seconded
    <3> HIDE DEF v, h
    <3>2. QED
      BY <1>3, <3>1
  <2>2. CASE h \notin vote.voters
    <3>1. Cardinality(vote.voters \cup {h}) = vote.count + 1
      BY <1>3, <2>2, VotersFinite
    <3>2. v = [vote EXCEPT !.voters = vote.voters \cup {h}, !.count = vote.count + 1]
      BY <2>2 DEF Seconded
    <3> HIDE DEF v, h
    <3>3. /\ v.voters = vote.voters \cup {h} /\ v.count = vote.count + 1
          /\ v.target = vote.target /\ v.state = vote.state /\ v.share = vote.share
          /\ v.goal = vote.goal
      BY <1>3, <3>2 DEF VoteRecord
    <3>4. vote.count + 1 \in Nat /\ vote.voters \cup {h} \in SUBSET (People \cup {"0"})
      BY <1>3, <1>4
    <3>5. v \in VoteRecord
      BY <1>3, <3>2, <3>4 DEF VoteRecord
    <3>6. QED
      BY <1>3, <3>1, <3>3, <3>5
  <2>3. QED
    BY <2>1, <2>2
<1> HIDE DEF v, h
<1>6. v.voters \ {"0"} \subseteq known'
  BY <1>1, <1>3, <1>4, <1>5
<1>7. IInv'
  BY <1>1, <1>2, <1>3, <1>5, <1>6, CheckVotekickInv DEF IInv
<1>8. Abstract!Change
  BY <1>1, <1>3, <1>5, CheckVotekickChanges
<1>9. QED
  BY <1>7, <1>8 DEF Kept, Abstract!Next

LEMMA ChangeNameKeeps == ASSUME IInv, NEW p \in People, ChangeName(p) PROVE Kept
<1>1. VoteOn /\ End("fled") /\ UNCHANGED <<crowd, lastCaller>>
  BY DEF ChangeName
<1>2. IInv'
  BY <1>1, EndInv
<1>3. Abstract!Flee
  BY <1>1, ClosedFacts DEF IInv, VoteType, Running, End, Abstract!Flee
<1>4. QED
  BY <1>2, <1>3 DEF Kept, Abstract!Next

\* The check when the time is over finds too few votes: the vote fails.
LEMMA ExpireKeeps == ASSUME IInv, Expire PROVE Kept
<1>1. VoteOn /\ UNCHANGED <<crowd, lastCaller>>
  BY DEF Expire
<1>2. vote \in VoteRecord /\ vote.state = "running" /\ vote.count < vote.goal
  BY <1>1 DEF IInv, VoteType, Running, Undecided
<1>3. ~(vote.count >= vote.goal)
  BY <1>2 DEF VoteRecord
<1>4. End("failed")
  BY <1>3 DEF Expire
<1>5. IInv'
  BY <1>1, <1>4, EndInv
<1>6. Abstract!Fail
  BY <1>2, <1>4, ClosedFacts DEF End, Abstract!Fail
<1>7. QED
  BY <1>5, <1>6 DEF Kept, Abstract!Next

-----------------------------------------------------------------------------
LEMMA InitIInv == Init => IInv /\ Abstract!Init
<1> SUFFICES ASSUME Init PROVE IInv /\ Abstract!Init
  OBVIOUS
<1>1. vote \in VoteRecord
  BY DEF Init, NoVote, VoteRecord
<1>2. vote.target = "NULLID" /\ vote.state = "idle" /\ vote.count = 0 /\ vote.goal = 0
  BY DEF Init, NoVote
<1>3. since \in 0..CallerWait
  BY VotekickAssumption DEF Init
<1>4. CrowdType
  BY DEF Init, CrowdType
<1>5. QED
  BY <1>1, <1>2, <1>3, <1>4 DEF IInv, VoteType, Running, Undecided, Tally,
     GoalTracksPlayers, VoteOn, Abstract!Init

LEMMA NextKeeps == ASSUME IInv, [Next]_vars PROVE Kept
<1>1. ASSUME NEW p \in Players, ClientPutInServer(p) PROVE Kept
  BY <1>1, ClientPutInServerKeeps
<1>2. ASSUME NEW p \in Players, ClientActive(p) PROVE Kept
  BY <1>2, ClientActiveKeeps
<1>3. ASSUME NEW p \in Players, ClientDisconnected(p) PROVE Kept
  BY <1>3, ClientDisconnectedKeeps
<1>4. ASSUME NEW p \in People, LearnSteamHash(p) PROVE Kept
  BY <1>4, LearnSteamHashKeeps
<1>5. ASSUME NEW p \in People, NEW q \in Players, CallVote(p, q) PROVE Kept
  BY <1>5, CallVoteKeeps
<1>6. ASSUME NEW p \in People, Agree(p) PROVE Kept
  BY <1>6, AgreeKeeps
<1>7. ASSUME NEW p \in People, ChangeName(p) PROVE Kept
  BY <1>7, ChangeNameKeeps
<1>8. CASE UNCHANGED vars
  BY <1>8 DEF IInv, CrowdType, VoteType, Running, Undecided, Tally, GoalTracksPlayers,
     VoteOn, Kept, Same, vars, crowd
<1>9. QED
  BY <1>1, <1>2, <1>3, <1>4, <1>5, <1>6, <1>7, <1>8, ExpireKeeps, TickKeeps DEF Next

LEMMA IInvAlways == Spec => []IInv
<1>1. IInv /\ [Next]_vars => IInv'
  BY NextKeeps DEF Kept
<1>2. QED
  BY <1>1, InitIInv, PTL DEF Spec

\* The players, the vote and the waiting times keep their types.
THEOREM TypeCorrect == Spec => []TypeOK
  BY IInvAlways, IInvTypes, PTL

\* CGERules::CheckVotekick counts the votes of those on the list and of no others,
\* whoever has come, gone, called and agreed.
THEOREM TallyAlways == Spec => []Tally
<1>1. IInv => Tally
  BY DEF IInv
<1>2. QED
  BY <1>1, IInvAlways, PTL

\* m_iVoteGoal is the share of the players, through arrivals and departures.
THEOREM GoalAlwaysTracksPlayers == Spec => []GoalTracksPlayers
<1>1. IInv => GoalTracksPlayers
  BY DEF IInv
<1>2. QED
  BY <1>1, IInvAlways, PTL

\* The votekick of the game rules implements the ballot: every vote is decided at the
\* step that makes the votes enough, and none fails that had enough.
THEOREM VotekickImplementsBallot == Spec => ImplementsBallot
<1>1. Init => Abstract!Init
  BY InitIInv
<1>2. IInv /\ [Next]_vars => [Abstract!Next]_(Abstract!vars)
  BY NextKeeps DEF Kept, Same, Abstract!vars
<1>3. QED
  BY <1>1, <1>2, IInvAlways, PTL DEF Spec, ImplementsBallot, Abstract!Spec
=============================================================================
