------------------------------ MODULE Votekick ------------------------------
(***************************************************************************)
(* The votekick of the game rules: a player calls a vote on another by     *)
(* chat, others agree, and the target is banned when the share of the      *)
(* players that is needed has agreed (CGEMPRules::OnPlayerSay,             *)
(* ClientActive, ClientDisconnected and Think in                           *)
(* shared/mp/gemp_gamerules.cpp, CGERules::CheckVotekick and               *)
(* ClientSettingsChanged in shared/ge_gamerules.cpp).                      *)
(*                                                                         *)
(* Times are whole seconds, relative to the present.  How the engine       *)
(* carries a ban out is not modelled: the target leaves like anybody else. *)
(***************************************************************************)
EXTENDS Integers, FiniteSets

CONSTANTS
  People, Bots,
  \* The shares of the players a vote may need, in thousandths: 700, less for
  \* developers and others, and 0 under martial law.
  Shares,
  \* The fewest players to call a vote (4), how long a vote lasts (40), and how
  \* long after one the next may be called by others (120) and by its caller (240).
  MinPlayers, VoteTime, Wait, CallerWait

Players == People \cup Bots

ASSUME VotekickAssumption ==
  /\ IsFiniteSet(People) /\ IsFiniteSet(Bots) /\ People \cap Bots = {}
  /\ {"NULL", "NULLID", "BOT", "0", "freed"} \cap Players = {}
  /\ Shares \subseteq Nat /\ MinPlayers \in Nat /\ VoteTime \in Nat
  /\ Wait \in Nat /\ CallerWait \in Nat /\ Wait <= CallerWait

VARIABLES
  present,    \* those FOR_EACH_MPPLAYER finds: put in the server
  active,     \* those of them whose ClientActive has run
  known,      \* those whose Steam hash is known; it takes the status lists of the web
  vote,       \* the vote; see VoteRecord
  since,      \* seconds since the last vote ended, up to CallerWait
  lastCaller  \* m_pLastKickCaller: a pointer, and "freed" when it dangles

crowd == <<present, active, known>>
vars  == <<crowd, vote, since, lastCaller>>

\* m_pKickTargetID, m_iVoteCount, m_iVoteGoal, m_vVoterIDs, m_flVoteFrac, the time
\* left until m_flKickEndTime, and how the vote stands.
VoteRecord == [target: People \cup {"NULLID", "BOT"}, count: Nat, goal: Nat,
               voters: SUBSET (People \cup {"0"}), share: Nat, left: Int,
               state: {"idle", "running", "banned", "failed", "fled"}]

NoVote(how, votes, needed) ==
  [target |-> "NULLID", count |-> votes, goal |-> needed, voters |-> {}, share |-> 0,
   left |-> 0, state |-> how]

VoteOn == vote.target # "NULLID"

\* All bots share their network ID.
NetworkID(p) == IF p \in Bots THEN "BOT" ELSE p

\* GetSteamHash(): zero until it is known, and for bots.
SteamHash(p) == IF p \in known THEN p ELSE "0"

\* round( players * m_flVoteFrac )
Goal(players, share) == (players * share + 500) \div 1000

WithGoal(v, players) == [v EXCEPT !.goal = Goal(players, v.share)]

\* Broken arrival: it gives the vote its time again.
ClockRestarted(v, players) == [v EXCEPT !.goal = Goal(players, v.share), !.left = VoteTime]

\* ClientActive: an arrival.  The vote is not checked, since it can only need more.
Regoaled(v, players) == WithGoal(v, players)

\* A vote that is over.  The votes and the goal stay; voters and share are not
\* read before the next call sets them, and are forgotten here.
Closed(v, how) == NoVote(how, v.count, v.goal)

\* Broken comparison: a vote more than needed.
DecidedAbove(v) == IF v.count > v.goal THEN Closed(v, "banned") ELSE v

\* CheckVotekick()
Decided(v) == IF v.count >= v.goal THEN Closed(v, "banned") ELSE v

\* v is what the vote has become; it may be decided.
CheckVotekick(v) ==
  /\ vote' = Decided(v)
  /\ since' = IF Decided(v) = v THEN since ELSE 0

End(how) == vote' = Closed(vote, how) /\ since' = 0

-----------------------------------------------------------------------------
Init ==
  /\ present = {} /\ active = {} /\ known = {}
  /\ vote = NoVote("idle", 0, 0) /\ since = CallerWait /\ lastCaller = "NULL"

\* ClientPutInServer.  The new player's entity may be where a freed one was.
ClientPutInServer(p) ==
  /\ p \notin present
  /\ present' = present \cup {p}
  /\ lastCaller' \in IF lastCaller = "freed" THEN {"freed", p} ELSE {lastCaller}
  /\ UNCHANGED <<active, known, vote, since>>

ClientActive(p) ==
  /\ p \in present \ active
  /\ active' = active \cup {p}
  /\ vote' = IF VoteOn THEN Regoaled(vote, Cardinality(present)) ELSE vote
  /\ UNCHANGED <<present, known, since, lastCaller>>

\* Broken count: the leaving player is among those who stay.
EverybodyRemains(p) == Cardinality(present)

\* The players without p, who is still found.
Remaining(p) == Cardinality(present) - 1

\* Broken departure: the voter stays on the list.
VoterStaysListed(v, hash) == IF hash \in v.voters THEN [v EXCEPT !.count = @ - 1] ELSE v

\* The vote without that of the hash.
Withdrawn(v, hash) ==
  IF hash \in v.voters THEN [v EXCEPT !.voters = @ \ {hash}, !.count = @ - 1] ELSE v

ClientDisconnected(p) ==
  /\ p \in present
  /\ present' = present \ {p} /\ active' = active \ {p} /\ known' = known \ {p}
  /\ lastCaller' = IF lastCaller = p THEN "freed" ELSE lastCaller
  /\ IF VoteOn THEN CheckVotekick(WithGoal(Withdrawn(vote, SteamHash(p)), Remaining(p)))
     ELSE UNCHANGED <<vote, since>>

\* PreThink, once the status lists are there.
LearnSteamHash(p) ==
  /\ p \in (present \cap People) \ known
  /\ known' = known \cup {p}
  /\ UNCHANGED <<present, active, vote, since, lastCaller>>

MayCall(p) == since >= (IF p = lastCaller THEN CallerWait ELSE Wait)

\* !gevotekick and !gevotekickid: p calls a vote on q.
CallVote(p, q) ==
  /\ p \in active /\ q \in present
  /\ ~VoteOn /\ MayCall(p) /\ Cardinality(present) >= MinPlayers
  /\ lastCaller' = p
  /\ \E share \in Shares :
       CheckVotekick([target |-> NetworkID(q), count |-> 1,
                      goal |-> Goal(Cardinality(present), share),
                      voters |-> {SteamHash(p)}, share |-> share, left |-> VoteTime,
                      state |-> "running"])
  /\ UNCHANGED crowd

\* The vote with that of the hash, which counts once.
Seconded(v, hash) ==
  IF hash \in v.voters THEN v ELSE [v EXCEPT !.voters = @ \cup {hash}, !.count = @ + 1]

\* !voodoo: p agrees.
Agree(p) ==
  /\ p \in active /\ VoteOn
  /\ CheckVotekick(Seconded(vote, SteamHash(p)))
  /\ UNCHANGED <<crowd, lastCaller>>

\* ClientSettingsChanged: a target that changes its name is banned at once.
ChangeName(p) ==
  /\ p \in present /\ VoteOn /\ NetworkID(p) = vote.target
  /\ End("fled")
  /\ UNCHANGED <<crowd, lastCaller>>

\* Think, once the time of the vote has passed.
Expire ==
  /\ VoteOn /\ vote.left < 0
  /\ IF vote.count >= vote.goal THEN CheckVotekick(vote) ELSE End("failed")
  /\ UNCHANGED <<crowd, lastCaller>>

\* A second passes.
Tick ==
  /\ vote' = IF VoteOn /\ vote.left >= 0 THEN [vote EXCEPT !.left = @ - 1] ELSE vote
  /\ since' = IF since < CallerWait THEN since + 1 ELSE since
  /\ UNCHANGED <<crowd, lastCaller>>

Next ==
  \/ \E p \in Players : ClientPutInServer(p)
  \/ \E p \in Players : ClientActive(p)
  \/ \E p \in Players : ClientDisconnected(p)
  \/ \E p \in People : LearnSteamHash(p)
  \/ \E p \in People, q \in Players : CallVote(p, q)
  \/ \E p \in People : Agree(p)
  \/ \E p \in People : ChangeName(p)
  \/ Expire
  \/ Tick

Spec == Init /\ [][Next]_vars

\* Time passes and the server runs frames; nobody has to say anything.
LiveSpec == Spec /\ WF_vars(Tick) /\ WF_vars(Expire)

-----------------------------------------------------------------------------
TypeOK ==
  /\ present \subseteq Players /\ active \subseteq present
  /\ known \subseteq present \cap People
  /\ vote \in VoteRecord
  /\ since \in 0..CallerWait
  /\ lastCaller \in Players \cup {"NULL", "freed"}

\* The votes are those of the voters on the list, and the voters whose hash is
\* known are there: a departure takes its vote along, through any sequence of
\* arrivals, departures and votes.
Tally ==
  VoteOn => /\ vote.count = Cardinality(vote.voters)
            /\ vote.voters \ {"0"} \subseteq known

\* The votes needed are the share of the players, neither fewer than for those
\* who have arrived nor more than for those who are on their way as well.
GoalTracksPlayers ==
  VoteOn => /\ Goal(Cardinality(active), vote.share) <= vote.goal
            /\ vote.goal <= Goal(Cardinality(present), vote.share)

\* The vote implements the abstract ballot: it is decided as soon as it can be, so
\* that the check when its time is over never finds enough votes, and an arrival
\* needs no check.
Abstract == INSTANCE Ballot WITH state <- vote.state, votes <- vote.count,
                                 needed <- vote.goal

ImplementsBallot == Abstract!Spec

\* A vote ends, whoever comes and goes.
VoteEnds == VoteOn ~> ~VoteOn

\* "Make sure they can't vote again", shared/mp/gemp_gamerules.cpp:2161: whoever has
\* voted is found on the list of voters by the hash.
VotersCannotVoteAgain ==
  VoteOn => vote.voters \subseteq {SteamHash(p) : p \in present}
=============================================================================
