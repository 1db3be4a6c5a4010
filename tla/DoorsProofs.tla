---------------------------- MODULE DoorsProofs ----------------------------
(***************************************************************************)
(* Proofs about Doors, for every set of doors and players: the type        *)
(* invariant, that partners that do not return by themselves stay in step, *)
(* that a door at rest that is never locked has its uses before it, that   *)
(* the last door of a group to arrive reports it, and that only who set a  *)
(* door in motion turns it within the second.                              *)
(***************************************************************************)
EXTENDS Doors, WellFoundedInduction, TLAPS

-----------------------------------------------------------------------------
(* Numbers.                                                                *)

\* A set of natural numbers has a least element.
LEMMA Least ==
  ASSUME NEW A \in SUBSET Nat, A # {}
  PROVE  \E n \in A : \A m \in A : n <= m
<1> DEFINE R == {p \in Nat \X Nat : p[1] < p[2]}
<1>1. IsWellFoundedOn(R, Nat)
  BY NatLessThanWellFounded, Zenon DEF OpToRel
<1>2. \A m, n \in Nat : <<m, n>> \in R <=> m < n
  OBVIOUS
<1> HIDE DEF R
<1>3. PICK n \in A : \A m \in A : ~ (<<m, n>> \in R)
  BY <1>1, WFMin
<1>4. ASSUME NEW m \in A PROVE n <= m
  <2>1. ~ (m < n)
    BY <1>2, <1>3
  <2> QED BY <2>1
<1> QED BY <1>4

\* A bounded one has a greatest.
LEMMA Greatest ==
  ASSUME NEW n \in Nat, NEW A \in SUBSET (1..n), A # {}
  PROVE  \E i \in A : \A j \in A : j <= i
<1> DEFINE B == {k \in Nat : n - k \in A}
<1>1. PICK i \in A : TRUE
  OBVIOUS
<1>2. n - i \in Nat /\ n - (n - i) = i
  OBVIOUS
<1>3. n - i \in B
  BY <1>2
<1>4. PICK k \in B : \A m \in B : k <= m
  BY <1>3, Least
<1>5. ASSUME NEW j \in A PROVE j <= n - k
  <2>1. n - j \in Nat /\ n - (n - j) = j
    OBVIOUS
  <2>2. k <= n - j
    BY <1>4, <2>1
  <2> QED BY <1>4, <2>2
<1> QED BY <1>4, <1>5

\* A set that has 0 and the successors of its elements has all natural numbers.
LEMMA SetInduction ==
  ASSUME NEW A \in SUBSET Nat, 0 \in A, \A n \in A : n + 1 \in A
  PROVE  A = Nat
<1>1. SUFFICES ASSUME Nat \ A # {} PROVE FALSE
  OBVIOUS
<1>2. PICK n \in Nat \ A : \A m \in Nat \ A : n <= m
  BY <1>1, Least
<1>3. n # 0 /\ n - 1 \in Nat
  BY <1>2
<1>4. n - 1 \in A
  BY <1>2, <1>3
<1> QED BY <1>3, <1>4, <1>2

-----------------------------------------------------------------------------
(* Partners.                                                               *)

\* BuildPartnerList of d adds to the list, in its step i, the door that the last one names.
Longer(d, known, i) ==
  LET next == Partner[IF known = <<>> THEN d ELSE known[Len(known)]]
  IN  IF Len(known) = i - 1 /\ next \notin SetOf(known) \cup {d, NoDoor}
      THEN Append(known, next) ELSE known

Walks(f, n, d) == f = [i \in 0..n |-> IF i = 0 THEN <<>> ELSE Longer(d, f[i - 1], i)]

\* The recursion of PartnerLists has a solution.
LEMMA WalkExists ==
  ASSUME NEW d, NEW N \in Nat
  PROVE  \E f : Walks(f, N, d)
<1> DEFINE A == {n \in Nat : \E f : Walks(f, n, d)}
<1>1. 0 \in A
  <2> DEFINE f == [i \in 0..0 |-> <<>>]
  <2>1. Walks(f, 0, d)
    BY DEF Walks
  <2> QED BY <2>1
<1>2. ASSUME NEW n \in A PROVE n + 1 \in A
  <2>1. PICK f : Walks(f, n, d)
    OBVIOUS
  <2> DEFINE h == [i \in 0..n+1 |-> IF i = n + 1 THEN Longer(d, f[n], n + 1) ELSE f[i]]
  <2>2. ASSUME NEW i \in 0..n+1
        PROVE  h[i] = IF i = 0 THEN <<>> ELSE Longer(d, h[i - 1], i)
    <3>1. CASE i = n + 1
      BY <3>1
    <3>2. CASE i # n + 1
      <4>1. i \in 0..n /\ h[i] = f[i]
        BY <3>2
      <4>2. f[i] = IF i = 0 THEN <<>> ELSE Longer(d, f[i - 1], i)
        BY <2>1, <4>1 DEF Walks
      <4>3. i # 0 => i - 1 \in 0..n+1 /\ i - 1 # n + 1
        BY <4>1
      <4> QED BY <4>1, <4>2, <4>3
    <3> QED BY <3>1, <3>2
  <2>3. Walks(h, n + 1, d)
    BY <2>2 DEF Walks
  <2> HIDE DEF h
  <2>4. \E g : Walks(g, n + 1, d)
    BY <2>3
  <2> QED BY <2>4
<1> HIDE DEF A
<1>3. N \in A
  BY <1>1, <1>2, SetInduction DEF A
<1> QED BY <1>3 DEF A

\* The list of a door has doors, and not itself.
LEMMA ListSound ==
  ASSUME NEW d \in Doors
  PROVE  PartnerLists[d] \in Seq(Doors) /\ d \notin SetOf(PartnerLists[d])
<1> DEFINE walk == CHOOSE f : Walks(f, 128, d)
           A == {n \in Nat : n <= 128 => walk[n] \in Seq(Doors) /\ d \notin SetOf(walk[n])}
<1>1. Walks(walk, 128, d)
  BY WalkExists
<1>2. PartnerLists[d] = walk[128]
  BY DEF PartnerLists, Walks, Longer
<1> HIDE DEF walk
<1>3. ASSUME NEW i \in 0..128 PROVE walk[i] = IF i = 0 THEN <<>> ELSE Longer(d, walk[i - 1], i)
  BY <1>1 DEF Walks
<1>4. 0 \in A
  <2>1. walk[0] = <<>>
    BY <1>3
  <2>2. <<>> \in Seq(Doors) /\ SetOf(<<>>) = {}
    BY DEF SetOf
  <2> QED BY <2>1, <2>2
<1>5. ASSUME NEW n \in A PROVE n + 1 \in A
  <2> SUFFICES ASSUME n + 1 <= 128
               PROVE  walk[n + 1] \in Seq(Doors) /\ d \notin SetOf(walk[n + 1])
    OBVIOUS
  <2>1. n + 1 \in 0..128 /\ n + 1 # 0 /\ (n + 1) - 1 = n /\ walk[n] \in Seq(Doors) /\ d \notin SetOf(walk[n])
    OBVIOUS
  <2>2. walk[n + 1] = Longer(d, walk[n], n + 1)
    BY <1>3, <2>1
  <2> DEFINE known == walk[n]
             next  == Partner[IF known = <<>> THEN d ELSE known[Len(known)]]
  <2>3. CASE walk[n + 1] = known
    BY <2>1, <2>3
  <2>4. CASE walk[n + 1] = Append(known, next) /\ next \notin {d, NoDoor}
    <3>1. next \in Doors
      <4>1. (IF known = <<>> THEN d ELSE known[Len(known)]) \in Doors
        BY <2>1
      <4> QED BY <2>4, <4>1, DoorsAssumption
    <3> HIDE DEF next, known
    <3>2. known \in Seq(Doors) /\ d \notin SetOf(known)
      BY <2>1 DEF known
    <3>3. \A i \in 1..Len(Append(known, next)) :
            \/ i \in 1..Len(known) /\ Append(known, next)[i] = known[i]
            \/ Append(known, next)[i] = next
      BY <3>1, <3>2
    <3> QED BY <2>4, <3>1, <3>2, <3>3 DEF SetOf
  <2> QED BY <2>2, <2>3, <2>4 DEF Longer
<1> HIDE DEF A
<1>6. 128 \in A
  BY <1>4, <1>5, SetInduction DEF A
<1> QED BY <1>2, <1>6 DEF A

\* What the list gives, and the assumption that the doors of a group name each other.
LEMMA PartnersKnown ==
  /\ Partners \in [Doors -> SUBSET Doors]
  /\ \A d \in Doors : \A e \in Partners[d] : Group(e) = Group(d)
<1>1. ASSUME NEW d \in Doors PROVE Partners[d] \in SUBSET Doors
  BY ListSound DEF Partners, SetOf
<1> QED BY <1>1, PartnersAssumption DEF Partners

-----------------------------------------------------------------------------
(* The inductive invariant.                                                *)

\* One door: its types and bounds, that a door at rest is where it should be and a moving
\* one is not where it is going, and that only doors with auto-return wait to come back.
Good(r, d) ==
  /\ r \in DoorRecord
  /\ r.pos <= Length[d] /\ r.uses <= UseLimit[d]
  /\ r.timer <= Wait[d] \/ r.timer = Off
  /\ r.state = "AtTop" => r.pos = Length[d]
  /\ r.state = "AtBottom" => r.pos = 0
  /\ r.state = "GoingUp" => r.pos < Length[d]
  /\ r.state = "GoingDown" => r.pos > 0
  /\ d \notin AutoReturn => r.timer = Off

Fresh(r) == Resting(r) => r.uses = 0

IInv ==
  /\ door \in [Doors -> DoorRecord]
  /\ \A d \in Doors : Good(door[d], d)
  /\ locked \subseteq Lockable /\ deaf \subseteq Doors
  /\ reports \subseteq Doors /\ mover \in [Doors -> Activators]
  /\ PartnersInSync
  /\ UnlockedRestFresh

-----------------------------------------------------------------------------
(* One door at a time.                                                     *)

\* What the assumption says of one door.
LEMMA Params ==
  ASSUME NEW d \in Doors
  PROVE  Length[d] \in Nat \ {0} /\ UseLimit[d] \in Nat /\ Wait[d] \in Nat \cup {Off}
BY DoorsAssumption DEF Off

\* The time since a door was sent stays in its range.
LEMMA SinceInRange ==
  /\ 0 \in 0..Settled
  /\ \A n \in 0..Settled : (IF n < Settled THEN n + 1 ELSE n) \in 0..Settled
BY DEF Settled

\* What a door that stops changes.
LEMMA Stopped ==
  ASSUME NEW r \in DoorRecord, NEW x \in {"AtTop", "AtBottom"}, NEW t \in Nat \cup {Off}
  PROVE  [r EXCEPT !.state = x, !.uses = 0, !.timer = t] \in DoorRecord
BY DEF DoorRecord

\* A door that arrives at an end is well, fresh, and where it was sent.
LEMMA ArrivedGood ==
  ASSUME NEW d \in Doors, NEW r \in DoorRecord, NEW up \in BOOLEAN,
         r.pos = IF up THEN Length[d] ELSE 0
  PROVE  /\ Good(Arrived(r, d, up), d)
         /\ Up(Arrived(r, d, up)) = up
         /\ Fresh(Arrived(r, d, up))
<1> DEFINE s == Arrived(r, d, up)
<1>0. Wait[d] \in Nat \cup {Off} /\ UseLimit[d] \in Nat /\ Length[d] \in Nat
  BY Params
<1>1. CASE up /\ d \in AutoReturn /\ Wait[d] > 0
  <2>1. s = [r EXCEPT !.state = "AtTop", !.uses = 0, !.timer = Wait[d]]
    BY <1>1 DEF Arrived, Return
  <2>2. s \in DoorRecord
    BY <1>0, <2>1, Stopped
  <2>3. s.state = "AtTop" /\ s.pos = r.pos /\ s.uses = 0 /\ s.timer = Wait[d]
    BY <2>1 DEF DoorRecord
  <2>4. Good(s, d)
    <3>1. d \in AutoReturn
      BY <1>1
    <3>2. s.pos = Length[d] /\ Length[d] \in Nat
      BY <1>0, <1>1, <2>3
    <3>q. QED BY <1>0, <2>2, <2>3, <3>1, <3>2 DEF Good, Off
  <2>q. QED BY <1>1, <2>3, <2>4 DEF Up, Fresh, Resting
<1>2. CASE up /\ ~ (d \in AutoReturn /\ Wait[d] > 0)
  <2>1. s = [r EXCEPT !.state = "AtTop", !.uses = 0, !.timer = Off]
    BY <1>2 DEF Arrived, Return
  <2>2. s \in DoorRecord
    BY <1>0, <2>1, Stopped
  <2>3. s.state = "AtTop" /\ s.pos = r.pos /\ s.uses = 0 /\ s.timer = Off
    BY <2>1 DEF DoorRecord
  <2>4. Good(s, d)
    <3>1. s.pos = Length[d] /\ Length[d] \in Nat
      BY <1>0, <1>2, <2>3
    <3>q. QED BY <1>0, <2>2, <2>3, <3>1 DEF Good, Off
  <2>q. QED BY <1>2, <2>3, <2>4 DEF Up, Fresh, Resting
<1>3. CASE ~up
  <2>1. s = [r EXCEPT !.state = "AtBottom", !.uses = 0, !.timer = Off]
    BY <1>3 DEF Arrived, Return
  <2>2. s \in DoorRecord
    BY <1>0, <2>1, Stopped
  <2>3. s.state = "AtBottom" /\ s.pos = r.pos /\ s.uses = 0 /\ s.timer = Off
    BY <2>1 DEF DoorRecord
  <2>4. Good(s, d)
    BY <1>0, <1>3, <2>2, <2>3 DEF Good, Off
  <2>q. QED BY <1>3, <2>3, <2>4 DEF Up, Fresh, Resting
<1>q. QED BY <1>1, <1>2, <1>3

\* A door that is sent goes or rests where it was sent, and at rest it is fresh.
LEMMA SentGood ==
  ASSUME NEW d \in Doors, NEW r, Good(r, d), NEW up \in BOOLEAN
  PROVE  /\ Good(Sent(r, d, up), d)
         /\ Up(Sent(r, d, up)) = up
         /\ Fresh(Sent(r, d, up))
<1> DEFINE x     == IF up THEN "GoingUp" ELSE "GoingDown"
           going == [r EXCEPT !.state = x, !.since = 0, !.timer = Off]
<1>1. r \in DoorRecord /\ r.pos \in Nat /\ r.pos <= Length[d] /\ r.uses <= UseLimit[d] /\ Length[d] \in Nat
  BY Params DEF Good, DoorRecord
<1>2. going \in DoorRecord
  BY <1>1, SinceInRange DEF DoorRecord
<1>3. going.state = x /\ going.pos = r.pos /\ going.uses = r.uses /\ going.timer = Off
  BY <1>1 DEF DoorRecord
<1>4. CASE r.pos = (IF up THEN Length[d] ELSE 0)
  <2>1. Sent(r, d, up) = Arrived(going, d, up)
    BY <1>4 DEF Sent
  <2>q. QED BY <1>1, <1>2, <1>3, <1>4, <2>1, ArrivedGood
<1>5. CASE r.pos # (IF up THEN Length[d] ELSE 0)
  <2>1. Sent(r, d, up) = going
    BY <1>5 DEF Sent
  <2>2. Good(going, d)
    BY <1>1, <1>2, <1>3, <1>5 DEF Good
  <2>3. Up(going) = up /\ Fresh(going)
    BY <1>3 DEF Up, Fresh, Resting
  <2>q. QED BY <2>1, <2>2, <2>3
<1>q. QED BY <1>4, <1>5

\* The clock of a door goes on, and nothing else does.
LEMMA HeldGood ==
  ASSUME NEW d \in Doors, NEW r, Good(r, d)
  PROVE  Good(Held(r), d) /\ Up(Held(r)) = Up(r) /\ (Fresh(r) => Fresh(Held(r)))
<1>1. r \in DoorRecord /\ r.since \in 0..Settled
  BY DEF Good, DoorRecord
<1>2. Held(r) \in DoorRecord
  BY <1>1, SinceInRange DEF Held, DoorRecord
<1>3. /\ Held(r).state = r.state /\ Held(r).pos = r.pos
      /\ Held(r).uses = r.uses /\ Held(r).timer = r.timer
  BY <1>1 DEF Held, DoorRecord
<1>q. QED BY <1>2, <1>3 DEF Good, Up, Fresh, Resting

\* A quarter of a second leaves a door well and fresh, and turns only one that returns.
LEMMA MovedGood ==
  ASSUME NEW d \in Doors, NEW r, Good(r, d)
  PROVE  /\ Good(Moved(r, d), d)
         /\ d \notin AutoReturn => Up(Moved(r, d)) = Up(r)
         /\ Fresh(r) => Fresh(Moved(r, d))
<1> DEFINE old == Held(r)
<1>1. old \in DoorRecord /\ old.pos \in Nat /\ Good(old, d) /\ Up(r) \in BOOLEAN
  BY HeldGood DEF Good, DoorRecord, Up
<1>2. old.state = r.state /\ old.pos = r.pos /\ old.uses = r.uses /\ old.timer = r.timer
  BY DEF Good, Held, DoorRecord
<1>3. CASE ~Resting(r)
  <2> DEFINE to  == IF Up(r) THEN r.pos + 1 ELSE r.pos - 1
             new == [old EXCEPT !.pos = IF Up(r) THEN @ + 1 ELSE @ - 1]
             end == IF Up(r) THEN Length[d] ELSE 0
  <2>1. to \in Nat /\ to <= Length[d] /\ (to # end => IF Up(r) THEN to < Length[d] ELSE to > 0)
    <3>1. Length[d] \in Nat /\ r.pos \in Nat /\ r.pos <= Length[d]
      BY <1>1, <1>2, Params DEF Good
    <3>2. IF Up(r) THEN r.pos < Length[d] ELSE r.pos > 0
      BY <1>1, <1>2, <1>3 DEF Good, Up, Resting, DoorRecord
    <3>q. QED BY <3>1, <3>2
  <2>2. new = [old EXCEPT !.pos = to]
    BY <1>2
  <2>3. new \in DoorRecord
    BY <1>1, <2>1, <2>2 DEF DoorRecord
  <2>4. new.pos = to /\ new.uses = r.uses /\ new.timer = r.timer /\ new.state = r.state
    BY <1>1, <1>2, <2>2 DEF DoorRecord
  <2>5. Moved(r, d) = IF to = end THEN Arrived(new, d, Up(r)) ELSE new
    BY <1>3, <2>4 DEF Moved
  <2>6. CASE to = end
    BY <1>1, <2>1, <2>3, <2>4, <2>5, <2>6, ArrivedGood
  <2>7. CASE to # end
    <3>1. Good(new, d)
      BY <1>3, <2>1, <2>3, <2>4, <2>7 DEF Good, Up, Resting
    <3>2. Up(new) = Up(r) /\ Fresh(new)
      BY <1>3, <2>4 DEF Up, Fresh, Resting
    <3>q. QED BY <2>5, <2>7, <3>1, <3>2
  <2>q. QED BY <2>6, <2>7
<1>4. CASE Resting(r) /\ r.timer = 1
  <2>1. Moved(r, d) = Sent(r, d, FALSE)
    BY <1>4 DEF Moved
  <2>2. d \in AutoReturn
    BY <1>4 DEF Good, Off
  <2>q. QED BY <2>1, <2>2, SentGood
<1>5. CASE Resting(r) /\ r.timer # 1
  <2> DEFINE t   == IF r.timer > 0 THEN r.timer - 1 ELSE r.timer
             new == [old EXCEPT !.timer = IF @ > 0 THEN @ - 1 ELSE @]
  <2>1. Moved(r, d) = new
    BY <1>5 DEF Moved
  <2>2. /\ t \in Nat \cup {Off} /\ (t <= Wait[d] \/ t = Off)
        /\ d \notin AutoReturn => t = Off
    BY <1>1, <1>2, <1>5, Params DEF Good, Off, DoorRecord
  <2>3. new = [old EXCEPT !.timer = t]
    BY <1>2
  <2>4. new \in DoorRecord
    BY <1>1, <2>2, <2>3 DEF DoorRecord
  <2>5. new.pos = r.pos /\ new.uses = r.uses /\ new.timer = t /\ new.state = r.state
    BY <1>1, <1>2, <2>3 DEF DoorRecord
  <2>6. Good(new, d)
    BY <1>1, <1>2, <2>2, <2>4, <2>5 DEF Good
  <2>q. QED BY <2>1, <2>5, <2>6 DEF Up, Fresh, Resting
<1>q. QED BY <1>3, <1>4, <1>5

-----------------------------------------------------------------------------
(* All doors.                                                              *)

\* What the two invariants say of any assignment of records to doors.
WellDoors(ds) == ds \in [Doors -> DoorRecord] /\ \A d \in Doors : Good(ds[d], d)
InSync(ds) ==
  \A d \in Doors : \A e \in Partners[d] :
    Group(d) \cap AutoReturn = {} => Up(ds[d]) = Up(ds[e])
FreshDoors(ds) == \A d \in Doors : Group(d) \cap Lockable = {} => Fresh(ds[d])

LEMMA Unfolded ==
  IInv <=> /\ WellDoors(door) /\ InSync(door) /\ FreshDoors(door)
           /\ locked \subseteq Lockable /\ deaf \subseteq Doors
           /\ reports \subseteq Doors /\ mover \in [Doors -> Activators]
BY DEF IInv, WellDoors, InSync, FreshDoors, PartnersInSync, UnlockedRestFresh, Fresh

LEMMA Folded ==
  ASSUME WellDoors(door'), InSync(door'), FreshDoors(door'),
         locked' \subseteq Lockable, deaf' \subseteq Doors,
         reports' \subseteq Doors, mover' \in [Doors -> Activators]
  PROVE  IInv'
BY DEF IInv, WellDoors, InSync, FreshDoors, PartnersInSync, UnlockedRestFresh, Fresh

\* Two doors are of one group or of none.
LEMMA GroupsApart ==
  ASSUME NEW d \in Doors, NEW c \in Doors, NEW e \in Partners[d]
  PROVE  e \in Doors /\ Group(e) = Group(d) /\ (d \in Group(c) <=> e \in Group(c))
<1>1. e \in Doors /\ Group(e) = Group(d)
  BY PartnersKnown
<1>2. ASSUME NEW f \in Doors, f \in Group(c) PROVE Group(f) = Group(c)
  BY <1>2, PartnersKnown DEF Group
<1>3. d \in Group(d) /\ e \in Group(e)
  BY DEF Group
<1>q. QED BY <1>1, <1>2, <1>3

\* Sending a group keeps everything, and freshens the group.
LEMMA GroupSent ==
  ASSUME NEW ds, WellDoors(ds), InSync(ds), NEW c \in Doors, NEW up \in BOOLEAN
  PROVE  /\ WellDoors(SentGroup(ds, c, up)) /\ InSync(SentGroup(ds, c, up))
         /\ \A d \in Doors : d \in Group(c) \/ Fresh(ds[d]) => Fresh(SentGroup(ds, c, up)[d])
<1> DEFINE new == SentGroup(ds, c, up)
<1>1. \A d \in Doors : new[d] = IF d \in Group(c) THEN Sent(ds[d], d, up) ELSE ds[d]
  BY DEF SentGroup
<1>2. \A d \in Doors : Good(ds[d], d)
  BY DEF WellDoors
<1>3. \A d \in Doors : Good(new[d], d)
  BY <1>1, <1>2, SentGood
<1>4. new = [d \in Doors |-> new[d]]
  BY DEF SentGroup
<1>5. WellDoors(new)
  BY <1>3, <1>4 DEF WellDoors, Good
<1>6. ASSUME NEW d \in Doors, NEW e \in Partners[d], Group(d) \cap AutoReturn = {}
      PROVE  Up(new[d]) = Up(new[e])
  <2>1. e \in Doors /\ (d \in Group(c) <=> e \in Group(c))
    BY GroupsApart
  <2>2. CASE d \in Group(c)
    BY <2>1, <2>2, <1>1, <1>2, SentGood
  <2>3. CASE d \notin Group(c)
    BY <2>1, <2>3, <1>1, <1>6 DEF InSync
  <2>q. QED BY <2>2, <2>3
<1>7. \A d \in Doors : d \in Group(c) \/ Fresh(ds[d]) => Fresh(new[d])
  BY <1>1, <1>2, SentGood
<1>q. QED BY <1>5, <1>6, <1>7 DEF InSync

\* Counting a use disturbs only how fresh the group is.
LEMMA CountedKept ==
  ASSUME NEW ds, WellDoors(ds), InSync(ds), NEW c \in Doors, NEW u \in Activators
  PROVE  /\ WellDoors(Counted(ds, c, u)) /\ InSync(Counted(ds, c, u))
         /\ \A d \in Doors : d \notin Group(c) => Counted(ds, c, u)[d] = ds[d]
<1> DEFINE new == Counted(ds, c, u)
<1>1. \A d \in Doors : d \notin Group(c) => new[d] = ds[d]
  BY DEF Counted
<1>2. ASSUME NEW d \in Doors PROVE Good(new[d], d) /\ Up(new[d]) = Up(ds[d])
  <2>1. Good(ds[d], d)
    BY DEF WellDoors
  <2>2. CASE d \notin Group(c)
    BY <1>1, <2>1, <2>2
  <2>3. CASE d \in Group(c)
    <3>1. new[d] = [ds[d] EXCEPT !.uses = IF @ < UseLimit[d] THEN @ + 1 ELSE @, !.last = u]
      BY <2>3 DEF Counted
    <3> DEFINE n == IF ds[d].uses < UseLimit[d] THEN ds[d].uses + 1 ELSE ds[d].uses
    <3>0. ds[d] \in DoorRecord /\ n \in Nat
      BY <2>1, Params DEF Good, DoorRecord
    <3>2. new[d] \in DoorRecord
      BY <3>0, <3>1 DEF DoorRecord
    <3>3. /\ new[d].state = ds[d].state /\ new[d].pos = ds[d].pos /\ new[d].timer = ds[d].timer
          /\ new[d].uses = IF ds[d].uses < UseLimit[d] THEN ds[d].uses + 1 ELSE ds[d].uses
      BY <3>1, <2>1 DEF Good, DoorRecord
    <3>4. new[d].uses <= UseLimit[d]
      BY <3>3, <2>1, Params DEF Good, DoorRecord
    <3>q. QED BY <3>2, <3>3, <3>4, <2>1 DEF Good, Up
  <2>q. QED BY <2>2, <2>3
<1>3. new = [d \in Doors |-> new[d]]
  BY DEF Counted
<1>4. WellDoors(new)
  BY <1>2, <1>3 DEF WellDoors, Good
<1>5. InSync(new)
  BY <1>2, PartnersKnown DEF InSync
<1>q. QED BY <1>1, <1>4, <1>5

\* Remembering an activator disturbs nothing.
LEMMA RememberingKept ==
  ASSUME NEW ds, WellDoors(ds), InSync(ds), FreshDoors(ds), NEW c \in Doors, NEW u \in Activators
  PROVE  /\ WellDoors(Remembering(ds, c, u)) /\ InSync(Remembering(ds, c, u))
         /\ FreshDoors(Remembering(ds, c, u))
<1>1. CASE u = Nobody
  BY <1>1 DEF Remembering
<1>2. CASE u # Nobody
  <2> DEFINE new == [ds EXCEPT ![c].last = u]
  <2>1. ASSUME NEW d \in Doors
        PROVE  Good(new[d], d) /\ Up(new[d]) = Up(ds[d]) /\ (Fresh(ds[d]) => Fresh(new[d]))
    <3>1. Good(ds[d], d) /\ ds[d] \in DoorRecord
      BY DEF WellDoors, Good
    <3>2. CASE d # c
      BY <3>1, <3>2 DEF WellDoors
    <3>3. CASE d = c
      <4>1. new[d] = [ds[d] EXCEPT !.last = u]
        BY <3>3 DEF WellDoors
      <4>2. new[d] \in DoorRecord
        BY <3>1, <4>1 DEF DoorRecord
      <4>3. /\ new[d].state = ds[d].state /\ new[d].pos = ds[d].pos
            /\ new[d].uses = ds[d].uses /\ new[d].timer = ds[d].timer
        BY <3>1, <4>1 DEF DoorRecord
      <4>q. QED BY <3>1, <4>2, <4>3 DEF Good, Up, Fresh, Resting
    <3>q. QED BY <3>2, <3>3
  <2>2. new = [d \in Doors |-> new[d]]
    BY DEF WellDoors
  <2>3. WellDoors(new)
    BY <2>1, <2>2 DEF WellDoors, Good
  <2>4. InSync(new)
    BY <2>1, PartnersKnown DEF InSync
  <2>5. FreshDoors(new)
    BY <2>1 DEF FreshDoors
  <2>q. QED BY <1>2, <2>3, <2>4, <2>5 DEF Remembering
<1>q. QED BY <1>1, <1>2

\* Time passes for all doors, one of which may be held.
Passed(ds, held) == [d \in Doors |-> IF d \in held THEN Held(ds[d]) ELSE Moved(ds[d], d)]

LEMMA PassedKept ==
  ASSUME NEW ds, WellDoors(ds), InSync(ds), FreshDoors(ds), NEW held
  PROVE  WellDoors(Passed(ds, held)) /\ InSync(Passed(ds, held)) /\ FreshDoors(Passed(ds, held))
<1> DEFINE new == Passed(ds, held)
<1>1. ASSUME NEW d \in Doors
      PROVE  /\ Good(new[d], d) /\ (Fresh(ds[d]) => Fresh(new[d]))
             /\ d \notin AutoReturn => Up(new[d]) = Up(ds[d])
  <2>1. Good(ds[d], d)
    BY DEF WellDoors
  <2>2. CASE d \in held
    BY <2>1, <2>2, HeldGood DEF Passed
  <2>3. CASE d \notin held
    BY <2>1, <2>3, MovedGood DEF Passed
  <2>q. QED BY <2>2, <2>3
<1>2. new = [d \in Doors |-> new[d]]
  BY DEF Passed
<1>3. WellDoors(new)
  BY <1>1, <1>2 DEF WellDoors, Good
<1>4. ASSUME NEW d \in Doors, NEW e \in Partners[d], Group(d) \cap AutoReturn = {}
      PROVE  Up(new[d]) = Up(new[e])
  <2>1. e \in Doors /\ e \notin AutoReturn /\ d \notin AutoReturn
    BY <1>4, PartnersKnown DEF Group
  <2>q. QED BY <1>1, <1>4, <2>1 DEF InSync
<1>5. InSync(new)
  BY <1>4 DEF InSync
<1>q. QED BY <1>1, <1>3, <1>5 DEF FreshDoors

\* The doors of a group end up going where the blocked one goes.
LEMMA YieldedKept ==
  ASSUME NEW ds, WellDoors(ds), InSync(ds), FreshDoors(ds), NEW b \in Doors
  PROVE  WellDoors(Yielded(ds, b)) /\ InSync(Yielded(ds, b)) /\ FreshDoors(Yielded(ds, b))
<1> DEFINE new  == Yielded(ds, b)
           self == IF Yields(b) THEN Sent(ds[b], b, ~Up(ds[b])) ELSE ds[b]
<1>1. \A d \in Doors : new[d] = IF d = b THEN self
                               ELSE IF d \in Group(b) THEN Sent(ds[d], d, Up(self)) ELSE ds[d]
  BY DEF Yielded
<1>2. \A d \in Doors : Good(ds[d], d)
  BY DEF WellDoors
<1>3. Good(self, b) /\ Up(self) \in BOOLEAN /\ (Fresh(ds[b]) => Fresh(self))
  <2>1. CASE Yields(b)
    <3>1. (~Up(ds[b])) \in BOOLEAN
      BY DEF Up
    <3>q. QED BY <1>2, <2>1, <3>1, SentGood DEF Up
  <2>2. CASE ~Yields(b)
    BY <1>2, <2>2 DEF Up
  <2>q. QED BY <2>1, <2>2
<1>4. ASSUME NEW d \in Doors
      PROVE  /\ Good(new[d], d) /\ (Fresh(ds[d]) => Fresh(new[d]))
             /\ d \in Group(b) => Up(new[d]) = Up(self)
             /\ d \notin Group(b) => new[d] = ds[d]
  <2>1. CASE d = b
    BY <1>1, <1>3, <2>1 DEF Group
  <2>2. CASE d # b /\ d \in Group(b)
    BY <1>1, <1>2, <1>3, <2>2, SentGood
  <2>3. CASE d \notin Group(b)
    BY <1>1, <1>2, <2>3 DEF Group
  <2>q. QED BY <2>1, <2>2, <2>3
<1>5. new = [d \in Doors |-> new[d]]
  BY DEF Yielded
<1>6. WellDoors(new)
  BY <1>4, <1>5 DEF WellDoors, Good
<1>7. ASSUME NEW d \in Doors, NEW e \in Partners[d], Group(d) \cap AutoReturn = {}
      PROVE  Up(new[d]) = Up(new[e])
  <2>1. e \in Doors /\ (d \in Group(b) <=> e \in Group(b))
    BY GroupsApart
  <2>q. QED BY <1>4, <1>7, <2>1 DEF InSync
<1>8. InSync(new)
  BY <1>7 DEF InSync
<1>q. QED BY <1>4, <1>6, <1>8 DEF FreshDoors

-----------------------------------------------------------------------------
(* The steps.                                                              *)

\* Only doors that arrive report.
LEMMA FiredAmong ==
  ASSUME NEW old, NEW new, NEW q, NEW arriving \in SUBSET Doors
  PROVE  Fired(old, new, q, arriving) \subseteq Doors
BY DEF Fired

\* A call that sends the group of c, once what came before it has been counted: ds and
\* the doors differ at most in the group.
LEMMA SendingKept ==
  ASSUME IInv, NEW c \in Doors, NEW up \in BOOLEAN, NEW u \in Activators,
         NEW ds, WellDoors(ds), InSync(ds), \A d \in Doors : d \notin Group(c) => ds[d] = door[d],
         Sending(ds, c, up, u)
  PROVE  /\ WellDoors(SentGroup(ds, c, up)) /\ InSync(SentGroup(ds, c, up))
         /\ FreshDoors(SentGroup(ds, c, up))
         /\ locked' \subseteq Lockable /\ reports' \subseteq Doors /\ mover' \in [Doors -> Activators]
<1> DEFINE new == SentGroup(ds, c, up)
<1>1. WellDoors(new) /\ InSync(new)
  BY GroupSent
<1>2. FreshDoors(new)
  <2>1. FreshDoors(door)
    BY Unfolded
  <2>q. QED BY <2>1, GroupSent DEF FreshDoors
<1>3. ArrivedIn(new, c) \in SUBSET Doors
  BY PartnersKnown DEF ArrivedIn, Group
<1>4. reports' \subseteq Doors
  BY <1>3, FiredAmong DEF Sending
<1>5. locked' \subseteq Lockable /\ mover' \in [Doors -> Activators]
  BY DEF Sending, IInv
<1>q. QED BY <1>1, <1>2, <1>4, <1>5

LEMMA SendGroupInv ==
  ASSUME IInv, NEW c \in Doors, NEW up \in BOOLEAN, NEW u \in Activators,
         NEW ds, WellDoors(ds), InSync(ds), \A d \in Doors : d \notin Group(c) => ds[d] = door[d],
         SendGroup(ds, c, up, u)
  PROVE  IInv'
<1>1. door' = SentGroup(ds, c, up) /\ Sending(ds, c, up, u) /\ deaf' \subseteq Doors
  BY DEF SendGroup, IInv
<1>q. QED BY <1>1, SendingKept, Folded

LEMMA InitInv == ASSUME Init PROVE IInv
<1>1. PICK open \in SUBSET Doors :
        /\ \A d \in open : Partners[d] \subseteq open
        /\ door = [d \in Doors |->
                     [state |-> IF d \in open THEN "AtTop" ELSE "AtBottom",
                      pos   |-> IF d \in open THEN Length[d] ELSE 0,
                      uses  |-> 0, since |-> Settled, last |-> Nobody, timer |-> Off]]
  BY DEF Init
<1>2. ASSUME NEW d \in Doors PROVE Good(door[d], d) /\ Fresh(door[d]) /\ Up(door[d]) = (d \in open)
  <2>1. /\ door[d].state = IF d \in open THEN "AtTop" ELSE "AtBottom"
        /\ door[d].pos = IF d \in open THEN Length[d] ELSE 0
        /\ door[d].uses = 0 /\ door[d].timer = Off
    BY <1>1
  <2>2. Settled \in 0..Settled /\ Nobody \in Activators
    BY DEF Settled, Activators
  <2>3. door[d] \in DoorRecord
    BY <1>1, <2>2, Params DEF DoorRecord
  <2>q. QED BY <2>1, <2>3, Params DEF Good, Fresh, Up, Resting
<1>3. WellDoors(door) /\ FreshDoors(door)
  BY <1>1, <1>2 DEF WellDoors, FreshDoors, Good
<1>4. ASSUME NEW d \in Doors, NEW e \in Partners[d] PROVE Up(door[d]) = Up(door[e])
  <2>1. e \in Doors /\ Group(e) = Group(d)
    BY PartnersKnown
  <2>2. d \in open => e \in open
    BY <1>1
  <2>3. e \in open => d \in open
    BY <1>1, <2>1 DEF Group
  <2>q. QED BY <1>2, <2>1, <2>2, <2>3
<1>5. mover \in [Doors -> Activators] /\ deaf = {} /\ reports = {} /\ locked \subseteq Lockable
  BY DEF Init, Activators
<1>q. QED BY <1>3, <1>4, <1>5, Unfolded DEF InSync

LEMMA UseInv == ASSUME IInv, NEW d \in Doors, NEW u \in People, Use(d, u) PROVE IInv'
<1> DEFINE ds == Counted(door, d, u)
<1>1. u \in Activators /\ WellDoors(door) /\ InSync(door) /\ FreshDoors(door)
  BY Unfolded DEF Activators
<1>2. WellDoors(ds) /\ InSync(ds) /\ \A e \in Doors : e \notin Group(d) => ds[e] = door[e]
  BY <1>1, CountedKept
<1>3. CASE d \in locked
  <2>1. door' = ds /\ reports' = {} /\ UNCHANGED <<locked, deaf, mover>>
    BY <1>3 DEF Use
  <2>2. FreshDoors(ds)
    <3>1. ASSUME NEW e \in Doors, Group(e) \cap Lockable = {} PROVE e \notin Group(d)
      <4>1. d \in Lockable /\ d \in Group(d)
        BY <1>3 DEF IInv, Group
      <4>2. e \in Group(d) => Group(e) = Group(d)
        BY PartnersKnown DEF Group
      <4>q. QED BY <3>1, <4>1, <4>2
    <3>q. QED BY <1>1, <1>2, <3>1 DEF FreshDoors
  <2>q. QED BY <1>2, <2>1, <2>2, Folded DEF IInv
<1>4. CASE d \notin locked
  <2>1. SendGroup(ds, d, ~Up(door[d]), u) /\ (~Up(door[d])) \in BOOLEAN
    BY <1>4 DEF Use
  <2>q. QED BY <1>1, <1>2, <2>1, SendGroupInv
<1>q. QED BY <1>3, <1>4

LEMMA TouchInv == ASSUME IInv, NEW d \in Doors, NEW u \in People, Touch(d, u) PROVE IInv'
<1> DEFINE up == ~Up(door[d])
<1>1. u \in Activators /\ WellDoors(door) /\ InSync(door) /\ up \in BOOLEAN
  BY Unfolded DEF Activators
<1>2. door' = SentGroup(door, d, up) /\ Sending(door, d, up, u) /\ deaf' \subseteq Doors
  BY DEF Touch, IInv
<1>q. QED BY <1>1, <1>2, SendingKept, Folded

LEMMA SendForInv ==
  ASSUME IInv, NEW d \in Doors, NEW u \in Activators, NEW up \in BOOLEAN, SendFor(d, up, u)
  PROVE  IInv'
<1> DEFINE new == SentGroup(door, d, up)
<1>1. WellDoors(door) /\ InSync(door)
  BY Unfolded
<1>2. door' = Remembering(new, d, u) /\ Sending(door, d, up, u) /\ deaf' \subseteq Doors
  BY DEF SendFor, IInv
<1>3. /\ WellDoors(new) /\ InSync(new) /\ FreshDoors(new)
      /\ locked' \subseteq Lockable /\ reports' \subseteq Doors /\ mover' \in [Doors -> Activators]
  BY <1>1, <1>2, SendingKept
<1>q. QED BY <1>2, <1>3, RememberingKept, Folded

LEMMA ByMapInv == ASSUME IInv, NEW d \in Doors, NEW u \in Activators, ByMap(d, u) PROVE IInv'
<1>1. WellDoors(door) /\ InSync(door) /\ (~Up(door[d])) \in BOOLEAN /\ TRUE \in BOOLEAN /\ FALSE \in BOOLEAN
  BY Unfolded
<1>2. CASE InputOpen(d, u) \/ InputClose(d, u) \/ InputForceToggle(d, u)
  BY <1>1, <1>2, SendForInv DEF InputOpen, InputClose, InputForceToggle
<1>3. CASE InputToggle(d, u)
  <2> DEFINE ds == Counted(door, d, u)
  <2>1. WellDoors(ds) /\ InSync(ds) /\ \A e \in Doors : e \notin Group(d) => ds[e] = door[e]
    BY <1>1, CountedKept
  <2>2. SendGroup(ds, d, ~Up(door[d]), u)
    BY <1>3 DEF InputToggle
  <2>q. QED BY <1>1, <2>1, <2>2, SendGroupInv
<1>q. QED BY <1>2, <1>3 DEF ByMap

LEMMA LockInv == ASSUME IInv, NEW d \in Doors, NEW on \in BOOLEAN, InputLock(d, on) PROVE IInv'
<1>1. WellDoors(door) /\ InSync(door) /\ FreshDoors(door)
  BY Unfolded
<1>2. door' = door /\ reports' = {} /\ deaf' = deaf /\ mover' = mover /\ locked' \subseteq Lockable
  BY DEF InputLock, IInv
<1>q. QED BY <1>1, <1>2, Folded DEF IInv

LEMMA TickInv == ASSUME IInv, Tick PROVE IInv'
<1> DEFINE new == Passed(door, {})
<1>1. WellDoors(door) /\ InSync(door) /\ FreshDoors(door)
  BY Unfolded
<1>2. new = [d \in Doors |-> Moved(door[d], d)]
  BY DEF Passed
<1>3. door' = new
  BY <1>2 DEF Tick
<1>4. WellDoors(new) /\ InSync(new) /\ FreshDoors(new)
  BY <1>1, PassedKept
<1>5. Arriving(door, new) \in SUBSET Doors
  BY DEF Arriving
<1>6. reports' \subseteq Doors
  BY <1>2, <1>5, FiredAmong DEF Tick
<1>7. locked' \subseteq Lockable /\ deaf' \subseteq Doors /\ mover' \in [Doors -> Activators]
  BY DEF Tick, IInv, Returned, Activators
<1>q. QED BY <1>3, <1>4, <1>6, <1>7, Folded

LEMMA BlockedInv == ASSUME IInv, NEW b \in Doors, Blocked(b) PROVE IInv'
<1> DEFINE mid == Passed(door, {b})
           new == Yielded(mid, b)
<1>1. WellDoors(door) /\ InSync(door) /\ FreshDoors(door)
  BY Unfolded
<1>2. mid = [d \in Doors |-> IF d = b THEN Held(door[d]) ELSE Moved(door[d], d)]
  BY DEF Passed
<1>3. door' = new
  BY <1>2 DEF Blocked
<1>4. WellDoors(mid) /\ InSync(mid) /\ FreshDoors(mid)
  BY <1>1, PassedKept
<1>5. WellDoors(new) /\ InSync(new) /\ FreshDoors(new)
  BY <1>4, YieldedKept
<1>6. Arriving(door, mid) \in SUBSET Doors /\ ArrivedIn(new, b) \in SUBSET Doors
  BY PartnersKnown DEF Arriving, ArrivedIn, Group
<1>7. reports' \subseteq Doors
  BY <1>2, <1>6, FiredAmong DEF Blocked
<1>8. locked' \subseteq Lockable /\ deaf' \subseteq Doors /\ mover' \in [Doors -> Activators]
  BY DEF Blocked, IInv, Returned, Activators
<1>q. QED BY <1>3, <1>5, <1>7, <1>8, Folded

LEMMA NextInv == ASSUME IInv, [Next]_vars PROVE IInv'
<1>1. CASE \E d \in Doors, u \in People : ByPlayer(d, u)
  BY <1>1, UseInv, TouchInv DEF ByPlayer
<1>2. CASE \E d \in Doors, u \in Commanders : ByMap(d, u)
  BY <1>2, ByMapInv, DoorsAssumption
<1>3. CASE \E d \in Doors, on \in BOOLEAN : InputLock(d, on)
  BY <1>3, LockInv
<1>4. CASE Tick
  BY <1>4, TickInv
<1>5. CASE \E b \in Doors : Blocked(b)
  BY <1>5, BlockedInv
<1>6. CASE UNCHANGED vars
  <2>1. WellDoors(door) /\ InSync(door) /\ FreshDoors(door)
    BY Unfolded
  <2>q. QED BY <1>6, <2>1, Folded DEF vars, IInv
<1>q. QED BY <1>1, <1>2, <1>3, <1>4, <1>5, <1>6 DEF Next

-----------------------------------------------------------------------------
(* The last door of a group.                                               *)

\* Of a call that sends a group, the door that comes last in the order reports, if all
\* have arrived: it sees the others where they are now.
LEMMA CallReports ==
  ASSUME NEW old, NEW new, NEW c \in Doors, NEW s \in {"AtTop", "AtBottom"}, AllAt(new, c, s)
  PROVE  Fired(old, new, CallOrder(c), ArrivedIn(new, c)) \cap Group(c) # {}
<1> DEFINE q == CallOrder(c)
           e == q[Len(q)]
<1>1. PartnerLists[c] \in Seq(Doors) /\ Partners[c] = SetOf(PartnerLists[c])
  BY ListSound DEF Partners
<1>2. /\ q \in Seq(Doors) /\ Len(q) = Len(PartnerLists[c]) + 1 /\ Len(q) \in Nat
      /\ q[1] = c /\ \A i \in 1..Len(PartnerLists[c]) : q[i + 1] = PartnerLists[c][i]
  BY <1>1 DEF CallOrder
<1>3. \A f \in Group(c) : \E i \in 1..Len(q) : q[i] = f
  <2> SUFFICES ASSUME NEW f \in Group(c) PROVE \E i \in 1..Len(q) : q[i] = f
    OBVIOUS
  <2>1. CASE f = c
    BY <1>2, <2>1
  <2>2. CASE f # c
    <3>1. PICK i \in 1..Len(PartnerLists[c]) : f = PartnerLists[c][i]
      BY <1>1, <2>2 DEF Group, SetOf
    <3>2. i + 1 \in 1..Len(q)
      BY <1>2
    <3> QED BY <1>2, <3>1, <3>2
  <2> QED BY <2>1, <2>2
<1>4. e \in Group(c)
  <2> DEFINE n == Len(PartnerLists[c])
  <2>0. n \in Nat /\ Len(q) = n + 1
    BY <1>1, <1>2
  <2>1. CASE n = 0
    BY <1>2, <2>0, <2>1 DEF Group
  <2>2. CASE n # 0
    <3>1. n \in 1..n
      BY <2>0, <2>2
    <3>2. e = PartnerLists[c][n]
      BY <1>2, <2>0, <3>1
    <3> QED BY <1>1, <3>1, <3>2 DEF Group, SetOf
  <2> QED BY <2>1, <2>2
<1>5. e \in Doors /\ Group(e) = Group(c) /\ e \notin Partners[e]
  <2>1. e \in Doors
    BY <1>4, PartnersKnown DEF Group
  <2> QED BY <1>4, <2>1, PartnersKnown, ListSound DEF Group, Partners
<1>6. ASSUME NEW f \in Partners[e] PROVE Before(q, f, e) /\ new[f].state = new[e].state
  <2>1. f \in Group(c) /\ f # e
    BY <1>5 DEF Group
  <2>2. PICK i \in 1..Len(q) : q[i] = f
    BY <1>3, <2>1
  <2>3. i < Len(q) /\ Len(q) \in 1..Len(q)
    BY <1>2, <2>1, <2>2
  <2> QED BY <1>4, <2>1, <2>2, <2>3 DEF Before, AllAt
<1>7. e \in ArrivedIn(new, c)
  BY <1>4 DEF ArrivedIn, AllAt, Resting
<1>8. e \in Fired(old, new, q, ArrivedIn(new, c))
  <2> HIDE DEF e, q
  <2> QED BY <1>6, <1>7 DEF Fired
<1> QED BY <1>4, <1>8

\* A quarter of a second makes a door rest where it did not by moving it there.
LEMMA MovedRests ==
  ASSUME NEW d \in Doors, NEW r, Good(r, d), NEW s \in {"AtTop", "AtBottom"},
         Moved(r, d).state = s, r.state # s
  PROVE  ~ Resting(r)
<1> SUFFICES ASSUME Resting(r) PROVE FALSE
  OBVIOUS
<1>1. r \in DoorRecord /\ Length[d] \in Nat \ {0}
  BY Params DEF Good
<1>2. CASE r.timer = 1
  <2>1. Moved(r, d) = Sent(r, d, FALSE)
    BY <1>2 DEF Moved
  <2>2. CASE r.pos = 0
    <3>1. r.state = "AtBottom"
      BY <1>1, <2>2 DEF Good, Resting
    <3>2. Sent(r, d, FALSE).state = "AtBottom"
      BY <1>1, <2>2 DEF Sent, Arrived, DoorRecord
    <3> QED BY <2>1, <3>1, <3>2
  <2>3. CASE r.pos # 0
    <3>1. Sent(r, d, FALSE).state = "GoingDown"
      BY <1>1, <2>3 DEF Sent, DoorRecord
    <3> QED BY <2>1, <3>1
  <2> QED BY <2>2, <2>3
<1>3. CASE r.timer # 1
  <2>1. Moved(r, d) = [Held(r) EXCEPT !.timer = IF @ > 0 THEN @ - 1 ELSE @]
    BY <1>3 DEF Moved
  <2>2. Moved(r, d).state = r.state
    BY <1>1, <2>1 DEF Held, DoorRecord
  <2> QED BY <2>2
<1> QED BY <1>2, <1>3

\* Of the doors of a group that a quarter of a second brings to their ends the one that the
\* engine moves last reports, if the others were there: it sees where all of them are now.
LEMMA TimeReports ==
  ASSUME NEW old, NEW new, NEW c \in Doors, NEW s \in {"AtTop", "AtBottom"},
         \A e \in Group(c) : Good(old[e], e) /\ new[e] = Moved(old[e], e),
         AllAt(new, c, s), ~ AllAt(old, c, s)
  PROVE  Fired(old, new, Order, Arriving(old, new)) \cap Group(c) # {}
<1> DEFINE X == {e \in Group(c) : old[e].state # s}
           M == {i \in 1..Len(Order) : Order[i] \in X}
<1>1. Group(c) \subseteq Doors
  BY PartnersKnown DEF Group
<1>2. \A e \in Doors : \E i \in 1..Len(Order) : Order[i] = e
  BY DoorsAssumption
<1>3. Len(Order) \in Nat
  BY DoorsAssumption
<1>4. M # {}
  BY <1>1, <1>2 DEF AllAt
<1>5. PICK i \in M : \A j \in M : j <= i
  BY <1>3, <1>4, Greatest
<1> DEFINE e == Order[i]
<1>6. e \in X /\ e \in Doors
  BY <1>1, <1>5
<1>7. Group(e) = Group(c) /\ e \notin Partners[e]
  BY <1>6, PartnersKnown, ListSound DEF Group, Partners
<1>8. e \in Arriving(old, new)
  BY <1>6, MovedRests DEF Arriving, AllAt, Resting
<1>9. ASSUME NEW f \in Partners[e]
      PROVE  (IF Before(Order, f, e) THEN new[f] ELSE old[f]).state = new[e].state
  <2>1. f \in Group(c) /\ f # e /\ f \in Doors
    BY <1>1, <1>7 DEF Group
  <2>2. new[f].state = s /\ new[e].state = s
    BY <1>6, <2>1 DEF AllAt
  <2>3. CASE f \in X
    <3>1. PICK j \in 1..Len(Order) : Order[j] = f
      BY <1>2, <2>1
    <3>2. j \in M /\ j <= i /\ j # i
      BY <1>5, <2>1, <2>3, <3>1
    <3>3. Before(Order, f, e)
      BY <1>5, <3>1, <3>2 DEF Before
    <3> QED BY <2>2, <3>3
  <2>4. CASE f \notin X
    BY <2>1, <2>2, <2>4
  <2> QED BY <2>3, <2>4
<1>10. e \in Fired(old, new, Order, Arriving(old, new))
  <2> HIDE DEF e
  <2> QED BY <1>8, <1>9 DEF Fired
<1> QED BY <1>6, <1>10

\* Counting a use and remembering an activator move no door.
LEMMA SameStates ==
  ASSUME NEW ds \in [Doors -> DoorRecord], NEW c \in Doors, NEW u, NEW e \in Doors
  PROVE  Counted(ds, c, u)[e].state = ds[e].state /\ Remembering(ds, c, u)[e].state = ds[e].state
<1>1. ds[e] \in DoorRecord
  OBVIOUS
<1>2. Counted(ds, c, u)[e].state = ds[e].state
  BY <1>1 DEF Counted, DoorRecord
<1>3. [ds EXCEPT ![c].last = u][e].state = ds[e].state
  BY <1>1 DEF DoorRecord
<1> QED BY <1>2, <1>3 DEF Remembering

\* The group of every door of a group is that group.
LEMMA GroupOfGroup ==
  ASSUME NEW d \in Doors, NEW e \in Group(d)
  PROVE  e \in Doors /\ Group(e) = Group(d) /\ d \in Group(d)
BY PartnersKnown DEF Group

\* The doors of d have come to rest at one end, and had not been there before.
AllArrive(d, s) == AllAt(door', d, s) /\ ~ AllAt(door, d, s)

LEMMA SendingReports ==
  ASSUME NEW c \in Doors, NEW up \in BOOLEAN, NEW u, NEW ds, Sending(ds, c, up, u),
         \A e \in Doors : ds[e].state = door[e].state,
         \A e \in Doors : door'[e].state = SentGroup(ds, c, up)[e].state,
         NEW d \in Doors, NEW s \in {"AtTop", "AtBottom"}, AllArrive(d, s)
  PROVE  reports' \cap Group(d) # {}
<1> DEFINE new == SentGroup(ds, c, up)
<1>1. CASE d \in Group(c)
  <2>1. Group(d) = Group(c) /\ \A e \in Group(c) : e \in Doors
    BY <1>1, GroupOfGroup
  <2>2. AllAt(new, c, s)
    BY <2>1 DEF AllArrive, AllAt
  <2>3. reports' = Fired(ds, new, CallOrder(c), ArrivedIn(new, c))
    BY DEF Sending
  <2> QED BY <2>1, <2>2, <2>3, CallReports
<1>2. CASE d \notin Group(c)
  <2>1. ASSUME NEW e \in Group(d) PROVE e \in Doors /\ new[e] = ds[e]
    <3>1. e \in Doors /\ e \notin Group(c)
      BY <1>2, GroupOfGroup
    <3> QED BY <3>1 DEF SentGroup
  <2> QED BY <2>1 DEF AllArrive, AllAt
<1> QED BY <1>1, <1>2

LEMMA PlayerReports ==
  ASSUME IInv, NEW c \in Doors, NEW u, ByPlayer(c, u),
         NEW d \in Doors, NEW s \in {"AtTop", "AtBottom"}, AllArrive(d, s)
  PROVE  reports' \cap Group(d) # {}
<1> DEFINE ds == Counted(door, c, u)
           up == ~ Up(door[c])
<1>1. door \in [Doors -> DoorRecord] /\ up \in BOOLEAN
  BY DEF IInv
<1>2. \A e \in Doors : ds[e].state = door[e].state
  BY <1>1, SameStates
<1>3. CASE Use(c, u) /\ c \in locked
  <2>1. door' = ds
    BY <1>3 DEF Use
  <2> QED BY <1>2, <2>1, GroupOfGroup DEF AllArrive, AllAt
<1>4. CASE Use(c, u) /\ c \notin locked
  <2>1. door' = SentGroup(ds, c, up) /\ Sending(ds, c, up, u)
    BY <1>4 DEF Use, SendGroup
  <2> QED BY <1>1, <1>2, <2>1, SendingReports
<1>5. CASE Touch(c, u)
  <2>1. door' = SentGroup(door, c, up) /\ Sending(door, c, up, u)
    BY <1>5 DEF Touch
  <2> QED BY <1>1, <2>1, SendingReports
<1> QED BY <1>3, <1>4, <1>5 DEF ByPlayer

LEMMA MapReports ==
  ASSUME IInv, NEW c \in Doors, NEW u \in Activators, ByMap(c, u),
         NEW d \in Doors, NEW s \in {"AtTop", "AtBottom"}, AllArrive(d, s)
  PROVE  reports' \cap Group(d) # {}
<1>1. door \in [Doors -> DoorRecord] /\ WellDoors(door) /\ InSync(door)
  BY Unfolded DEF IInv
<1>2. ASSUME NEW up \in BOOLEAN, SendFor(c, up, u)
      PROVE  reports' \cap Group(d) # {}
  <2> DEFINE new == SentGroup(door, c, up)
  <2>1. door' = Remembering(new, c, u) /\ Sending(door, c, up, u)
    BY <1>2 DEF SendFor
  <2>2. new \in [Doors -> DoorRecord]
    BY <1>1, GroupSent DEF WellDoors
  <2>3. \A e \in Doors : door'[e].state = new[e].state
    BY <2>1, <2>2, SameStates
  <2> QED BY <2>1, <2>3, SendingReports
<1>3. CASE InputToggle(c, u)
  <2> DEFINE ds == Counted(door, c, u)
             up == ~ Up(door[c])
  <2>1. door' = SentGroup(ds, c, up) /\ Sending(ds, c, up, u) /\ up \in BOOLEAN
    BY <1>3 DEF InputToggle, SendGroup
  <2>2. \A e \in Doors : ds[e].state = door[e].state
    BY <1>1, SameStates
  <2> QED BY <2>1, <2>2, SendingReports
<1>4. CASE ~ InputToggle(c, u)
  <2>1. \E up \in BOOLEAN : SendFor(c, up, u)
    BY <1>4 DEF ByMap, InputOpen, InputClose, InputForceToggle
  <2> QED BY <2>1, <1>2
<1> QED BY <1>3, <1>4

LEMMA TickReports ==
  ASSUME IInv, Tick, NEW d \in Doors, NEW s \in {"AtTop", "AtBottom"}, AllArrive(d, s)
  PROVE  reports' \cap Group(d) # {}
<1> DEFINE new == [e \in Doors |-> Moved(door[e], e)]
<1>1. door' = new /\ reports' = Fired(door, new, Order, Arriving(door, new))
  BY DEF Tick
<1>2. \A e \in Group(d) : Good(door[e], e) /\ new[e] = Moved(door[e], e)
  BY GroupOfGroup DEF IInv
<1> HIDE DEF new
<1> QED BY <1>1, <1>2, TimeReports DEF AllArrive

LEMMA BlockedReports ==
  ASSUME IInv, NEW b \in Doors, Blocked(b),
         NEW d \in Doors, NEW s \in {"AtTop", "AtBottom"}, AllArrive(d, s)
  PROVE  reports' \cap Group(d) # {}
<1> DEFINE mid == [e \in Doors |-> IF e = b THEN Held(door[e]) ELSE Moved(door[e], e)]
           new == Yielded(mid, b)
<1>1. /\ door' = new
      /\ reports' = Fired(door, mid, Order, Arriving(door, mid))
                      \cup Fired(mid, new, CallOrder(b), ArrivedIn(new, b))
  BY DEF Blocked
<1>2. CASE d \in Group(b)
  <2>1. Group(d) = Group(b) /\ AllAt(new, b, s)
    BY <1>1, <1>2, GroupOfGroup DEF AllArrive, AllAt
  <2> HIDE DEF new, mid
  <2>2. Fired(mid, new, CallOrder(b), ArrivedIn(new, b)) \cap Group(d) # {}
    BY <2>1, CallReports
  <2> QED BY <1>1, <2>2
<1>3. CASE d \notin Group(b)
  <2>1. ASSUME NEW e \in Group(d)
        PROVE  e \in Doors /\ Good(door[e], e) /\ mid[e] = Moved(door[e], e) /\ new[e] = mid[e]
    <3>1. e \in Doors /\ Group(e) = Group(d) /\ d \in Group(d) /\ b \in Group(b)
      BY GroupOfGroup DEF Group
    <3>2. e \notin Group(b)
      BY <1>3, <3>1, GroupOfGroup
    <3> QED BY <3>1, <3>2 DEF IInv, Yielded
  <2>2. AllAt(mid, d, s) /\ ~ AllAt(door, d, s)
    BY <1>1, <2>1 DEF AllArrive, AllAt
  <2> HIDE DEF new, mid
  <2>3. Fired(door, mid, Order, Arriving(door, mid)) \cap Group(d) # {}
    BY <2>1, <2>2, TimeReports
  <2> QED BY <1>1, <2>3
<1> QED BY <1>2, <1>3

LEMMA NextReports ==
  ASSUME IInv, [Next]_vars, NEW d \in Doors, NEW s \in {"AtTop", "AtBottom"}, AllArrive(d, s)
  PROVE  reports' \cap Group(d) # {}
<1>1. CASE \E c \in Doors, u \in People : ByPlayer(c, u)
  BY <1>1, PlayerReports
<1>2. CASE \E c \in Doors, u \in Commanders : ByMap(c, u)
  BY <1>2, MapReports, DoorsAssumption
<1>3. CASE (\E c \in Doors, on \in BOOLEAN : InputLock(c, on)) \/ UNCHANGED vars
  BY <1>3 DEF InputLock, vars, AllArrive, AllAt
<1>4. CASE Tick
  BY <1>4, TickReports
<1>5. CASE \E b \in Doors : Blocked(b)
  BY <1>5, BlockedReports
<1> QED BY <1>1, <1>2, <1>3, <1>4, <1>5 DEF Next

-----------------------------------------------------------------------------
(* Who set a door in motion.                                               *)

\* Doors that only uses move, and that are never locked.
OnlyUsed(d) == Group(d) \cap (Commanded \cup Touchable \cup Lockable) = {}

\* Such a door remembers as its last activator whoever set it in motion.
MoverKnown == \A d \in Doors : OnlyUsed(d) /\ mover[d] \in People => door[d].last = mover[d]

\* No door forgets its last activator by moving.
LEMMA LastKept ==
  ASSUME NEW d \in Doors, NEW r \in DoorRecord, NEW up \in BOOLEAN
  PROVE  /\ Sent(r, d, up).last = r.last
         /\ Held(r).last = r.last
         /\ Moved(r, d).last = r.last
<1>1. ASSUME NEW x, NEW y, NEW z
      PROVE  [r EXCEPT !.state = x, !.uses = y, !.timer = z].last = r.last
  BY DEF DoorRecord
<1>2. Sent(r, d, up).last = r.last
  BY DEF Sent, Arrived, DoorRecord
<1>3. Sent(r, d, FALSE).last = r.last
  BY DEF Sent, Arrived, DoorRecord
<1>4. Held(r).last = r.last
  BY DEF Held, DoorRecord
<1>5. Moved(r, d).last = r.last
  BY <1>3 DEF Moved, Arrived, Held, DoorRecord
<1> QED BY <1>2, <1>4, <1>5

LEMMA MoverInit == Init => MoverKnown
BY DoorsAssumption DEF Init, MoverKnown

LEMMA MoverUse ==
  ASSUME IInv, MoverKnown, NEW c \in Doors, NEW u \in People, Use(c, u)
  PROVE  MoverKnown'
<1> SUFFICES ASSUME NEW d \in Doors, OnlyUsed(d), mover'[d] \in People
             PROVE  door'[d].last = mover'[d]
  BY DEF MoverKnown, OnlyUsed
<1> DEFINE ds == Counted(door, c, u)
           up == ~ Up(door[c])
<1>1. door[d] \in DoorRecord /\ up \in BOOLEAN /\ locked \subseteq Lockable
  BY DEF IInv
<1>2. CASE d \in Group(c)
  <2>1. c \in Group(d) /\ c \notin locked
    BY <1>1, <1>2, GroupOfGroup DEF OnlyUsed
  <2>2. /\ door' = SentGroup(ds, c, up)
        /\ mover' = [e \in Doors |-> IF e \in Group(c) THEN u ELSE mover[e]]
    BY <2>1 DEF Use, SendGroup, Sending
  <2>3. ds[d] \in DoorRecord /\ ds[d].last = u
    <3>1. ds[d] = [door[d] EXCEPT !.uses = IF @ < UseLimit[d] THEN @ + 1 ELSE @, !.last = u]
      BY <1>2 DEF Counted
    <3>2. ds[d].last = u
      BY <1>1, <3>1 DEF DoorRecord
    <3>3. WellDoors(ds)
      BY Unfolded, CountedKept DEF Activators
    <3> QED BY <3>2, <3>3 DEF WellDoors
  <2>4. door'[d] = Sent(ds[d], d, up) /\ mover'[d] = u
    BY <1>2, <2>2 DEF SentGroup
  <2> QED BY <1>1, <2>3, <2>4, LastKept
<1>3. CASE d \notin Group(c)
  <2>1. door'[d] = door[d] /\ mover'[d] = mover[d]
    BY <1>3 DEF Use, SendGroup, Sending, SentGroup, Counted
  <2> QED BY <2>1 DEF MoverKnown
<1> QED BY <1>2, <1>3

\* A call for one door leaves the doors of other groups alone.
LEMMA MoverOther ==
  ASSUME IInv, MoverKnown, NEW c \in Doors, NEW u, c \in Commanded \cup Touchable,
         Touch(c, u) \/ ByMap(c, u)
  PROVE  MoverKnown'
<1> SUFFICES ASSUME NEW d \in Doors, OnlyUsed(d), mover'[d] \in People
             PROVE  door'[d].last = mover'[d]
  BY DEF MoverKnown, OnlyUsed
<1>1. d \notin Group(c) /\ d # c
  <2>1. c \in Group(c) /\ c \notin Group(d)
    BY DEF OnlyUsed, Group
  <2> QED BY <2>1, GroupOfGroup
<1>2. mover'[d] = mover[d]
  BY <1>1 DEF Touch, ByMap, InputOpen, InputClose, InputForceToggle, InputToggle, SendFor, SendGroup,
              Sending
<1>3. door'[d] = door[d]
  <2>1. \A ds, up : SentGroup(ds, c, up)[d] = ds[d] /\ Counted(ds, c, u)[d] = ds[d]
    BY <1>1 DEF SentGroup, Counted
  <2>2. \A ds, up : Remembering(SentGroup(ds, c, up), c, u)[d] = ds[d]
    BY <1>1, <2>1 DEF Remembering, SentGroup
  <2>3. CASE Touch(c, u)
    BY <2>1, <2>3 DEF Touch
  <2>4. CASE InputToggle(c, u)
    BY <2>1, <2>4 DEF InputToggle, SendGroup
  <2>5. CASE \E up : SendFor(c, up, u)
    BY <2>2, <2>5 DEF SendFor
  <2> QED BY <2>3, <2>4, <2>5 DEF ByMap, InputOpen, InputClose, InputForceToggle
<1> QED BY <1>2, <1>3 DEF MoverKnown

LEMMA MoverTime ==
  ASSUME IInv, MoverKnown, Tick \/ \E b \in Doors : Blocked(b)
  PROVE  MoverKnown'
<1> SUFFICES ASSUME NEW d \in Doors, OnlyUsed(d), mover'[d] \in People
             PROVE  door'[d].last = mover'[d]
  BY DEF MoverKnown, OnlyUsed
<1>1. door[d] \in DoorRecord /\ Good(door[d], d) /\ Nobody \notin People
  BY DoorsAssumption DEF IInv
<1>2. CASE Tick
  <2>1. door'[d] = Moved(door[d], d) /\ (mover'[d] = mover[d] \/ mover'[d] = Nobody)
    BY <1>2 DEF Tick, Returned
  <2> QED BY <1>1, <2>1, LastKept DEF MoverKnown
<1>3. ASSUME NEW b \in Doors, Blocked(b) PROVE door'[d].last = mover'[d]
  <2> DEFINE mid == [e \in Doors |-> IF e = b THEN Held(door[e]) ELSE Moved(door[e], e)]
  <2>1. door' = Yielded(mid, b) /\ (mover'[d] = mover[d] \/ mover'[d] = Nobody)
    BY <1>3 DEF Blocked, Returned
  <2>2. mid[d] \in DoorRecord /\ mid[d].last = door[d].last
    BY <1>1, LastKept, HeldGood, MovedGood DEF Good
  <2>3. \E up \in BOOLEAN : Yielded(mid, b)[d] = mid[d] \/ Yielded(mid, b)[d] = Sent(mid[d], d, up)
    <3> HIDE DEF mid
    <3> DEFINE self == IF Yields(b) THEN Sent(mid[b], b, ~Up(mid[b])) ELSE mid[b]
    <3>1. CASE d = b
      <4>1. Yielded(mid, b)[d] = self
        BY <3>1 DEF Yielded
      <4>2. Up(mid[b]) \in BOOLEAN
        BY DEF Up
      <4> QED BY <3>1, <4>1, <4>2
    <3>2. CASE d # b
      <4>1. Yielded(mid, b)[d] = IF d \in Group(b) THEN Sent(mid[d], d, Up(self)) ELSE mid[d]
        BY <3>2 DEF Yielded
      <4>2. Up(self) \in BOOLEAN
        BY DEF Up
      <4> HIDE DEF self
      <4> QED BY <4>1, <4>2
    <3> QED BY <3>1, <3>2
  <2> HIDE DEF mid
  <2> QED BY <1>1, <2>1, <2>2, <2>3, LastKept DEF MoverKnown
<1> QED BY <1>2, <1>3

LEMMA MoverNext == ASSUME IInv, MoverKnown, [Next]_vars PROVE MoverKnown'
<1>1. CASE \E d \in Doors, u \in People : ByPlayer(d, u)
  BY <1>1, MoverUse, MoverOther DEF ByPlayer, Touch
<1>2. CASE \E d \in Doors, u \in Commanders : ByMap(d, u)
  BY <1>2, MoverOther DEF ByMap, InputOpen, InputClose, InputForceToggle, InputToggle
<1>3. CASE (\E d \in Doors, on \in BOOLEAN : InputLock(d, on)) \/ UNCHANGED vars
  BY <1>3 DEF InputLock, vars, MoverKnown, OnlyUsed
<1>4. CASE Tick \/ \E b \in Doors : Blocked(b)
  BY <1>4, MoverTime
<1> QED BY <1>1, <1>2, <1>3, <1>4 DEF Next

\* Whoever may use a door within the second is its last activator, who set it in motion.
LEMMA UserIsMover ==
  ASSUME IInv, MoverKnown, NEW d \in Doors, NEW u \in People, OnlyUsed(d), Use(d, u),
         door[d].since < Settled, mover[d] \in People
  PROVE  u = mover[d]
<1>1. door[d].since \in 0..Settled /\ ~(door[d].since >= Settled)
  BY DEF IInv, DoorRecord, Settled
<1>2. door[d].last = u
  BY <1>1 DEF Use, MayUse
<1> QED BY <1>2 DEF MoverKnown

-----------------------------------------------------------------------------
(* The theorems.                                                           *)

THEOREM Invariance == Spec => []IInv
BY InitInv, NextInv, PTL DEF Spec

\* Whatever players, the map and obstacles do, every door stays between its two ends, its
\* uses within its limit and its wait within m_flWait (CGEDoor, ge_door.cpp:200-642).
THEOREM TypeCorrect == Spec => []TypeOK
<1>1. IInv => TypeOK
  BY DEF IInv, Good, TypeOK
<1>q. QED BY <1>1, Invariance, PTL

\* Partners that do not return by themselves are never going, or resting, in different
\* directions (DoorGroupGoUp, DoorGroupGoDown, Blocked; ge_door.cpp:210-232, 563-587).
THEOREM InSyncAlways == Spec => []PartnersInSync
<1>1. IInv => PartnersInSync
  BY DEF IInv
<1>q. QED BY <1>1, Invariance, PTL

\* A door at rest in a group that is never locked has all its uses before it, whatever its
\* partners do (CheckUse and the end of MoveThink; ge_door.cpp:475, 533-557).
THEOREM FreshAtRest == Spec => []UnlockedRestFresh
<1>1. IInv => UnlockedRestFresh
  BY DEF IInv
<1>q. QED BY <1>1, Invariance, PTL

\* Whoever uses, touches, commands or blocks which door of a group in whatever order, when all
\* of the group have got to an end one of them has reported it (CheckPartnerPosistions and its
\* callers, ge_door.cpp:480-491, 518-530, 658).
THEOREM LastAlwaysReports == Spec => LastDoorReports
<1>1. ASSUME IInv, [Next]_vars
      PROVE  [\A d \in Doors, s \in {"AtTop", "AtBottom"} :
                AllAt(door', d, s) /\ ~AllAt(door, d, s) => reports' \cap Group(d) # {}]_vars
  BY <1>1, NextReports DEF AllArrive
<1> QED BY <1>1, Invariance, PTL DEF Spec, LastDoorReports

\* Within a second nobody but who set a door in motion turns it by a use, where nothing but
\* uses moves the doors of the group and none is locked (CheckUse; ge_door.cpp:533-557).
THEOREM OnlyMoverAlwaysTurns == Spec => OnlyMoverTurns
<1>1. Spec => []MoverKnown
  BY MoverInit, MoverNext, Invariance, PTL DEF Spec
<1>2. ASSUME IInv, MoverKnown, [Next]_vars
      PROVE  [\A d \in Doors, u \in People :
                /\ Group(d) \cap (Commanded \cup Touchable \cup Lockable) = {}
                /\ Use(d, u) /\ Turned(d)
                /\ door[d].since < Settled /\ mover[d] \in People
                => u = mover[d]]_vars
  BY <1>2, UserIsMover DEF OnlyUsed
<1> QED BY <1>1, <1>2, Invariance, PTL DEF Spec, OnlyMoverTurns
=============================================================================
