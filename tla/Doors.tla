------------------------------- MODULE Doors -------------------------------
(***************************************************************************)
(* The doors of a map: CGEDoor (server/ge_door.cpp) on top of the SDK's    *)
(* CBaseDoor.  Doors that name each other as partners move together,       *)
(* players use and touch them, the map opens, closes, toggles and locks    *)
(* them, they return by themselves, and whoever stands in the way turns    *)
(* them around.                                                            *)
(*                                                                         *)
(* A door moves one unit of its length in a quarter of a second and turns  *)
(* at once: acceleration, the angles of rotating doors, and the outputs    *)
(* that do not depend on partners are left out.                            *)
(***************************************************************************)
EXTENDS Integers, Sequences, FiniteSets

CONSTANTS
  Doors, People,
  NoDoor, Nobody,
  Partner,       \* of each door: the door m_sPartner names, or NoDoor
  Order,         \* the doors in the order in which the engine simulates them
  Length,        \* of each door: from m_vecPosition1 to m_vecPosition2
  UseLimit,      \* of each door: m_iUseLimit
  Wait,          \* of each door: m_flWait, in quarters of a second
  AutoReturn,    \* the doors without SF_DOOR_NO_AUTO_RETURN
  ForceClosed,   \* those with m_bForceClosed
  Usable,        \* those with SF_DOOR_PUSE
  Touchable,     \* those with SF_DOOR_PTOUCH
  Lockable,      \* those that the map may lock
  Commanded,     \* those that the map opens, closes and toggles
  Commanders     \* for whom it does: who pressed a button, or Nobody

Activators == People \cup {Nobody}

ASSUME DoorsAssumption ==
  /\ NoDoor \notin Doors /\ Nobody \notin People
  /\ Partner \in [Doors -> Doors \cup {NoDoor}]
  /\ Order \in Seq(Doors) /\ \A d \in Doors : \E i \in 1..Len(Order) : Order[i] = d
  /\ Length \in [Doors -> Nat \ {0}] /\ UseLimit \in [Doors -> Nat] /\ Wait \in [Doors -> Nat \cup {-1}]
  /\ Commanders \subseteq Activators
  /\ {AutoReturn, ForceClosed, Usable, Touchable, Lockable, Commanded} \subseteq SUBSET Doors

VARIABLES
  door,     \* of each door: its record, see DoorRecord
  locked,   \* the doors with m_bLocked
  deaf,     \* those without a touch function
  reports,  \* the doors whose OnAllPartnersOpened or OnAllPartnersClosed the last step fired
  mover     \* history: who, if anybody, set each door in motion last

vars == <<door, locked, deaf, reports, mover>>

Off == -1      \* no m_flMoveDoneTime that matters
Settled == 4   \* CheckUse's second; the first quarter is one unit

DoorRecord ==
  [state  : {"AtTop", "AtBottom", "GoingUp", "GoingDown"},  \* m_toggle_state
   pos    : Nat,                   \* how far it is from m_vecPosition1
   uses   : Nat,                   \* m_iCurrentUses, as far as the limit tells it apart
   since  : 0..Settled,            \* the time since m_flStartMoveTime, up to a second
   last   : Activators,            \* m_pLastActivator
   timer  : Nat \cup {Off}]        \* the quarters until a door at its top returns

-----------------------------------------------------------------------------
(* Partners.                                                               *)

SetOf(s) == {s[i] : i \in 1..Len(s)}

\* BuildPartnerList: from partner to partner, until one is known.
PartnerLists ==
  [d \in Doors |->
    LET walk[n \in 0..128] ==
          IF n = 0 THEN <<>>
          ELSE LET known == walk[n - 1]
                   next  == Partner[IF known = <<>> THEN d ELSE known[Len(known)]]
               IN  IF Len(known) = n - 1 /\ next \notin SetOf(known) \cup {d, NoDoor}
                   THEN Append(known, next) ELSE known
    IN  walk[128]]

Partners == [d \in Doors |-> SetOf(PartnerLists[d])]

Group(d) == Partners[d] \cup {d}

\* The doors of a group name each other.
ASSUME PartnersAssumption == \A d \in Doors : \A e \in Partners[d] : Group(e) = Group(d)

Before(q, f, e) == \E i, j \in 1..Len(q) : q[i] = f /\ q[j] = e /\ i < j

-----------------------------------------------------------------------------
(* One door.                                                               *)

Up(r)      == r.state \in {"AtTop", "GoingUp"}
Resting(r) == r.state \in {"AtTop", "AtBottom"}

\* Broken: the wait is cut to whole seconds.
ReturnRounded(d, up) ==
  LET cut == (Wait[d] \div 4) * 4 IN IF up /\ d \in AutoReturn /\ cut > 0 THEN cut ELSE Off

\* SetMoveDoneTime(m_flWait).  One of 0 is none: the engine does not simulate a door whose
\* time is up, and so never comes to see that it is.
Return(d, up) == IF up /\ d \in AutoReturn /\ Wait[d] > 0 THEN Wait[d] ELSE Off

\* Broken: the uses survive the move.
ArrivedUsed(r, d, up) ==
  [r EXCEPT !.state = IF up THEN "AtTop" ELSE "AtBottom", !.timer = Return(d, up)]

\* The end of MoveThink, with DoorHitTop and DoorHitBottom.
Arrived(r, d, up) ==
  [r EXCEPT !.state = IF up THEN "AtTop" ELSE "AtBottom", !.uses = 0, !.timer = Return(d, up)]

\* DoorGoUp and DoorGoDown.  They call MoveThink, so a door that is there has arrived.
Sent(r, d, up) ==
  LET going == [r EXCEPT !.state = IF up THEN "GoingUp" ELSE "GoingDown", !.since = 0, !.timer = Off]
  IN  IF r.pos = (IF up THEN Length[d] ELSE 0) THEN Arrived(going, d, up) ELSE going

\* Broken: the partners stay behind.
SentAlone(ds, d, up) == [ds EXCEPT ![d] = Sent(@, d, up)]

\* DoorGroupGoUp(true) and DoorGroupGoDown(true).
SentGroup(ds, d, up) == [e \in Doors |-> IF e \in Group(d) THEN Sent(ds[e], e, up) ELSE ds[e]]

\* Broken CheckPartnerPosistions: the doors as they were before.
FiredBefore(old, new, q, arriving) ==
  {e \in arriving : \A f \in Partners[e] : old[f].state = new[e].state}

\* CheckPartnerPosistions, as the doors of q are handled one after the other: each door
\* that arrives sees those before it where they are now, and the others where they were.
Fired(old, new, q, arriving) ==
  {e \in arriving :
     \A f \in Partners[e] : (IF Before(q, f, e) THEN new[f] ELSE old[f]).state = new[e].state}

CallOrder(d) == <<d>> \o PartnerLists[d]

-----------------------------------------------------------------------------
(* Use.                                                                    *)

UsedUp(r, d) == UseLimit[d] > 0 /\ r.uses >= UseLimit[d]

\* Broken CheckUse: no limit.
MayUseAlways(d, u) ==
  door[d].since >= 1 /\ (door[d].last = u \/ door[d].since >= Settled)

\* The conditions of CheckUse.
MayUse(d, u) ==
  /\ ~UsedUp(door[d], d)
  /\ door[d].since >= 1
  /\ (door[d].last = u \/ door[d].since >= Settled)

\* Broken CheckUse: the partners do not learn who it was.
CountedHere(ds, d, u) ==
  [e \in Doors |->
     IF e \in Group(d)
     THEN [ds[e] EXCEPT !.uses = IF @ < UseLimit[e] THEN @ + 1 ELSE @, !.last = IF e = d THEN u ELSE @]
     ELSE ds[e]]

\* What CheckUse counts and remembers, here and with the partners.
Counted(ds, d, u) ==
  [e \in Doors |->
     IF e \in Group(d)
     THEN [ds[e] EXCEPT !.uses = IF @ < UseLimit[e] THEN @ + 1 ELSE @, !.last = u]
     ELSE ds[e]]

ArrivedIn(new, d) == {e \in Group(d) : Resting(new[e])}

\* The doors among arriving that hear touches again: not those that wait at their top.
Hearing(new, arriving) == {e \in arriving : new[e].state = "AtBottom" \/ e \notin AutoReturn}

\* A call that sends the group of d, ds being the doors after what came first: what it
\* reports, and who moved the doors.
Sending(ds, d, up, u) ==
  LET new == SentGroup(ds, d, up)
  IN  /\ reports' = Fired(ds, new, CallOrder(d), ArrivedIn(new, d))
      /\ mover' = [e \in Doors |-> IF e \in Group(d) THEN u ELSE mover[e]]
      /\ UNCHANGED locked

SendGroup(ds, d, up, u) ==
  LET new == SentGroup(ds, d, up)
  IN  /\ door' = new
      /\ deaf' = deaf \ Hearing(new, ArrivedIn(new, d))
      /\ Sending(ds, d, up, u)

\* A player presses use.  A locked door counts it as well.
Use(d, u) ==
  /\ d \in Usable /\ MayUse(d, u)
  /\ IF d \in locked
     THEN door' = Counted(door, d, u) /\ reports' = {} /\ UNCHANGED <<locked, deaf, mover>>
     ELSE SendGroup(Counted(door, d, u), d, ~Up(door[d]), u)

\* DoorTouch: the touched door, and only this one, is deaf to touches until it arrives.
Touch(d, u) ==
  /\ d \in Touchable /\ d \notin deaf /\ d \notin locked
  /\ LET new == SentGroup(door, d, ~Up(door[d]))
     IN  /\ door' = new
         /\ deaf' = (deaf \ Hearing(new, ArrivedIn(new, d))) \cup {d}
         /\ Sending(door, d, ~Up(door[d]), u)

-----------------------------------------------------------------------------
(* The inputs of the map.                                                  *)

\* After the group has moved, the door itself remembers who it was for, if anybody.
Remembering(ds, d, u) == IF u = Nobody THEN ds ELSE [ds EXCEPT ![d].last = u]

SendFor(d, up, u) ==
  LET new == SentGroup(door, d, up)
  IN  /\ door' = Remembering(new, d, u)
      /\ deaf' = deaf \ Hearing(new, ArrivedIn(new, d))
      /\ Sending(door, d, up, u)

InputOpen(d, u)   == d \in Commanded /\ ~Up(door[d]) /\ d \notin locked /\ SendFor(d, TRUE, u)
InputClose(d, u)  == d \in Commanded /\ Up(door[d]) /\ SendFor(d, FALSE, u)
InputForceToggle(d, u) == d \in Commanded /\ SendFor(d, ~Up(door[d]), u)

InputToggle(d, u) ==
  /\ d \in Commanded /\ d \notin locked /\ MayUse(d, u)
  /\ SendGroup(Counted(door, d, u), d, ~Up(door[d]), u)

InputLock(d, on) ==
  /\ d \in Lockable /\ (d \in locked) # on
  /\ locked' = IF on THEN locked \cup {d} ELSE locked \ {d}
  /\ reports' = {} /\ UNCHANGED <<door, deaf, mover>>

-----------------------------------------------------------------------------
(* Time.                                                                   *)

Yields(d) == Wait[d] >= 0 /\ d \notin ForceClosed

\* Time goes by for a door that does not move.
Held(r) == [r EXCEPT !.since = IF @ < Settled THEN @ + 1 ELSE @]

\* A door in a quarter of a second, unless it is blocked.
Moved(r, d) ==
  LET old == Held(r)
      new == [old EXCEPT !.pos = IF Up(r) THEN @ + 1 ELSE @ - 1]
  IN  IF ~Resting(r)
      THEN IF new.pos = (IF Up(r) THEN Length[d] ELSE 0) THEN Arrived(new, d, Up(r)) ELSE new
      ELSE IF r.timer = 1 THEN Sent(r, d, FALSE)
      ELSE [old EXCEPT !.timer = IF @ > 0 THEN @ - 1 ELSE @]

\* Blocked: the door turns around, unless it pushes on, and the partners go where it goes.
Yielded(ds, d) ==
  LET self == IF Yields(d) THEN Sent(ds[d], d, ~Up(ds[d])) ELSE ds[d]
  IN  [e \in Doors |-> IF e = d THEN self
                       ELSE IF e \in Group(d) THEN Sent(ds[e], e, Up(self)) ELSE ds[e]]

\* Doors that the end of a wait sends down have nobody who moved them.
Returned(new) == [d \in Doors |-> IF door[d].timer = 1 /\ ~Up(new[d]) THEN Nobody ELSE mover[d]]

\* The doors that get to their ends as the engine moves them from ds to new.
Arriving(ds, new) == {d \in Doors : ~Resting(ds[d]) /\ Resting(new[d])}

\* A quarter of a second in which nothing is in the way.
Tick ==
  LET new == [d \in Doors |-> Moved(door[d], d)]
  IN  /\ door' = new
      /\ deaf' = deaf \ Hearing(new, Arriving(door, new))
      /\ reports' = Fired(door, new, Order, Arriving(door, new))
      /\ mover' = Returned(new)
      /\ UNCHANGED locked

\* One in which somebody stands in the way of the door b.
Blocked(b) ==
  LET mid == [d \in Doors |-> IF d = b THEN Held(door[d]) ELSE Moved(door[d], d)]
      new == Yielded(mid, b)
  IN  /\ ~Resting(door[b])
      /\ door' = new
      /\ deaf' = (deaf \ Hearing(mid, Arriving(door, mid))) \ Hearing(new, ArrivedIn(new, b))
      /\ reports' = Fired(door, mid, Order, Arriving(door, mid))
                      \cup Fired(mid, new, CallOrder(b), ArrivedIn(new, b))
      /\ mover' = [d \in Doors |-> IF d \in Group(b) /\ Yields(b) THEN Nobody ELSE Returned(mid)[d]]
      /\ UNCHANGED locked

-----------------------------------------------------------------------------
\* Partners spawn alike.
Init ==
  /\ \E open \in SUBSET Doors :
       /\ \A d \in open : Partners[d] \subseteq open
       /\ door = [d \in Doors |->
                    [state |-> IF d \in open THEN "AtTop" ELSE "AtBottom",
                     pos   |-> IF d \in open THEN Length[d] ELSE 0,
                     uses  |-> 0, since |-> Settled, last |-> Nobody, timer |-> Off]]
  /\ locked \in SUBSET Lockable /\ deaf = {}
  /\ reports = {} /\ mover = [d \in Doors |-> Nobody]

ByPlayer(d, u) == Use(d, u) \/ Touch(d, u)

ByMap(d, u) == InputOpen(d, u) \/ InputClose(d, u) \/ InputToggle(d, u) \/ InputForceToggle(d, u)

Next ==
  \/ \E d \in Doors, u \in People : ByPlayer(d, u)
  \/ \E d \in Doors, u \in Commanders : ByMap(d, u)
  \/ \E d \in Doors, on \in BOOLEAN : InputLock(d, on)
  \/ Tick
  \/ \E b \in Doors : Blocked(b)

Spec == Init /\ [][Next]_vars

\* The server's frames go on, and what stands in the way goes away.
FairSpec == Spec /\ WF_vars(Tick)

-----------------------------------------------------------------------------
(* Properties.                                                             *)

TypeOK ==
  /\ door \in [Doors -> DoorRecord]
  /\ \A d \in Doors : /\ door[d].pos <= Length[d] /\ door[d].uses <= UseLimit[d]
                       /\ (door[d].timer <= Wait[d] \/ door[d].timer = Off)
  /\ locked \subseteq Lockable /\ deaf \subseteq Doors
  /\ reports \subseteq Doors /\ mover \in [Doors -> Activators]

\* "Name of the door that opens and closes with this one" (ge_door.h:27): doors that
\* do not return by themselves always open and close with their partners, whoever uses,
\* commands or blocks which of them.
PartnersInSync ==
  \A d \in Doors : \A e \in Partners[d] :
    Group(d) \cap AutoReturn = {} => Up(door[d]) = Up(door[e])

\* m_iUseLimit (ge_door.h:25) limits how often a door is activated "mid-motion": a door
\* at rest has its uses before it.  It holds where neither the door nor a partner is
\* ever locked.
UnlockedRestFresh ==
  \A d \in Doors : Group(d) \cap Lockable = {} /\ Resting(door[d]) => door[d].uses = 0

\* The same for every door, as the comment says it.
RestingDoorNotUsedUp ==
  \A d \in Doors : Resting(door[d]) => ~UsedUp(door[d], d)

AllAt(ds, d, s) == \A e \in Group(d) : ds[e].state = s

\* m_PartnersOpened and m_PartnersClosed (ge_door.h:65): whenever the last door of a
\* group arrives, one of the group reports that all are there.
LastDoorReports ==
  [][\A d \in Doors, s \in {"AtTop", "AtBottom"} :
       AllAt(door', d, s) /\ ~AllAt(door, d, s) => reports' \cap Group(d) # {}]_vars

Turned(d) == Up(door[d]) # Up(door'[d])

\* "Don't let another person quickly close the door after it gets opened" (CheckUse): within
\* a second, nobody turns a door by using it but who set it in motion, at whichever door.
\* It holds where no command or touch moves the doors, which leave the last activator of most
\* or all of them as it was, and no lock lets a use be remembered that moves nothing.
OnlyMoverTurns ==
  [][\A d \in Doors, u \in People :
       /\ Group(d) \cap (Commanded \cup Touchable \cup Lockable) = {}
       /\ Use(d, u) /\ Turned(d)
       /\ door[d].since < Settled /\ mover[d] \in People
       => u = mover[d]]_vars

\* A door at which players press use again and again, and that nothing else turns, comes to
\* rest time and again, whatever happened to it and its partner before: the limit keeps
\* them from turning it around for ever, also when its partner arrives at other times.
OnlyPressed(d) == <>[][Tick \/ \E u \in People : Use(d, u)]_vars
ComesToRest == \A d \in Doors : OnlyPressed(d) => []<>Resting(door[d])

\* A door with auto-return and a wait that has opened, or only begun to, closes in the end
\* once the doors are left alone, whatever touched, blocked, commanded or locked it meanwhile.
LeftAlone == <>[][Tick]_vars
ReturnsShut ==
  LeftAlone => \A d \in AutoReturn :
                 Wait[d] > 0 => (door[d].state = "GoingUp" ~> door[d].state = "AtBottom")
=============================================================================
