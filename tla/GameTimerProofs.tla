-------------------------- MODULE GameTimerProofs --------------------------
(***************************************************************************)
(* Proofs about one game timer: what every operation of CGEGameTimer       *)
(* preserves, for all instants and lengths, the timer's invariants, and    *)
(* that it implements the abstract countdown.                              *)
(***************************************************************************)
EXTENDS GameTimer, TLAPS

\* The fields have their types, agree, and show no more than the length.
Sound(t, at) == t \in TimerRecord /\ Agree(t) /\ WithinLength(t, at)

LEMMA NewTimerSound == ASSUME NEW at \in Int PROVE Sound(NewTimer, at)
  BY DEF Sound, NewTimer, TimerRecord, Agree, WithinLength, Remaining, AtLeastZero

LEMMA RemainingType ==
  ASSUME NEW at \in Int, NEW t \in TimerRecord
  PROVE  Remaining(t, at) \in Nat
  BY DEF TimerRecord, Remaining, AtLeastZero

LEMMA EnableSound ==
  ASSUME NEW at \in Int, NEW t, Sound(t, at) PROVE Sound(Enable(t), at)
  BY DEF Sound, TimerRecord, Agree, WithinLength, Remaining, AtLeastZero, Enable

LEMMA StopSound ==
  ASSUME NEW at \in Int, NEW t, Sound(t, at) PROVE Sound(Stop(t), at)
  BY DEF Sound, TimerRecord, Agree, WithinLength, Remaining, AtLeastZero, Stop

LEMMA DisableSound ==
  ASSUME NEW at \in Int, NEW t, Sound(t, at) PROVE Sound(Disable(t), at)
  BY DEF Sound, TimerRecord, Agree, WithinLength, Remaining, AtLeastZero, Stop, Disable

LEMMA StartSound ==
  ASSUME NEW at \in Int, NEW n \in Int, NEW t, Sound(t, at)
  PROVE  Sound(Start(t, at, n), at)
<1>1. CASE t.enabled /\ n > 0
  <2>1. Start(t, at, n) = Restarted(at, n)
    BY <1>1 DEF Start
  <2>2. Restarted(at, n) \in TimerRecord
    BY <1>1 DEF Sound, TimerRecord, Restarted
  <2>3. Agree(Restarted(at, n)) /\ WithinLength(Restarted(at, n), at)
    BY <1>1 DEF Sound, TimerRecord, Restarted, Agree, WithinLength, Remaining, AtLeastZero
  <2>4. QED
    BY <2>1, <2>2, <2>3 DEF Sound
<1>2. CASE ~(t.enabled /\ n > 0)
  BY <1>2, StopSound DEF Start
<1>3. QED
  BY <1>1, <1>2

LEMMA PauseSound ==
  ASSUME NEW at \in Int, NEW t, Sound(t, at) PROVE Sound(Pause(t, at), at)
<1>1. Pause(t, at) \in TimerRecord
  BY RemainingType DEF Sound, TimerRecord, Pause
<1>2. Agree(Pause(t, at)) /\ WithinLength(Pause(t, at), at)
  BY DEF Sound, TimerRecord, Agree, WithinLength, Remaining, AtLeastZero, Pause, Running
<1>3. QED
  BY <1>1, <1>2 DEF Sound

LEMMA ResumeSound ==
  ASSUME NEW at \in Int, NEW t, Sound(t, at)
  PROVE  /\ Sound(Resume(t, at), at)
         /\ Resume(t, at).started = t.started
         /\ ~Resume(t, at).paused
         /\ Remaining(Resume(t, at), at) = Remaining(t, at)
         /\ Resume(t, at).length = t.length
         /\ Resume(t, at).enabled = t.enabled
<1>1. CASE t.started /\ t.paused
  <2> DEFINE r == Resume(t, at)
  <2>1. Remaining(t, at) = t.pauseLeft /\ t.pauseLeft \in Nat
    BY <1>1 DEF Sound, TimerRecord, Remaining, AtLeastZero
  <2>2. r = [t EXCEPT !.end = at + t.pauseLeft, !.pauseLeft = 0, !.paused = FALSE]
    BY <1>1, <2>1 DEF Resume
  <2>a. at + t.pauseLeft \in Int /\ t \in TimerRecord
    BY <2>1 DEF Sound
  <2>b. r \in TimerRecord
    <3>1. ASSUME NEW x \in Int
          PROVE  [t EXCEPT !.end = x, !.pauseLeft = 0, !.paused = FALSE] \in TimerRecord
      BY <2>a, Zenon DEF TimerRecord
    <3>2. QED
      BY <2>a, <2>2, <3>1
  <2>c. /\ r.started = t.started /\ ~r.paused /\ r.length = t.length
        /\ r.enabled = t.enabled /\ r.pauseLeft = 0 /\ r.end = at + t.pauseLeft
    BY <2>2 DEF Sound, TimerRecord
  <2>3. /\ r \in TimerRecord
        /\ r.started = t.started /\ ~r.paused /\ r.length = t.length
        /\ r.enabled = t.enabled /\ r.pauseLeft = 0 /\ r.end = at + t.pauseLeft
    BY <2>b, <2>c
  <2> HIDE DEF r
  <2>4. Remaining(r, at) = t.pauseLeft
    BY <1>1, <2>1, <2>3 DEF Remaining, AtLeastZero, TimerRecord
  <2>5. Agree(r) /\ WithinLength(r, at)
    BY <1>1, <2>1, <2>3, <2>4 DEF Sound, Agree, WithinLength
  <2>6. QED
    BY <2>1, <2>3, <2>4, <2>5 DEF Sound, r
<1>2. CASE ~(t.started /\ t.paused)
  BY <1>2 DEF Resume, Sound, Agree
<1>3. QED
  BY <1>1, <1>2

LEMMA RepausedSound ==
  ASSUME NEW at \in Int, NEW t, NEW before, Sound(t, at)
  PROVE  Sound(Repaused(before, t, at), at)
  BY PauseSound DEF Repaused

\* A timer that counts down stays sound under a new end and a new length that
\* lie no further apart than the length.
LEMMA RetimedSound ==
  ASSUME NEW at \in Int, NEW r, Sound(r, at), r.started, ~r.paused,
         NEW e \in Int, NEW len \in Nat, len > 0, e - at <= len
  PROVE  Sound(Retimed(r, e, len), at)
<1> DEFINE s == Retimed(r, e, len)
<1>1. s \in TimerRecord
  BY Zenon DEF Sound, TimerRecord, Retimed
<1>2. /\ s.enabled = r.enabled /\ s.started = r.started /\ s.paused = r.paused
      /\ s.pauseLeft = r.pauseLeft /\ s.end = e /\ s.length = len
  BY DEF Sound, TimerRecord, Retimed
<1> HIDE DEF s
<1>3. Agree(s)
  BY <1>2 DEF Sound, Agree
<1>4. WithinLength(s, at)
  BY <1>2 DEF WithinLength, Remaining, AtLeastZero
<1>5. QED
  BY <1>1, <1>3, <1>4 DEF Sound, s

LEMMA ChangeLengthSound ==
  ASSUME NEW at \in Int, NEW n \in Int, NEW t, Sound(t, at)
  PROVE  Sound(ChangeLength(t, at, n), at)
<1>1. CASE t.enabled /\ n > 0 /\ t.started
  <2> DEFINE r == Resume(t, at)
  <2>1. Sound(r, at) /\ r.started /\ ~r.paused
    BY <1>1, ResumeSound
  <2> HIDE DEF r
  <2>2. Sound(WithLength(r, at, n), at)
    <3>1. r.length \in Nat /\ r.length > 0 /\ r.end \in Int /\ r.end - at <= r.length
      BY <2>1 DEF Sound, TimerRecord, Agree, WithinLength, Remaining, AtLeastZero
    <3>2. CASE r.end - at + (n - r.length) > 0
      <4>1. WithLength(r, at, n) = Retimed(r, r.end + (n - r.length),
                                                r.length + (n - r.length))
        BY <3>2 DEF WithLength
      <4>2. QED
        BY <1>1, <2>1, <3>1, <4>1, RetimedSound
    <3>3. CASE ~(r.end - at + (n - r.length) > 0)
      <4>1. WithLength(r, at, n) = Retimed(r, at + n, n)
        BY <3>3 DEF WithLength
      <4>2. QED
        BY <1>1, <2>1, <4>1, RetimedSound
    <3>4. QED
      BY <3>2, <3>3
  <2>3. ChangeLength(t, at, n) = Repaused(t, WithLength(r, at, n), at)
    BY <1>1 DEF ChangeLength, r
  <2>4. QED
    BY <2>2, <2>3, RepausedSound
<1>2. CASE ~(t.enabled /\ n > 0 /\ t.started)
  BY <1>2, StopSound, StartSound DEF ChangeLength
<1>3. QED
  BY <1>1, <1>2

LEMMA SetCurrentLengthSound ==
  ASSUME NEW at \in Int, NEW n \in Int, NEW t, Sound(t, at)
  PROVE  Sound(SetCurrentLength(t, at, n), at)
<1>1. CASE t.enabled /\ n > 0 /\ t.started
  <2> DEFINE r == Resume(t, at)
             s == Retimed(r, at + n, n)
  <2>1. Sound(r, at) /\ r.started /\ ~r.paused
    BY <1>1, ResumeSound
  <2>2. SetCurrentLength(t, at, n) = Repaused(t, s, at)
    BY <1>1 DEF SetCurrentLength
  <2> HIDE DEF r
  <2>3. Sound(s, at)
    BY <1>1, <2>1, RetimedSound
  <2>4. QED
    BY <2>2, <2>3, RepausedSound
<1>2. CASE ~(t.enabled /\ n > 0 /\ t.started)
  BY <1>2, StopSound, StartSound DEF SetCurrentLength
<1>3. QED
  BY <1>1, <1>2

\* AddToLength has no guard of its own: its callers must not add to a timer that
\* is not started.
LEMMA AddToLengthSound ==
  ASSUME NEW at \in Int, NEW n \in Int, NEW t, Sound(t, at), t.started
  PROVE  Sound(AddToLength(t, at, n), at)
<1> DEFINE r == Resume(t, at)
<1>1. Sound(r, at) /\ r.started /\ ~r.paused
  BY ResumeSound
<1>2. AddToLength(t, at, n) = Repaused(t, Lengthened(r, at, n), at)
  BY DEF AddToLength, Sound, Agree
<1> HIDE DEF r
<1>3. Sound(Lengthened(r, at, n), at)
  <2>1. r.length \in Nat /\ r.length > 0 /\ r.end \in Int /\ r.end - at <= r.length
    BY <1>1 DEF Sound, TimerRecord, Agree, WithinLength, Remaining, AtLeastZero
  <2>2. CASE r.end - at + n > 0
    <3>1. Lengthened(r, at, n) = Retimed(r, r.end + n, r.length + n)
      BY <2>2 DEF Lengthened
    <3>2. QED
      BY <1>1, <2>1, <2>2, <3>1, RetimedSound
  <2>3. CASE ~(r.end - at + n > 0)
    <3>1. Lengthened(r, at, n) = Retimed(r, at, 1)
      BY <2>3 DEF Lengthened
    <3>2. QED
      BY <1>1, <3>1, RetimedSound
  <2>4. QED
    BY <2>2, <2>3
<1>4. QED
  BY <1>2, <1>3, RepausedSound

-----------------------------------------------------------------------------
(* What the operations do to what is seen of a timer.                        *)

LEMMA PauseEffect ==
  ASSUME NEW at \in Int, NEW t, Sound(t, at), t.started, ~t.paused
  PROVE  /\ Remaining(Pause(t, at), at) = Remaining(t, at)
         /\ Pause(t, at).length = t.length
         /\ Pause(t, at).enabled = t.enabled
         /\ Pause(t, at).started
         /\ Pause(t, at).paused
<1> DEFINE p == Pause(t, at)
<1>1. Remaining(t, at) \in Nat
  BY RemainingType DEF Sound
<1>2. p = [t EXCEPT !.pauseLeft = Remaining(t, at), !.paused = TRUE]
  BY DEF Pause, Running
<1>3. /\ p.pauseLeft = Remaining(t, at) /\ p.paused /\ p.started = t.started
      /\ p.length = t.length /\ p.enabled = t.enabled
  BY <1>2 DEF Sound, TimerRecord
<1> HIDE DEF p
<1>4. Remaining(p, at) = Remaining(t, at)
  <2>1. Remaining(p, at) = AtLeastZero(p.pauseLeft)
    BY <1>3 DEF Remaining
  <2>2. QED
    BY <2>1, <1>1, <1>3 DEF AtLeastZero
<1>5. QED
  BY <1>3, <1>4 DEF p

\* s is t, set to end at e with length len.
SetTo(s, t, at, e, len) ==
  /\ Remaining(s, at) = AtLeastZero(e - at)
  /\ s.length = len
  /\ s.enabled = t.enabled
  /\ s.started
  /\ s.paused = t.paused

\* A timer that was resumed, given a new end and length and paused again if it
\* was paused: its mode is what it was, and it shows the time to the new end.
LEMMA RetimedEffect ==
  ASSUME NEW at \in Int, NEW t, Sound(t, at), t.started,
         NEW e \in Int, NEW len \in Nat, len > 0, e - at <= len
  PROVE  SetTo(Repaused(t, Retimed(Resume(t, at), e, len), at), t, at, e, len)
<1> DEFINE r == Resume(t, at)
           u == Retimed(r, e, len)
           s == Repaused(t, u, at)
<1>1. Sound(r, at) /\ r.started /\ ~r.paused /\ r.enabled = t.enabled
  BY ResumeSound
<1> HIDE DEF r
<1>2. Sound(u, at)
  BY <1>1, RetimedSound
<1>3. /\ u.enabled = t.enabled /\ u.started /\ ~u.paused
      /\ u.end = e /\ u.length = len
  BY <1>1 DEF Sound, TimerRecord, Retimed
<1> HIDE DEF u
<1>4. Remaining(u, at) = AtLeastZero(e - at)
  BY <1>3 DEF Remaining
<1>5. CASE t.paused
  <2>1. s = Pause(u, at)
    BY <1>5 DEF Repaused
  <2>2. t.paused = TRUE /\ Pause(u, at).paused = TRUE
    BY <1>2, <1>3, <1>5, PauseEffect, PauseSound DEF Sound, TimerRecord
  <2>3. /\ Remaining(Pause(u, at), at) = Remaining(u, at)
        /\ Pause(u, at).length = u.length
        /\ Pause(u, at).enabled = u.enabled
        /\ Pause(u, at).started
    BY <1>2, <1>3, PauseEffect
  <2>4. QED
    BY <1>3, <1>4, <2>1, <2>2, <2>3 DEF SetTo, u, r
<1>6. CASE ~t.paused
  <2>1. s = u /\ t.paused = FALSE /\ u.paused = FALSE
    BY <1>2, <1>3, <1>6 DEF Repaused, Sound, TimerRecord
  <2>2. QED
    BY <1>3, <1>4, <2>1 DEF SetTo, u, r
<1>7. QED
  BY <1>5, <1>6

\* A length change keeps the time spent, or starts the new length afresh.
LEMMA ChangeLengthEffect ==
  ASSUME NEW at \in Int, NEW n \in Int, n > 0, NEW t, Sound(t, at), t.started
  PROVE  LET s == ChangeLength(t, at, n)
             d == n - t.length
         IN  /\ s.enabled = t.enabled /\ s.started /\ s.paused = t.paused
             /\ s.length = n
             /\ \/ Remaining(s, at) = n
                \/ /\ Remaining(s, at) > 0
                   /\ Remaining(s, at) <= Remaining(t, at) + d
                   /\ Remaining(t, at) > 0 => Remaining(s, at) = Remaining(t, at) + d
<1> DEFINE r == Resume(t, at)
           s == ChangeLength(t, at, n)
           d == n - t.length
<1>1. /\ Sound(r, at) /\ r.started /\ ~r.paused
      /\ r.length = t.length /\ Remaining(r, at) = Remaining(t, at)
  BY ResumeSound
<1>2. /\ r.end \in Int /\ r.length \in Nat /\ r.end - at <= r.length
      /\ t.length \in Nat /\ Remaining(t, at) \in Nat
  BY <1>1, RemainingType DEF Sound, TimerRecord, Agree, WithinLength, Remaining, AtLeastZero
<1>3. Remaining(t, at) = AtLeastZero(r.end - at)
  BY <1>1 DEF Remaining
<1>4. s = Repaused(t, WithLength(r, at, n), at)
  BY DEF ChangeLength, Sound, Agree
<1>5. CASE r.end - at + d > 0
  <2>1. WithLength(r, at, n) = Retimed(r, r.end + d, n)
    BY <1>1, <1>2, <1>5 DEF WithLength
  <2>2. /\ Remaining(s, at) = AtLeastZero((r.end + d) - at)
        /\ s.length = n /\ s.enabled = t.enabled /\ s.started /\ s.paused = t.paused
    <3> DEFINE e == r.end + d
    <3>1. e \in Int /\ n \in Nat /\ e - at <= n
      BY <1>1, <1>2
    <3>2. s = Repaused(t, Retimed(Resume(t, at), e, n), at)
      BY <1>4, <2>1
    <3> HIDE DEF e, s, d, r
    <3>3. SetTo(s, t, at, e, n)
      BY <3>1, <3>2, RetimedEffect
    <3>4. QED
      BY <3>3 DEF SetTo, e
  <2> HIDE DEF r, s
  <2>3. QED
    BY <1>2, <1>3, <1>5, <2>2 DEF AtLeastZero, s
<1>6. CASE ~(r.end - at + d > 0)
  <2>1. WithLength(r, at, n) = Retimed(r, at + n, n)
    BY <1>1, <1>6 DEF WithLength
  <2> DEFINE e == at + n
  <2>2. e \in Int /\ n \in Nat /\ e - at <= n
    OBVIOUS
  <2>3. s = Repaused(t, Retimed(Resume(t, at), e, n), at)
    BY <1>4, <2>1
  <2> HIDE DEF e, s, d, r
  <2>4. SetTo(s, t, at, e, n)
    BY <2>2, <2>3, RetimedEffect
  <2>5. QED
    BY <2>4 DEF SetTo, AtLeastZero, e, s
<1>7. QED
  BY <1>5, <1>6

LEMMA SetCurrentLengthEffect ==
  ASSUME NEW at \in Int, NEW n \in Int, n > 0, NEW t, Sound(t, at), t.started
  PROVE  LET s == SetCurrentLength(t, at, n)
         IN  /\ s.enabled = t.enabled /\ s.started /\ s.paused = t.paused
             /\ s.length = n
             /\ Remaining(s, at) = n
<1> DEFINE s == SetCurrentLength(t, at, n)
           e == at + n
<1>1. s = Repaused(t, Retimed(Resume(t, at), e, n), at)
  BY DEF SetCurrentLength, Sound, Agree
<1>a. e \in Int /\ n \in Nat /\ e - at <= n
  OBVIOUS
<1> HIDE DEF e, s
<1>2. SetTo(s, t, at, e, n)
  BY <1>1, <1>a, RetimedEffect
<1>3. QED
  BY <1>2 DEF SetTo, AtLeastZero, e, s

\* Adding time changes the length by as much, or leaves an expired countdown.
LEMMA AddToLengthEffect ==
  ASSUME NEW at \in Int, NEW n \in Int, NEW t, Sound(t, at), t.started
  PROVE  LET s == AddToLength(t, at, n)
         IN  /\ s.enabled = t.enabled /\ s.started /\ s.paused = t.paused
             /\ \/ /\ s.length = t.length + n
                   /\ Remaining(s, at) > 0
                   /\ Remaining(s, at) <= Remaining(t, at) + n
                   /\ Remaining(t, at) > 0 => Remaining(s, at) = Remaining(t, at) + n
                \/ /\ s.length = 1
                   /\ Remaining(s, at) = 0
                   /\ Remaining(t, at) = 0 \/ Remaining(t, at) + n <= 0
<1> DEFINE r == Resume(t, at)
           s == AddToLength(t, at, n)
<1>1. /\ Sound(r, at) /\ r.started /\ ~r.paused
      /\ r.length = t.length /\ Remaining(r, at) = Remaining(t, at)
  BY ResumeSound
<1>2. /\ r.end \in Int /\ r.length \in Nat /\ r.end - at <= r.length /\ r.length > 0
      /\ t.length \in Nat /\ Remaining(t, at) \in Nat
  BY <1>1, RemainingType DEF Sound, TimerRecord, Agree, WithinLength, Remaining, AtLeastZero
<1>3. Remaining(t, at) = AtLeastZero(r.end - at)
  BY <1>1 DEF Remaining
<1>4. s = Repaused(t, Lengthened(r, at, n), at)
  BY DEF AddToLength, Sound, Agree
<1>5. CASE r.end - at + n > 0
  <2>1. Lengthened(r, at, n) = Retimed(r, r.end + n, r.length + n)
    BY <1>5 DEF Lengthened
  <2>2. /\ Remaining(s, at) = AtLeastZero((r.end + n) - at)
        /\ s.length = r.length + n
        /\ s.enabled = t.enabled /\ s.started /\ s.paused = t.paused
    <3> DEFINE e == r.end + n
               len == r.length + n
    <3>1. e \in Int /\ len \in Nat /\ len > 0 /\ e - at <= len
      BY <1>2, <1>5
    <3>2. s = Repaused(t, Retimed(Resume(t, at), e, len), at)
      BY <1>4, <2>1
    <3> HIDE DEF e, len, s, r
    <3>3. SetTo(s, t, at, e, len)
      BY <3>1, <3>2, RetimedEffect
    <3>4. QED
      BY <3>3 DEF SetTo, e, len
  <2> HIDE DEF r, s
  <2>3. QED
    BY <1>1, <1>2, <1>3, <1>5, <2>2 DEF AtLeastZero, s
<1>6. CASE ~(r.end - at + n > 0)
  <2>1. Lengthened(r, at, n) = Retimed(r, at, 1)
    BY <1>6 DEF Lengthened
  <2>a. s = Repaused(t, Retimed(Resume(t, at), at, 1), at)
    BY <1>4, <2>1
  <2> HIDE DEF s, r
  <2>2. SetTo(s, t, at, at, 1)
    BY <2>a, RetimedEffect
  <2>3. QED
    BY <1>2, <1>3, <1>6, <2>2 DEF SetTo, AtLeastZero, s
<1>7. QED
  BY <1>5, <1>6

\* A second passes on an absolute clock.
LEMMA LaterSound ==
  ASSUME NEW at \in Int, NEW t, Sound(t, at)
  PROVE  Sound(t, at + 1)
  BY DEF Sound, TimerRecord, Agree, WithinLength, Remaining, AtLeastZero

-----------------------------------------------------------------------------
(* The invariants.                                                           *)

\* The inductive invariant: the three invariants of the runs taken together.
\* Each needs the others: without the agreement of the fields a length change
\* could start from a stale length, and then show more than the new one.
IInv == now \in Nat /\ Sound(timer, now)

LEMMA IInvParts == IInv <=> TypeOK /\ FieldsAgree /\ RemainingWithinLength
  BY Zenon DEF IInv, Sound, TypeOK, FieldsAgree, RemainingWithinLength

LEMMA InitIInv == Init => IInv
  BY NewTimerSound DEF Init, IInv

LEMMA NextIInv == IInv /\ [Next]_vars => IInv'
<1> SUFFICES ASSUME IInv, [Next]_vars PROVE IInv'
  OBVIOUS
<1> USE GameTimerAssumption DEF IInv
<1>1. CASE Tick
  BY <1>1, LaterSound DEF Tick
<1>2. CASE DoEnable
  BY <1>2, EnableSound DEF DoEnable
<1>3. CASE DoDisable
  BY <1>3, DisableSound DEF DoDisable
<1>4. CASE DoStop
  BY <1>4, StopSound DEF DoStop
<1>5. CASE DoPause
  BY <1>5, PauseSound DEF DoPause
<1>6. CASE DoResume
  BY <1>6, ResumeSound DEF DoResume
<1>7. ASSUME NEW n \in Seconds, DoStart(n) PROVE IInv'
  BY <1>7, StartSound DEF DoStart, GameTimerAssumption
<1>8. ASSUME NEW n \in Seconds, DoChangeLength(n) PROVE IInv'
  BY <1>8, ChangeLengthSound DEF DoChangeLength, GameTimerAssumption
<1>9. ASSUME NEW n \in Seconds, DoSetCurrentLength(n) PROVE IInv'
  BY <1>9, SetCurrentLengthSound DEF DoSetCurrentLength, GameTimerAssumption
<1>10. ASSUME NEW n \in Seconds, DoAddToLength(n) PROVE IInv'
  BY <1>10, AddToLengthSound DEF DoAddToLength, GameTimerAssumption
<1>11. CASE UNCHANGED vars
  BY <1>11 DEF vars
<1>12. QED
  BY <1>1, <1>2, <1>3, <1>4, <1>5, <1>6, <1>7, <1>8, <1>9, <1>10, <1>11 DEF Next

LEMMA AlwaysIInv == Spec => []IInv
  BY InitIInv, NextIInv, PTL DEF Spec

\* The fields of a timer keep their types under every sequence of operations.
THEOREM TypeCorrect == Spec => []TypeOK
<1>1. IInv => TypeOK
  BY IInvParts
<1>2. QED
  BY <1>1, AlwaysIInv, PTL

\* A stopped or disabled timer never keeps a residue of an earlier countdown.
THEOREM FieldsAlwaysAgree == Spec => []FieldsAgree
<1>1. IInv => FieldsAgree
  BY IInvParts
<1>2. QED
  BY <1>1, AlwaysIInv, PTL

\* The time shown never exceeds the length.
THEOREM RemainingAlwaysWithinLength == Spec => []RemainingWithinLength
<1>1. IInv => RemainingWithinLength
  BY IInvParts
<1>2. QED
  BY <1>1, AlwaysIInv, PTL

-----------------------------------------------------------------------------
(* The refinement: what is seen of the timer before and after each operation *)
(* is a step of the countdown, or nothing changes.                           *)

LEMMA StoppedSeen ==
  ASSUME NEW t, NEW at \in Int, Sound(t, at), ~t.started
  PROVE  Remaining(t, at) = 0 /\ t.length = 0
  BY DEF Sound, Agree, Remaining

LEMMA StopEffect ==
  ASSUME NEW t, NEW at
  PROVE  /\ ModeOf(Stop(t)) = IF t.enabled THEN "idle" ELSE "off"
         /\ Remaining(Stop(t), at) = 0
         /\ Stop(t).length = 0
  BY DEF Stop, ModeOf, Remaining

LEMMA RestartedEffect ==
  ASSUME NEW at \in Int, NEW n \in Int, n > 0
  PROVE  /\ ModeOf(Restarted(at, n)) = "running"
         /\ Remaining(Restarted(at, n), at) = n
         /\ Restarted(at, n).length = n
  BY DEF Restarted, ModeOf, Remaining, AtLeastZero

LEMMA LaterEffect ==
  ASSUME NEW at \in Int, NEW t, Sound(t, at)
  PROVE  Remaining(t, at + 1) =
           IF ModeOf(t) = "running" /\ Remaining(t, at) > 0
           THEN Remaining(t, at) - 1 ELSE Remaining(t, at)
<1>1. t.end \in Int /\ (t.started => t.enabled)
  BY DEF Sound, TimerRecord, Agree
<1>2. QED
  BY <1>1 DEF Remaining, AtLeastZero, ModeOf

LEMMA EnableEffect ==
  ASSUME NEW at \in Int, NEW t, Sound(t, at)
  PROVE  /\ t.enabled => Enable(t) = t
         /\ ~t.enabled => /\ ModeOf(Enable(t)) = "idle"
                          /\ Remaining(Enable(t), at) = 0
                          /\ Enable(t).length = 0
<1>1. CASE t.enabled
  BY <1>1 DEF Enable, Sound, TimerRecord
<1>2. CASE ~t.enabled
  <2>1. /\ Enable(t).enabled /\ Enable(t).started = t.started
        /\ Enable(t).length = t.length
    BY DEF Enable, Sound, TimerRecord
  <2>2. ~t.started /\ t.length = 0
    BY <1>2 DEF Sound, Agree
  <2>3. QED
    BY <1>2, <2>1, <2>2 DEF ModeOf, Remaining
<1>3. QED
  BY <1>1, <1>2

\* A started timer with the same switches is in the same mode, and not off.
LEMMA SameMode ==
  ASSUME NEW at, NEW t, Sound(t, at), t.started,
         NEW s, s.enabled = t.enabled, s.started, s.paused = t.paused
  PROVE  ModeOf(s) = ModeOf(t) /\ ModeOf(t) \in {"running", "frozen"}
  BY DEF ModeOf, Sound, Agree

\* Starting, as the countdown sees it: Start is also what a length change does to
\* a timer that is not started.
LEMMA StartRefines ==
  ASSUME IInv, NEW n \in Seconds, UNCHANGED now, timer' = Start(timer, now, n)
  PROVE  [Abstract!Next]_(Abstract!vars)
<1> USE GameTimerAssumption DEF IInv
<1>1. CASE ~timer.enabled
  BY <1>1 DEF Start, Abstract!vars
<1>2. CASE timer.enabled /\ n <= 0
  <2>1. timer' = Stop(timer)
    BY <1>2 DEF Start
  <2>2. Abstract!Clear
    BY <1>2, <2>1, StopEffect DEF Abstract!Clear, ModeOf
  <2>3. QED
    BY <2>2 DEF Abstract!Next
<1>3. CASE timer.enabled /\ n > 0
  <2>1. timer' = Restarted(now, n)
    BY <1>3 DEF Start
  <2>2. Abstract!Begin(n)
    BY <1>3, <2>1, RestartedEffect DEF Abstract!Begin, ModeOf
  <2>3. QED
    BY <2>2 DEF Abstract!Next
<1>4. QED
  BY <1>1, <1>2, <1>3

LEMMA StopRefines ==
  ASSUME IInv, UNCHANGED now, timer' = Stop(timer)
  PROVE  [Abstract!Next]_(Abstract!vars)
<1> USE DEF IInv
<1>1. CASE timer.enabled
  <2>1. Abstract!Clear
    BY <1>1, StopEffect DEF Abstract!Clear, ModeOf
  <2>2. QED
    BY <2>1 DEF Abstract!Next
<1>2. CASE ~timer.enabled
  <2>1. ~timer.started /\ now \in Int
    BY <1>2 DEF Sound, Agree
  <2>2. QED
    BY <1>2, <2>1, StopEffect, StoppedSeen DEF Abstract!vars, ModeOf
<1>3. QED
  BY <1>1, <1>2

LEMMA TickRefines ==
  ASSUME IInv, Tick PROVE [Abstract!Next]_(Abstract!vars)
<1>1. Abstract!Pass
  BY LaterEffect DEF IInv, Tick, Abstract!Pass
<1>2. QED
  BY <1>1 DEF Abstract!Next

LEMMA SwitchRefines ==
  ASSUME IInv, DoEnable \/ DoDisable PROVE [Abstract!Next]_(Abstract!vars)
<1> USE DEF IInv
<1>1. CASE DoEnable /\ timer.enabled
  BY <1>1, EnableEffect DEF DoEnable, Abstract!vars
<1>2. CASE DoEnable /\ ~timer.enabled
  <2>1. Remaining(timer, now) = 0 /\ timer.length = 0 /\ ModeOf(timer) = "off"
    BY <1>2, StoppedSeen DEF Sound, Agree, ModeOf
  <2>2. Abstract!SwitchOn
    BY <1>2, <2>1, EnableEffect DEF DoEnable, Abstract!SwitchOn
  <2>3. QED
    BY <2>2 DEF Abstract!Next
<1>3. CASE DoDisable
  <2>1. ~[timer EXCEPT !.enabled = FALSE].enabled
    BY DEF Sound, TimerRecord
  <2>2. Abstract!SwitchOff
    BY <1>3, <2>1, StopEffect DEF DoDisable, Disable, Abstract!SwitchOff
  <2>3. QED
    BY <2>2 DEF Abstract!Next
<1>4. QED
  BY <1>1, <1>2, <1>3

LEMMA PauseRefines ==
  ASSUME IInv, DoPause \/ DoResume PROVE [Abstract!Next]_(Abstract!vars)
<1> USE DEF IInv
<1>1. CASE DoPause /\ Running(timer)
  <2>1. ModeOf(timer) = "running" /\ ModeOf(Pause(timer, now)) = "frozen"
    BY <1>1, PauseEffect DEF ModeOf, Running, Sound, Agree
  <2>2. Abstract!Freeze
    BY <1>1, <2>1, PauseEffect DEF DoPause, Running, Abstract!Freeze
  <2>3. QED
    BY <2>2 DEF Abstract!Next
<1>2. CASE DoPause /\ ~Running(timer)
  BY <1>2 DEF DoPause, Pause, Abstract!vars
<1>3. CASE DoResume /\ timer.started /\ timer.paused
  <2>1. ModeOf(timer) = "frozen" /\ ModeOf(Resume(timer, now)) = "running"
    BY <1>3, ResumeSound DEF ModeOf, Sound, Agree
  <2>2. Abstract!Thaw
    BY <1>3, <2>1, ResumeSound DEF DoResume, Abstract!Thaw
  <2>3. QED
    BY <2>2 DEF Abstract!Next
<1>4. CASE DoResume /\ ~(timer.started /\ timer.paused)
  BY <1>4 DEF DoResume, Resume, Abstract!vars
<1>5. QED
  BY <1>1, <1>2, <1>3, <1>4

LEMMA ChangeLengthRefines ==
  ASSUME IInv, NEW n \in Seconds, DoChangeLength(n)
  PROVE  [Abstract!Next]_(Abstract!vars)
<1> USE GameTimerAssumption DEF IInv
<1>1. CASE timer.enabled /\ n > 0 /\ timer.started
  <2>1. timer' = ChangeLength(timer, now, n) /\ now' = now
    BY DEF DoChangeLength
  <2>2. ModeOf(timer') = ModeOf(timer) /\ ModeOf(timer) \in {"running", "frozen"}
    BY <1>1, <2>1, ChangeLengthEffect, SameMode
  <2>3. timer.length \in Nat /\ timer'.length = timer.length + (n - timer.length)
    BY <1>1, <2>1, ChangeLengthEffect DEF Sound, TimerRecord
  <2>4. Abstract!Replace(n) \/ Abstract!Adjust(n - timer.length)
    BY <1>1, <2>1, <2>2, <2>3, ChangeLengthEffect
       DEF Abstract!Replace, Abstract!Adjust, Abstract!Active
  <2>5. QED
    BY <2>4 DEF Abstract!Next
<1>2. CASE ~timer.enabled \/ (n > 0 /\ ~timer.started)
  BY <1>2, StartRefines DEF DoChangeLength, ChangeLength, Start
<1>3. CASE timer.enabled /\ ~(n > 0)
  BY <1>3, StopRefines DEF DoChangeLength, ChangeLength
<1>4. QED
  BY <1>1, <1>2, <1>3

LEMMA SetCurrentLengthRefines ==
  ASSUME IInv, NEW n \in Seconds, DoSetCurrentLength(n)
  PROVE  [Abstract!Next]_(Abstract!vars)
<1> USE GameTimerAssumption DEF IInv
<1>1. CASE timer.enabled /\ n > 0 /\ timer.started
  <2>1. timer' = SetCurrentLength(timer, now, n) /\ now' = now
    BY DEF DoSetCurrentLength
  <2>2. ModeOf(timer') = ModeOf(timer) /\ ModeOf(timer) \in {"running", "frozen"}
    BY <1>1, <2>1, SetCurrentLengthEffect, SameMode
  <2>3. Abstract!Replace(n)
    BY <1>1, <2>1, <2>2, SetCurrentLengthEffect DEF Abstract!Replace, Abstract!Active
  <2>4. QED
    BY <2>3 DEF Abstract!Next
<1>2. CASE ~timer.enabled \/ (n > 0 /\ ~timer.started)
  BY <1>2, StartRefines DEF DoSetCurrentLength, SetCurrentLength, Start
<1>3. CASE timer.enabled /\ ~(n > 0)
  BY <1>3, StopRefines DEF DoSetCurrentLength, SetCurrentLength
<1>4. QED
  BY <1>1, <1>2, <1>3

LEMMA AddToLengthRefines ==
  ASSUME IInv, NEW n \in Seconds, DoAddToLength(n)
  PROVE  [Abstract!Next]_(Abstract!vars)
<1> USE GameTimerAssumption DEF IInv
<1>1. timer' = AddToLength(timer, now, n) /\ now' = now /\ timer.started
  BY DEF DoAddToLength
<1>2. ModeOf(timer') = ModeOf(timer) /\ ModeOf(timer) \in {"running", "frozen"}
  BY <1>1, AddToLengthEffect, SameMode
<1>3. Abstract!Adjust(n) \/ Abstract!Drain(n)
  BY <1>1, <1>2, AddToLengthEffect DEF Abstract!Adjust, Abstract!Drain, Abstract!Active
<1>4. QED
  BY <1>3 DEF Abstract!Next

\* Whatever sequence of operations the game rules, the console and the scenario
\* issue, the timer behaves as the abstract countdown.
THEOREM TimerImplementsCountdown == Spec => CountsDown
<1>1. Init => Abstract!Init
  BY DEF Init, NewTimer, Abstract!Init, ModeOf, Remaining
<1>2. IInv /\ [Next]_vars => [Abstract!Next]_(Abstract!vars)
  <2> SUFFICES ASSUME IInv, [Next]_vars PROVE [Abstract!Next]_(Abstract!vars)
    OBVIOUS
  <2>1. ASSUME NEW n \in Seconds, DoStart(n) PROVE [Abstract!Next]_(Abstract!vars)
    BY <2>1, StartRefines DEF DoStart
  <2>2. CASE DoStop
    BY <2>2, StopRefines DEF DoStop
  <2>3. CASE UNCHANGED vars
    BY <2>3 DEF vars, Abstract!vars
  <2>4. QED
    BY <2>1, <2>2, <2>3, TickRefines, SwitchRefines, PauseRefines, ChangeLengthRefines,
       SetCurrentLengthRefines, AddToLengthRefines DEF Next
<1>3. QED
  BY <1>1, <1>2, AlwaysIInv, PTL DEF Spec, CountsDown, Abstract!Spec
=============================================================================
