----------------------------- MODULE GameTimer -----------------------------
(***************************************************************************)
(* One CGEGameTimer driven by the game rules, the console and the scenario *)
(* against gpGlobals->curtime.                                             *)
(*                                                                         *)
(* Bounds: Seconds is the finite set of lengths and adjustments that are   *)
(* asked for, MaxTime the last instant, MaxLength the longest total length *)
(* AddToLength may build up (the code bounds it nowhere).                  *)
(***************************************************************************)
EXTENDS Timer

CONSTANTS Seconds, MaxTime, MaxLength

ASSUME GameTimerAssumption ==
  /\ Seconds \subseteq Int
  /\ MaxTime \in Nat
  /\ MaxLength \in Nat

VARIABLES now,      \* gpGlobals->curtime
          timer     \* the fields of the timer

vars == <<now, timer>>

Init == now = 0 /\ timer = NewTimer

Tick ==
  /\ now < MaxTime
  /\ now' = now + 1
  /\ UNCHANGED timer

DoEnable  == timer' = Enable(timer) /\ UNCHANGED now
DoDisable == timer' = Disable(timer) /\ UNCHANGED now
DoStop    == timer' = Stop(timer) /\ UNCHANGED now
DoPause   == timer' = Pause(timer, now) /\ UNCHANGED now
DoResume  == timer' = Resume(timer, now) /\ UNCHANGED now

DoStart(n)            == timer' = Start(timer, now, n) /\ UNCHANGED now
DoChangeLength(n)     == timer' = ChangeLength(timer, now, n) /\ UNCHANGED now
DoSetCurrentLength(n) == timer' = SetCurrentLength(timer, now, n) /\ UNCHANGED now

\* AddToRoundTimer, the only caller, does nothing for a timer without time on it.
DoAddToLength(n) ==
  /\ timer.started
  /\ timer.length + n <= MaxLength
  /\ timer' = AddToLength(timer, now, n)
  /\ UNCHANGED now

Next ==
  \/ Tick
  \/ DoEnable \/ DoDisable \/ DoStop \/ DoPause \/ DoResume
  \/ \E n \in Seconds : DoStart(n)
  \/ \E n \in Seconds : DoChangeLength(n)
  \/ \E n \in Seconds : DoSetCurrentLength(n)
  \/ \E n \in Seconds : DoAddToLength(n)

Spec == Init /\ [][Next]_vars

-----------------------------------------------------------------------------
\* Every field has its type, and the clock is a natural number.
TypeOK == now \in Nat /\ timer \in TimerRecord

\* Only an enabled timer is started and only a started one is paused; a timer
\* that is not started holds no residue of an earlier countdown (a length, an
\* end or a pause), so that a later ChangeLength cannot pick it up.
FieldsAgree == Agree(timer)

\* The time shown never exceeds the length the timer counts down from, through
\* any sequence of starts, length changes, pauses and additions: the share of
\* the round that has been played is never negative.
RemainingWithinLength == WithinLength(timer, now)

\* The timer implements the abstract countdown.
Abstract == INSTANCE Countdown
  WITH mode <- ModeOf(timer), left <- Remaining(timer, now), length <- timer.length

\* Every operation of the timer is one the countdown allows: a pause, however
\* long and whatever happens during it, costs no time, and a change of length
\* keeps the time spent or starts afresh.
CountsDown == Abstract!Spec

\* TimerTest.ChangeTimerLengthLess expects that a running timer shortened to
\* less than the time already spent is left with no time
\* (game/tests/server/ge_game_timer_test.cpp:143-153).
ShortenedPastElapsedExpires ==
  \A n \in Seconds :
    /\ Running(timer) /\ Remaining(timer, now) > 0
    /\ n > 0 /\ n < timer.length - Remaining(timer, now)
    => Remaining(ChangeLength(timer, now, n), now) = 0
=============================================================================
