------------------------------- MODULE Timer -------------------------------
(***************************************************************************)
(* CGEGameTimer (shared/ge_game_timer.cpp): the match clock and the round  *)
(* clock of the game rules.  The module has no variables: a timer is a     *)
(* record, and each operation of the class maps the record, and the        *)
(* current time where the code reads gpGlobals->curtime, to the new        *)
(* record.  GameTimer runs one timer against an absolute clock; Gameplay   *)
(* runs two against a clock that always reads zero (see Elapse).           *)
(*                                                                         *)
(* Times are whole seconds.                                                *)
(***************************************************************************)
EXTENDS Integers

\* A timer's fields: m_bEnabled, m_bStarted, m_bPaused, m_flLength, m_flEndTime
\* and m_flPauseTimeRemaining.
TimerRecord == [enabled: BOOLEAN, started: BOOLEAN, paused: BOOLEAN,
                length: Nat, end: Int, pauseLeft: Nat]

\* Broken Stop: the pause state of the last countdown survives.
StopKeepsPause(t) == [t EXCEPT !.started = FALSE, !.length = 0, !.end = 0]

\* Stop() forgets everything but whether the timer is enabled.
Stop(t) == [enabled |-> t.enabled, started |-> FALSE, paused |-> FALSE,
            length |-> 0, end |-> 0, pauseLeft |-> 0]

\* The constructor enables the timer and stops it.
NewTimer == [enabled |-> TRUE, started |-> FALSE, paused |-> FALSE,
             length |-> 0, end |-> 0, pauseLeft |-> 0]

Running(t) == t.started /\ ~t.paused

\* max( x, 0 )
AtLeastZero(x) == IF x > 0 THEN x ELSE 0

\* GetTimeRemaining()
Remaining(t, now) ==
  IF ~t.started THEN 0
  ELSE AtLeastZero(IF t.paused THEN t.pauseLeft ELSE t.end - now)

\* What a timer is doing, as those who read its flags see it.
ModeOf(t) ==
  IF ~t.enabled THEN "off"
  ELSE IF ~t.started THEN "idle"
  ELSE IF t.paused THEN "frozen" ELSE "running"

Enable(t) == [t EXCEPT !.enabled = TRUE]

Disable(t) == Stop([t EXCEPT !.enabled = FALSE])

\* An enabled timer counts down a new length from now; any pause is forgotten.
Restarted(now, len) == [enabled |-> TRUE, started |-> TRUE, paused |-> FALSE,
                        length |-> len, end |-> now + len, pauseLeft |-> 0]

Start(t, now, len) ==
  IF ~t.enabled THEN t
  ELSE IF len <= 0 THEN Stop(t)
  ELSE Restarted(now, len)

Pause(t, now) ==
  IF ~Running(t) THEN t
  ELSE [t EXCEPT !.pauseLeft = Remaining(t, now), !.paused = TRUE]

\* Broken Resume: the end time stays where it was before the pause.
ResumeKeepsEnd(t, now) ==
  IF ~(t.started /\ t.paused) THEN t ELSE [t EXCEPT !.pauseLeft = 0, !.paused = FALSE]

Resume(t, now) ==
  IF ~(t.started /\ t.paused) THEN t
  ELSE [t EXCEPT !.end = now + Remaining(t, now), !.pauseLeft = 0, !.paused = FALSE]

\* The three length changes resume a paused timer first, to have its real end
\* time, and pause it again afterwards.
Repaused(before, t, now) == IF before.paused THEN Pause(t, now) ELSE t

\* A new end time and a new length.
Retimed(t, end, len) == [t EXCEPT !.end = end, !.length = len]

\* The new end keeps the time already spent, unless that leaves nothing: then
\* the timer restarts with the length given.
WithLength(r, now, len) ==
  LET diff == len - r.length
  IN  IF r.end - now + diff > 0
      THEN Retimed(r, r.end + diff, r.length + diff)
      ELSE Retimed(r, now + len, len)

ChangeLength(t, now, len) ==
  IF ~t.enabled THEN t
  ELSE IF len <= 0 THEN Stop(t)
  ELSE IF ~t.started THEN Start(t, now, len)
  ELSE Repaused(t, WithLength(Resume(t, now), now, len), now)

SetCurrentLength(t, now, len) ==
  IF ~t.enabled THEN t
  ELSE IF len <= 0 THEN Stop(t)
  ELSE IF ~t.started THEN Start(t, now, len)
  ELSE Repaused(t, Retimed(Resume(t, now), now + len, len), now)

\* Taking off all that remains leaves an expired timer of length one.
Lengthened(r, now, secs) ==
  IF r.end - now + secs > 0
  THEN Retimed(r, r.end + secs, r.length + secs)
  ELSE Retimed(r, now, 1)

AddToLength(t, now, secs) ==
  IF ~t.enabled THEN t
  ELSE Repaused(t, Lengthened(Resume(t, now), now, secs), now)

-----------------------------------------------------------------------------
(* What a timer's fields always satisfy.                                     *)

\* Started needs enabled, paused needs started, and a stopped timer is blank.
Agree(t) ==
  /\ t.started => t.enabled /\ t.length > 0
  /\ t.paused => t.started
  /\ ~t.started => t.length = 0 /\ t.end = 0
  /\ ~t.paused => t.pauseLeft = 0

\* The time shown is at most the length.
WithinLength(t, now) == Remaining(t, now) <= t.length

-----------------------------------------------------------------------------
(* Time relative to the present.  A timer whose end is stored as the time    *)
(* left until it (that is, with now = 0) passes one second by moving the end *)
(* one second closer.  Only a running timer's end has a meaning.             *)

\* One second passes for a timer with relative times; how long ago it expired
\* matters to ChangeLength and AddToLength only up to the largest change, so
\* the overrun is remembered up to maxOverrun.
Elapse(t, maxOverrun) ==
  IF Running(t) /\ t.end > -maxOverrun THEN [t EXCEPT !.end = @ - 1] ELSE t
=============================================================================
