----------------------------- MODULE Countdown -----------------------------
(***************************************************************************)
(* What a game timer promises to the code and the clients that read it,    *)
(* whatever instants it stores: a mode, the seconds it shows and the       *)
(* length it counts down from.  Nothing but the passing of time takes      *)
(* seconds off a running countdown unless an operation asks for it; a      *)
(* frozen one keeps its seconds through every second that passes; a change *)
(* of length keeps the time already spent or starts the length afresh; and *)
(* no operation gives more seconds than it was asked for.                  *)
(***************************************************************************)
EXTENDS Integers

CONSTANT Seconds    \* The lengths and adjustments the operations are called with.

VARIABLES mode,     \* "off" (disabled), "idle" (stopped), "running", "frozen"
          left,     \* the seconds shown
          length    \* the seconds it counts down from

vars == <<mode, left, length>>

Active == mode \in {"running", "frozen"}

Init == mode = "idle" /\ left = 0 /\ length = 0

\* A second passes: only a running countdown that has not expired moves.
Pass ==
  /\ left' = IF mode = "running" /\ left > 0 THEN left - 1 ELSE left
  /\ UNCHANGED <<mode, length>>

SwitchOn == mode = "off" /\ mode' = "idle" /\ UNCHANGED <<left, length>>

SwitchOff == mode' = "off" /\ left' = 0 /\ length' = 0

Clear == mode # "off" /\ mode' = "idle" /\ left' = 0 /\ length' = 0

\* A new countdown of n seconds, running.
Begin(n) == mode # "off" /\ n > 0 /\ mode' = "running" /\ left' = n /\ length' = n

\* The countdown starts afresh from n seconds, and a frozen one stays frozen.
Replace(n) == Active /\ n > 0 /\ left' = n /\ length' = n /\ UNCHANGED mode

\* The length grows or shrinks by d and the time already spent is kept.  The
\* seconds by which an expired countdown has overrun count as spent too.
Adjust(d) ==
  /\ Active
  /\ left' > 0 /\ left' <= left + d
  /\ left > 0 => left' = left + d
  /\ length' = length + d
  /\ UNCHANGED mode

\* Nothing is left once d is taken into account.
Drain(d) ==
  /\ Active
  /\ left = 0 \/ left + d <= 0
  /\ left' = 0 /\ length' = 1
  /\ UNCHANGED mode

Freeze == mode = "running" /\ mode' = "frozen" /\ UNCHANGED <<left, length>>

Thaw == mode = "frozen" /\ mode' = "running" /\ UNCHANGED <<left, length>>

Next ==
  \/ Pass \/ SwitchOn \/ SwitchOff \/ Clear \/ Freeze \/ Thaw
  \/ \E n \in Seconds :
       Begin(n) \/ Replace(n) \/ Adjust(n - length) \/ Adjust(n) \/ Drain(n)

Spec == Init /\ [][Next]_vars
=============================================================================
