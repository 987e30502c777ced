------------------------------- MODULE Timer -------------------------------
(***************************************************************************)
(* The software timer of the garage application (libraries/garage/Timer.h) *)
(* over the wrapping millisecond counter millis().                         *)
(*                                                                         *)
(* millis() is an unsigned 32-bit counter: HalfRange stands for 2^31 and   *)
(* Wrap for 2^32.  A timer keeps the counter value at which it will go off *)
(* and compares it with the counter through signed 32-bit subtraction, so  *)
(* that its answer is a statement about the true time only while that time *)
(* is less than HalfRange away from the trigger.                           *)
(***************************************************************************)
EXTENDS Integers

CONSTANT HalfRange   \* 2^31: half of the range of millis()

ASSUME HalfRangeAssumption == HalfRange \in Nat \ {0}

Wrap == 2 * HalfRange
Time == 0 .. Wrap - 1

\* Unsigned addition on the counter.
Later_NoWrap(t, d) == t + d
Later(t, d) == IF t + d < Wrap THEN t + d ELSE t + d - Wrap

\* (long)(a - b): the difference of two counter values read as signed.
SignedDiff_Unsigned(a, b) == a - b
SignedDiff(a, b) ==
  LET d == a - b
  IN  IF d >= HalfRange THEN d - Wrap
      ELSE IF d < -HalfRange THEN d + Wrap ELSE d

TimerRecord == [state : {"RUNNING", "STOPPED"}, trigger : Time]

NewTimer == [state |-> "STOPPED", trigger |-> 0]

\* Timer::start
Started(now, period) == [state |-> "RUNNING", trigger |-> Later(now, period)]

IsRunning(t) == t.state = "RUNNING"

\* The answer of Timer::isElapsed ...
IsElapsed(t, now) == IsRunning(t) => SignedDiff(now, t.trigger) >= 0

\* ... and what the call does to the timer: an elapsed timer is switched off.
Polled_StaysOn(t, now) == t
Polled(t, now) ==
  IF IsElapsed(t, now) THEN [t EXCEPT !.state = "STOPPED"] ELSE t

-----------------------------------------------------------------------------
(***************************************************************************)
(* What a running timer knows of the true time.  age is the number of      *)
(* ticks since start(), which no variable of the program holds; the        *)
(* trigger determines it up to a multiple of Wrap.                         *)
(***************************************************************************)
TracksAge(t, now, age, period) ==
  LET d == now - t.trigger
  IN  d \in {age - period, age - period + Wrap, age - period - Wrap}
=============================================================================
