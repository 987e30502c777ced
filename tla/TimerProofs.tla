----------------------------- MODULE TimerProofs -----------------------------
(***************************************************************************)
(* What the timers of Timer.h know of the true time, for every range of    *)
(* the counter and every period below half of it.                          *)
(***************************************************************************)
EXTENDS Timer, TLAPS

\* The counter stays in its range (unsigned addition).
LEMMA LaterType ==
  ASSUME NEW t \in Time, NEW d \in Time
  PROVE  Later(t, d) \in Time
BY HalfRangeAssumption DEF Later, Time, Wrap

\* start() leaves a well-formed running timer of age 0.
LEMMA StartTracksAge ==
  ASSUME NEW now \in Time, NEW period \in 0 .. HalfRange - 1
  PROVE  /\ Started(now, period) \in TimerRecord
         /\ IsRunning(Started(now, period))
         /\ TracksAge(Started(now, period), now, 0, period)
<1>1. Later(now, period) \in Time
  BY LaterType, HalfRangeAssumption DEF Time, Wrap
<1>2. QED
  BY <1>1, HalfRangeAssumption
  DEF Started, TimerRecord, IsRunning, TracksAge, Later, Time, Wrap

\* A tick of the counter is a tick of the age, across the wrap too.
LEMMA TickTracksAge ==
  ASSUME NEW t \in TimerRecord, NEW now \in Time, NEW age \in 0 .. Wrap - 1,
         NEW period \in 0 .. HalfRange - 1, TracksAge(t, now, age, period)
  PROVE  TracksAge(t, Later(now, 1), age + 1, period)
<1>1. /\ t.trigger \in Time
      /\ now - t.trigger \in {age - period, age - period + Wrap, age - period - Wrap}
  BY DEF TimerRecord, TracksAge
<1>2. /\ Wrap \in Nat /\ 0 <= t.trigger /\ t.trigger < Wrap /\ t.trigger \in Int
      /\ 0 <= now /\ now < Wrap /\ now \in Int
      /\ 0 <= age /\ age < Wrap /\ age \in Int
      /\ 0 <= period /\ period \in Int
  BY <1>1, HalfRangeAssumption DEF Time, Wrap
<1>3. CASE now + 1 < Wrap
  <2>1. Later(now, 1) - t.trigger = (now - t.trigger) + 1
    BY <1>2, <1>3 DEF Later
  <2>2. QED
    BY <1>1, <1>2, <2>1 DEF TracksAge
<1>4. CASE now + 1 >= Wrap
  <2>1. Later(now, 1) - t.trigger = (now - t.trigger) + 1 - Wrap
    BY <1>2, <1>4 DEF Later
  <2>2. now - t.trigger # age - period - Wrap
    BY <1>2, <1>4
  <2>3. QED
    BY <1>1, <1>2, <2>1, <2>2 DEF TracksAge
<1>5. QED
  BY <1>2, <1>3, <1>4

\* isElapsed() tells the truth about the period while the age is less than
\* half a counter range past it.
THEOREM ElapsedIsAccurate ==
  ASSUME NEW t \in TimerRecord, NEW now \in Time, NEW age \in Nat,
         NEW period \in 0 .. HalfRange - 1, TracksAge(t, now, age, period),
         age < period + HalfRange, IsRunning(t)
  PROVE  IsElapsed(t, now) <=> age >= period
<1>1. t.trigger \in Time
  BY DEF TimerRecord
<1> DEFINE d == now - t.trigger
<1>2. d \in Int /\ -Wrap < d /\ d < Wrap
  BY <1>1, HalfRangeAssumption DEF Time, Wrap
<1>3. d \in {age - period, age - period + Wrap, age - period - Wrap}
  BY DEF TracksAge
<1>4. SignedDiff(now, t.trigger) = age - period
  BY <1>2, <1>3, HalfRangeAssumption DEF SignedDiff, Wrap
<1>5. QED
  BY <1>4 DEF IsElapsed

\* A poll keeps the timer well formed and either leaves it alone or, when it
\* has elapsed, only switches it off.
LEMMA PolledTimer ==
  ASSUME NEW t \in TimerRecord, NEW now
  PROVE  /\ Polled(t, now) \in TimerRecord
         /\ IsElapsed(t, now) => ~IsRunning(Polled(t, now))
         /\ ~IsElapsed(t, now) => Polled(t, now) = t
         /\ IsRunning(Polled(t, now)) => Polled(t, now) = t
BY DEF Polled, TimerRecord, IsRunning, IsElapsed
=============================================================================
