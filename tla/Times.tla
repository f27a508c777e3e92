-------------------------------- MODULE Times --------------------------------
(***************************************************************************)
(* clippo-core's Timestamp: milliseconds since 1970 in a signed word, and  *)
(* arithmetic that saturates; and the age clippo prints.                   *)
(***************************************************************************)
EXTENDS Integers

CONSTANT MaxWord   \* i64::MAX

MinWord == -MaxWord - 1
Words   == MinWord..MaxWord

Saturated(n) == IF n > MaxWord THEN MaxWord ELSE IF n < MinWord THEN MinWord ELSE n

(* millis_of: a duration in whole milliseconds.                            *)
MillisOf(duration) == IF duration > MaxWord THEN MaxWord ELSE duration

(* Timestamp::now: what the clock is ahead of 1970, or behind it.          *)
Now(ahead, behind) == IF behind = 0 THEN MillisOf(ahead) ELSE -MillisOf(behind)

SaturatingAdd(time, age) == Saturated(time + MillisOf(age))
SaturatingSub(time, age) == Saturated(time - MillisOf(age))

(* sweep: what max_age drops, of the unpinned.                             *)
TooOld(last_used, now, max_age) == last_used < SaturatingSub(now, max_age)

(* since: a span of no time if it is none.                                 *)
Since(time, earlier) ==
  LET delta == Saturated(time - earlier) IN IF delta < 0 THEN 0 ELSE delta

Minute == 60
Hour   == 60 * Minute
Day    == 24 * Hour

(* age: the widest unit that there is a whole one of.                      *)
UnitOf(seconds) ==
  IF seconds < Minute THEN 1 ELSE IF seconds < Hour THEN Minute ELSE IF seconds < Day THEN Hour ELSE Day

Age(time, earlier) ==
  LET seconds == Since(time, earlier) \div 1000
  IN  [count |-> seconds \div UnitOf(seconds), unit |-> UnitOf(seconds)]
=============================================================================
