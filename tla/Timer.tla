------------------------------- MODULE Timer -------------------------------
(***************************************************************************)
(* microtimer_t.  It keeps two values of gettimeofday, which is the wall   *)
(* clock: whoever sets that clock moves every running timer.               *)
(***************************************************************************)
EXTENDS Integers

NEVER == 0

(* A timer that was only cleared, as in the record main declares.          *)
Zeroed == [started |-> 0, ending |-> NEVER]

(* timer_init without a start, which is timer_reset.                       *)
TimerReset(duration, now) ==
  [started |-> now, ending |-> IF duration = 0 THEN NEVER ELSE now + duration]

(* timer_calc_difference of two unsigned values, as a signed one.  Mutated *)
(* form: the difference is left unsigned.                                  *)
Unsigned(now, then) == IF now >= then THEN now - then ELSE now - then + 2 ^ 20
Difference(now, then) == IF now >= then THEN now - then ELSE -(then - now)

(* timer_remaining and timer_expired.  Mutated form: a timer is expired    *)
(* one unit of time before its end.                                        *)
Remaining(timer, now) ==
  IF timer.ending /= NEVER /\ Difference(timer.ending, now) > 0
  THEN Difference(timer.ending, now) ELSE 0

ExpiredEarly(timer, now) == timer.ending = NEVER \/ Difference(timer.ending, now) <= 1
Expired(timer, now) == timer.ending = NEVER \/ Difference(timer.ending, now) <= 0
=============================================================================
