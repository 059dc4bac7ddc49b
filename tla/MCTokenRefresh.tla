--------------------------- MODULE MCTokenRefresh ---------------------------
(* A small instance of TokenRefresh for TLC.  A tick is ten minutes: the   *)
(* default intervals of 5m and 30m, one of zero, and one above the hour a  *)
(* token is valid.                                                         *)
EXTENDS TokenRefresh

Ticks(minutes) == (minutes + 9) \div 10
IntervalChoices == {Ticks(0), Ticks(5), Ticks(30), Ticks(70)}
Hour == Ticks(60)

(* appRefRetryInterval is 30s; the rate limiter goes up to 1000s.          *)
HalfMinute == Ticks(1)
SixteenMinutes == Ticks(17)
=============================================================================
