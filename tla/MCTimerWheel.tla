---------------------------- MODULE MCTimerWheel ----------------------------
(* Small instance of TimerWheel for TLC: two connections, a timeout of two *)
(* seconds (three slots), half seconds, and a clock that runs for more     *)
(* than two revolutions of the wheel.                                      *)
EXTENDS TimerWheel
=============================================================================
