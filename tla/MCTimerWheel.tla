---------------------------- MODULE MCTimerWheel ----------------------------
(* TimerWheel for TLC: every timeout that the short time can tell.           *)
EXTENDS TimerWheel

AnyTimeout == 1 .. (Wrap \div 2) - 1
=============================================================================
