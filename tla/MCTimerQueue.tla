---------------------------- MODULE MCTimerQueue -----------------------------
EXTENDS TimerQueue

CONSTANT t1

\* A delay that is over when it is asked for, and one that is not.
MCWhens == {-1, 2}
=============================================================================
