----------------------------- MODULE MCEventLoop -----------------------------
EXTENDS EventLoop

CONSTANTS c1, c2, f1, f2, f3

MCCallers  == {c1, c2}
MCFunctors == {f1, f2, f3}
=============================================================================
