---------------------------- MODULE MCThreadPool -----------------------------
EXTENDS ThreadPool

CONSTANTS w1, w2, c1, c2, a, b, c, d
=============================================================================
