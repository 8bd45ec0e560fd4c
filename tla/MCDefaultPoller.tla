---------------------------- MODULE MCDefaultPoller ----------------------------
EXTENDS DefaultPoller

CONSTANTS a, b, c

\* Three entries in the array, one of them for descriptor 0, which has no negative, and
\* two channels that have it in turn.
MCChannels == {a, b, c}
MCFdsOf == [x \in MCChannels |-> IF x = a THEN {0} ELSE IF x = b THEN {1} ELSE {0, 2}]

=============================================================================
