------------------------------ MODULE MC_Backend -----------------------------
EXTENDS Backend

\* Block numbers below the forks, at a fork, and above the highest head.
MC_Numbers == {0, 2, 5}
==============================================================================
