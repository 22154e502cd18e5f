--------------------------- MODULE MC_ImportChain ---------------------------
EXTENDS ImportChain, TLC

\* Every file of up to three entries.
MC_Files == UNION {[1..k -> {"ok", "bad", "junk"}] : k \in 0..3}
==============================================================================
