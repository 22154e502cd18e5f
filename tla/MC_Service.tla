----------------------------- MODULE MC_Service -----------------------------
EXTENDS Service, TLC

CONSTANTS cA, cB, m1, m2

\* Two configurations that put the disputed fork at blocks 2 and 3.
MC_Cfgs == {cA, cB}
MC_ForkBlock == (cA :> 2) @@ (cB :> 3)

\* Two external miners calling the remote sealer.
MC_Clients == {m1, m2}
==============================================================================
