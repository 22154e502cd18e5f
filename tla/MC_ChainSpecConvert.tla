------------------------- MODULE MC_ChainSpecConvert -------------------------
EXTENDS ChainSpecConvert

\* The forks in go-btpereum's order.
ForkOrder == <<"homestead", "eip150", "eip155", "eip158", "byzantium",
               "constantinople", "petersburg">>

\* Genesis configurations that go-btpereum accepts: the forks up to
\* Spurious Dragon are set, fork blocks never decrease, and once a fork is
\* unset every later one is too.
MC_Configs ==
    {cfg \in [Forks -> {Nil} \cup 0..2] :
        /\ \A i \in 1..4 : cfg[ForkOrder[i]] # Nil
        /\ \A i \in 1..6 :
             LET a == cfg[ForkOrder[i]]
                 b == cfg[ForkOrder[i + 1]]
             IN  b # Nil => (a # Nil /\ a <= b)}
==============================================================================
