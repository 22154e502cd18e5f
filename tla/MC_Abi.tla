------------------------------- MODULE MC_Abi --------------------------------
EXTENDS Abi

\* The base name "f" and a declared "f0", which a renamed overload of "f"
\* also produces.
MC_Names == {<<"f">>, <<"f", 0>>}
==============================================================================
