-------------------------- MODULE MC_MiningControl --------------------------
(* Model-checking instance of MiningControl: two addresses, one of them a  *)
(* wallet account, two settable gas prices that differ from the pool's     *)
(* initial floor, and thread counts 0 (remote sealing only) and 2.         *)
EXTENDS MiningControl, TLC

CONSTANTS a1, a2

MC_Addrs == {a1, a2}
MC_LocalAccounts == <<a1>>
MC_Prices == {2, 3}
MC_ThreadCounts == {0, 2}
=============================================================================
