---------------------------- MODULE MC_DebugState ----------------------------
EXTENDS DebugState, TLC

CONSTANTS a1, v1, v2
==============================================================================
