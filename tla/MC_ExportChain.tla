---------------------------- MODULE MC_ExportChain ---------------------------
EXTENDS ExportChain
==============================================================================
