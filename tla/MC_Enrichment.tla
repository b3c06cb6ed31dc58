---------------------------- MODULE MC_Enrichment ----------------------------
EXTENDS Enrichment

CONSTANTS n0

MC_None == n0
=============================================================================
