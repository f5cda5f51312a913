-------------------------- MODULE MCMemoryFrequency --------------------------
\* Three requests at a time, one subject capped at two and one at one.
EXTENDS MemoryFrequency, TLC

CONSTANTS k1, k2

MCCap == (k1 :> 2) @@ (k2 :> 1)
==============================================================================
