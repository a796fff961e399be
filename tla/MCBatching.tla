----------------------------- MODULE MCBatching -----------------------------
EXTENDS Batching
CONSTANTS p1,p2,p3,x1
=============================================================================
