-------------------------- MODULE MCPromiseClaims --------------------------
\* PromiseClaims on the trees of MCPromiseTrees.
EXTENDS PromiseClaims, MCPromiseTrees
=============================================================================
