------------------------- MODULE MCZeroBridgeClaims -------------------------
(* The instances of MCZeroBridge, for the refinement.                        *)
EXTENDS ZeroBridgeClaims, MCZeroBridge
=============================================================================
