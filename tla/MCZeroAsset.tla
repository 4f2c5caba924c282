---------------------------- MODULE MCZeroAsset -----------------------------
(* zero.asset alone: three owners, one of them the issuer that create chose. *)
EXTENDS ZeroAsset

MCQuantities == {-1, 0, 1, 2}
MCMaxSupplies == {-1, 4}
=============================================================================
