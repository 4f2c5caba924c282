-------------------------- MODULE MCDepositRelayer --------------------------
(* The instances of MCZeroBridge with a deposit watcher.                     *)
EXTENDS DepositRelayer, MCZeroBridge
=============================================================================
