-------------------------- MODULE MCReleaseRelayer --------------------------
(* The instances of MCZeroBridge with a release watcher.                     *)
EXTENDS ReleaseRelayer, MCZeroBridge
=============================================================================
