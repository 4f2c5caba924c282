CONSTANTS
  MaxUint128 = 1023
  Releases <- MCReleases
  Proofs <- MCProofs
  SlotBytes = 3
SPECIFICATION WireSpec
INVARIANTS
  CallArrives
  ClosedFormAgrees
  ExactOrAborted
  ProofMeansDeposit
CHECK_DEADLOCK FALSE
