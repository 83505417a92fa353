SPECIFICATION FairSpec
CONSTANTS
  Calls = {c1, c2}
  Contents = {x, y, z}
  Creatable = {x, y}
  NoContent = NoContent
  MaxProposals = 1
  Nonces = {n1, n2}
  MaxRestarts = 1
CHECK_DEADLOCK FALSE
INVARIANTS
  EventBacked
  ApprovedHasEvent
  Agreement
  ConflictNeedsRestart
  IInv
PROPERTIES
  EventsKept
  ApprovalSettles
