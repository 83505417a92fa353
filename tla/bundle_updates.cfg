SPECIFICATION FairSpec
CONSTANTS
  MaxVersion = 3
  MaxFaults = 2
  Revisions <- MCRevisions
  Untrusted <- MCUntrusted
  NoTag = NoTag
INVARIANTS
  IInv
  NotModifiedIsCurrent
PROPERTIES
  NeverOlder
  Converges
  RejectionSeen
