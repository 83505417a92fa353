SPECIFICATION Spec
CONSTANTS
  Calls = {c1, c2}
  Contents = {x}
  Creatable = {x}
  NoContent = NoContent
  MaxProposals = 1
  Nonces = {n1, n2}
  MaxRestarts = 0
CHECK_DEADLOCK FALSE
INVARIANTS
  DeniedHasNoEvent
