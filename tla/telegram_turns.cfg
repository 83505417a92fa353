SPECIFICATION Spec
CONSTANTS
  Updates = {u1, u2, u3}
  AnyUpdate = u1
  VerifiedUsers <- MCVerifiedUsers
  Messages <- MCMessages
  DefaultScopes <- MCDefaultScopes
  Required <- MCRequired
  Optional <- MCOptional
  Limits <- MCLimits
  Window = 1
  MaxTime = 1
  MaxRestarts = 1
CHECK_DEADLOCK FALSE
SYMMETRY Symmetry
INVARIANTS
  TurnsSuffice
  EffectOnlyOnCommand
  ApprovalsReviewed
  ForwardedWereAdmitted
PROPERTIES
  RefusedByOwnQuota
  LimitsKept
