SPECIFICATION Spec
CONSTANTS
  Requests = {r1, r2, r3}
  NoOne = NoOne
  Nonces = {n1, n2}
  Merged = Merged
  NoTail = NoTail
  owner = owner
  Owner = owner
  Bindings <- OneBinding
  NoToken = NoToken
  TTL = 2
  Second = 2
  MaxTime = 0
  TornWrites = TRUE
INVARIANTS
  SingleUse
