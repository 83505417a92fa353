SPECIFICATION Spec
CONSTANTS
  Requests = {r1, r2, r3}
  NoOne = NoOne
  Nonces = {n1, n2}
  Merged = Merged
  NoTail = NoTail
  owner = owner
  Owner = owner
  Bindings <- OneBinding
  NoToken = NoToken
  TTL = 2
  Second = 2
  MaxTime = 2
  TornWrites = FALSE
SYMMETRY Symmetry
INVARIANTS
  GrantedExactly
PROPERTIES
  NoGrantOnceFailed
  OneTime
