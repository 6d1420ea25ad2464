\* Two clients set, delete, clear, purge and prune while time passes.
CONSTANTS
  Clients = {c1, c2}
  Namespaces = {ns1, ns2}
  Sessions = {s1}
  StateKeys = {k1, k2}
  Values = {v1}
  Ttls <- MCTtls
  NoTtl = NoTtl
  NoRow = NoRow
  DefaultTtl = NoTtl
  MaxTime = 3
  MaxCalls = 4
SYMMETRY MCSymmetry
SPECIFICATION Spec
INVARIANT TypeOK
PROPERTY ImplementsStore
CHECK_DEADLOCK FALSE
