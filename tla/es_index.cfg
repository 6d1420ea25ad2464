\* Two clients upsert keys and store embeddings: rows and tables are waited for, calls deadlock and return.
CONSTANTS
  Clients = {c1, c2}
  Ops = {"add_nodes", "apply_event"}
  n1 = n1
  n2 = n2
  n3 = n3
  n4 = n4
  m1 = m1
  m2 = m2
  k1 = k1
  k2 = k2
  x1 = x1
  x2 = x2
  NodeIds = {n1, n2, n3, n4}
  EdgeIds = {e1}
  Namespaces = {ns1}
  DefaultNamespace = ns1
  Keys = {k1, k2}
  NodeFields = {content}
  EdgeFields = {valid_to}
  Values = {v1}
  Times = {t1}
  Models = {m1, m2, m3}
  SafeModels = {m1, m2}
  Vectors = {x1, x2}
  Dim <- MCDim
  IndexName <- MCIndexName
  EmptyVector = EmptyVector
  NoKey = NoKey
  NoTime = NoTime
  NoRow = NoRow
  NodeInputs <- MCNodeInputs
  NodePatches <- MCNothing
  EdgeInputs <- MCNothing
  EdgePatches <- MCNothing
  MaxBatch = 2
  MaxCalls = 2
SPECIFICATION MCSpec
INVARIANTS IndexTypeOK EmbeddingsAreIndexed
PROPERTY CallsReturn
CHECK_DEADLOCK FALSE
