\* An upsert with an embedding on a taken key is rejected.
CONSTANTS
  Clients = {c1}
  Ops = {"add_nodes"}
  NodeIds = {n1, n2}
  EdgeIds = {e1}
  Namespaces = {ns1}
  DefaultNamespace = ns1
  Keys = {k1}
  NodeFields = {content}
  EdgeFields = {valid_to}
  Values = {v1}
  Times = {t1}
  Models = {m1}
  Vectors = {x1}
  EmptyVector = EmptyVector
  NoKey = NoKey
  NoTime = NoTime
  NoRow = NoRow
  NodeInputs <- MCNodeInputs
  NodePatches <- MCNodePatches
  EdgeInputs <- MCEdgeInputs
  EdgePatches <- MCEdgePatches
  MaxBatch = 1
  MaxCalls = 2
SPECIFICATION Spec
INVARIANT UpsertTakesEmbedding
CHECK_DEADLOCK FALSE
