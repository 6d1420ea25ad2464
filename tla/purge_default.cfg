\* One writer whose nodes are not in the default namespace.
CONSTANTS
  Clients = {c1}
  Ops = {"add_nodes", "update_node"}
  NodeIds = {n1, n2}
  EdgeIds = {e1}
  Namespaces = {ns1, ns2}
  DefaultNamespace = ns1
  Keys = {k1}
  NodeFields = {content}
  EdgeFields = {valid_to}
  Values = {v1}
  Times = {t1}
  Models = {m1}
  Vectors = {x1}
  EmptyVector = EmptyVector
  NoKey = NoKey
  NoTime = NoTime
  NoRow = NoRow
  NodeInputs <- MCPlainInputs
  NodePatches <- MCNodePatches
  EdgeInputs <- MCEdgeInputs
  EdgePatches <- MCEdgePatches
  MaxBatch = 1
  MaxCalls = 2
  MaxPurges = 1
SPECIFICATION PurgeSpec
PROPERTY PurgeErasesEvents
CHECK_DEADLOCK FALSE
