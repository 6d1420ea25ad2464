\* Two clients update one node: replaying the log by id does not give the graph.
CONSTANTS
  Clients = {c1, c2}
  Ops = {"add_nodes", "update_node"}
  NodeIds = {n1}
  EdgeIds = {e1}
  Namespaces = {ns1}
  DefaultNamespace = ns1
  Keys = {k1}
  NodeFields = {content}
  EdgeFields = {valid_to}
  Values = {v1, v2}
  Times = {t1}
  Models = {m1}
  Vectors = {x1}
  EmptyVector = EmptyVector
  NoKey = NoKey
  NoTime = NoTime
  NoRow = NoRow
  NodeInputs <- MCPlainInputs
  NodePatches <- MCNodePatches
  EdgeInputs <- MCEdgeInputs
  EdgePatches <- MCEdgePatches
  MaxBatch = 1
  MaxCalls = 3
SPECIFICATION Spec
INVARIANT ReplayRebuilds
CHECK_DEADLOCK FALSE
