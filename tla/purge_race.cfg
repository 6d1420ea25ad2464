\* A purge, cut off or not, beside two writers.
CONSTANTS
  Clients = {c1, c2}
  Ops = {"add_nodes", "add_edges", "update_node", "retract_edge", "merge_nodes"}
  NodeIds = {n1, n2}
  EdgeIds = {e1}
  Namespaces = {ns1, ns2}
  DefaultNamespace = ns1
  Keys = {k1}
  NodeFields = {content}
  EdgeFields = {valid_to}
  Values = {v1}
  Times = {t1}
  Models = {m1}
  Vectors = {x1}
  EmptyVector = EmptyVector
  NoKey = NoKey
  NoTime = NoTime
  NoRow = NoRow
  NodeInputs <- MCPlainInputs
  NodePatches <- MCNodePatches
  EdgeInputs <- MCEdgeInputs
  EdgePatches <- MCEdgePatches
  MaxBatch = 1
  MaxCalls = 3
  MaxPurges = 1
SYMMETRY MCSymmetry
SPECIFICATION PurgeSpec
INVARIANT NothingDangles
PROPERTIES PurgeIsComplete OthersKeepTheirRows
CHECK_DEADLOCK FALSE
