\* Merges race with merges and with calls that add and retract edges.
CONSTANTS
  Clients = {c1, c2}
  Ops = {"add_nodes", "add_edges", "merge_nodes", "retract_edge"}
  NodeIds = {n1, n2}
  EdgeIds = {e1, e2}
  Namespaces = {ns1}
  DefaultNamespace = ns1
  Keys = {k1}
  NodeFields = {content}
  EdgeFields = {valid_to}
  Values = {v1}
  Times = {t1}
  Models = {m1}
  Vectors = {x1}
  EmptyVector = EmptyVector
  NoKey = NoKey
  NoTime = NoTime
  NoRow = NoRow
  NodeInputs <- MCPlainInputs
  NodePatches <- MCNodePatches
  EdgeInputs <- MCEdgeInputs
  EdgePatches <- MCEdgePatches
  MaxBatch = 2
  MaxCalls = 4
SYMMETRY MCSymmetry
SPECIFICATION Spec
INVARIANT EventsLeaveMarks
PROPERTY EdgesMoveOnlyInMerges
CHECK_DEADLOCK FALSE
