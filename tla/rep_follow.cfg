\* A follower of a store with two writers; one import is cut off.
CONSTANTS
  Clients = {c1, c2}
  Ops = {"add_nodes", "add_edges", "update_node", "retract_node", "retract_edge", "merge_nodes"}
  NodeIds = {n1, n2}
  EdgeIds = {e1}
  Namespaces = {ns1}
  DefaultNamespace = ns1
  Keys = {k1}
  NodeFields = {content}
  EdgeFields = {valid_to}
  Values = {v1, v2}
  Times = {t1, t2}
  Models = {m1}
  Vectors = {x1}
  EmptyVector = EmptyVector
  NoKey = NoKey
  NoTime = NoTime
  NoRow = NoRow
  NodeInputs <- MCNodeInputs
  NodePatches <- MCNodePatches
  EdgeInputs <- MCEdgeInputs
  EdgePatches <- MCEdgePatches
  MaxBatch = 2
  MaxCalls = 3
  PageLimits = {3}
  MaxEventsExport = 2
  Followed = AllNamespaces
  AllNamespaces = AllNamespaces
  MaxInterrupts = 1
SPECIFICATION MCFollowSpec
INVARIANTS OnlyOvertakenAreSkipped ReplicaFollows
PROPERTY EventsArrive
CHECK_DEADLOCK FALSE
