\* Two clients get or create nodes, with keys and without, and may die at any point, while nodes are added, updated, retracted and purged.
CONSTANTS
  Clients = {c1, c2}
  Ops = {"get_or_create_by_key", "get_or_create_by_content", "add_nodes", "update_node", "retract_node", "purge_namespace"}
  NodeIds = {n1, n2, n3}
  EdgeIds = {}
  Namespaces = {ns1}
  DefaultNamespace = ns1
  Keys = {k1}
  NodeFields = {content}
  EdgeFields = {}
  Values = {v1, v2}
  Times = {t1}
  Models = {}
  Vectors = {}
  EmptyVector = EmptyVector
  NoKey = NoKey
  NoTime = NoTime
  NoRow = NoRow
  LockKeys = {l1, l2}
  Hash <- MCHash
  Patches <- MCPatches
  Nobody = Nobody
  MaxCalls = 4
SPECIFICATION FairSpec
INVARIANTS TypeOK NoTwins KeyHasOneNode FetchesOrCreates
PROPERTY CallsReturn
CHECK_DEADLOCK FALSE
