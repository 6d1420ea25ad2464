\* One reader beside writers: every small graph is walked, every small text and vector table searched.
CONSTANTS
  n1 = n1
  n2 = n2
  n3 = n3
  e1 = e1
  e2 = e2
  e3 = e3
  ns1 = ns1
  ns2 = ns2
  t1 = t1
  t2 = t2
  NodeIds <- MCNodeIds
  EdgeIds <- MCEdgeIds
  Namespaces = {ns1, ns2}
  EdgeTypes = {t1, t2}
  Times = {0, 1, 2}
  NowTime = 1
  NoEnd = NoEnd
  NoVector = NoVector
  NoRow = NoRow
  AnyType = AnyType
  RrfK = 2
  Stores <- MCStores
  NodeRows <- MCNodeRows
  EdgeRows <- MCEdgeRows
  Marks <- MCMarks
  Asked <- MCAsked
  Walks <- MCWalks
  MaxCommits = 2
SPECIFICATION MCSpec
INVARIANTS NoneTwice FusionKeepsOrder
PROPERTIES WalkIsBreadthFirst EndsAccountedFor SteadyMatchesFound
CHECK_DEADLOCK FALSE
