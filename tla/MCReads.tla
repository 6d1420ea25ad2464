------------------------------ MODULE MCReads ------------------------------
(* Small instances of Reads for TLC: graphs for traverse, and texts and     *)
(* vectors for the searches.                                                *)
EXTENDS Reads, TLC

CONSTANTS n1, n2, n3, e1, e2, e3, ns1, ns2, t1, t2

MCNodeIds == {n1, n2, n3}
MCEdgeIds == {e1, e2, e3}

Node(ns, ts, trgm, sim) == [ns |-> ns, retracted |-> FALSE, ts |-> ts, trgm |-> trgm, sim |-> sim]
Plain(ns) == Node(ns, 0, 0, NoVector)
Edge(source, target, type, from, to) ==
  [ns |-> ns1, source |-> source, target |-> target, type |-> type,
   from |-> from, to |-> to, retracted |-> FALSE]

NoEdges == [e \in MCEdgeIds |-> NoRow]

\* Every graph of two or three edges between three nodes, the last of them in
\* another namespace, in which an edge leaves the start node; the third edge
\* may be of another type, or begin or end about now.
GraphNodes == (n1 :> Plain(ns1) @@ n2 :> Plain(ns1) @@ n3 :> Plain(ns2))
Shapes(sources) == {Edge(s, t, t1, 0, NoEnd) : s \in sources, t \in MCNodeIds}
Odd == {Edge(s, n2, t2, 0, NoEnd) : s \in MCNodeIds}
         \cup {Edge(n1, n3, t1, from, to) : from \in 0..2, to \in 0..2}
Graphs ==
  {[nodes |-> GraphNodes, edges |-> (e1 :> a @@ e2 :> b @@ e3 :> c)] :
     a \in Shapes({n1}), b \in Shapes(MCNodeIds),
     c \in Shapes({n2, n3}) \cup Odd \cup {NoRow}}

\* Three nodes that match the words, exactly or nearly, or do not, the last in
\* another namespace; one edge that a filter may ask for.
Texts ==
  {[nodes |-> (n1 :> a @@ n2 :> b @@ n3 :> c),
    edges |-> [NoEdges EXCEPT ![e1] = Edge(n1, n2, t1, 0, NoEnd)]] :
     a \in {Node(ns1, ts, trgm, NoVector) : ts, trgm \in 0..1},
     b \in {Node(ns1, ts, 1, NoVector) : ts \in 0..1},
     c \in {Node(ns2, ts, 1, NoVector) : ts \in 0..1} \cup {NoRow}}

\* Three nodes in any two orders, up to their names.
Vectored ==
  {[nodes |-> (n1 :> a @@ n2 :> b @@ n3 :> c), edges |-> NoEdges] :
     a \in {Node(ns1, ts, 0, 3) : ts \in 0..2}, b \in {Node(ns1, ts, 0, 2) : ts \in 0..3},
     c \in {Node(ns1, ts, 0, sim) : ts \in 0..3, sim \in {NoVector, 1, 2}}}

MCStores == Graphs \cup Texts \cup Vectored
MCNodeRows == {Plain(ns1), Node(ns1, 1, 1, NoVector)}
MCEdgeRows == {Edge(n1, n2, t1, 0, NoEnd), Edge(n2, n3, t1, 0, NoEnd)}
MCMarks == {[ts |-> 0, trgm |-> 1], [ts |-> 1, trgm |-> 0]}

Walking(depth, max, types) == [start |-> n1, depth |-> depth, max |-> max, types |-> types]
MCWalks == {Walking(3, 5, AnyType), Walking(3, 2, AnyType), Walking(0, 5, AnyType),
            Walking(2, 5, {t1}), Walking(1, 0, AnyType)}

Query(namespaces, type, limit, pool, least, fallback) ==
  [namespaces |-> namespaces, edgeType |-> type, edgeTarget |-> NoRow,
   minSimilarity |-> least, configMin |-> 2, limit |-> limit, pool |-> pool,
   fallback |-> fallback]
MCAsked == {Query({ns1}, AnyType, 2, 3, 0, TRUE), Query({ns1, ns2}, AnyType, 3, 2, 1, FALSE),
            Query({ns1, ns2}, AnyType, 3, 3, 0, TRUE), Query({ns1}, t1, 3, 3, 0, TRUE)}

\* A behaviour is about the graph or about the search, and what commits stays
\* within its subject: between two statements of the reader, and once before
\* the edges of a walk are read.
Searched == \E n \in Rows(nodes) : nodes[n].ts > 0 \/ nodes[n].trgm > 0 \/ nodes[n].sim # NoVector
MCNext ==
  /\ Next
  /\ Searched' = Searched
  /\ call'.op = "traverse" => ~Searched
  /\ call'.op \in {"text", "vector", "hybrid"} => Searched
  /\ commits' # commits => \/ (call.at = "edges" /\ commits = 0)
                            \/ call.at \in {"nodes", "trigrams"}

MCSpec == Init /\ [][MCNext]_vars
=============================================================================
