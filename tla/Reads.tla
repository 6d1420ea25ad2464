------------------------------- MODULE Reads -------------------------------
(***************************************************************************)
(* The reads of a Memory while other calls commit.                         *)
(*                                                                         *)
(* No read opens a transaction: each statement has a snapshot of its own.  *)
(* traverse runs three (the start node, the edges, the nodes at their      *)
(* ends), a text search one or two; get_edges and the other two modes of   *)
(* search run one, and cannot be told from a function of the tables.       *)
(* What happens between two statements is what the writers commit there:   *)
(* their projections as whole transactions (how a transaction comes about  *)
(* is the business of EventStore, and no concern of a reader).             *)
(*                                                                         *)
(* One reader is enough: readers write nothing.                            *)
(***************************************************************************)
EXTENDS Queries

CONSTANTS
  Stores,     \* the contents of the tables at the first call
  NodeRows,   \* rows that add_nodes puts into the table
  EdgeRows,   \* rows that add_edges puts into the table
  Marks,      \* what new content may make of the marks of a node
  Asked,      \* the queries of the searches, with the settings they meet
  Walks,      \* the arguments of traverse, capped as the settings say
  MaxCommits  \* bound: transactions that commit in one behaviour

ASSUME ReadsAssumption ==
  /\ Stores \subseteq [nodes: NodeTable, edges: EdgeTable]
  /\ NodeRows \subseteq NodeRow /\ EdgeRows \subseteq EdgeRow
  /\ Marks \subseteq [ts: Nat, trgm: Nat]
  /\ \A store \in Stores :
       \A e \in Rows(store.edges) :
         {store.edges[e].source, store.edges[e].target} \subseteq Rows(store.nodes)
  /\ \A walk \in Walks : walk.start \in NodeIds /\ {walk.depth, walk.max} \subseteq Nat
  /\ Asked \subseteq SearchQuery
  /\ MaxCommits \in Nat

VARIABLES
  nodes,    \* table nodes, joined with the embeddings of the model
  edges,    \* table edges
  call,     \* the call of the reader
  commits   \* the number of commits so far

vars == <<nodes, edges, call, commits>>

Idle == [op |-> "idle", at |-> "idle"]

Init == /\ \E store \in Stores : nodes = store.nodes /\ edges = store.edges
        /\ call = Idle
        /\ commits = 0
-----------------------------------------------------------------------------
(* What the writers commit.                                                 *)

Commit == /\ commits < MaxCommits
          /\ commits' = commits + 1
          /\ UNCHANGED call

AddNode(n) == /\ Commit
              /\ nodes[n] = NoRow
              /\ \E row \in NodeRows : nodes' = [nodes EXCEPT ![n] = row]
              /\ UNCHANGED edges

\* NODE_UPDATED: the trigger computes the text vector of the new content.
ChangeWords(n) ==
  /\ Commit
  /\ n \in Rows(nodes)
  /\ \E marks \in Marks :
       nodes' = [nodes EXCEPT ![n].ts = marks.ts, ![n].trgm = marks.trgm]
  /\ UNCHANGED edges

RetractNode(n) == /\ Commit
                  /\ n \in Live(nodes)
                  /\ nodes' = [nodes EXCEPT ![n].retracted = TRUE]
                  /\ UNCHANGED edges

\* The foreign keys ask for rows, retracted or not.
AddEdge(e) ==
  /\ Commit
  /\ edges[e] = NoRow
  /\ \E row \in EdgeRows : /\ {row.source, row.target} \subseteq Rows(nodes)
                           /\ edges' = [edges EXCEPT ![e] = row]
  /\ UNCHANGED nodes

RetractEdge(e) == /\ Commit
                  /\ e \in Rows(edges)
                  /\ edges' = [edges EXCEPT ![e].retracted = TRUE]
                  /\ UNCHANGED nodes

\* Nothing keeps a caller from merging a node with itself, or a retracted one.
MergeNodes(kept, removed) ==
  LET Moved(end) == IF end = removed THEN kept ELSE end
  IN /\ Commit
     /\ {kept, removed} \subseteq Rows(nodes)
     /\ edges' = [e \in EdgeIds |->
                    IF edges[e] = NoRow THEN NoRow
                    ELSE [edges[e] EXCEPT !.source = Moved(@), !.target = Moved(@)]]
     /\ nodes' = [nodes EXCEPT ![removed].retracted = TRUE]

\* The statement of purge_namespace on nodes, whose cascade takes the edges
\* at them.
PurgeNodes(ns) ==
  LET purged == {n \in Rows(nodes) : nodes[n].ns = ns}
  IN /\ Commit
     /\ nodes' = [n \in NodeIds |-> IF n \in purged THEN NoRow ELSE nodes[n]]
     /\ edges' = [e \in EdgeIds |->
                    IF e \in Rows(edges) /\ {edges[e].source, edges[e].target} \cap purged = {}
                    THEN edges[e] ELSE NoRow]

Writers ==
  \/ \E n \in NodeIds : AddNode(n) \/ ChangeWords(n) \/ RetractNode(n)
  \/ \E e \in EdgeIds : AddEdge(e) \/ RetractEdge(e)
  \/ \E kept, removed \in NodeIds : MergeNodes(kept, removed)
  \/ \E ns \in Namespaces : PurgeNodes(ns)

-----------------------------------------------------------------------------
(* traverse.                                                                *)

\* get_node(start): a row is enough, retracted or not.  Without one the call
\* ends in NodeNotFound.
Traverse ==
  /\ call = Idle
  /\ \E walk \in Walks :
       /\ nodes[walk.start] # NoRow
       /\ call' = [op |-> "traverse", at |-> "edges", walk |-> walk]
  /\ UNCHANGED <<nodes, edges, commits>>

\* LIMIT keeps edges in no particular order.
ReadEdges ==
  LET reached == Walk(edges, call.walk.start, call.walk.depth, call.walk.types)
  IN /\ call.at = "edges"
     /\ \E found \in Choices(reached, AtMost(call.walk.max, reached)) :
          call' = [op |-> "traverse", at |-> "nodes", walk |-> call.walk,
                   edges |-> [e \in found |-> edges[e]]]
     /\ UNCHANGED <<nodes, edges, commits>>

\* Mutant: only the targets of the edges are asked for.
NamedTargets(start, found) == {start} \cup {found[e].target : e \in DOMAIN found}

\* The start node and both ends of every edge found.
Named(start, found) ==
  {start} \cup {found[e].source : e \in DOMAIN found} \cup {found[e].target : e \in DOMAIN found}

Fetch(ids) == ids \cap Live(nodes)

\* The start node is put first when the statement did not bring it; the list
\* is then cut.
Keep(fetched, start, max) ==
  IF start \in fetched \/ max = 0 THEN Choices(fetched, AtMost(max, fetched))
  ELSE {{start} \cup rest : rest \in Choices(fetched, AtMost(max - 1, fetched))}

ReadNodes ==
  LET start == call.walk.start
  IN /\ call.at = "nodes"
     /\ \E kept \in Keep(Fetch(Named(start, call.edges)), start, call.walk.max) :
          call' = [op |-> "traverse", at |-> "answered", walk |-> call.walk,
                   edges |-> call.edges, nodes |-> kept]
     /\ UNCHANGED <<nodes, edges, commits>>

-----------------------------------------------------------------------------
(* search.                                                                  *)

LeavesRoom(query, found) == query.fallback /\ Len(found) < query.limit

SearchWords ==
  /\ call = Idle
  /\ \E query \in Asked : \E found \in SearchText(nodes, edges, query) :
       call' = [op |-> "text",
                at |-> IF LeavesRoom(query, found) THEN "trigrams" ELSE "answered",
                query |-> query, found |-> found, nodes |-> nodes, edges |-> edges]
  /\ UNCHANGED <<nodes, edges, commits>>

SearchTrigrams ==
  /\ call.at = "trigrams"
  /\ \E rest \in Fallback(nodes, edges, call.query, call.found) :
       call' = [call EXCEPT !.at = "answered", !.found = @ \o rest]
  /\ UNCHANGED <<nodes, edges, commits>>

SearchNearest ==
  /\ call = Idle
  /\ \E query \in Asked : \E found \in SearchVector(nodes, edges, query) :
       call' = [op |-> "vector", at |-> "answered", query |-> query, found |-> found]
  /\ UNCHANGED <<nodes, edges, commits>>

SearchBoth ==
  /\ call = Idle
  /\ \E query \in Asked :
       \E vector \in VectorCandidates(nodes, edges, query),
          text \in TextCandidates(nodes, edges, query) :
         \E found \in Fuse(vector, text, query.limit) :
           call' = [op |-> "hybrid", at |-> "answered", query |-> query, found |-> found,
                    vector |-> vector, text |-> text]
  /\ UNCHANGED <<nodes, edges, commits>>

Return == /\ call.at = "answered"
          /\ call' = Idle
          /\ UNCHANGED <<nodes, edges, commits>>

Reader == \/ Traverse \/ ReadEdges \/ ReadNodes
          \/ SearchWords \/ SearchTrigrams \/ SearchNearest \/ SearchBoth
          \/ Return

Next == Writers \/ Reader
Spec == Init /\ [][Next]_vars
-----------------------------------------------------------------------------
(* Properties.                                                              *)

\* An answer to traverse names edges of the graph as it stood at one moment:
\* those a breadth-first search finds within the depth, or as many of them as
\* the limit allows.  The SQL marks no node as visited, so what ends the walk
\* of a cycle, and what the levels add up to, is for the recursion to get right.
\* (It gets one level too many for a depth of 0.)
WalkIsBreadthFirst ==
  [][call.at = "edges" /\ call'.at = "nodes" /\ call.walk.depth > 0 =>
       LET found == DOMAIN call'.edges
           whole == BreadthFirst(edges, call.walk.start, call.walk.depth, call.walk.types)
       IN /\ found \subseteq whole
          /\ Cardinality(found) = AtMost(call.walk.max, whole)]_vars

\* An end of an edge of an answer, in the namespace of the start node, that the
\* answer does not list is a node that was retracted or purged by the time the
\* nodes were read, unless the list is full: whatever committed between the
\* statements, a reader may take such an end for a node that is gone.  And the
\* node asked about is listed.
EndsAccountedFor ==
  [][call.at = "nodes" /\ call'.at = "answered" =>
       LET start == call.walk.start
           listed == call'.nodes
       IN Cardinality(listed) < call.walk.max =>
            /\ start \in listed
            /\ \A e \in DOMAIN call'.edges, n \in Live(nodes) :
                 /\ n \in {call'.edges[e].source, call'.edges[e].target}
                 /\ start \in Rows(nodes) /\ nodes[n].ns = nodes[start].ns
                 => n \in listed]_vars

\* A text search returns no node twice, and never more than was asked for,
\* although its second statement sees another state than its first.
NoneTwice ==
  call.at = "answered" /\ call.op \in {"text", "vector", "hybrid"} =>
    /\ Len(call.found) <= call.query.limit
    /\ Cardinality(Members(call.found)) = Len(call.found)

\* A node whose row has the same content at both statements of a text search,
\* and which the filters admit at both, is missed only by an answer that is
\* full, if it matches the words, or nearly so when no row matched the words:
\* no interleaving lets it slip through between the two.
SteadyMatchesFound ==
  [][call'.op = "text" /\ call'.at = "answered" /\ call' # call =>
       LET query == call'.query
           words == IF call.at = "trigrams" THEN call.found ELSE call'.found
           Matches(n) == \/ nodes[n].ts > 0
                         \/ query.fallback /\ words = << >> /\ nodes[n].trgm > 0
           steady == {n \in Admitted(nodes, edges, query)
                              \cap Admitted(call'.nodes, call'.edges, query) :
                        nodes[n] = call'.nodes[n]}
       IN Len(call'.found) < query.limit =>
            \A n \in steady : Matches(n) => n \in Members(call'.found)]_vars

\* The candidates of a hybrid search keep their order: a node that stands
\* before another in each list that has the other is returned before it.
FusionKeepsOrder ==
  LET Ahead(list, n, p) == p \in Members(list) =>
        \E i, j \in DOMAIN list : i < j /\ list[i] = n /\ list[j] = p
  IN call.op = "hybrid" =>
       \A p \in Members(call.found) :
         \A n \in (Members(call.vector) \cup Members(call.text)) \ {p} :
           Ahead(call.vector, n, p) /\ Ahead(call.text, n, p) => Ahead(call.found, n, p)
=============================================================================
