------------------------------ MODULE Queries ------------------------------
(***************************************************************************)
(* The read queries of the provider, as functions of the rows they meet:   *)
(* the SQL of get_edges, traverse_graph and the modes of search_nodes.  A  *)
(* query reads the tables as they are when it runs; which of them run at   *)
(* different times is the business of Reads.                               *)
(*                                                                         *)
(* What PostgreSQL computes from the content of a node is a mark in its    *)
(* row, the larger the better and 0 for no match: ts for the rank of the   *)
(* full-text match, trgm for the similarity of trigrams; sim is the        *)
(* similarity of its vector to that of the query, NoVector without one.    *)
(***************************************************************************)
EXTENDS Integers, Sequences, FiniteSets

CONSTANTS
  NodeIds, EdgeIds, Namespaces,
  EdgeTypes,
  Times,      \* the instants at which edges begin and end to be valid
  NowTime,    \* NOW() of the queries
  NoEnd,      \* valid_to IS NULL
  NoVector,   \* a node without an embedding of the model
  NoRow,      \* the table has no row under this identity
  AnyType,    \* no filter on edge types
  RrfK        \* SmrtiConfig.rrf_k

\* A row of nodes, with the embedding of the model, and one of edges.
NodeRow == [ns: Namespaces, retracted: BOOLEAN, ts: Nat, trgm: Nat, sim: Nat \cup {NoVector}]
EdgeRow == [ns: Namespaces, source: NodeIds, target: NodeIds, type: EdgeTypes,
            from: Times, to: Times \cup {NoEnd}, retracted: BOOLEAN]

NodeTable == [NodeIds -> NodeRow \cup {NoRow}]
EdgeTable == [EdgeIds -> EdgeRow \cup {NoRow}]

\* The tables are finite.
ASSUME QueriesAssumption ==
  /\ IsFiniteSet(NodeIds) /\ IsFiniteSet(EdgeIds)
  /\ Times \subseteq Nat /\ NowTime \in Times
  /\ NoEnd \notin Times
  /\ NoRow \notin NodeRow \cup EdgeRow
  /\ NoVector \notin Nat
  /\ RrfK \in Nat \ {0}

\* What a caller asks of a search, and the settings that bound it.
SearchQuery == [namespaces: SUBSET Namespaces, edgeType: EdgeTypes \cup {AnyType},
                edgeTarget: NodeIds \cup {NoRow}, minSimilarity: Nat, configMin: Nat,
                limit: Nat, pool: Nat, fallback: BOOLEAN]

Rows(table) == {k \in DOMAIN table : table[k] # NoRow}
Live(nodes) == {n \in Rows(nodes) : ~nodes[n].retracted}

\* LIMIT, where there is no ORDER BY: any rows will do.
AtMost(bound, set) == IF bound < Cardinality(set) THEN bound ELSE Cardinality(set)
Choices(set, size) == {chosen \in SUBSET set : Cardinality(chosen) = size}

-----------------------------------------------------------------------------
(* Edges.                                                                   *)

ValidAt(edge, time) ==
  /\ edge.from <= time
  /\ edge.to = NoEnd \/ edge.to >= time

\* is_retracted = FALSE AND valid_from <= NOW() AND (valid_to IS NULL OR
\* valid_to >= NOW()), and the optional filter on types.
Active(edges, types) ==
  {e \in Rows(edges) : /\ ~edges[e].retracted
                       /\ ValidAt(edges[e], NowTime)
                       /\ types = AnyType \/ edges[e].type \in types}

GetEdges(edges, ids, direction, types) ==
  {e \in Active(edges, types) :
     \/ direction \in {"outgoing", "both"} /\ edges[e].source \in ids
     \/ direction \in {"incoming", "both"} /\ edges[e].target \in ids}

\* WITH RECURSIVE graph: the first level are the edges that leave start, the
\* next ones those that leave a target of the level before.  Nothing is marked
\* as visited: a cycle is walked until the depth is reached.
Levels(edges, start, last, types) ==
  LET active == Active(edges, types)
      level[d \in 1 .. last] ==
        IF d = 1 THEN {e \in active : edges[e].source = start}
        ELSE {e \in active : \E g \in level[d - 1] : edges[e].source = edges[g].target}
  IN level

\* Mutant: the recursion goes one level too far.
WalkFurther(edges, start, depth, types) ==
  LET level == Levels(edges, start, depth + 1, types)
  IN UNION {level[d] : d \in 1 .. depth + 1}

\* The first level is there whatever the depth, a depth of 0 included.
LastLevel(depth) == IF depth = 0 THEN 1 ELSE depth

Walk(edges, start, depth, types) ==
  LET level == Levels(edges, start, LastLevel(depth), types)
  IN UNION {level[d] : d \in 1 .. LastLevel(depth)}

\* What the walk stands for: a breadth-first search, one get_edges per level,
\* that visits no node twice.
Visits(edges, start, last, types) ==
  LET Targets(found) == {edges[e].target : e \in found}
      visit[d \in 0 .. last] ==
        IF d = 0 THEN [found |-> {}, seen |-> {start}, next |-> {start}]
        ELSE LET found == GetEdges(edges, visit[d - 1].next, "outgoing", types)
             IN [found |-> visit[d - 1].found \cup found,
                 seen |-> visit[d - 1].seen \cup Targets(found),
                 next |-> Targets(found) \ visit[d - 1].seen]
  IN visit

BreadthFirst(edges, start, depth, types) ==
  Visits(edges, start, depth, types)[depth].found

-----------------------------------------------------------------------------
(* Search.  A result is a sequence of nodes.                                *)

\* The rows the filters of all modes admit: namespace, not retracted, and,
\* with an edge filter, at the source of an active edge of its type, to its
\* target when it names one.
Admitted(nodes, edges, query) ==
  {n \in Live(nodes) :
     /\ nodes[n].ns \in query.namespaces
     /\ query.edgeType # AnyType =>
          \E e \in GetEdges(edges, {n}, "outgoing", {query.edgeType}) :
            query.edgeTarget \in {NoRow, edges[e].target}}

\* The ways to list a set by falling score: rows of one score in any order.
Ranked(set, score) ==
  {f \in [1 .. Cardinality(set) -> set] :
     /\ \A n \in set : \E i \in DOMAIN f : f[i] = n
     /\ \A i \in 1 .. Cardinality(set) - 1 : score[f[i]] >= score[f[i + 1]]}

\* LIMIT.
Cut(list, limit) == SubSeq(list, 1, IF limit < Len(list) THEN limit ELSE Len(list))

Scores(nodes, field) == [n \in Rows(nodes) |-> nodes[n][field]]

\* The threshold of the caller, or that of the configuration when the caller
\* gives none or 0.
Threshold(query) == IF query.minSimilarity > 0 THEN query.minSimilarity
                                               ELSE query.configMin

WithVector(nodes, edges, query) ==
  {n \in Admitted(nodes, edges, query) : nodes[n].sim # NoVector}

SearchVector(nodes, edges, query) ==
  LET hits == {n \in WithVector(nodes, edges, query) : nodes[n].sim >= Threshold(query)}
  IN {Cut(list, query.limit) : list \in Ranked(hits, Scores(nodes, "sim"))}

TextHits(nodes, edges, query) ==
  {n \in Admitted(nodes, edges, query) : nodes[n].ts > 0}

\* The first statement of search_text.
SearchText(nodes, edges, query) ==
  {Cut(list, query.limit) :
     list \in Ranked(TextHits(nodes, edges, query), Scores(nodes, "ts"))}

\* Mutant: the room for the rows of the fallback is counted one short.
FallbackShort(nodes, edges, query, found) ==
  {Cut(list, query.limit - Len(found) - 1) :
     list \in Ranked({n \in Admitted(nodes, edges, query) :
                        nodes[n].trgm > 0 /\ \A i \in DOMAIN found : found[i] # n},
                     Scores(nodes, "trgm"))}

\* Mutant: the fallback does not leave out what the first statement found.
FallbackRepeats(nodes, edges, query, found) ==
  {Cut(list, query.limit - Len(found)) :
     list \in Ranked({n \in Admitted(nodes, edges, query) : nodes[n].trgm > 0},
                     Scores(nodes, "trgm"))}

\* The second one, run when the first left room: trigrams, without the rows
\* already found.
Fallback(nodes, edges, query, found) ==
  {Cut(list, query.limit - Len(found)) :
     list \in Ranked({n \in Admitted(nodes, edges, query) :
                        nodes[n].trgm > 0 /\ \A i \in DOMAIN found : found[i] # n},
                     Scores(nodes, "trgm"))}

\* A multiple of the first denominators 1 / (k + rank).
Scale[i \in 0 .. Cardinality(NodeIds)] ==
  IF i = 0 THEN 1 ELSE Scale[i - 1] * (RrfK + i)

\* 1 / (k + rank), times a multiple of all the denominators; 0 for a row that
\* is not in the list.
Share(list, n) ==
  LET ranks == {i \in DOMAIN list : list[i] = n}
  IN IF ranks = {} THEN 0
     ELSE Scale[Cardinality(NodeIds)] \div (RrfK + CHOOSE i \in ranks : TRUE)

Members(list) == {list[i] : i \in DOMAIN list}

\* Mutant: the ranks are added where their reciprocals should be.
FuseRanks(vector, text, limit) ==
  LET both == Members(vector) \cup Members(text)
      Rank(list, n) == IF n \in Members(list) THEN CHOOSE i \in DOMAIN list : list[i] = n
                                              ELSE 0
      score == [n \in both |-> 0 - Rank(vector, n) - Rank(text, n)]
  IN {Cut(list, limit) : list \in Ranked(both, score)}

\* The CTE rrf: the full outer join of the two lists by the sum of shares.
Fuse(vector, text, limit) ==
  LET both == Members(vector) \cup Members(text)
      score == [n \in both |-> Share(vector, n) + Share(text, n)]
  IN {Cut(list, limit) : list \in Ranked(both, score)}

\* The two candidate lists of a hybrid search: functions from ranks to nodes.
\* The one of vectors knows no threshold and is cut at the pool.  The LIMIT on
\* that of texts has no ORDER BY: it keeps any rows, with the ranks they have
\* in the whole list.
VectorCandidates(nodes, edges, query) ==
  {Cut(list, query.pool) :
     list \in Ranked(WithVector(nodes, edges, query), Scores(nodes, "sim"))}

TextCandidates(nodes, edges, query) ==
  LET hits == TextHits(nodes, edges, query)
  IN {[rank \in ranks |-> list[rank]] :
        list \in Ranked(hits, Scores(nodes, "ts")),
        ranks \in Choices(1 .. Cardinality(hits), AtMost(query.pool, hits))}
=============================================================================
