----------------------------- MODULE ReadsProofs -----------------------------
(* Theorems about Reads, for every value of the constants: what an answer   *)
(* to a search or a traversal holds, whatever commits between the statements*)
(* that make it up.                                                         *)
EXTENDS Reads, FiniteSetTheorems, WellFoundedInduction, TLAPS

-----------------------------------------------------------------------------
(* The invariant.                                                           *)

TablesOK == nodes \in NodeTable /\ edges \in EdgeTable

\* The steps of a call of traverse.
WalkCall ==
  /\ call.at \in {"edges", "nodes"} => call.op = "traverse"
  /\ call.op = "traverse" => /\ call.walk \in Walks
                             /\ call.at \in {"edges", "nodes", "answered"}

\* A search that is answered has no node twice, and no more than asked for.
Within(found, limit) ==
  /\ found \in Seq(NodeIds)
  /\ \A i, j \in 1 .. Len(found) : found[i] = found[j] => i = j
  /\ Len(found) <= limit

Searches == {"text", "vector", "hybrid"}

SearchCall ==
  call.op \in Searches => /\ call.query \in Asked
                          /\ Within(call.found, call.query.limit)

\* Between the two statements of a text search: what the first one found, in
\* the tables it met, left room.
TextCall ==
  [op: {"text"}, at: {"trigrams"}, query: Asked, found: Seq(NodeIds),
   nodes: NodeTable, edges: EdgeTable]

BetweenStatements ==
  call.at = "trigrams" =>
    /\ call \in TextCall
    /\ call.found \in SearchText(call.nodes, call.edges, call.query)
    /\ LeavesRoom(call.query, call.found)

ReadsInv == TablesOK /\ WalkCall /\ SearchCall /\ BetweenStatements

-----------------------------------------------------------------------------
(* Lists.                                                                   *)

LEMMA NoListTwice ==
  ASSUME NEW S, NEW list \in Seq(S),
         \A i, j \in 1 .. Len(list) : list[i] = list[j] => i = j
  PROVE  Cardinality(Members(list)) = Len(list)
<1>1. Len(list) \in Nat /\ DOMAIN list = 1 .. Len(list)
  OBVIOUS
<1>2. IsFiniteSet(1 .. Len(list)) /\ Cardinality(1 .. Len(list)) = Len(list)
  BY <1>1, FS_Interval
<1>3. list \in [1 .. Len(list) -> Members(list)]
  BY <1>1 DEF Members
<1>4. list \in Surjection(1 .. Len(list), Members(list))
  BY <1>1, <1>3 DEF Surjection, Members
<1>5. list \in Injection(1 .. Len(list), Members(list))
  BY <1>1, <1>3 DEF Injection, IsInjective
<1> QED
  BY <1>2, <1>4, <1>5, FS_Surjection

\* A ranked list names each member of its set once.
LEMMA RankedLists ==
  ASSUME NEW S, IsFiniteSet(S), NEW score, NEW list \in Ranked(S, score)
  PROVE  /\ list \in Seq(S) /\ Len(list) = Cardinality(S)
         /\ Members(list) = S
         /\ \A i, j \in 1 .. Len(list) : list[i] = list[j] => i = j
<1> DEFINE N == Cardinality(S)
<1>1. N \in Nat
  BY FS_CardinalityType
<1>2. list \in [1 .. N -> S] /\ \A n \in S : \E i \in 1 .. N : list[i] = n
  BY DEF Ranked
<1>3. list \in Seq(S) /\ Len(list) = N
  BY <1>1, <1>2
<1>4. Members(list) = S
  BY <1>2 DEF Members
<1>5. list \in Injection(1 .. N, S)
  <2>1. list \in Surjection(1 .. N, S)
    BY <1>2 DEF Surjection
  <2>2. IsFiniteSet(1 .. N) /\ Cardinality(1 .. N) = N
    BY <1>1, FS_Interval
  <2> QED
    BY <2>1, <2>2, FS_SurjSameCardinalityImpliesInj
<1>6. \A i, j \in 1 .. N : list[i] = list[j] => i = j
  BY <1>2, <1>5 DEF Injection, IsInjective
<1> QED
  BY <1>3, <1>4, <1>6

\* LIMIT keeps the head of a list, and all of it when there is room.
LEMMA CutLists ==
  ASSUME NEW S, NEW list \in Seq(S), NEW limit \in Nat
  PROVE  /\ Cut(list, limit) \in Seq(S)
         /\ Len(Cut(list, limit)) <= limit
         /\ Len(Cut(list, limit)) <= Len(list)
         /\ \A i \in 1 .. Len(Cut(list, limit)) : Cut(list, limit)[i] = list[i]
         /\ Len(Cut(list, limit)) < limit => Cut(list, limit) = list
<1> DEFINE size == IF limit < Len(list) THEN limit ELSE Len(list)
           cut == Cut(list, limit)
<1>1. size \in 0 .. Len(list) /\ size <= limit /\ Len(list) \in Nat
  OBVIOUS
<1>2. cut = SubSeq(list, 1, size)
  BY DEF Cut
<1> HIDE DEF cut
<1>3. cut \in Seq(S) /\ Len(cut) = size /\ \A i \in 1 .. size : cut[i] = list[i]
  <2> HIDE DEF size
  <2> QED
    BY <1>1, <1>2
<1>4. size < limit => cut = list
  BY <1>1, <1>3
<1> QED
  BY <1>1, <1>3, <1>4 DEF cut

\* The answer of a statement that ranks a set and cuts the list.
LEMMA Answers ==
  ASSUME NEW S, S \subseteq NodeIds, NEW score, NEW list \in Ranked(S, score),
         NEW limit \in Nat
  PROVE  /\ Within(Cut(list, limit), limit)
         /\ Members(Cut(list, limit)) \subseteq S
         /\ Len(Cut(list, limit)) < limit => Members(Cut(list, limit)) = S
<1>1. IsFiniteSet(S)
  BY QueriesAssumption, FS_Subset
<1>2. /\ list \in Seq(S) /\ Members(list) = S
      /\ \A i, j \in 1 .. Len(list) : list[i] = list[j] => i = j
  BY <1>1, RankedLists
<1> DEFINE cut == Cut(list, limit)
<1>3. /\ cut \in Seq(S) /\ Len(cut) <= limit /\ Len(cut) <= Len(list)
      /\ \A i \in 1 .. Len(cut) : cut[i] = list[i]
      /\ Len(cut) < limit => cut = list
  BY <1>2, CutLists
<1> HIDE DEF cut
<1>4. cut \in Seq(NodeIds)
  BY <1>3
<1>5. \A i, j \in 1 .. Len(cut) : cut[i] = cut[j] => i = j
  BY <1>2, <1>3
<1>6. Members(cut) \subseteq S
  BY <1>3 DEF Members
<1> QED
  BY <1>2, <1>3, <1>4, <1>5, <1>6 DEF Within, cut

-----------------------------------------------------------------------------
(* What the queries find.                                                   *)

LEMMA AdmittedNodes ==
  ASSUME NEW n0 \in NodeTable, NEW e0, NEW query
  PROVE  Admitted(n0, e0, query) \subseteq NodeIds
  BY DEF Admitted, Live, Rows, NodeTable

\* A text search answers with text hits, all of them when it leaves room.
LEMMA TextFinds ==
  ASSUME NEW n0 \in NodeTable, NEW e0, NEW query \in SearchQuery,
         NEW found \in SearchText(n0, e0, query)
  PROVE  /\ Within(found, query.limit)
         /\ Len(found) < query.limit => Members(found) = TextHits(n0, e0, query)
<1>1. query.limit \in Nat
  BY DEF SearchQuery
<1>2. TextHits(n0, e0, query) \subseteq NodeIds
  BY AdmittedNodes DEF TextHits
<1>3. PICK list \in Ranked(TextHits(n0, e0, query), Scores(n0, "ts")) :
        found = Cut(list, query.limit)
  BY DEF SearchText
<1> QED
  BY <1>1, <1>2, <1>3, Answers

FallbackHits(n0, e0, query, found) ==
  {n \in Admitted(n0, e0, query) :
     n0[n].trgm > 0 /\ \A i \in DOMAIN found : found[i] # n}

\* The fallback adds nodes that were not found, all of them when it leaves
\* room.
LEMMA FallbackFinds ==
  ASSUME NEW n0 \in NodeTable, NEW e0, NEW query \in SearchQuery,
         NEW found, Within(found, query.limit),
         NEW rest \in Fallback(n0, e0, query, found)
  PROVE  /\ Within(found \o rest, query.limit)
         /\ Members(found) \subseteq Members(found \o rest)
         /\ Len(found \o rest) < query.limit =>
              FallbackHits(n0, e0, query, found) \subseteq Members(found \o rest)
<1> DEFINE hits == FallbackHits(n0, e0, query, found)
           room == query.limit - Len(found)
<1>1. /\ query.limit \in Nat /\ found \in Seq(NodeIds) /\ Len(found) \in Nat
      /\ Len(found) <= query.limit
      /\ \A i, j \in 1 .. Len(found) : found[i] = found[j] => i = j
  BY DEF SearchQuery, Within
<1>2. room \in Nat
  BY <1>1
<1>3. hits \subseteq NodeIds
  BY AdmittedNodes DEF FallbackHits
<1>4. PICK list \in Ranked(hits, Scores(n0, "trgm")) : rest = Cut(list, room)
  BY DEF Fallback, FallbackHits
<1>5. \A n \in hits : \A i \in 1 .. Len(found) : found[i] # n
  BY <1>1 DEF FallbackHits
<1> HIDE DEF hits, room
<1>6. /\ Within(rest, room) /\ Members(rest) \subseteq hits
      /\ Len(rest) < room => Members(rest) = hits
  BY <1>2, <1>3, <1>4, Answers
<1>7. /\ rest \in Seq(NodeIds) /\ Len(rest) \in Nat /\ Len(rest) <= room
      /\ \A i, j \in 1 .. Len(rest) : rest[i] = rest[j] => i = j
      /\ \A i \in 1 .. Len(rest) : rest[i] \in hits
  BY <1>6 DEF Within, Members
<1> DEFINE all == found \o rest
<1>8. /\ all \in Seq(NodeIds) /\ Len(all) = Len(found) + Len(rest)
      /\ \A i \in 1 .. Len(all) :
           \/ i \in 1 .. Len(found) /\ all[i] = found[i]
           \/ /\ i - Len(found) \in 1 .. Len(rest)
              /\ all[i] = rest[i - Len(found)]
      /\ \A i \in 1 .. Len(found) : i \in DOMAIN all /\ all[i] = found[i]
      /\ \A i \in 1 .. Len(rest) : Len(found) + i \in DOMAIN all /\ all[Len(found) + i] = rest[i]
  BY <1>1, <1>7
<1> HIDE DEF all
<1>9. ASSUME NEW i \in 1 .. Len(all), NEW j \in 1 .. Len(all), all[i] = all[j]
      PROVE  i = j
  <2>1. CASE i \in 1 .. Len(found) /\ j \in 1 .. Len(found)
             /\ all[i] = found[i] /\ all[j] = found[j]
    BY <1>1, <1>9, <2>1
  <2>2. CASE /\ i - Len(found) \in 1 .. Len(rest) /\ all[i] = rest[i - Len(found)]
             /\ j - Len(found) \in 1 .. Len(rest) /\ all[j] = rest[j - Len(found)]
    <3>1. i - Len(found) = j - Len(found)
      BY <1>7, <1>9, <2>2
    <3> QED
      BY <1>1, <3>1
  <2>3. CASE /\ i \in 1 .. Len(found) /\ all[i] = found[i]
             /\ j - Len(found) \in 1 .. Len(rest) /\ all[j] = rest[j - Len(found)]
    BY <1>5, <1>7, <1>9, <2>3
  <2>4. CASE /\ j \in 1 .. Len(found) /\ all[j] = found[j]
             /\ i - Len(found) \in 1 .. Len(rest) /\ all[i] = rest[i - Len(found)]
    BY <1>5, <1>7, <1>9, <2>4
  <2> QED
    BY <1>8, <2>1, <2>2, <2>3, <2>4
<1>10. Within(all, query.limit)
  BY <1>1, <1>7, <1>8, <1>9 DEF Within, room
<1>11. Members(found) \subseteq Members(all) /\ Members(rest) \subseteq Members(all)
  <2>1. DOMAIN found = 1 .. Len(found) /\ DOMAIN rest = 1 .. Len(rest)
    BY <1>1, <1>7
  <2>2. ASSUME NEW i \in DOMAIN found PROVE found[i] \in Members(all)
    BY <1>8, <2>1 DEF Members
  <2>3. ASSUME NEW i \in DOMAIN rest PROVE rest[i] \in Members(all)
    BY <1>8, <2>1 DEF Members
  <2> QED
    BY <2>2, <2>3 DEF Members
<1>12. Len(all) < query.limit => hits \subseteq Members(all)
  BY <1>1, <1>6, <1>7, <1>8, <1>11 DEF room
<1> QED
  BY <1>10, <1>11, <1>12 DEF all, hits

\* A hybrid search and a search by vector answer with at most limit nodes.
LEMMA VectorFinds ==
  ASSUME NEW n0 \in NodeTable, NEW e0, NEW query \in SearchQuery,
         NEW found \in SearchVector(n0, e0, query)
  PROVE  Within(found, query.limit)
<1> DEFINE hits == {n \in WithVector(n0, e0, query) : n0[n].sim >= Threshold(query)}
<1>1. query.limit \in Nat
  BY DEF SearchQuery
<1>2. hits \subseteq NodeIds
  BY AdmittedNodes DEF WithVector
<1>3. PICK list \in Ranked(hits, Scores(n0, "sim")) : found = Cut(list, query.limit)
  BY DEF SearchVector
<1> QED
  BY <1>1, <1>2, <1>3, Answers

\* A list of candidates: nodes at some of the ranks, no node at two of them.
Placed(list) ==
  /\ DOMAIN list \subseteq 1 .. Cardinality(NodeIds)
  /\ \A i \in DOMAIN list : list[i] \in NodeIds
  /\ \A i, j \in DOMAIN list : list[i] = list[j] => i = j

LEMMA ListsAreShort ==
  ASSUME NEW limit, NEW list, Within(list, limit)
  PROVE  Len(list) <= Cardinality(NodeIds)
<1>1. Cardinality(Members(list)) = Len(list) /\ Members(list) \subseteq NodeIds
  BY NoListTwice DEF Within, Members
<1> QED
  BY <1>1, FS_Subset, QueriesAssumption

LEMMA AnswersArePlaced ==
  ASSUME NEW limit, NEW list, Within(list, limit)
  PROVE  Placed(list)
<1>1. /\ list \in Seq(NodeIds) /\ Len(list) \in Nat /\ DOMAIN list = 1 .. Len(list)
      /\ \A i, j \in 1 .. Len(list) : list[i] = list[j] => i = j
  BY DEF Within
<1>2. Len(list) <= Cardinality(NodeIds) /\ Cardinality(NodeIds) \in Nat
  BY ListsAreShort, QueriesAssumption, FS_CardinalityType
<1>3. DOMAIN list \subseteq 1 .. Cardinality(NodeIds)
  BY <1>1, <1>2
<1>4. \A i \in DOMAIN list : list[i] \in NodeIds
  BY <1>1
<1> QED
  BY <1>1, <1>3, <1>4 DEF Placed

LEMMA CandidatesFound ==
  ASSUME NEW n0 \in NodeTable, NEW e0, NEW query \in SearchQuery,
         NEW vector \in VectorCandidates(n0, e0, query),
         NEW text \in TextCandidates(n0, e0, query)
  PROVE  Placed(vector) /\ Placed(text)
<1>1. query.pool \in Nat
  BY DEF SearchQuery
<1>2. WithVector(n0, e0, query) \subseteq NodeIds /\ TextHits(n0, e0, query) \subseteq NodeIds
  BY AdmittedNodes DEF WithVector, TextHits
<1>3. PICK nearest \in Ranked(WithVector(n0, e0, query), Scores(n0, "sim")) :
        vector = Cut(nearest, query.pool)
  BY DEF VectorCandidates
<1>4. Placed(vector)
  BY <1>1, <1>2, <1>3, Answers, AnswersArePlaced
<1> DEFINE hits == TextHits(n0, e0, query)
<1>5. PICK list \in Ranked(hits, Scores(n0, "ts")),
           ranks \in Choices(1 .. Cardinality(hits), AtMost(query.pool, hits)) :
        text = [rank \in ranks |-> list[rank]]
  BY DEF TextCandidates
<1>6. /\ IsFiniteSet(hits) /\ Cardinality(hits) \in Nat
      /\ Cardinality(hits) <= Cardinality(NodeIds) /\ Cardinality(NodeIds) \in Nat
  BY <1>2, QueriesAssumption, FS_Subset, FS_CardinalityType
<1>7. /\ list \in Seq(hits) /\ Len(list) = Cardinality(hits)
      /\ \A i, j \in 1 .. Len(list) : list[i] = list[j] => i = j
  BY <1>5, <1>6, RankedLists
<1>8. ranks \subseteq 1 .. Cardinality(hits)
  BY <1>5 DEF Choices
<1>9. Placed(text)
  <2> HIDE DEF hits
  <2>1. \A i \in ranks : list[i] \in hits /\ i \in 1 .. Len(list)
    BY <1>7, <1>8
  <2>2. DOMAIN text = ranks /\ \A i \in ranks : text[i] = list[i]
    BY <1>5
  <2>3. ranks \subseteq 1 .. Cardinality(NodeIds)
    BY <1>6, <1>8
  <2>4. hits \subseteq NodeIds
    BY <1>2 DEF hits
  <2> QED
    BY <1>7, <2>1, <2>2, <2>3, <2>4 DEF Placed
<1> QED
  BY <1>4, <1>9

LEMMA FuseFinds ==
  ASSUME NEW vector, Placed(vector), NEW text, Placed(text), NEW limit \in Nat,
         NEW found \in Fuse(vector, text, limit)
  PROVE  Within(found, limit)
<1> DEFINE both == Members(vector) \cup Members(text)
           score == [n \in both |-> Share(vector, n) + Share(text, n)]
<1>1. both \subseteq NodeIds
  BY DEF Members, Placed
<1>2. PICK list \in Ranked(both, score) : found = Cut(list, limit)
  BY DEF Fuse
<1> HIDE DEF score, both
<1> QED
  BY <1>1, <1>2, Answers

-----------------------------------------------------------------------------
(* The tables.                                                              *)

LEMMA WritersKeepTables ==
  ASSUME TablesOK, Writers
  PROVE  TablesOK' /\ call' = call
<1>1. /\ nodes \in [NodeIds -> NodeRow \cup {NoRow}]
      /\ edges \in [EdgeIds -> EdgeRow \cup {NoRow}]
      /\ NodeRows \subseteq NodeRow /\ EdgeRows \subseteq EdgeRow
      /\ Marks \subseteq [ts: Nat, trgm: Nat]
      /\ NoRow \notin NodeRow \cup EdgeRow
  BY ReadsAssumption, QueriesAssumption DEF TablesOK, NodeTable, EdgeTable
<1>2. ASSUME NEW n \in NodeIds, AddNode(n)
      PROVE  TablesOK' /\ call' = call
  BY <1>1, <1>2 DEF AddNode, Commit, TablesOK, NodeTable, EdgeTable
<1>3. ASSUME NEW n \in NodeIds, ChangeWords(n)
      PROVE  TablesOK' /\ call' = call
  <2>1. PICK marks \in [ts: Nat, trgm: Nat] :
          nodes' = [nodes EXCEPT ![n].ts = marks.ts, ![n].trgm = marks.trgm]
    BY <1>1, <1>3 DEF ChangeWords
  <2>2. n \in NodeIds /\ nodes[n] \in NodeRow /\ UNCHANGED <<edges, call>>
    BY <1>1, <1>3 DEF ChangeWords, Commit, Rows
  <2>3. nodes' = [nodes EXCEPT ![n] = [nodes[n] EXCEPT !.ts = marks.ts, !.trgm = marks.trgm]]
    BY <1>1, <2>1, <2>2 DEF NodeRow
  <2>4. [nodes[n] EXCEPT !.ts = marks.ts, !.trgm = marks.trgm] \in NodeRow
    BY <2>2 DEF NodeRow
  <2> QED
    BY <1>1, <2>2, <2>3, <2>4 DEF TablesOK, NodeTable, EdgeTable
<1>4. ASSUME NEW n \in NodeIds, RetractNode(n)
      PROVE  TablesOK' /\ call' = call
  <2>1. /\ nodes' = [nodes EXCEPT ![n].retracted = TRUE]
        /\ nodes[n] \in NodeRow /\ UNCHANGED <<edges, call>>
    BY <1>1, <1>4 DEF RetractNode, Commit, Live, Rows
  <2> QED
    BY <1>1, <2>1 DEF TablesOK, NodeTable, EdgeTable, NodeRow
<1>5. ASSUME NEW e \in EdgeIds, AddEdge(e)
      PROVE  TablesOK' /\ call' = call
  BY <1>1, <1>5 DEF AddEdge, Commit, TablesOK, NodeTable, EdgeTable
<1>6. ASSUME NEW e \in EdgeIds, RetractEdge(e)
      PROVE  TablesOK' /\ call' = call
  <2>1. /\ edges' = [edges EXCEPT ![e].retracted = TRUE]
        /\ edges[e] \in EdgeRow /\ UNCHANGED <<nodes, call>>
    BY <1>1, <1>6 DEF RetractEdge, Commit, Rows
  <2> QED
    BY <1>1, <2>1 DEF TablesOK, NodeTable, EdgeTable, EdgeRow
<1>7. ASSUME NEW kept \in NodeIds, NEW removed \in NodeIds, MergeNodes(kept, removed)
      PROVE  TablesOK' /\ call' = call
  <2> DEFINE Moved(end) == IF end = removed THEN kept ELSE end
             row(e) == [edges[e] EXCEPT !.source = Moved(edges[e].source),
                                        !.target = Moved(edges[e].target)]
  <2>1. /\ nodes' = [nodes EXCEPT ![removed].retracted = TRUE]
        /\ edges' = [e \in EdgeIds |-> IF edges[e] = NoRow THEN NoRow ELSE row(e)]
        /\ nodes[removed] \in NodeRow /\ UNCHANGED call
    BY <1>1, <1>7 DEF MergeNodes, Commit, Rows
  <2>2. \A e \in EdgeIds : edges[e] # NoRow => row(e) \in EdgeRow
    BY <1>1 DEF EdgeRow
  <2> HIDE DEF row
  <2>3. edges' \in EdgeTable
    BY <2>1, <2>2 DEF EdgeTable
  <2>4. nodes' \in NodeTable
    BY <1>1, <2>1 DEF NodeTable, NodeRow
  <2> QED
    BY <2>1, <2>3, <2>4 DEF TablesOK
<1>8. ASSUME NEW ns \in Namespaces, PurgeNodes(ns)
      PROVE  TablesOK' /\ call' = call
  BY <1>1, <1>8 DEF PurgeNodes, Commit, TablesOK, NodeTable, EdgeTable
<1> QED
  BY <1>2, <1>3, <1>4, <1>5, <1>6, <1>7, <1>8 DEF Writers

-----------------------------------------------------------------------------
(* The invariant is inductive.                                              *)

LEMMA ReadsStart == Init => ReadsInv
<1> SUFFICES ASSUME Init PROVE ReadsInv
  OBVIOUS
<1>1. TablesOK
  BY ReadsAssumption DEF Init, TablesOK
<1>2. call.op = "idle" /\ call.at = "idle"
  BY DEF Init, Idle
<1> QED
  BY <1>1, <1>2 DEF ReadsInv, WalkCall, SearchCall, Searches, BetweenStatements

LEMMA TraverseKeeps ==
  ASSUME ReadsInv, Traverse \/ ReadEdges \/ ReadNodes
  PROVE  ReadsInv'
<1>1. UNCHANGED <<nodes, edges>>
  BY DEF Traverse, ReadEdges, ReadNodes
<1>2. /\ call'.op = "traverse" /\ call'.walk \in Walks
      /\ call'.at \in {"edges", "nodes", "answered"}
  <2>1. CASE Traverse
    BY <2>1 DEF Traverse
  <2>2. CASE ReadEdges
    BY <2>2 DEF ReadEdges, ReadsInv, WalkCall, SearchCall, Searches
  <2>3. CASE ReadNodes
    BY <2>3 DEF ReadNodes, ReadsInv, WalkCall, SearchCall, Searches
  <2> QED
    BY <2>1, <2>2, <2>3
<1> QED
  BY <1>1, <1>2 DEF ReadsInv, TablesOK, WalkCall, SearchCall, Searches, BetweenStatements

\* The first statement of a text search.
LEMMA SearchWordsData ==
  ASSUME ReadsInv, SearchWords
  PROVE  \E query \in Asked : \E found \in SearchText(nodes, edges, query) :
           /\ call' = [op |-> "text",
                       at |-> IF LeavesRoom(query, found) THEN "trigrams" ELSE "answered",
                       query |-> query, found |-> found, nodes |-> nodes, edges |-> edges]
           /\ query \in SearchQuery /\ nodes \in NodeTable /\ edges \in EdgeTable
           /\ Within(found, query.limit)
           /\ UNCHANGED <<nodes, edges>>
<1>0. PICK query \in Asked : \E found \in SearchText(nodes, edges, query) :
        /\ call' = [op |-> "text",
                    at |-> IF LeavesRoom(query, found) THEN "trigrams" ELSE "answered",
                    query |-> query, found |-> found, nodes |-> nodes, edges |-> edges]
        /\ UNCHANGED <<nodes, edges>>
  BY DEF SearchWords
<1>1. PICK found \in SearchText(nodes, edges, query) :
        /\ call' = [op |-> "text",
                    at |-> IF LeavesRoom(query, found) THEN "trigrams" ELSE "answered",
                    query |-> query, found |-> found, nodes |-> nodes, edges |-> edges]
        /\ UNCHANGED <<nodes, edges>>
  BY <1>0
<1>2. query \in SearchQuery /\ nodes \in NodeTable /\ edges \in EdgeTable
  BY ReadsAssumption DEF ReadsInv, TablesOK
<1>3. Within(found, query.limit)
  BY <1>2, TextFinds
<1> QED
  BY <1>1, <1>2, <1>3

LEMMA SearchWordsKeeps ==
  ASSUME ReadsInv, SearchWords
  PROVE  ReadsInv'
<1>0. PICK query \in Asked : \E found \in SearchText(nodes, edges, query) :
        /\ call' = [op |-> "text",
                    at |-> IF LeavesRoom(query, found) THEN "trigrams" ELSE "answered",
                    query |-> query, found |-> found, nodes |-> nodes, edges |-> edges]
        /\ query \in SearchQuery /\ nodes \in NodeTable /\ edges \in EdgeTable
        /\ Within(found, query.limit)
        /\ UNCHANGED <<nodes, edges>>
  BY SearchWordsData
<1>1. PICK found \in SearchText(nodes, edges, query) :
        /\ call' = [op |-> "text",
                    at |-> IF LeavesRoom(query, found) THEN "trigrams" ELSE "answered",
                    query |-> query, found |-> found, nodes |-> nodes, edges |-> edges]
        /\ query \in SearchQuery /\ nodes \in NodeTable /\ edges \in EdgeTable
        /\ Within(found, query.limit)
        /\ UNCHANGED <<nodes, edges>>
  BY <1>0
<1>2. /\ call'.op = "text" /\ call'.query = query /\ call'.found = found
      /\ call'.nodes = nodes /\ call'.edges = edges
      /\ call'.at \in {"trigrams", "answered"}
      /\ call'.at = "trigrams" => LeavesRoom(query, found)
  BY <1>1
<1>3. found \in Seq(NodeIds)
  BY <1>1 DEF Within
<1>4. call'.at = "trigrams" => call' \in TextCall
  BY <1>1, <1>3 DEF TextCall
<1>5. SearchCall' /\ WalkCall'
  BY <1>1, <1>2 DEF SearchCall, WalkCall
<1>6. BetweenStatements'
  BY <1>1, <1>2, <1>4 DEF BetweenStatements, LeavesRoom
<1> QED
  BY <1>1, <1>5, <1>6 DEF ReadsInv, TablesOK

\* The second one.
LEMMA SearchTrigramsData ==
  ASSUME ReadsInv, SearchTrigrams
  PROVE  \E rest \in Fallback(nodes, edges, call.query, call.found) :
           /\ call'.op = "text" /\ call'.at = "answered" /\ call'.query = call.query
           /\ call'.found = call.found \o rest
           /\ call'.nodes = call.nodes /\ call'.edges = call.edges
           /\ call \in TextCall /\ call.query \in SearchQuery
           /\ nodes \in NodeTable /\ Within(call.found, call.query.limit)
           /\ UNCHANGED <<nodes, edges>>
<1>1. call \in TextCall
  BY DEF SearchTrigrams, ReadsInv, BetweenStatements
<1>2. PICK rest \in Fallback(nodes, edges, call.query, call.found) :
        /\ call' = [call EXCEPT !.at = "answered", !.found = call.found \o rest]
        /\ UNCHANGED <<nodes, edges>>
  BY DEF SearchTrigrams
<1> DEFINE list == call.found \o rest
<1>3. call' = [call EXCEPT !.at = "answered", !.found = list]
  BY <1>2
<1> HIDE DEF list
<1>4. /\ call'.op = "text" /\ call'.at = "answered" /\ call'.query = call.query
      /\ call'.found = list /\ call'.nodes = call.nodes /\ call'.edges = call.edges
  BY <1>1, <1>3 DEF TextCall
<1>5. call.query \in SearchQuery /\ nodes \in NodeTable
  BY <1>1, ReadsAssumption DEF TextCall, ReadsInv, TablesOK
<1>6. Within(call.found, call.query.limit)
  BY <1>1 DEF TextCall, ReadsInv, SearchCall, Searches
<1> QED
  BY <1>1, <1>2, <1>4, <1>5, <1>6 DEF list

LEMMA SearchTrigramsKeeps ==
  ASSUME ReadsInv, SearchTrigrams
  PROVE  ReadsInv'
<1>1. PICK rest \in Fallback(nodes, edges, call.query, call.found) :
        /\ call'.op = "text" /\ call'.at = "answered" /\ call'.query = call.query
        /\ call'.found = call.found \o rest
        /\ call \in TextCall /\ call.query \in SearchQuery
        /\ nodes \in NodeTable /\ Within(call.found, call.query.limit)
        /\ UNCHANGED <<nodes, edges>>
  BY SearchTrigramsData
<1>2. Within(call'.found, call'.query.limit)
  BY <1>1, FallbackFinds
<1>3. call'.query \in Asked
  BY <1>1 DEF TextCall
<1> QED
  BY <1>1, <1>2, <1>3
     DEF ReadsInv, TablesOK, WalkCall, SearchCall, BetweenStatements

LEMMA OneStatementKeeps ==
  ASSUME ReadsInv, SearchNearest \/ SearchBoth \/ Return
  PROVE  ReadsInv'
<1>1. UNCHANGED <<nodes, edges>> /\ nodes \in NodeTable
  BY DEF SearchNearest, SearchBoth, Return, ReadsInv, TablesOK
<1>2. CASE SearchNearest
  <2>0. PICK query \in Asked : \E found \in SearchVector(nodes, edges, query) :
          call' = [op |-> "vector", at |-> "answered", query |-> query, found |-> found]
    BY <1>2 DEF SearchNearest
  <2>1. PICK found \in SearchVector(nodes, edges, query) :
          call' = [op |-> "vector", at |-> "answered", query |-> query, found |-> found]
    BY <2>0
  <2>2. query \in SearchQuery
    BY ReadsAssumption
  <2>3. Within(found, query.limit)
    BY <1>1, <2>2, VectorFinds
  <2> QED
    BY <1>1, <2>1, <2>3 DEF ReadsInv, TablesOK, WalkCall, SearchCall, BetweenStatements
<1>3. CASE SearchBoth
  <2> DEFINE answer(query, vector, text, found) ==
               [op |-> "hybrid", at |-> "answered", query |-> query, found |-> found,
                vector |-> vector, text |-> text]
  <2>a. PICK query \in Asked :
          \E vector \in VectorCandidates(nodes, edges, query),
             text \in TextCandidates(nodes, edges, query) :
            \E found \in Fuse(vector, text, query.limit) :
              call' = answer(query, vector, text, found)
    BY <1>3 DEF SearchBoth
  <2>b. PICK vector \in VectorCandidates(nodes, edges, query),
             text \in TextCandidates(nodes, edges, query) :
          \E found \in Fuse(vector, text, query.limit) :
            call' = answer(query, vector, text, found)
    BY <2>a
  <2>1. PICK found \in Fuse(vector, text, query.limit) :
          call' = answer(query, vector, text, found)
    BY <2>b
  <2>2. query \in SearchQuery /\ query.limit \in Nat
    BY ReadsAssumption DEF SearchQuery
  <2>3. Placed(vector) /\ Placed(text)
    BY <1>1, <2>2, CandidatesFound
  <2>4. Within(found, query.limit)
    BY <2>2, <2>3, FuseFinds
  <2>5. call'.op = "hybrid" /\ call'.at = "answered" /\ call'.query = query /\ call'.found = found
    BY <2>1
  <2> QED
    BY <1>1, <2>4, <2>5 DEF ReadsInv, TablesOK, WalkCall, SearchCall, BetweenStatements
<1>4. CASE Return
  <2>1. call'.op = "idle" /\ call'.at = "idle"
    BY <1>4 DEF Return, Idle
  <2> QED
    BY <1>1, <2>1
       DEF ReadsInv, TablesOK, WalkCall, SearchCall, Searches, BetweenStatements
<1> QED
  BY <1>2, <1>3, <1>4

LEMMA ReadsStep == ReadsInv /\ [Next]_vars => ReadsInv'
<1> SUFFICES ASSUME ReadsInv, [Next]_vars PROVE ReadsInv'
  OBVIOUS
<1>1. CASE TablesOK' /\ call' = call
  BY <1>1 DEF ReadsInv, WalkCall, SearchCall, BetweenStatements
<1>2. CASE UNCHANGED vars
  BY <1>1, <1>2 DEF vars, ReadsInv, TablesOK
<1>3. CASE Writers
  BY <1>1, <1>3, WritersKeepTables DEF ReadsInv
<1>4. CASE Reader
  BY <1>4, TraverseKeeps, SearchWordsKeeps, SearchTrigramsKeeps, OneStatementKeeps DEF Reader
<1> QED
  BY <1>2, <1>3, <1>4 DEF Next

-----------------------------------------------------------------------------
(* The theorems.                                                            *)

\* A search returns no node twice and never more than the limit, in all its
\* modes: not when the fallback of a text search runs against tables in which
\* rows have changed their content since the first statement, nor when the
\* lists of a hybrid search share nodes.
THEOREM NobodyTwice == Spec => []NoneTwice
<1>1. ReadsInv => NoneTwice
  <2> SUFFICES ASSUME ReadsInv, call.op \in Searches
               PROVE  /\ Len(call.found) <= call.query.limit
                      /\ Cardinality(Members(call.found)) = Len(call.found)
    BY DEF NoneTwice, Searches
  <2>1. Within(call.found, call.query.limit)
    BY DEF ReadsInv, SearchCall
  <2> QED
    BY <2>1, NoListTwice DEF Within
<1> QED
  BY <1>1, ReadsStart, ReadsStep, PTL DEF Spec

\* What SteadyMatchesFound says of one step, and more: the near matches are
\* found whenever there is room for them, and not only when no row matched.
Steady(query) == {n \in Admitted(nodes, edges, query)
                          \cap Admitted(call'.nodes, call'.edges, query) :
                    nodes[n] = call'.nodes[n]}

SteadyStep ==
  call'.op = "text" /\ call'.at = "answered" /\ call' # call =>
    LET query == call'.query
    IN Len(call'.found) < query.limit =>
         \A n \in Steady(query) :
           nodes[n].ts > 0 \/ (query.fallback /\ nodes[n].trgm > 0)
             => n \in Members(call'.found)

LEMMA WordsSteady ==
  ASSUME ReadsInv, SearchWords
  PROVE  SteadyStep
<1>0. PICK query \in Asked : \E found \in SearchText(nodes, edges, query) :
        /\ call' = [op |-> "text",
                    at |-> IF LeavesRoom(query, found) THEN "trigrams" ELSE "answered",
                    query |-> query, found |-> found, nodes |-> nodes, edges |-> edges]
        /\ query \in SearchQuery /\ nodes \in NodeTable /\ edges \in EdgeTable
        /\ Within(found, query.limit)
        /\ UNCHANGED <<nodes, edges>>
  BY SearchWordsData
<1>1. PICK found \in SearchText(nodes, edges, query) :
        /\ call' = [op |-> "text",
                    at |-> IF LeavesRoom(query, found) THEN "trigrams" ELSE "answered",
                    query |-> query, found |-> found, nodes |-> nodes, edges |-> edges]
        /\ query \in SearchQuery /\ nodes \in NodeTable /\ edges \in EdgeTable
        /\ Within(found, query.limit)
        /\ UNCHANGED <<nodes, edges>>
  BY <1>0
<1>2. /\ call'.query = query /\ call'.found = found
      /\ call'.at = "answered" => ~LeavesRoom(query, found)
  BY <1>1
<1>3. SUFFICES ASSUME call'.at = "answered", Len(found) < query.limit,
                      NEW n \in Steady(query),
                      nodes[n].ts > 0 \/ (query.fallback /\ nodes[n].trgm > 0)
               PROVE  n \in Members(found)
  BY <1>2 DEF SteadyStep
<1>4. ~query.fallback
  BY <1>2, <1>3 DEF LeavesRoom
<1>5. n \in TextHits(nodes, edges, query)
  BY <1>3, <1>4 DEF Steady, TextHits
<1> QED
  BY <1>1, <1>3, <1>5, TextFinds

LEMMA TrigramsSteady ==
  ASSUME ReadsInv, SearchTrigrams
  PROVE  SteadyStep
<1>1. PICK rest \in Fallback(nodes, edges, call.query, call.found) :
        /\ call'.op = "text" /\ call'.at = "answered" /\ call'.query = call.query
        /\ call'.found = call.found \o rest
        /\ call'.nodes = call.nodes /\ call'.edges = call.edges
        /\ call \in TextCall /\ call.query \in SearchQuery
        /\ nodes \in NodeTable /\ Within(call.found, call.query.limit)
        /\ UNCHANGED <<nodes, edges>>
  BY SearchTrigramsData
<1>2. /\ call.found \in SearchText(call.nodes, call.edges, call.query)
      /\ Len(call.found) < call.query.limit /\ call.nodes \in NodeTable
  BY <1>1 DEF SearchTrigrams, ReadsInv, BetweenStatements, LeavesRoom, TextCall
<1>3. Members(call.found) = TextHits(call.nodes, call.edges, call.query)
  BY <1>1, <1>2, TextFinds
<1>4. /\ Members(call.found) \subseteq Members(call'.found)
      /\ Len(call'.found) < call.query.limit =>
           FallbackHits(nodes, edges, call.query, call.found) \subseteq Members(call'.found)
  BY <1>1, FallbackFinds
<1>5. SUFFICES ASSUME Len(call'.found) < call.query.limit,
                      NEW n \in Steady(call.query), nodes[n].ts > 0 \/ nodes[n].trgm > 0
               PROVE  n \in Members(call'.found)
  BY <1>1 DEF SteadyStep
<1>6. CASE nodes[n].ts > 0
  <2>1. n \in TextHits(call.nodes, call.edges, call.query)
    BY <1>1, <1>6 DEF Steady, TextHits
  <2> QED
    BY <1>3, <1>4, <2>1
<1>7. CASE nodes[n].trgm > 0 /\ n \notin Members(call.found)
  <2>1. n \in FallbackHits(nodes, edges, call.query, call.found)
    BY <1>7 DEF Steady, FallbackHits, Members
  <2> QED
    BY <1>4, <1>5, <2>1
<1> QED
  BY <1>4, <1>5, <1>6, <1>7

LEMMA SteadyFound == ReadsInv /\ [Next]_vars => SteadyStep
<1> SUFFICES ASSUME ReadsInv, [Next]_vars, call'.op = "text", call'.at = "answered",
                    call' # call
             PROVE  SteadyStep
  BY DEF SteadyStep
<1>1. CASE SearchWords
  BY <1>1, WordsSteady
<1>2. CASE SearchTrigrams
  BY <1>2, TrigramsSteady
<1>3. ~Writers /\ ~(UNCHANGED vars)
  BY WritersKeepTables DEF ReadsInv, vars
<1>4. ~Traverse /\ ~ReadEdges /\ ~ReadNodes /\ ~SearchNearest /\ ~Return
  BY DEF Traverse, ReadEdges, ReadNodes, SearchNearest, Return, Idle
<1>5. ~SearchBoth
  BY DEF SearchBoth
<1> QED
  BY <1>1, <1>2, <1>3, <1>4, <1>5 DEF Next, Reader

\* A node that matches, whose row has the same content and passes the filters
\* at both statements of a text search, is in the answer unless that is full.
THEOREM SteadyNodesFound == Spec => SteadyMatchesFound
<1> DEFINE MatchStep ==
      call'.op = "text" /\ call'.at = "answered" /\ call' # call =>
        LET query == call'.query
            words == IF call.at = "trigrams" THEN call.found ELSE call'.found
            Matches(n) == \/ nodes[n].ts > 0
                          \/ query.fallback /\ words = << >> /\ nodes[n].trgm > 0
        IN Len(call'.found) < query.limit =>
             \A n \in Steady(query) : Matches(n) => n \in Members(call'.found)
<1>1. SteadyMatchesFound <=> [][MatchStep]_vars
  BY DEF SteadyMatchesFound, Steady
<1>2. ReadsInv /\ [Next]_vars => [MatchStep]_vars
  BY SteadyFound DEF SteadyStep
<1> HIDE DEF MatchStep
<1> QED
  BY <1>1, <1>2, ReadsStart, ReadsStep, PTL DEF Spec

\* EndsAccountedFor, of one step.
EndsStep ==
  call.at = "nodes" /\ call'.at = "answered" =>
    LET listed == call'.nodes
    IN Cardinality(listed) < call.walk.max =>
         /\ call.walk.start \in listed
         /\ Named(call.walk.start, call'.edges) \cap Live(nodes) \subseteq listed

\* A choice that is not full is the whole.
LEMMA RoomyChoice ==
  ASSUME NEW set, IsFiniteSet(set), NEW bound \in Nat,
         NEW chosen \in Choices(set, AtMost(bound, set)), Cardinality(chosen) < bound
  PROVE  chosen = set
<1>1. chosen \in SUBSET set /\ Cardinality(chosen) = AtMost(bound, set)
  BY DEF Choices
<1>2. Cardinality(set) \in Nat
  BY FS_CardinalityType
<1>3. Cardinality(chosen) = Cardinality(set)
  BY <1>1, <1>2 DEF AtMost
<1> QED
  BY <1>1, <1>3, FS_Subset

LEMMA KeepKeeps ==
  ASSUME NEW fetched, IsFiniteSet(fetched), NEW start, NEW max \in Nat,
         NEW kept \in Keep(fetched, start, max), Cardinality(kept) < max
  PROVE  start \in kept /\ fetched \subseteq kept
<1>1. CASE start \in fetched
  <2>1. kept \in Choices(fetched, AtMost(max, fetched))
    BY <1>1 DEF Keep
  <2> QED
    BY <1>1, <2>1, RoomyChoice
<1>2. CASE start \notin fetched /\ max # 0
  <2>1. PICK rest \in Choices(fetched, AtMost(max - 1, fetched)) : kept = {start} \cup rest
    BY <1>2 DEF Keep
  <2>2. rest \in SUBSET fetched
    BY DEF Choices
  <2>3. IsFiniteSet(rest) /\ Cardinality(rest) \in Nat
    BY <2>2, FS_Subset, FS_CardinalityType
  <2>4. Cardinality(kept) = Cardinality(rest) + 1
    <3>1. kept = rest \cup {start} /\ start \notin rest
      BY <1>2, <2>1, <2>2
    <3> QED
      BY <2>3, <3>1, FS_AddElement
  <2>5. max - 1 \in Nat /\ Cardinality(rest) < max - 1
    BY <1>2, <2>3, <2>4
  <2>6. rest = fetched
    BY <2>5, RoomyChoice
  <2> QED
    BY <2>1, <2>6
<1>3. CASE start \notin fetched /\ max = 0
  <2>1. kept \in SUBSET fetched
    BY <1>3 DEF Keep, Choices
  <2>2. Cardinality(kept) \in Nat
    BY <2>1, FS_Subset, FS_CardinalityType
  <2> QED
    BY <1>3, <2>2
<1> QED
  BY <1>1, <1>2, <1>3

LEMMA NodesListed ==
  ASSUME ReadsInv, ReadNodes
  PROVE  EndsStep
<1> DEFINE start == call.walk.start
           named == Named(start, call.edges)
           fetched == Fetch(named)
           max == call.walk.max
<1>1. /\ call'.nodes \in Keep(fetched, start, max) /\ call'.edges = call.edges
  BY DEF ReadNodes
<1>2. max \in Nat
  BY ReadsAssumption DEF ReadNodes, ReadsInv, WalkCall
<1>3. IsFiniteSet(fetched)
  <2>1. fetched \in SUBSET NodeIds
    BY DEF Fetch, Live, Rows, ReadsInv, TablesOK, NodeTable
  <2> QED
    BY <2>1, QueriesAssumption, FS_Subset
<1>4. fetched = named \cap Live(nodes)
  BY DEF Fetch
<1> HIDE DEF named, fetched, max, start
<1>5. Cardinality(call'.nodes) < max =>
        start \in call'.nodes /\ fetched \subseteq call'.nodes
  BY <1>1, <1>2, <1>3, KeepKeeps
<1> QED
  BY <1>1, <1>4, <1>5 DEF EndsStep, start, named, max

\* An end of an edge that a traversal names and does not list was gone when
\* the nodes were read, unless the list is full; and the start is listed.
THEOREM EndsListed == Spec => EndsAccountedFor
<1> DEFINE ListedStep ==
      call.at = "nodes" /\ call'.at = "answered" =>
        LET start == call.walk.start
            listed == call'.nodes
        IN Cardinality(listed) < call.walk.max =>
             /\ start \in listed
             /\ \A e \in DOMAIN call'.edges, n \in Live(nodes) :
                  /\ n \in {call'.edges[e].source, call'.edges[e].target}
                  /\ start \in Rows(nodes) /\ nodes[n].ns = nodes[start].ns
                  => n \in listed
<1>1. EndsAccountedFor <=> [][ListedStep]_vars
  BY DEF EndsAccountedFor
<1>a. EndsStep => ListedStep
  BY DEF EndsStep, Named
<1>2. ReadsInv /\ [Next]_vars => [EndsStep]_vars
  <2> SUFFICES ASSUME ReadsInv, [Next]_vars, call.at = "nodes", call'.at = "answered"
               PROVE  EndsStep
    BY DEF EndsStep
  <2>1. ~Writers /\ ~(UNCHANGED vars)
    BY WritersKeepTables DEF ReadsInv, vars
  <2>2. /\ ~Traverse /\ ~ReadEdges /\ ~SearchWords /\ ~SearchTrigrams
        /\ ~SearchNearest /\ ~SearchBoth /\ ~Return
    BY DEF Traverse, ReadEdges, SearchWords, SearchTrigrams, SearchNearest, SearchBoth,
           Return, Idle
  <2> QED
    BY <2>1, <2>2, NodesListed DEF Next, Reader
<1>3. ReadsInv /\ [Next]_vars => [ListedStep]_vars
  BY <1>a, <1>2
<1> HIDE DEF ListedStep
<1> QED
  BY <1>1, <1>3, ReadsStart, ReadsStep, PTL DEF Spec

-----------------------------------------------------------------------------
(* The walk.                                                                *)

\* The library's rule of induction takes a predicate, for which no prover can
\* put one in; that of well-founded orders takes a set.
LEMMA SetInduction ==
  ASSUME NEW K \in SUBSET Nat, 0 \in K, \A n \in K : n + 1 \in K
  PROVE  K = Nat
<1> SUFFICES ASSUME Nat \ K # {} PROVE FALSE
  OBVIOUS
<1>1. PICK x \in Nat \ K : \A y \in Nat \ K : ~ (<<y, x>> \in OpToRel(<, Nat))
  BY NatLessThanWellFounded, WFMin, Zenon
<1>2. \A y \in Nat \ K : ~ (y < x)
  BY <1>1, Zenon DEF OpToRel
<1>3. x - 1 \in Nat /\ x - 1 \in K
  BY <1>2
<1> QED
  BY <1>3

\* The edges that leave a node of ids.
Leaving(table, ids, types) == {e \in Active(table, types) : table[e].source \in ids}
TargetsOf(table, found) == {table[e].target : e \in found}

LEMMA LeavingFacts ==
  ASSUME NEW edges0, NEW types
  PROVE  /\ \A ids : GetEdges(edges0, ids, "outgoing", types) = Leaving(edges0, ids, types)
         /\ \A A, B : Leaving(edges0, A \cup B, types)
                        = Leaving(edges0, A, types) \cup Leaving(edges0, B, types)
         /\ \A A, B : TargetsOf(edges0, A \cup B)
                        = TargetsOf(edges0, A) \cup TargetsOf(edges0, B)
BY DEF GetEdges, Leaving, TargetsOf

\* The levels of the recursion exist, whatever the tables: what Levels means.
LevelOf(f, d, table, start, types) ==
  IF d = 1 THEN Leaving(table, {start}, types)
  ELSE Leaving(table, TargetsOf(table, f[d - 1]), types)

IsLevels(f, table, start, last, types) ==
  f = [d \in 1 .. last |-> LevelOf(f, d, table, start, types)]

LEMMA LevelsExist ==
  ASSUME NEW edges0, NEW start, NEW types
  PROVE  \A last \in Nat : \E f : IsLevels(f, edges0, start, last, types)
<1> DEFINE K == {n \in Nat : \E f : IsLevels(f, edges0, start, n, types)}
<1>1. 0 \in K
  <2> DEFINE f == [d \in 1 .. 0 |-> {}]
  <2>1. IsLevels(f, edges0, start, 0, types)
    BY DEF IsLevels
  <2> QED
    BY <2>1
<1>2. ASSUME NEW n \in K PROVE n + 1 \in K
  <2>1. PICK f : IsLevels(f, edges0, start, n, types)
    OBVIOUS
  <2> DEFINE g == [d \in 1 .. n + 1 |->
                     IF d = n + 1 THEN LevelOf(f, d, edges0, start, types) ELSE f[d]]
  <2>2. ASSUME NEW d \in 1 .. n + 1
        PROVE  g[d] = LevelOf(g, d, edges0, start, types)
    <3>1. d # 1 => g[d - 1] = f[d - 1]
      OBVIOUS
    <3>2. LevelOf(g, d, edges0, start, types) = LevelOf(f, d, edges0, start, types)
      BY <3>1 DEF LevelOf
    <3>3. d # n + 1 => f[d] = LevelOf(f, d, edges0, start, types)
      BY <2>1 DEF IsLevels
    <3> QED
      BY <3>2, <3>3
  <2>3. IsLevels(g, edges0, start, n + 1, types)
    <3>1. g = [d \in 1 .. n + 1 |-> g[d]]
      OBVIOUS
    <3> HIDE DEF g
    <3> QED
      BY <3>1, <2>2 DEF IsLevels
  <2> HIDE DEF g
  <2> QED
    BY <2>3
<1>3. K = Nat
  <2> HIDE DEF K
  <2> QED
    BY <1>1, <1>2, SetInduction, K \in SUBSET Nat DEF K
<1> QED
  BY <1>3

LEMMA LevelsMeaning ==
  ASSUME NEW edges0, NEW start, NEW types, NEW last \in Nat
  PROVE  IsLevels(Levels(edges0, start, last, types), edges0, start, last, types)
<1> DEFINE P(f) ==
      f = [d \in 1 .. last |->
             IF d = 1 THEN {e \in Active(edges0, types) : edges0[e].source = start}
             ELSE {e \in Active(edges0, types) :
                     \E g \in f[d - 1] : edges0[e].source = edges0[g].target}]
<1>1. ASSUME NEW f PROVE P(f) <=> IsLevels(f, edges0, start, last, types)
  BY DEF IsLevels, LevelOf, Leaving, TargetsOf
<1>2. Levels(edges0, start, last, types) = CHOOSE f : P(f)
  BY DEF Levels
<1> HIDE DEF P
<1>3. \E f : P(f)
  BY <1>1, LevelsExist
<1>4. P(Levels(edges0, start, last, types))
  BY <1>2, <1>3
<1> QED
  BY <1>1, <1>4

\* The visits of the search exist, too.
VisitOf(f, d, table, start, types) ==
  IF d = 0 THEN [found |-> {}, seen |-> {start}, next |-> {start}]
  ELSE [found |-> f[d - 1].found \cup Leaving(table, f[d - 1].next, types),
        seen |-> f[d - 1].seen
                   \cup TargetsOf(table, Leaving(table, f[d - 1].next, types)),
        next |-> TargetsOf(table, Leaving(table, f[d - 1].next, types)) \ f[d - 1].seen]

IsVisits(f, table, start, last, types) ==
  f = [d \in 0 .. last |-> VisitOf(f, d, table, start, types)]

LEMMA VisitsExist ==
  ASSUME NEW edges0, NEW start, NEW types
  PROVE  \A last \in Nat : \E f : IsVisits(f, edges0, start, last, types)
<1> DEFINE K == {n \in Nat : \E f : IsVisits(f, edges0, start, n, types)}
<1>1. 0 \in K
  <2> DEFINE f == [d \in 0 .. 0 |-> [found |-> {}, seen |-> {start}, next |-> {start}]]
  <2>1. IsVisits(f, edges0, start, 0, types)
    BY DEF IsVisits, VisitOf
  <2> QED
    BY <2>1
<1>2. ASSUME NEW n \in K PROVE n + 1 \in K
  <2>1. PICK f : IsVisits(f, edges0, start, n, types)
    OBVIOUS
  <2> DEFINE g == [d \in 0 .. n + 1 |->
                     IF d = n + 1 THEN VisitOf(f, d, edges0, start, types) ELSE f[d]]
  <2>2. ASSUME NEW d \in 0 .. n + 1
        PROVE  g[d] = VisitOf(g, d, edges0, start, types)
    <3>1. d # 0 => g[d - 1] = f[d - 1]
      OBVIOUS
    <3>2. VisitOf(g, d, edges0, start, types) = VisitOf(f, d, edges0, start, types)
      BY <3>1 DEF VisitOf
    <3>3. d # n + 1 => f[d] = VisitOf(f, d, edges0, start, types)
      BY <2>1 DEF IsVisits
    <3> QED
      BY <3>2, <3>3
  <2>3. IsVisits(g, edges0, start, n + 1, types)
    <3>1. g = [d \in 0 .. n + 1 |-> g[d]]
      OBVIOUS
    <3> HIDE DEF g
    <3> QED
      BY <3>1, <2>2 DEF IsVisits
  <2> HIDE DEF g
  <2> QED
    BY <2>3
<1>3. K = Nat
  <2> HIDE DEF K
  <2> QED
    BY <1>1, <1>2, SetInduction, K \in SUBSET Nat DEF K
<1> QED
  BY <1>3

LEMMA VisitsMeaning ==
  ASSUME NEW edges0, NEW start, NEW types, NEW last \in Nat
  PROVE  IsVisits(Visits(edges0, start, last, types), edges0, start, last, types)
<1> DEFINE Targets(found) == {edges0[e].target : e \in found}
           Visit(f, d) ==
             IF d = 0 THEN [found |-> {}, seen |-> {start}, next |-> {start}]
             ELSE LET found == GetEdges(edges0, f[d - 1].next, "outgoing", types)
                  IN [found |-> f[d - 1].found \cup found,
                      seen |-> f[d - 1].seen \cup Targets(found),
                      next |-> Targets(found) \ f[d - 1].seen]
           P(f) == f = [d \in 0 .. last |-> Visit(f, d)]
<1>1. ASSUME NEW f PROVE P(f) <=> IsVisits(f, edges0, start, last, types)
  <2>1. \A ids : GetEdges(edges0, ids, "outgoing", types) = Leaving(edges0, ids, types)
    BY LeavingFacts
  <2>2. \A d : Visit(f, d) = VisitOf(f, d, edges0, start, types)
    BY <2>1 DEF VisitOf, TargetsOf
  <2> HIDE DEF Visit
  <2> QED
    BY <2>2 DEF IsVisits
<1>2. Visits(edges0, start, last, types) = CHOOSE f : P(f)
  BY DEF Visits
<1> HIDE DEF P
<1>3. \E f : P(f)
  BY <1>1, VisitsExist
<1>4. P(Visits(edges0, start, last, types))
  BY <1>2, <1>3
<1> QED
  BY <1>1, <1>4

-----------------------------------------------------------------------------
(* Both find the same table.                                                *)

UpTo(level, n) == UNION {level[d] : d \in 1 .. n}

\* The edges of the first levels are those that leave the start or a target of
\* a level before.
LEMMA LevelsUnion ==
  ASSUME NEW edges0, NEW start, NEW types, NEW last \in Nat, NEW level,
         IsLevels(level, edges0, start, last, types),
         NEW n \in Nat, n < last
  PROVE  UpTo(level, n + 1)
           = Leaving(edges0, {start} \cup TargetsOf(edges0, UpTo(level, n)), types)
<1> DEFINE before == UpTo(level, n)
           all == UpTo(level, n + 1)
<1>1. level[1] = Leaving(edges0, {start}, types)
  BY DEF IsLevels, LevelOf
<1>2. ASSUME NEW d \in 1 .. n
      PROVE  level[d + 1] = Leaving(edges0, TargetsOf(edges0, level[d]), types)
  <2>1. d + 1 \in 1 .. last /\ d + 1 # 1 /\ (d + 1) - 1 = d
    OBVIOUS
  <2>2. level[d + 1] = LevelOf(level, d + 1, edges0, start, types)
    BY <2>1 DEF IsLevels
  <2> QED
    BY <2>1, <2>2 DEF LevelOf
<1>3. ASSUME NEW e \in all
      PROVE  e \in Leaving(edges0, {start} \cup TargetsOf(edges0, before), types)
  <2>1. PICK d \in 1 .. n + 1 : e \in level[d]
    BY DEF UpTo
  <2>2. CASE d = 1
    BY <1>1, <2>1, <2>2, LeavingFacts DEF Leaving
  <2>3. CASE d # 1
    <3>1. d - 1 \in 1 .. n /\ e \in Leaving(edges0, TargetsOf(edges0, level[d - 1]), types)
      BY <1>2, <2>1, <2>3
    <3>2. TargetsOf(edges0, level[d - 1]) \subseteq TargetsOf(edges0, before)
      BY <3>1 DEF TargetsOf, UpTo
    <3> QED
      BY <3>1, <3>2 DEF Leaving
  <2> QED
    BY <2>2, <2>3
<1>4. ASSUME NEW e \in Leaving(edges0, {start} \cup TargetsOf(edges0, before), types)
      PROVE  e \in all
  <2>1. CASE edges0[e].source = start
    <3>1. e \in level[1] /\ 1 \in 1 .. n + 1
      BY <1>1, <1>4, <2>1 DEF Leaving
    <3> QED
      BY <3>1 DEF UpTo
  <2>2. CASE edges0[e].source \in TargetsOf(edges0, before)
    <3>1. PICK g \in before : edges0[e].source = edges0[g].target
      BY <2>2 DEF TargetsOf
    <3>2. PICK d \in 1 .. n : g \in level[d]
      BY DEF UpTo
    <3>3. e \in Leaving(edges0, TargetsOf(edges0, level[d]), types)
      BY <1>4, <3>1, <3>2 DEF Leaving, TargetsOf
    <3>4. e \in level[d + 1] /\ d + 1 \in 1 .. n + 1
      BY <1>2, <3>2, <3>3
    <3> QED
      BY <3>4 DEF UpTo
  <2> QED
    BY <1>4, <2>1, <2>2 DEF Leaving
<1> QED
  BY <1>3, <1>4

\* After d levels the search has found what the recursion has, seen the start
\* and all targets, and has left to visit what completes the edges of the seen.
Agree(visit, level, d, table, start, types) ==
  /\ visit[d].found = UpTo(level, d)
  /\ visit[d].seen = {start} \cup TargetsOf(table, visit[d].found)
  /\ visit[d].found \cup Leaving(table, visit[d].next, types)
       = Leaving(table, visit[d].seen, types)

LEMMA SearchAgrees ==
  ASSUME NEW edges0, NEW start, NEW types, NEW last \in Nat,
         NEW level, IsLevels(level, edges0, start, last, types),
         NEW visit, IsVisits(visit, edges0, start, last, types)
  PROVE  \A d \in 0 .. last : Agree(visit, level, d, edges0, start, types)
<1> DEFINE K == {n \in Nat : n <= last => Agree(visit, level, n, edges0, start, types)}
<1>1. 0 \in K
  <2>1. visit[0] = [found |-> {}, seen |-> {start}, next |-> {start}]
    BY DEF IsVisits, VisitOf
  <2>2. UpTo(level, 0) = {}
    BY DEF UpTo
  <2> QED
    BY <2>1, <2>2 DEF Agree, TargetsOf
<1>2. ASSUME NEW n \in K, n + 1 <= last
      PROVE  Agree(visit, level, n + 1, edges0, start, types)
  <2> DEFINE v == visit[n]
             new == Leaving(edges0, v.next, types)
             w == visit[n + 1]
  <2>1. /\ v.found = UpTo(level, n)
        /\ v.seen = {start} \cup TargetsOf(edges0, v.found)
        /\ v.found \cup new = Leaving(edges0, v.seen, types)
    BY <1>2 DEF Agree
  <2>2. /\ w.found = v.found \cup new
        /\ w.seen = v.seen \cup TargetsOf(edges0, new)
        /\ w.next = TargetsOf(edges0, new) \ v.seen
    <3>1. n + 1 \in 0 .. last /\ n + 1 # 0 /\ (n + 1) - 1 = n
      BY <1>2
    <3>2. w = VisitOf(visit, n + 1, edges0, start, types)
      BY <3>1 DEF IsVisits
    <3> QED
      BY <3>1, <3>2 DEF VisitOf
  <2>3. w.found = UpTo(level, n + 1)
    <3>1. v.found \cup new = w.found /\ n \in Nat /\ n < last
      BY <1>2, <2>2
    <3>2. UpTo(level, n + 1)
            = Leaving(edges0, {start} \cup TargetsOf(edges0, UpTo(level, n)), types)
      BY <3>1, LevelsUnion
    <3> HIDE DEF v, w
    <3> QED
      BY <2>1, <3>1, <3>2
  <2>4. w.seen = {start} \cup TargetsOf(edges0, w.found)
    BY <2>1, <2>2, LeavingFacts
  <2>5. w.found \cup Leaving(edges0, w.next, types) = Leaving(edges0, w.seen, types)
    <3>1. w.seen = v.seen \cup w.next
      BY <2>2
    <3>2. Leaving(edges0, w.seen, types)
            = Leaving(edges0, v.seen, types) \cup Leaving(edges0, w.next, types)
      BY <3>1, LeavingFacts
    <3> QED
      BY <2>1, <2>2, <3>2
  <2> QED
    BY <2>3, <2>4, <2>5 DEF Agree
<1>3. K = Nat
  <2>1. \A n \in K : n + 1 \in K
    BY <1>2
  <2>2. K \in SUBSET Nat
    OBVIOUS
  <2> HIDE DEF K
  <2> QED
    BY <1>1, <2>1, <2>2, SetInduction
<1> QED
  BY <1>3

\* Not marking what was visited costs the recursion nothing but time.
LEMMA WalkFindsAll ==
  ASSUME NEW edges0, NEW start, NEW types, NEW depth \in Nat, depth > 0
  PROVE  Walk(edges0, start, depth, types) = BreadthFirst(edges0, start, depth, types)
<1>1. LastLevel(depth) = depth /\ depth \in 0 .. depth
  BY DEF LastLevel
<1>2. Agree(Visits(edges0, start, depth, types), Levels(edges0, start, depth, types),
            depth, edges0, start, types)
  BY <1>1, LevelsMeaning, VisitsMeaning, SearchAgrees
<1> QED
  BY <1>1, <1>2 DEF Agree, UpTo, Walk, BreadthFirst

WalkStep == call.at = "edges" /\ call'.at = "nodes" /\ call.walk.depth > 0 =>
  LET found == DOMAIN call'.edges
      whole == BreadthFirst(edges, call.walk.start, call.walk.depth, call.walk.types)
  IN /\ found \subseteq whole
     /\ Cardinality(found) = AtMost(call.walk.max, whole)

\* The edges of an answer to traverse, for a depth of 1 or more, are those of a breadth-first search of
\* the graph as it stood at one moment, or as many of them as the limit allows.
THEOREM WalksAreBreadthFirst == Spec => WalkIsBreadthFirst
<1>1. WalkIsBreadthFirst <=> [][WalkStep]_vars
  BY DEF WalkIsBreadthFirst, WalkStep
<1>2. ReadsInv /\ [Next]_vars => [WalkStep]_vars
  <2> SUFFICES ASSUME ReadsInv, [Next]_vars, call.at = "edges", call'.at = "nodes",
                      call.walk.depth > 0
               PROVE  WalkStep
    BY DEF WalkStep
  <2>1. ~Writers /\ ~(UNCHANGED vars)
    BY WritersKeepTables DEF ReadsInv, vars
  <2>2. /\ ~Traverse /\ ~ReadNodes /\ ~SearchWords /\ ~SearchTrigrams
        /\ ~SearchNearest /\ ~SearchBoth /\ ~Return
    BY DEF Traverse, ReadNodes, SearchWords, SearchTrigrams, SearchNearest, SearchBoth,
           Return, Idle
  <2>3. ReadEdges
    BY <2>1, <2>2 DEF Next, Reader
  <2> DEFINE reached == Walk(edges, call.walk.start, call.walk.depth, call.walk.types)
  <2>4. PICK found \in Choices(reached, AtMost(call.walk.max, reached)) :
          call' = [op |-> "traverse", at |-> "nodes", walk |-> call.walk,
                   edges |-> [e \in found |-> edges[e]]]
    BY <2>3 DEF ReadEdges
  <2>5. DOMAIN call'.edges = found
    BY <2>4
  <2>6. call.walk.depth \in Nat
    BY ReadsAssumption DEF ReadsInv, WalkCall
  <2>7. reached = BreadthFirst(edges, call.walk.start, call.walk.depth, call.walk.types)
    BY <2>6, WalkFindsAll
  <2> QED
    BY <2>4, <2>5, <2>7 DEF WalkStep, Choices
<1> QED
  BY <1>1, <1>2, ReadsStart, ReadsStep, PTL DEF Spec

-----------------------------------------------------------------------------
(* The fusion of two lists.                                                 *)

\* What the list of ranks is scaled by, for ranks up to n.
IsScale(f, n) == f = [i \in 0 .. n |-> IF i = 0 THEN 1 ELSE f[i - 1] * (RrfK + i)]

LEMMA ScaleExists == \A n \in Nat : \E f : IsScale(f, n)
<1> DEFINE K == {n \in Nat : \E f : IsScale(f, n)}
<1>1. 0 \in K
  <2> DEFINE f == [i \in 0 .. 0 |-> 1]
  <2>1. IsScale(f, 0)
    BY DEF IsScale
  <2> QED
    BY <2>1
<1>2. ASSUME NEW n \in K PROVE n + 1 \in K
  <2>1. PICK f : IsScale(f, n)
    OBVIOUS
  <2> DEFINE Next1(g, i) == IF i = 0 THEN 1 ELSE g[i - 1] * (RrfK + i)
             h == [i \in 0 .. n + 1 |-> IF i = n + 1 THEN Next1(f, i) ELSE f[i]]
  <2>2. ASSUME NEW i \in 0 .. n + 1
        PROVE  h[i] = Next1(h, i)
    <3>1. i # 0 => h[i - 1] = f[i - 1]
      OBVIOUS
    <3>2. Next1(h, i) = Next1(f, i)
      BY <3>1
    <3>3. i # n + 1 => f[i] = Next1(f, i)
      BY <2>1 DEF IsScale
    <3> QED
      BY <3>2, <3>3
  <2>3. IsScale(h, n + 1)
    <3>1. h = [i \in 0 .. n + 1 |-> h[i]]
      OBVIOUS
    <3>2. h = [i \in 0 .. n + 1 |-> Next1(h, i)]
      <4> HIDE DEF h, Next1
      <4> QED
        BY <3>1, <2>2
    <3> HIDE DEF h
    <3> QED
      BY <3>2 DEF IsScale
  <2> HIDE DEF h
  <2> QED
    BY <2>3
<1>3. K = Nat
  <2> HIDE DEF K
  <2> QED
    BY <1>1, <1>2, SetInduction, K \in SUBSET Nat DEF K
<1> QED
  BY <1>3

LEMMA ScaleMeaning == IsScale(Scale, Cardinality(NodeIds))
<1> DEFINE P(f) == f = [i \in 0 .. Cardinality(NodeIds) |->
                          IF i = 0 THEN 1 ELSE f[i - 1] * (RrfK + i)]
<1>1. Scale = CHOOSE f : P(f)
  BY DEF Scale
<1>2. Cardinality(NodeIds) \in Nat
  BY QueriesAssumption, FS_CardinalityType
<1>3. \E f : P(f)
  BY <1>2, ScaleExists DEF IsScale
<1> HIDE DEF P
<1>4. P(Scale)
  BY <1>1, <1>3
<1> QED
  BY <1>4 DEF P, IsScale

\* The scale of n is a multiple of the denominators of all ranks up to n.
Multiple(x, y) == \E q \in Nat : q > 0 /\ x = q * y

LEMMA MultipleTimes ==
  ASSUME NEW x \in Nat, NEW y \in Nat, NEW z \in Nat, z > 0, Multiple(x, y)
  PROVE  Multiple(x * z, y)
<1>1. PICK q \in Nat : q > 0 /\ x = q * y
  BY DEF Multiple
<1>2. x * z = (q * z) * y
  BY <1>1, SMT
<1>3. q * z \in Nat /\ q * z > 0
  BY <1>1, SMT
<1> QED
  BY <1>2, <1>3 DEF Multiple

LEMMA ScaleDivides ==
  \A n \in 0 .. Cardinality(NodeIds) :
    /\ Scale[n] \in Nat /\ Scale[n] > 0
    /\ \A i \in 1 .. n : Multiple(Scale[n], RrfK + i)
<1> DEFINE N == Cardinality(NodeIds)
           Fits(n) == /\ Scale[n] \in Nat /\ Scale[n] > 0
                      /\ \A i \in 1 .. n : Multiple(Scale[n], RrfK + i)
           K == {n \in Nat : n <= N => Fits(n)}
<1>0. N \in Nat /\ RrfK \in Nat /\ RrfK > 0
  BY QueriesAssumption, FS_CardinalityType
<1>1. 0 \in K
  <2>1. Scale[0] = 1
    BY <1>0, ScaleMeaning DEF IsScale
  <2> QED
    BY <2>1
<1>2. ASSUME NEW n \in K PROVE n + 1 \in K
  <2> SUFFICES ASSUME n + 1 <= N PROVE Fits(n + 1)
    OBVIOUS
  <2>1. Fits(n)
    BY <1>0
  <2>2. Scale[n + 1] = Scale[n] * (RrfK + (n + 1))
    <3>1. n + 1 \in 0 .. N /\ n + 1 # 0 /\ (n + 1) - 1 = n
      BY <1>0
    <3> QED
      BY <3>1, ScaleMeaning DEF IsScale
  <2> DEFINE z == RrfK + (n + 1)
  <2>3. z \in Nat /\ z > 0
    BY <1>0
  <2> HIDE DEF z
  <2>4. Scale[n + 1] = Scale[n] * z
    BY <2>2 DEF z
  <2>5. Scale[n + 1] \in Nat /\ Scale[n + 1] > 0
    BY <2>1, <2>3, <2>4, SMT
  <2>6. ASSUME NEW i \in 1 .. n PROVE Multiple(Scale[n + 1], RrfK + i)
    <3>1. RrfK + i \in Nat /\ Multiple(Scale[n], RrfK + i)
      BY <1>0, <2>1
    <3> QED
      BY <2>1, <2>3, <2>4, <3>1, MultipleTimes
  <2>7. Multiple(Scale[n + 1], z)
    BY <2>1, <2>4 DEF Multiple
  <2> QED
    BY <2>5, <2>6, <2>7 DEF z
<1>3. K = Nat
  <2> HIDE DEF K
  <2> QED
    BY <1>1, <1>2, SetInduction, K \in SUBSET Nat DEF K
<1> QED
  BY <1>0, <1>3

\* Of two divisors the smaller one leaves more.
LEMMA QuotientsFall ==
  ASSUME NEW x \in Nat, NEW y \in Nat, NEW z \in Nat, 0 < y, y < z,
         x > 0, Multiple(x, y), Multiple(x, z)
  PROVE  /\ x \div y \in Nat /\ x \div z \in Nat
         /\ x \div y > x \div z /\ x \div z > 0
<1>1. PICK a \in Nat : a > 0 /\ x = a * y
  BY DEF Multiple
<1>2. PICK b \in Nat : b > 0 /\ x = b * z
  BY DEF Multiple
<1>3. x \div y = a
  BY <1>1, SMT
<1>4. x \div z = b
  BY <1>2, SMT
<1>5. a > b
  <2> SUFFICES ASSUME a <= b PROVE FALSE
    OBVIOUS
  <2>1. a * y <= b * y
    BY SMT
  <2>2. b * y < b * z
    BY <1>2, SMT
  <2> QED
    BY <1>1, <1>2, <2>1, <2>2
<1> QED
  BY <1>2, <1>3, <1>4, <1>5

LEMMA ShareOfRank ==
  ASSUME NEW list, Placed(list), NEW i \in DOMAIN list
  PROVE  Share(list, list[i]) = Scale[Cardinality(NodeIds)] \div (RrfK + i)
<1> DEFINE ranks == {j \in DOMAIN list : list[j] = list[i]}
<1>1. ranks = {i}
  BY DEF Placed
<1>2. (CHOOSE j \in ranks : TRUE) = i /\ ranks # {}
  BY <1>1
<1> HIDE DEF ranks
<1>3. Share(list, list[i]) = IF ranks = {} THEN 0
        ELSE Scale[Cardinality(NodeIds)] \div (RrfK + CHOOSE j \in ranks : TRUE)
  BY DEF Share, ranks
<1> QED
  BY <1>2, <1>3

\* In a list, who stands before another one gets more of a share; and who does
\* not stand there gets none.
LEMMA SharesFall ==
  ASSUME NEW list, Placed(list)
  PROVE  /\ \A n : Share(list, n) \in Nat
         /\ \A n : n \notin Members(list) => Share(list, n) = 0
         /\ \A i, j \in DOMAIN list :
              i < j => Share(list, list[i]) > Share(list, list[j])
<1> DEFINE N == Cardinality(NodeIds)
<1>0. /\ N \in Nat /\ RrfK \in Nat /\ RrfK > 0
      /\ \A i \in DOMAIN list : i \in 1 .. N
  BY QueriesAssumption, FS_CardinalityType DEF Placed
<1>1. /\ Scale[N] \in Nat /\ Scale[N] > 0
      /\ \A i \in DOMAIN list : Multiple(Scale[N], RrfK + i)
  BY <1>0, ScaleDivides
<1>2. ASSUME NEW n, n \notin Members(list) PROVE Share(list, n) = 0
  BY <1>2 DEF Share, Members
<1>3. ASSUME NEW i \in DOMAIN list PROVE Share(list, list[i]) \in Nat
  <2>1. PICK q \in Nat : q > 0 /\ Scale[N] = q * (RrfK + i)
    BY <1>1 DEF Multiple
  <2>2. Scale[N] \div (RrfK + i) = q
    BY <1>0, <2>1, SMT
  <2> QED
    BY <2>2, ShareOfRank
<1>4. ASSUME NEW i \in DOMAIN list, NEW j \in DOMAIN list, i < j
      PROVE  Share(list, list[i]) > Share(list, list[j])
  <2>1. /\ RrfK + i \in Nat /\ RrfK + j \in Nat /\ 0 < RrfK + i /\ RrfK + i < RrfK + j
    BY <1>0, <1>4
  <2>2. Multiple(Scale[N], RrfK + i) /\ Multiple(Scale[N], RrfK + j)
    BY <1>1
  <2>3. Scale[N] \div (RrfK + i) > Scale[N] \div (RrfK + j)
    BY <1>1, <2>1, <2>2, QuotientsFall
  <2> QED
    BY <2>3, ShareOfRank
<1>5. ASSUME NEW n PROVE Share(list, n) \in Nat
  <2>1. CASE n \in Members(list)
    BY <1>0, <1>3, <2>1 DEF Members
  <2>2. CASE n \notin Members(list)
    BY <1>2, <2>2
  <2> QED
    BY <2>1, <2>2
<1> QED
  BY <1>2, <1>4, <1>5

\* A ranking never climbs.
LEMMA RankedFalls ==
  ASSUME NEW set, IsFiniteSet(set), NEW score \in [set -> Int],
         NEW f \in Ranked(set, score)
  PROVE  \A i, j \in 1 .. Cardinality(set) : i <= j => score[f[i]] >= score[f[j]]
<1> DEFINE c == Cardinality(set)
           K == {d \in Nat : \A i \in 1 .. c : i + d <= c => score[f[i]] >= score[f[i + d]]}
<1>0. c \in Nat
  BY FS_CardinalityType
<1>1. /\ f \in [1 .. c -> set]
      /\ \A i \in 1 .. c - 1 : score[f[i]] >= score[f[i + 1]]
  BY DEF Ranked
<1>2. \A i \in 1 .. c : score[f[i]] \in Int
  BY <1>1
<1> HIDE DEF c
<1>3. 0 \in K
  BY <1>0, <1>2
<1>4. ASSUME NEW d \in K PROVE d + 1 \in K
  <2> SUFFICES ASSUME NEW i \in 1 .. c, i + (d + 1) <= c
               PROVE  score[f[i]] >= score[f[i + (d + 1)]]
    OBVIOUS
  <2>1. i + d \in 1 .. c - 1 /\ (i + d) + 1 = i + (d + 1) /\ i + (d + 1) \in 1 .. c
    BY <1>0
  <2>2. score[f[i]] >= score[f[i + d]]
    BY <1>0, <2>1
  <2>3. score[f[i + d]] >= score[f[(i + d) + 1]]
    BY <1>1, <2>1
  <2>4. score[f[i]] \in Int /\ score[f[i + d]] \in Int /\ score[f[i + (d + 1)]] \in Int
    BY <1>0, <1>2, <2>1
  <2> HIDE DEF K
  <2> QED
    BY <2>1, <2>2, <2>3, <2>4
<1>5. K = Nat
  <2> HIDE DEF K
  <2> QED
    BY <1>3, <1>4, SetInduction, K \in SUBSET Nat DEF K
<1>6. ASSUME NEW i \in 1 .. c, NEW j \in 1 .. c, i <= j
      PROVE  score[f[i]] >= score[f[j]]
  <2>1. j - i \in Nat /\ i + (j - i) = j /\ i + (j - i) <= c
    BY <1>0, <1>6
  <2>2. \A d \in Nat : i + d <= c => score[f[i]] >= score[f[i + d]]
    BY <1>5
  <2> QED
    BY <2>1, <2>2
<1> QED
  BY <1>6 DEF c

Ahead(list, n, p) ==
  p \in Members(list) => \E i, j \in DOMAIN list : i < j /\ list[i] = n /\ list[j] = p

\* Who is ahead in both lists has the larger sum of shares, hence the better
\* place, and is before the other one also when the list is cut.
LEMMA FusionOrders ==
  ASSUME NEW vector, Placed(vector), NEW text, Placed(text),
         NEW limit \in Nat, NEW found \in Fuse(vector, text, limit),
         NEW p \in Members(found), NEW n \in (Members(vector) \cup Members(text)) \ {p},
         Ahead(vector, n, p), Ahead(text, n, p)
  PROVE  Ahead(found, n, p)
<1> DEFINE both == Members(vector) \cup Members(text)
           score == [x \in both |-> Share(vector, x) + Share(text, x)]
<1>1. PICK list \in Ranked(both, score) : found = Cut(list, limit)
  BY DEF Fuse
<1>2. both \subseteq NodeIds /\ IsFiniteSet(both)
  BY FS_Subset, QueriesAssumption DEF Placed, Members
<1>3. score \in [both -> Int]
  BY SharesFall
<1> DEFINE c == Cardinality(both)
<1>4. c \in Nat /\ list \in [1 .. c -> both]
  BY <1>1, <1>2, FS_CardinalityType DEF Ranked
<1>5. Len(list) = c /\ list \in Seq(both)
  <2> HIDE DEF c, both, score
  <2> QED
    BY <1>4
<1> DEFINE size == IF limit < c THEN limit ELSE c
<1>6. /\ size \in Nat /\ size <= c
      /\ Len(found) = size /\ DOMAIN found = 1 .. size
      /\ \A i \in 1 .. size : found[i] = list[i]
  <2>1. found = SubSeq(list, 1, size)
    BY <1>1, <1>5 DEF Cut
  <2>2. size \in Nat /\ size <= c
    BY <1>4
  <2> HIDE DEF size
  <2> QED
    BY <1>5, <2>1, <2>2
<1>7. PICK j \in 1 .. size : list[j] = p
  BY <1>6 DEF Members
<1>8. p \in both /\ n \in both
  <2>1. n \in both
    OBVIOUS
  <2>2. j \in 1 .. c
    BY <1>4, <1>6
  <2> HIDE DEF c, both, score, size
  <2> QED
    BY <1>4, <1>7, <2>1, <2>2
<1>9. PICK i \in 1 .. c : list[i] = n
  BY <1>1, <1>4, <1>8 DEF Ranked
<1>10. score[n] > score[p]
  <2>1. ASSUME NEW l, Placed(l), Ahead(l, n, p)
        PROVE  /\ Share(l, n) \in Nat /\ Share(l, p) \in Nat
               /\ Share(l, n) >= Share(l, p)
               /\ p \in Members(l) => Share(l, n) > Share(l, p)
    <3>2. p \in Members(l) => Share(l, n) > Share(l, p)
      BY <2>1, SharesFall DEF Ahead
    <3>3. p \notin Members(l) => Share(l, p) = 0
      BY <2>1, SharesFall
    <3>4. Share(l, n) \in Nat /\ Share(l, p) \in Nat
      BY <2>1, SharesFall
    <3> QED
      BY <3>2, <3>3, <3>4
  <2>2. p \in Members(vector) \/ p \in Members(text)
    BY <1>8
  <2>3. /\ score[n] = Share(vector, n) + Share(text, n)
        /\ score[p] = Share(vector, p) + Share(text, p)
    BY <1>8
  <2> HIDE DEF score, both
  <2> QED
    BY <2>1, <2>2, <2>3
<1>11. i < j
  <2> SUFFICES ASSUME j <= i PROVE FALSE
    BY <1>4, <1>6
  <2>1. j \in 1 .. c
    BY <1>4, <1>6
  <2> HIDE DEF score, both, c
  <2>2. score[list[j]] >= score[list[i]]
    BY <1>1, <1>2, <1>3, <2>1, RankedFalls DEF c
  <2>3. score[n] \in Int /\ score[p] \in Int
    BY <1>3, <1>8
  <2> QED
    BY <1>7, <1>9, <1>10, <2>2, <2>3
<1>12. i \in 1 .. size /\ j \in 1 .. size
  BY <1>4, <1>6, <1>11
<1> HIDE DEF size
<1> QED
  BY <1>6, <1>7, <1>9, <1>11, <1>12 DEF Ahead

\* What a hybrid search has answered are candidates, and their fusion.
HybridCall ==
  call.op = "hybrid" => /\ call.query \in Asked
                        /\ Placed(call.vector) /\ Placed(call.text)
                        /\ call.found \in Fuse(call.vector, call.text, call.query.limit)

LEMMA HybridStays ==
  ASSUME TablesOK, BetweenStatements, HybridCall, [Next]_vars
  PROVE  HybridCall'
<1>1. CASE UNCHANGED vars \/ Writers
  <2>1. call' = call
    BY <1>1, WritersKeepTables DEF vars
  <2> QED
    BY <2>1 DEF HybridCall
<1>2. CASE SearchBoth
  <2>1. PICK query \in Asked :
          \E vector \in VectorCandidates(nodes, edges, query),
             text \in TextCandidates(nodes, edges, query) :
            \E found \in Fuse(vector, text, query.limit) :
              call' = [op |-> "hybrid", at |-> "answered", query |-> query,
                       found |-> found, vector |-> vector, text |-> text]
    BY <1>2 DEF SearchBoth
  <2>2. PICK vector \in VectorCandidates(nodes, edges, query),
             text \in TextCandidates(nodes, edges, query) :
          \E found \in Fuse(vector, text, query.limit) :
            call' = [op |-> "hybrid", at |-> "answered", query |-> query,
                     found |-> found, vector |-> vector, text |-> text]
    BY <2>1
  <2>3. query \in SearchQuery
    BY ReadsAssumption
  <2>4. Placed(vector) /\ Placed(text)
    BY <2>3, CandidatesFound DEF TablesOK
  <2> QED
    BY <2>2, <2>4 DEF HybridCall
<1>3. CASE \/ Traverse \/ ReadEdges \/ ReadNodes \/ SearchWords \/ SearchTrigrams
           \/ SearchNearest \/ Return
  <2>1. Traverse \/ ReadEdges \/ Return => call'.op # "hybrid"
    BY DEF Traverse, ReadEdges, Return, Idle
  <2>2. ReadNodes => call'.op # "hybrid"
    BY DEF ReadNodes
  <2>3. SearchWords \/ SearchNearest => call'.op # "hybrid"
    BY DEF SearchWords, SearchNearest
  <2>4. ASSUME SearchTrigrams PROVE call'.op # "hybrid"
    <3>1. call \in TextCall
      BY <2>4 DEF SearchTrigrams, BetweenStatements
    <3>2. \E rest : call' = [call EXCEPT !.at = "answered", !.found = @ \o rest]
      BY <2>4 DEF SearchTrigrams
    <3> QED
      BY <3>1, <3>2 DEF TextCall
  <2> QED
    BY <1>3, <2>1, <2>2, <2>3, <2>4 DEF HybridCall
<1> QED
  BY <1>1, <1>2, <1>3 DEF Next, Reader

\* A hybrid search never turns around two nodes that both of its lists order
\* in the same way.
THEOREM FusionRespectsLists == Spec => []FusionKeepsOrder
<1>1. Init => HybridCall
  BY DEF Init, Idle, HybridCall
<1>2. ReadsInv /\ HybridCall /\ [Next]_vars => HybridCall'
  BY HybridStays DEF ReadsInv
<1>3. HybridCall => FusionKeepsOrder
  <2> SUFFICES ASSUME HybridCall, call.op = "hybrid", NEW p \in Members(call.found),
                      NEW n \in (Members(call.vector) \cup Members(call.text)) \ {p},
                      Ahead(call.vector, n, p), Ahead(call.text, n, p)
               PROVE  Ahead(call.found, n, p)
    BY DEF FusionKeepsOrder, Ahead
  <2>1. call.query.limit \in Nat
    BY ReadsAssumption DEF HybridCall, SearchQuery
  <2> QED
    BY <2>1, FusionOrders DEF HybridCall
<1> QED
  BY <1>1, <1>2, <1>3, ReadsStart, ReadsStep, PTL DEF Spec
=============================================================================
